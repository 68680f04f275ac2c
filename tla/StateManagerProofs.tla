------------------------- MODULE StateManagerProofs -------------------------
(***************************************************************************)
(* The state manager keeps its screens properly nested and implements the  *)
(* stack of screens, for any set of names and any depth of jumps.          *)
(***************************************************************************)
EXTENDS StateManager, TLAPS

Inv == ManagerTypeOK /\ Registered /\ ProperlyNested

\* Nothing is registered but the known screens, and nothing has begun.
LEMMA InitInv == Init => Inv
<1> SUFFICES ASSUME Init PROVE Inv
  OBVIOUS
<1>1. ManagerTypeOK
  <2>1. stack \in Seq(Name) /\ open \in Seq(Name) /\ jumped \in Nat /\ unmatched \in Nat
    BY DEF Init
  <2>2. run \in [Name -> BOOLEAN]
    BY DEF Init
  <2>3. states \subseteq Name /\ current \in Name \cup {Nothing} /\ started \in BOOLEAN
    BY NameAssumption DEF Init
  <2> QED
    BY <2>1, <2>2, <2>3 DEF ManagerTypeOK
<1>2. Registered
  <2>1. jumped <= Len(stack) /\ 1..jumped = {}
    BY DEF Init
  <2>2. \A n \in Name : run[n]
    BY DEF Init
  <2> QED
    BY <2>1, <2>2 DEF Init, Registered
<1>3. ProperlyNested
  BY DEF Init, ProperlyNested
<1> QED
  BY <1>1, <1>2, <1>3 DEF Inv

\* Assigning to the array one above its live part keeps the live part.
LEMMA PutAbove ==
  ASSUME NEW s \in Seq(Name), NEW d \in Nat, d <= Len(s), NEW n \in Name
  PROVE  /\ Put(s, d + 1, n) \in Seq(Name)
         /\ d + 1 <= Len(Put(s, d + 1, n))
         /\ Put(s, d + 1, n)[d + 1] = n
         /\ \A i \in 1..d : Put(s, d + 1, n)[i] = s[i]
<1> DEFINE len == IF d + 1 > Len(s) THEN d + 1 ELSE Len(s)
<1>1. len \in Nat /\ d + 1 \in 1..len /\ \A k \in 1..len : k # d + 1 => k \in 1..Len(s)
  OBVIOUS
<1>2. Put(s, d + 1, n) = [k \in 1..len |-> IF k = d + 1 THEN n ELSE s[k]]
  BY DEF Put
<1>3. Put(s, d + 1, n) \in Seq(Name) /\ Len(Put(s, d + 1, n)) = len
  <2> HIDE DEF len
  <2>1. \A k \in 1..len : (IF k = d + 1 THEN n ELSE s[k]) \in Name
    BY <1>1
  <2> QED
    BY <1>1, <1>2, <2>1
<1>4. \A i \in 1..d : i \in 1..len /\ i # d + 1
  BY <1>1
<1> HIDE DEF len
<1> QED
  BY <1>1, <1>2, <1>3, <1>4

\* While the application runs, the screen in front is the one that began last.
LEMMA CurrentInFront ==
  ASSUME Inv, started, Run
  PROVE  /\ current \in Name /\ jumped \in Nat
         /\ open = Path /\ open \in Seq(Name) /\ Len(open) = jumped + 1
         /\ InFront(current)
         /\ Closed(current) = [i \in 1..jumped |-> stack[i]]
         /\ Miscounted(current) = 0
<1>1. /\ current \in Name /\ jumped \in Nat /\ open \in Seq(Name) /\ open = Path
      /\ unmatched = 0
  BY DEF Inv, ManagerTypeOK, Registered, ProperlyNested
<1>2. Len(open) = jumped + 1
  BY <1>1 DEF Path
<1>3. open[jumped + 1] = current /\ \A i \in 1..jumped : open[i] = stack[i]
  BY <1>1 DEF Path
<1>4. InFront(current)
  BY <1>1, <1>2, <1>3 DEF InFront
<1>5. Closed(current) = [i \in 1..jumped |-> stack[i]]
  <2>1. Closed(current) = SubSeq(open, 1, jumped)
    BY <1>1, <1>2, <1>4 DEF Closed
  <2>2. SubSeq(open, 1, jumped) = [i \in 1..jumped |-> open[i]]
    BY <1>1, <1>2
  <2> QED
    BY <2>1, <2>2, <1>3
<1> QED
  BY <1>1, <1>2, <1>4, <1>5 DEF Miscounted

\* What the screens may call while the application runs, without a bound on the depth.
Calls ==
  /\ Run
  /\ \/ \E n \in Name : CreateState(n) \/ ChangeState(n)
     \/ started /\ \E n \in Name : JumpToState(n)
     \/ started /\ ExitState

\* The bounded calls are calls.
LEMMA BoundedCalls == ManagerNext => Calls
  BY DEF ManagerNext, Call, Calls

\* Every call keeps the invariant.
LEMMA NextInv == Inv /\ [Calls]_manager => Inv'
<1> SUFFICES ASSUME Inv, [Calls]_manager PROVE Inv'
  OBVIOUS
<1> USE NameAssumption
<1>1. CASE UNCHANGED manager
  BY <1>1 DEF manager, Inv, ManagerTypeOK, Registered, ProperlyNested, Run, Path
<1>2. ASSUME NEW n \in Name, Run, CreateState(n) PROVE Inv'
  BY <1>2 DEF CreateState, Inv, ManagerTypeOK, Registered, ProperlyNested, Run, Path
<1>3. ASSUME NEW n \in Name, Run, ChangeState(n) PROVE Inv'
  <2>1. /\ n \in states /\ current' = n /\ started' = TRUE
        /\ states' = states \cup Registers[n] /\ states' \subseteq Name
        /\ jumped' = jumped /\ stack' = stack /\ run' = run
    BY <1>3 DEF ChangeState, Inv, ManagerTypeOK
  <2>2. open' = Path' /\ unmatched' = 0 /\ open' \in Seq(Name)
    <3>1. CASE started
      <4>1. open' = Append([i \in 1..jumped |-> stack[i]], n) /\ unmatched' = 0
        BY <1>3, <3>1, CurrentInFront DEF ChangeState
      <4>2. [i \in 1..jumped |-> stack[i]] \in Seq(Name)
        BY DEF Inv, ManagerTypeOK, Registered
      <4> QED
        BY <2>1, <4>1, <4>2 DEF Path, Inv, ManagerTypeOK
    <3>2. CASE ~started
      <4>1. open' = <<n>> /\ unmatched' = 0 /\ jumped = 0
        BY <1>3, <3>2 DEF ChangeState, Inv, Registered, ProperlyNested
      <4> QED
        BY <2>1, <4>1 DEF Path
    <3> QED
      BY <3>1, <3>2 DEF Inv, ManagerTypeOK
  <2>3. \A m \in Name : run[m]
    BY <1>3 DEF Run, Inv, Registered
  <2> QED
    BY <2>1, <2>2, <2>3 DEF Inv, ManagerTypeOK, Registered, ProperlyNested
<1>4. ASSUME NEW n \in Name, Run, started, JumpToState(n) PROVE Inv'
  <2> DEFINE s == IF jumped = 0 THEN <<>> ELSE stack
  <2>1. /\ n \in states /\ current' = n /\ started' = TRUE
        /\ states' = states \cup Registers[n] /\ states' \subseteq Name
        /\ jumped' = jumped + 1 /\ stack' = Put(s, jumped + 1, current) /\ run' = run
        /\ open' = Append(open, n) /\ unmatched' = unmatched
    BY <1>4 DEF JumpToState, Inv, ManagerTypeOK
  <2>2. s \in Seq(Name) /\ jumped \in Nat /\ jumped <= Len(s) /\ current \in Name
    BY <1>4, CurrentInFront DEF Inv, ManagerTypeOK, Registered
  <2>3. \A i \in 1..jumped : s[i] = stack[i]
    BY <2>2
  <2> HIDE DEF s
  <2>4. /\ stack' \in Seq(Name) /\ jumped' <= Len(stack') /\ stack'[jumped + 1] = current
        /\ \A i \in 1..jumped : stack'[i] = stack[i]
    <3>1. /\ Put(s, jumped + 1, current) \in Seq(Name)
          /\ jumped + 1 <= Len(Put(s, jumped + 1, current))
          /\ Put(s, jumped + 1, current)[jumped + 1] = current
          /\ \A i \in 1..jumped : Put(s, jumped + 1, current)[i] = s[i]
      BY <2>2, PutAbove
    <3> QED
      BY <2>1, <2>3, <3>1
  <2>5. \A i \in 1..jumped' : stack'[i] \in states'
    BY <1>4, <2>1, <2>2, <2>4 DEF Inv, Registered
  <2>6. open' = Path' /\ open' \in Seq(Name)
    <3>1. /\ Len(open) = jumped + 1 /\ open \in Seq(Name)
          /\ \A i \in 1..(jumped + 1) : open[i] = IF i <= jumped THEN stack[i] ELSE current
      BY <1>4, CurrentInFront DEF Path
    <3>2. /\ open' \in Seq(Name) /\ Len(open') = jumped + 2
          /\ \A i \in 1..(jumped + 2) : open'[i] = IF i <= jumped + 1 THEN stack'[i] ELSE n
      <4>1. /\ open' \in Seq(Name) /\ Len(open') = jumped + 2
            /\ open'[jumped + 2] = n
            /\ \A i \in 1..(jumped + 1) : open'[i] = open[i]
        BY <2>1, <2>2, <3>1
      <4>2. \A i \in 1..jumped : i <= jumped /\ i \in 1..(jumped + 1)
        BY <2>2
      <4>3. \A i \in 1..(jumped + 2) : i \in 1..jumped \/ i = jumped + 1 \/ i = jumped + 2
        BY <2>2
      <4>4. \A i \in 1..jumped : open'[i] = stack'[i]
        BY <2>4, <3>1, <4>1, <4>2
      <4>5. open'[jumped + 1] = stack'[jumped + 1]
        BY <2>2, <2>4, <3>1, <4>1
      <4> QED
        BY <2>2, <4>1, <4>3, <4>4, <4>5
    <3>3. open' = [i \in 1..(jumped + 2) |-> IF i <= jumped + 1 THEN stack'[i] ELSE n]
      BY <3>2, <2>2
    <3> QED
      BY <2>1, <2>2, <3>2, <3>3 DEF Path
  <2>7. \A m \in Name : run[m]
    BY <1>4 DEF Run, Inv, Registered
  <2> QED
    BY <2>1, <2>2, <2>4, <2>5, <2>6, <2>7 DEF Inv, ManagerTypeOK, Registered, ProperlyNested
<1>5. ASSUME Run, started, ExitLast PROVE Inv'
  <2>1. /\ current \in Name /\ unmatched' = 0 /\ open' \in Seq(Name)
        /\ run' = [run EXCEPT ![current] = FALSE]
        /\ UNCHANGED <<states, current, started, jumped, stack>>
    <3>1. [i \in 1..jumped |-> stack[i]] \in Seq(Name)
      BY DEF Inv, ManagerTypeOK, Registered
    <3> QED
      BY <1>5, <3>1, CurrentInFront DEF ExitLast
  <2>2. ~Run' /\ \A m \in Name : ~run'[m] => m = current
    BY <2>1 DEF Run, Inv, Registered, ManagerTypeOK
  <2> QED
    BY <2>1, <2>2, <1>5 DEF Inv, ManagerTypeOK, Registered, ProperlyNested
<1>6. ASSUME Run, started, ExitJumped PROVE Inv'
  <2>1. /\ jumped \in Nat \ {0} /\ jumped' = jumped - 1 /\ jumped' \in Nat
        /\ current' = stack[jumped] /\ stack[jumped] \in states
        /\ UNCHANGED <<states, started, stack, run>>
    BY <1>6 DEF ExitJumped, Inv, ManagerTypeOK, Registered
  <2>2. open' = [i \in 1..jumped |-> stack[i]] /\ unmatched' = 0
    BY <1>6, CurrentInFront DEF ExitJumped
  <2>3. open' \in Seq(Name)
    BY <2>2 DEF Inv, ManagerTypeOK, Registered
  <2>4. open' = Path'
    BY <2>1, <2>2 DEF Path
  <2>5. \A m \in Name : run[m]
    BY <1>6 DEF Run, Inv, Registered
  <2> QED
    BY <1>6, <2>1, <2>2, <2>3, <2>4, <2>5 DEF Inv, ManagerTypeOK, Registered, ProperlyNested
<1> QED
  BY <1>1, <1>2, <1>3, <1>4, <1>5, <1>6 DEF Calls, ExitState

\* The invariant holds in every state of every execution.
LEMMA Invariance == ManagerSpec => []Inv
  BY InitInv, NextInv, BoundedCalls, PTL DEF ManagerSpec

-----------------------------------------------------------------------------
(***************************************************************************)
(* The variables of the state manager (current, jumped, stack, the run     *)
(* flags) keep their types: the depth never goes below zero and the array  *)
(* never holds the empty name.                                             *)
(***************************************************************************)
THEOREM ManagerTypeCorrect == ManagerSpec => []ManagerTypeOK
  BY Invariance, PTL DEF Inv

(***************************************************************************)
(* Whatever the screens call, Begin and Finish nest properly, and the live *)
(* part of the manager's array is that nesting.                            *)
(***************************************************************************)
THEOREM NestingProper == ManagerSpec => []ProperlyNested
  BY Invariance, PTL DEF Inv

\* Every call of ChangeState, JumpToState and ExitState is a step of the stack of screens.
LEMMA StepRefines ==
  Inv /\ Inv' /\ [Calls]_manager => [Screen!Next]_<<open, Run>>
<1> SUFFICES ASSUME Inv, Inv', [Calls]_manager
             PROVE  Screen!Next \/ (open' = open /\ Run' = Run)
  OBVIOUS
<1>1. CASE UNCHANGED manager
  BY <1>1 DEF manager, Run
<1>2. ASSUME NEW n \in Name, CreateState(n) PROVE open' = open /\ Run' = Run
  BY <1>2 DEF CreateState, Run
<1>3. ASSUME NEW n \in Name, Run, ChangeState(n) PROVE Screen!Next
  <2>1. Run' = Run
    <3>1. \A m \in Name : run[m] = TRUE
      BY <1>3, NameAssumption DEF Run, Inv, Registered, ManagerTypeOK
    <3>2. Run' = (n # Nothing => run[n])
      BY <1>3 DEF ChangeState, Run
    <3>3. Run' = TRUE /\ Run = TRUE
      BY <1>3, <3>1, <3>2, NameAssumption DEF Run, Inv, ManagerTypeOK
    <3> QED
      BY <3>3
  <2>2. CASE started
    <3>1. open # <<>> /\ open' = Append(SubSeq(open, 1, Len(open) - 1), n)
      BY <1>3, <2>2, CurrentInFront DEF ChangeState, Closed, InFront
    <3> QED
      BY <2>1, <3>1 DEF Screen!Next, Screen!Replace, Screen!Front
  <2>3. CASE ~started
    <3>1. open = <<>> /\ open' = <<n>>
      BY <1>3, <2>3 DEF ChangeState, Inv, Registered
    <3> QED
      BY <1>3, <2>1, <3>1 DEF Screen!Next, Screen!Enter
  <2> QED
    BY <2>2, <2>3 DEF Inv, ManagerTypeOK
<1>4. ASSUME NEW n \in Name, Run, started, JumpToState(n) PROVE Screen!Next
  <2>1. Run' = TRUE /\ Run = TRUE
    <3>1. \A m \in Name : run[m] = TRUE
      BY <1>4, NameAssumption DEF Run, Inv, Registered, ManagerTypeOK
    <3>2. Run' = (n # Nothing => run[n])
      BY <1>4 DEF JumpToState, Run
    <3> QED
      BY <1>4, <3>1, <3>2, NameAssumption DEF Run, Inv, ManagerTypeOK
  <2>2. open # <<>> /\ open' = Append(open, n)
    BY <1>4, CurrentInFront DEF JumpToState, InFront
  <2> QED
    BY <2>1, <2>2 DEF Screen!Next, Screen!Cover
<1>5. ASSUME Run, started, ExitLast PROVE Screen!Next
  <2>1. Len(open) = 1 /\ open' = <<>>
    BY <1>5, CurrentInFront DEF ExitLast
  <2>2. Run' = FALSE
    BY <1>5, CurrentInFront DEF ExitLast, Run, Inv, ManagerTypeOK
  <2> QED
    BY <2>1, <2>2 DEF Screen!Next, Screen!Quit
<1>6. ASSUME Run, started, ExitJumped PROVE Screen!Next
  <2>1. Len(open) > 1 /\ open' = SubSeq(open, 1, Len(open) - 1)
    BY <1>6, CurrentInFront DEF ExitJumped, Closed
  <2>2. Run' = TRUE /\ Run = TRUE
    <3>1. \A m \in Name : run[m] = TRUE
      BY <1>6, NameAssumption DEF Run, Inv, Registered, ManagerTypeOK
    <3>2. current' \in Name /\ run' = run
      BY <1>6 DEF ExitJumped, Inv, ManagerTypeOK, Registered
    <3> QED
      BY <3>1, <3>2, <1>6, NameAssumption DEF Run, Inv, ManagerTypeOK
  <2> QED
    BY <2>1, <2>2 DEF Screen!Next, Screen!Uncover, Screen!Front
<1> QED
  BY <1>1, <1>2, <1>3, <1>4, <1>5, <1>6 DEF Calls, ExitState

(***************************************************************************)
(* The state manager, with its never truncated array, implements the stack *)
(* of screens: ChangeState replaces the front screen, JumpToState covers   *)
(* it, ExitState uncovers the one below or ends the application.           *)
(***************************************************************************)
THEOREM Refinement == ManagerSpec => ImplementsScreenStack
<1>1. Init => Screen!Init
  BY DEF Init, Screen!Init, Run
<1> QED
  BY <1>1, Invariance, StepRefines, BoundedCalls, PTL DEF ManagerSpec, ImplementsScreenStack, Screen!Spec
=============================================================================
