--------------------------- MODULE ScreensProofs ---------------------------
(***************************************************************************)
(* For any duration of the tweens, any frame times and any number of       *)
(* clicks: the screens of the editor always have a way back, and as long   *)
(* as no panel is closed twice they use the state manager as a stack.      *)
(***************************************************************************)
EXTENDS Screens, StateManagerProofs, FiniteSetTheorems, SequenceTheorems, TLAPS

-----------------------------------------------------------------------------
(***************************************************************************)
(* The tweens.                                                             *)
(***************************************************************************)

\* A set of positions that contains all smaller ones is an interval.
LEMMA DownClosed ==
  ASSUME NEW n \in Nat, NEW S \in SUBSET (1..n), \A x \in S : \A y \in 1..x : y \in S
  PROVE  Cardinality(S) \in 0..n /\ S = 1..Cardinality(S)
<1>1. IsFiniteSet(1..n) /\ Cardinality(1..n) = n
  BY FS_Interval
<1>2. IsFiniteSet(S) /\ Cardinality(S) \in Nat /\ Cardinality(S) <= n
  BY <1>1, FS_Subset, FS_CardinalityType
<1>3. ASSUME NEW x \in S PROVE x \in 1..Cardinality(S)
  <2>1. 1..x \in SUBSET S /\ x \in Nat \ {0}
    OBVIOUS
  <2>2. Cardinality(1..x) = x
    BY <2>1, FS_Interval
  <2>3. Cardinality(1..x) <= Cardinality(S)
    BY <1>2, <2>1, FS_Subset
  <2> QED
    BY <1>2, <2>1, <2>2, <2>3
<1>4. IsFiniteSet(1..Cardinality(S)) /\ Cardinality(1..Cardinality(S)) = Cardinality(S)
  BY <1>2, FS_Interval
<1>5. S \in SUBSET (1..Cardinality(S))
  BY <1>3
<1>6. S = 1..Cardinality(S)
  BY <1>4, <1>5, FS_Subset
<1> QED
  BY <1>2, <1>6

\* A frame takes the expired tweens, the oldest ones, from the front and keeps the others.
LEMMA TweensExpire ==
  ASSUME TypeOK, OldestFirst, NEW dt \in 1..MaxTick, TweenUpdate(dt)
  PROVE  /\ tweens' \in Seq(0..(SlideTime - 1)) /\ due' \in Nat
         /\ Len(tweens') + due' = Len(tweens)
         /\ OldestFirst'
<1> DEFINE len     == Len(tweens)
           aged    == [i \in 1..len |-> tweens[i] + dt]
           over    == {i \in 1..len : aged[i] >= SlideTime}
           expired == Cardinality(over)
<1>1. tweens' = SubSeq(aged, expired + 1, Len(aged)) /\ due' = expired
  BY DEF TweenUpdate
<1>2. /\ len \in Nat /\ dt \in Nat /\ SlideTime \in Nat \ {0}
      /\ \A i \in 1..len : tweens[i] \in 0..(SlideTime - 1)
  BY ScreenAssumption DEF TypeOK
<1>3. aged \in Seq(Nat) /\ Len(aged) = len
  BY <1>2
<1>4. \A i, j \in 1..len : i <= j => aged[j] <= aged[i]
  BY <1>2 DEF OldestFirst
<1>5. expired \in 0..len /\ over = 1..expired
  <2>1. over \in SUBSET (1..len)
    OBVIOUS
  <2>2. \A x \in over : \A y \in 1..x : y \in over
    BY <1>2, <1>3, <1>4
  <2> HIDE DEF over
  <2> QED
    BY <1>2, <2>1, <2>2, DownClosed
<1>6. \A i \in 1..len : i > expired => aged[i] \in 0..(SlideTime - 1)
  <2> SUFFICES ASSUME NEW i \in 1..len, i > expired PROVE aged[i] \in 0..(SlideTime - 1)
    OBVIOUS
  <2>1. i \notin 1..expired
    BY <1>5
  <2>2. i \notin over
    BY <1>5, <2>1
  <2>3. aged[i] \in Nat /\ ~(aged[i] >= SlideTime)
    BY <1>2, <2>2
  <2> QED
    BY <1>2, <2>3
<1> HIDE DEF aged, over, expired
<1>7. /\ Len(tweens') = len - expired
      /\ \A i \in 1..(len - expired) : tweens'[i] = aged[i + expired]
      /\ tweens' \in Seq(Nat)
  BY <1>1, <1>2, <1>3, <1>5
<1>8. \A i \in 1..(len - expired) : i + expired \in 1..len /\ i + expired > expired
  BY <1>2, <1>5
<1>9. tweens' \in Seq(0..(SlideTime - 1))
  <2>1. \A i \in (expired + 1)..Len(aged) : aged[i] \in 0..(SlideTime - 1)
    BY <1>2, <1>3, <1>5, <1>6
  <2>2. expired + 1 \in Int /\ Len(aged) \in Int
    BY <1>2, <1>3, <1>5
  <2>3. SubSeq(aged, expired + 1, Len(aged)) \in Seq(0..(SlideTime - 1))
    BY <2>1, <2>2, SubSeqProperties
  <2> QED
    BY <1>1, <2>3
<1>10. OldestFirst'
  <2> SUFFICES ASSUME NEW i \in 1..Len(tweens'), NEW j \in 1..Len(tweens'), i <= j
               PROVE  tweens'[j] <= tweens'[i]
    BY DEF OldestFirst
  <2>1. i + expired \in 1..len /\ j + expired \in 1..len /\ i + expired <= j + expired
    BY <1>2, <1>5, <1>7, <1>8
  <2> QED
    BY <1>4, <1>7, <2>1
<1> QED
  BY <1>1, <1>2, <1>5, <1>7, <1>9, <1>10

\* A new tween is the youngest.
LEMMA TweenStarts ==
  ASSUME TypeOK, OldestFirst, tweens' = Append(tweens, 0)
  PROVE  /\ tweens' \in Seq(0..(SlideTime - 1)) /\ Len(tweens') = Len(tweens) + 1
         /\ OldestFirst'
<1>1. /\ Len(tweens) \in Nat /\ 0 \in 0..(SlideTime - 1)
      /\ \A i \in 1..Len(tweens) : tweens[i] \in 0..(SlideTime - 1)
  BY ScreenAssumption DEF TypeOK
<1>2. tweens' \in Seq(0..(SlideTime - 1)) /\ Len(tweens') = Len(tweens) + 1
  BY <1>1 DEF TypeOK
<1>3. /\ tweens'[Len(tweens) + 1] = 0
      /\ \A i \in 1..Len(tweens) : tweens'[i] = tweens[i]
  BY <1>1 DEF TypeOK
<1>4. OldestFirst'
  <2> SUFFICES ASSUME NEW i \in 1..Len(tweens'), NEW j \in 1..Len(tweens'), i <= j
               PROVE  tweens'[j] <= tweens'[i]
    BY DEF OldestFirst
  <2>1. CASE j = Len(tweens) + 1
    BY <1>1, <1>2, <1>3, <2>1, ScreenAssumption
  <2>2. CASE j # Len(tweens) + 1
    BY <1>1, <1>2, <1>3, <2>2 DEF OldestFirst
  <2> QED
    BY <2>1, <2>2
<1> QED
  BY <1>2, <1>4

-----------------------------------------------------------------------------
(***************************************************************************)
(* The way back.                                                           *)
(***************************************************************************)

\* A screen is in front, and every screen below it is registered.
Grounded ==
  /\ ManagerTypeOK
  /\ started /\ current # Nothing
  /\ jumped <= Len(stack)
  /\ WayBack

\* What a grounded manager holds, position by position.
LEMMA GroundedPath ==
  ASSUME Grounded
  PROVE  /\ jumped \in Nat /\ current \in Name
         /\ stack[1] = "MainStartup" \/ jumped = 0
         /\ jumped = 0 => current = "MainStartup"
         /\ current \in states /\ \A i \in 1..jumped : stack[i] \in states
         /\ \A i \in 1..jumped : Path[i] = stack[i]
         /\ Path[jumped + 1] = current
<1>1. jumped \in Nat /\ current \in Name
  BY DEF Grounded, ManagerTypeOK
<1>2. /\ \A i \in 1..jumped : Path[i] = stack[i]
      /\ Path[jumped + 1] = current
  BY <1>1 DEF Path
<1>3. Path[1] = "MainStartup" /\ \A i \in 1..(jumped + 1) : Path[i] \in states
  BY DEF Grounded, WayBack
<1>4. 1 \in 1..(jumped + 1) /\ jumped + 1 \in 1..(jumped + 1)
      /\ (jumped # 0 => 1 \in 1..jumped) /\ \A i \in 1..jumped : i \in 1..(jumped + 1)
  BY <1>1
<1>5. \A i \in 1..jumped : stack[i] \in states
  BY <1>2, <1>3, <1>4
<1>6. stack[1] = "MainStartup" \/ jumped = 0
  BY <1>2, <1>3, <1>4
<1>7. jumped = 0 => current = "MainStartup"
  BY <1>2, <1>3
<1> QED
  BY <1>1, <1>2, <1>3, <1>4, <1>5, <1>6, <1>7

\* A jump keeps the path and adds one screen to it.
LEMMA JumpKeeps ==
  ASSUME Grounded, NEW n \in Name, JumpToState(n)
  PROVE  /\ Grounded'
         /\ current' = n /\ jumped' = jumped + 1
         /\ \A i \in 1..(jumped + 1) : Path'[i] = Path[i]
<1> USE NameAssumption
<1> DEFINE s == IF jumped = 0 THEN <<>> ELSE stack
<1>1. /\ n \in states /\ current' = n /\ started' = TRUE
      /\ states' = states \cup Registers[n] /\ states' \subseteq Name
      /\ jumped' = jumped + 1 /\ stack' = Put(s, jumped + 1, current) /\ run' = run
      /\ open' = Append(open, n) /\ unmatched' = unmatched
  BY DEF JumpToState, Grounded, ManagerTypeOK
<1>2. s \in Seq(Name) /\ jumped \in Nat /\ jumped <= Len(s) /\ current \in Name
  BY DEF Grounded, ManagerTypeOK
<1>3. \A i \in 1..jumped : s[i] = stack[i]
  BY <1>2
<1> HIDE DEF s
<1>4. /\ Put(s, jumped + 1, current) \in Seq(Name)
      /\ jumped + 1 <= Len(Put(s, jumped + 1, current))
      /\ Put(s, jumped + 1, current)[jumped + 1] = current
      /\ \A i \in 1..jumped : Put(s, jumped + 1, current)[i] = s[i]
  BY <1>2, PutAbove
<1>5. /\ stack' \in Seq(Name) /\ jumped' <= Len(stack') /\ stack'[jumped + 1] = current
      /\ \A i \in 1..jumped : stack'[i] = stack[i]
  BY <1>1, <1>3, <1>4
<1>6. ManagerTypeOK'
  <2>1. open' \in Seq(Name)
    BY <1>1 DEF Grounded, ManagerTypeOK
  <2> QED
    BY <1>1, <1>2, <1>5, <2>1 DEF Grounded, ManagerTypeOK
<1>7. Path' = [i \in 1..(jumped + 2) |-> IF i <= jumped + 1 THEN stack'[i] ELSE n]
  BY <1>1, <1>2 DEF Path
<1>8. \A i \in 1..(jumped + 1) : Path'[i] = Path[i]
  <2> SUFFICES ASSUME NEW i \in 1..(jumped + 1) PROVE Path'[i] = Path[i]
    OBVIOUS
  <2>1. Path'[i] = stack'[i]
    BY <1>2, <1>7
  <2>2. i \in 1..jumped \/ i = jumped + 1
    BY <1>2
  <2> QED
    BY <2>1, <2>2, <1>5, GroundedPath
<1>9. Path'[jumped + 2] = n
  BY <1>2, <1>7
<1>10. WayBack'
  <2>1. Path'[1] = "MainStartup"
    BY <1>2, <1>8 DEF Grounded, WayBack
  <2>2. ASSUME NEW i \in 1..(jumped' + 1) PROVE Path'[i] \in states'
    <3>1. i \in 1..(jumped + 1) \/ i = jumped + 2
      BY <1>1, <1>2
    <3> QED
      BY <3>1, <1>1, <1>8, <1>9 DEF Grounded, WayBack
  <2> QED
    BY <2>1, <2>2 DEF WayBack
<1> QED
  BY <1>1, <1>5, <1>6, <1>8, <1>10 DEF Grounded

\* What Finish leaves open is a stack of names, and a count is a count.
LEMMA ClosedType ==
  ASSUME ManagerTypeOK, NEW n
  PROVE  Closed(n) \in Seq(Name) /\ Miscounted(n) \in Nat
<1>1. CASE InFront(n)
  <2>1. Len(open) - 1 \in Nat /\ open \in Seq(Name) /\ 1 \in Int
    BY <1>1 DEF InFront, ManagerTypeOK
  <2>2. SubSeq(open, 1, Len(open) - 1) \in Seq(Name)
    BY <2>1, SubSeqProperties
  <2> QED
    BY <1>1, <2>2 DEF Closed, Miscounted, ManagerTypeOK
<1>2. CASE ~InFront(n)
  BY <1>2 DEF Closed, Miscounted, ManagerTypeOK
<1> QED
  BY <1>1, <1>2

\* ExitState returns to a screen of the path, or ends the application on the first.
LEMMA ExitKeeps ==
  ASSUME Grounded, ExitState
  PROVE  /\ Grounded'
         /\ jumped' <= jumped
         /\ \A i \in 1..(jumped' + 1) : Path'[i] = Path[i]
<1>1. CASE ExitLast
  <2>1. /\ open' = Closed(current) /\ unmatched' = Miscounted(current)
        /\ run' = [run EXCEPT ![current] = FALSE]
        /\ UNCHANGED <<states, current, started, jumped, stack>>
    BY <1>1 DEF ExitLast
  <2>2. ManagerTypeOK'
    <3>1. open' \in Seq(Name) /\ unmatched' \in Nat
      BY <2>1, ClosedType DEF Grounded
    <3>2. run' \in [Name -> BOOLEAN]
      BY <2>1 DEF Grounded, ManagerTypeOK
    <3> QED
      BY <2>1, <3>1, <3>2 DEF Grounded, ManagerTypeOK
  <2>3. Path' = Path
    BY <2>1 DEF Path
  <2>4. WayBack'
    BY <2>1, <2>3 DEF Grounded, WayBack
  <2> QED
    BY <2>1, <2>2, <2>3, <2>4, GroundedPath DEF Grounded
<1>2. CASE ExitJumped
  <2>1. /\ jumped \in Nat \ {0} /\ jumped' = jumped - 1 /\ jumped' \in Nat
        /\ current' = stack[jumped] /\ stack[jumped] \in states
        /\ open' = Closed(current) /\ unmatched' = Miscounted(current)
        /\ UNCHANGED <<states, started, stack, run>>
    <3>1. jumped \in Nat /\ jumped > 0 /\ jumped' = jumped - 1
      BY <1>2, GroundedPath DEF ExitJumped
    <3>2. stack[jumped] \in states
      BY <3>1, GroundedPath
    <3> QED
      BY <1>2, <3>1, <3>2 DEF ExitJumped
  <2>2. current' \in Name /\ current' # Nothing
    BY <2>1, NameAssumption DEF Grounded, ManagerTypeOK
  <2>3. ManagerTypeOK'
    <3>1. open' \in Seq(Name) /\ unmatched' \in Nat
      BY <2>1, ClosedType DEF Grounded
    <3> QED
      BY <2>1, <2>2, <3>1 DEF Grounded, ManagerTypeOK
  <2>4. \A i \in 1..(jumped' + 1) : i \in 1..jumped /\ Path'[i] = Path[i]
    <3>1. Path' = [i \in 1..jumped |-> IF i <= jumped - 1 THEN stack[i] ELSE stack[jumped]]
      BY <2>1 DEF Path
    <3>2. \A i \in 1..jumped : Path'[i] = stack[i]
      BY <2>1, <3>1
    <3> QED
      BY <2>1, <3>2, GroundedPath
  <2>5. WayBack'
    <3>1. 1 \in 1..(jumped' + 1) /\ \A i \in 1..jumped : i \in 1..(jumped + 1)
      BY <2>1
    <3> QED
      BY <2>1, <2>4, <3>1 DEF Grounded, WayBack
  <2>6. jumped' <= jumped /\ jumped' <= Len(stack')
    BY <2>1 DEF Grounded, ManagerTypeOK
  <2> QED
    BY <2>1, <2>2, <2>3, <2>4, <2>5, <2>6 DEF Grounded
<1> QED
  BY <1>1, <1>2 DEF ExitState

\* The part of the invariant that is about the manager's own variables.
Managed ==
  /\ ManagerTypeOK
  /\ WayBack
  /\ started <=> current # Nothing
  /\ ~started => jumped = 0
  /\ jumped <= Len(stack)

\* The part that is about the frame.
Framed ==
  /\ phase \in {"idle", "draw", "tween", "input", "raised"}
  /\ frame \in Name \cup {Nothing}
  /\ tweens \in Seq(0..(SlideTime - 1)) /\ due \in Nat
  /\ gExitApp \in BOOLEAN /\ close \in BOOLEAN /\ eager \in BOOLEAN /\ clicks \in 0..MaxClicks
  /\ phase \in {"draw", "tween", "input"} => started /\ frame \in Name
  /\ OldestFirst

\* The two parts are the types, the way back and what they rest on.
LEMMA Parts == Managed /\ Framed <=> TypeOK /\ WayBack /\ Rooted /\ OldestFirst
  BY DEF Managed, Framed, TypeOK, Rooted

\* Once started, the manager is grounded.
LEMMA GroundedIsManaged == Managed /\ started <=> Grounded
  BY DEF Managed, Grounded

\* A step that calls nothing of the manager leaves its part alone.
LEMMA ManagedUnmoved ==
  ASSUME Managed, UNCHANGED manager
  PROVE  Managed' /\ started' = started /\ current' = current
<1>1. Path' = Path
  BY DEF manager, Path
<1>2. WayBack'
  BY <1>1 DEF manager, Managed, WayBack
<1> QED
  BY <1>2 DEF manager, Managed, ManagerTypeOK

\* Every target of a button is a name, and only three screens have such buttons.
LEMMA JumpTargets ==
  ASSUME NEW m \in Name, NEW n \in Jumps[m]
  PROVE  /\ n \in Name
         /\ m \in {"MainStartup", "ProjectSetup", "CfgPlatform"}
  BY ScreenAssumption DEF Jumps, StartupJumps, SetupJumps, PlatformJumps

\* Nothing is in front, and nothing has to be on the way back.
LEMMA StandingInit == ScreensInit => Managed /\ Framed
<1> SUFFICES ASSUME ScreensInit PROVE Managed /\ Framed
  OBVIOUS
<1>1. ManagerTypeOK /\ current = Nothing /\ ~started /\ jumped = 0 /\ stack = <<>>
  BY InitInv DEF ScreensInit, Init, Inv
<1>2. Managed
  BY <1>1 DEF Managed, WayBack
<1>3. tweens = <<>> /\ due = 0 /\ clicks = 0 /\ phase = "idle"
  BY DEF ScreensInit
<1>4. tweens \in Seq(0..(SlideTime - 1)) /\ due \in Nat /\ clicks \in 0..MaxClicks
  BY <1>3, ScreenAssumption
<1>5. OldestFirst
  BY <1>3 DEF OldestFirst
<1>6. Framed
  BY <1>3, <1>4, <1>5 DEF ScreensInit, Framed
<1> QED
  BY <1>2, <1>6

\* Every step of a frame and every click keeps the way back.
LEMMA StandingStep == Managed /\ Framed /\ [ScreensNext]_vars => (Managed /\ Framed)'
<1> SUFFICES ASSUME Managed, Framed, [ScreensNext]_vars PROVE Managed' /\ Framed'
  OBVIOUS
<1>a. TypeOK /\ WayBack /\ Rooted /\ OldestFirst
  BY Parts
<1>b. ASSUME tweens' = tweens PROVE OldestFirst'
  BY <1>a, <1>b DEF OldestFirst
<1>c. ASSUME phase = "input" PROVE Grounded /\ frame \in Name
  BY <1>c, GroundedIsManaged DEF Framed
<1>d. ASSUME phase = "tween" PROVE Grounded /\ frame \in Name
  BY <1>d, GroundedIsManaged DEF Framed
<1>e. ASSUME Click PROVE /\ clicks' \in 0..MaxClicks /\ phase' = "idle" /\ frame' = Nothing
                         /\ phase = "input" /\ Grounded /\ frame \in Name
  BY <1>e, <1>c, ScreenAssumption DEF Click, EndFrame, Framed
<1>f. ASSUME Grounded, ExitState PROVE Managed' /\ started'
  <2>1. Grounded'
    BY <1>f, ExitKeeps
  <2> QED
    BY <2>1 DEF Grounded, Managed
<1>1. CASE UNCHANGED vars
  <2>1. Managed' /\ started' = started
    BY <1>1, ManagedUnmoved DEF vars
  <2> QED
    BY <1>1, <1>b, <2>1 DEF vars, Framed
<1>2. CASE Boot
  <2>1. /\ ~started /\ jumped = 0 /\ jumped \in Nat /\ "MainStartup" \in states
        /\ current' = "MainStartup" /\ started' = TRUE
        /\ open' = Append(open, "MainStartup") /\ unmatched' = unmatched
        /\ states' = states \cup Registers["MainStartup"]
        /\ UNCHANGED <<jumped, stack, run>>
    BY <1>2 DEF Boot, ChangeState, Managed, ManagerTypeOK
  <2>2. "MainStartup" \in Name /\ "MainStartup" # Nothing /\ Registers["MainStartup"] \subseteq Name
    BY <2>1, NameAssumption DEF Managed, ManagerTypeOK
  <2>3. ManagerTypeOK'
    <3>1. open' \in Seq(Name)
      BY <2>1, <2>2 DEF Managed, ManagerTypeOK
    <3> QED
      BY <2>1, <2>2, <3>1 DEF Managed, ManagerTypeOK
  <2>4. Path' = [i \in 1..1 |-> "MainStartup"]
    BY <2>1 DEF Path
  <2>5. WayBack'
    BY <2>1, <2>4 DEF WayBack
  <2>6. Managed'
    BY <2>1, <2>2, <2>3, <2>5 DEF Managed
  <2>7. Framed'
    BY <1>2, <1>b, <2>1 DEF Boot, Framed
  <2> QED
    BY <2>6, <2>7
<1>3. CASE BeginFrame
  <2>1. Managed' /\ started' = started
    BY <1>3, ManagedUnmoved DEF BeginFrame
  <2>2. started /\ frame' = current /\ frame' \in Name /\ phase' = "draw"
    BY <1>3 DEF BeginFrame, Managed, ManagerTypeOK
  <2>3. gExitApp' \in BOOLEAN /\ due' = due /\ close' = close /\ clicks' = clicks /\ eager' = eager
    BY <1>3 DEF BeginFrame, Framed
  <2>4. tweens' \in Seq(0..(SlideTime - 1)) /\ OldestFirst'
    <3>1. CASE tweens' = Append(tweens, 0)
      BY <1>a, <3>1, TweenStarts
    <3>2. CASE tweens' = tweens
      BY <1>b, <3>2 DEF Framed
    <3> QED
      BY <1>3, <3>1, <3>2 DEF BeginFrame
  <2> QED
    BY <2>1, <2>2, <2>3, <2>4 DEF Framed
<1>4. ASSUME NEW dt \in 1..MaxTick, TweenUpdate(dt) PROVE Managed' /\ Framed'
  <2>1. /\ phase = "draw" /\ phase' = "tween"
        /\ UNCHANGED <<manager, frame, gExitApp, close, clicks, eager>>
    BY <1>4 DEF TweenUpdate
  <2>2. Managed' /\ started' = started
    BY <2>1, ManagedUnmoved
  <2>3. tweens' \in Seq(0..(SlideTime - 1)) /\ due' \in Nat /\ OldestFirst'
    BY <1>4, <1>a, TweensExpire
  <2> QED
    BY <2>1, <2>2, <2>3 DEF Framed
<1>5. CASE FinishTween
  <2>1. Managed' /\ started' /\ frame \in Name
    BY <1>5, <1>d, <1>f DEF FinishTween
  <2>2. due' \in Nat
    BY <1>5 DEF FinishTween, Framed
  <2> QED
    BY <1>5, <1>b, <2>1, <2>2 DEF FinishTween, Framed
<1>6. CASE Drawn
  <2>1. Managed' /\ started' = started
    BY <1>6, ManagedUnmoved DEF Drawn
  <2> QED
    BY <1>6, <1>b, <2>1 DEF Drawn, Framed
<1>7. CASE EditorLeaves
  <2>1. Managed' /\ started' /\ frame \in Name
    BY <1>7, <1>d, <1>f DEF EditorLeaves
  <2> QED
    BY <1>7, <1>b, <2>1 DEF EditorLeaves, Framed
<1>8. CASE Raise
  <2>1. Managed' /\ started' = started
    BY <1>8, ManagedUnmoved DEF Raise
  <2> QED
    BY <1>8, <1>b, <2>1 DEF Raise, Framed
<1>9. CASE NoClick
  <2>1. Managed' /\ started' = started
    BY <1>9, ManagedUnmoved DEF NoClick
  <2> QED
    BY <1>9, <1>b, <2>1 DEF NoClick, EndFrame, Framed
<1>10. CASE ClickJump
  <2>1. PICK n \in Jumps[frame] : JumpToState(n) /\ close' = (close /\ n # "MainMenu")
    BY <1>10 DEF ClickJump
  <2>2. n \in Name
    BY <1>10, <1>e, JumpTargets DEF ClickJump
  <2>3. Grounded'
    BY <1>10, <1>e, <2>1, <2>2, JumpKeeps DEF ClickJump
  <2>4. Managed'
    BY <2>3 DEF Grounded, Managed
  <2>5. close' \in BOOLEAN
    BY <2>1
  <2> QED
    BY <1>10, <1>b, <1>e, <2>4, <2>5 DEF ClickJump, Framed
<1>11. CASE ClickExit
  <2>1. Managed'
    BY <1>11, <1>e, <1>f DEF ClickExit
  <2> QED
    BY <1>11, <1>b, <1>e, <2>1 DEF ClickExit, Framed
<1>12. CASE ClickCloseAssets
  <2>1. Managed'
    BY <1>12, ManagedUnmoved DEF ClickCloseAssets
  <2>2. eager' \in BOOLEAN
    BY <1>12 DEF ClickCloseAssets
  <2> QED
    BY <1>12, <1>b, <1>e, <2>1, <2>2 DEF ClickCloseAssets, Framed
<1>13. CASE ClickCloseFolder
  <2>1. Managed'
    BY <1>13, ManagedUnmoved DEF ClickCloseFolder
  <2>2. eager' \in BOOLEAN
    BY <1>13 DEF ClickCloseFolder
  <2>3. tweens' \in Seq(0..(SlideTime - 1)) /\ OldestFirst'
    BY <1>13, <1>a, TweenStarts DEF ClickCloseFolder
  <2> QED
    BY <1>13, <1>e, <2>1, <2>2, <2>3 DEF ClickCloseFolder, Framed
<1>14. CASE ClickCloseEditor
  <2>1. Managed'
    BY <1>14, ManagedUnmoved DEF ClickCloseEditor
  <2> QED
    BY <1>14, <1>b, <1>e, <2>1 DEF ClickCloseEditor, Framed
<1> QED
  BY <1>1, <1>2, <1>3, <1>4, <1>5, <1>6, <1>7, <1>8, <1>9, <1>10, <1>11, <1>12, <1>13, <1>14
  DEF ScreensNext, Frame, User

\* Both parts hold in every state of every execution.
LEMMA Standing == ScreensSpec => [](Managed /\ Framed)
  BY StandingInit, StandingStep, PTL DEF ScreensSpec

-----------------------------------------------------------------------------
(***************************************************************************)
(* One close, one exit.                                                    *)
(***************************************************************************)

\* Each screen covers one that has a button for it.
Linked == started => \A i \in 1..jumped : Path[i + 1] \in Jumps[Path[i]]

\* At most one closing panel, and the frame that runs is that of the screen in front, but
\* for the rest of a frame whose screen leaves while it draws.
OneClosing ==
  /\ Len(tweens) + due <= 1
  /\ tweens # <<>> \/ due > 0 => current \in {"AssetManager", "FolderSelect"}
  /\ due > 0 => phase = "tween"
  /\ phase = "draw" \/ due > 0 => frame = current
  /\ phase = "tween" => frame = current \/ frame \in {"AssetManager", "FolderSelect"}
  /\ phase = "input" =>
       frame = current \/ frame \in {"AssetManager", "FolderSelect", "MainMenu"}
  /\ gExitApp => phase = "idle" /\ current = "AssetManager" /\ tweens = <<>>

Orderly == Inv /\ Run /\ Linked /\ OneClosing

\* What the run checks, in one formula.
LEMMA OrderlyIs ==
  ASSUME ManagerTypeOK
  PROVE  (~eager => Orderly) <=> OneCloseOneExit /\ Undivided
<1>1. Inv <=> Registered /\ ProperlyNested
  BY DEF Inv
<1>2. ProperlyNested => unmatched = 0
  BY DEF ProperlyNested
<1> QED
  BY <1>1, <1>2 DEF OneCloseOneExit, Undivided, Orderly, Linked, OneClosing

\* A panel that was closed twice stays so.
LEMMA EagerStays == ScreensNext /\ eager => eager'
  BY DEF ScreensNext, Frame, User, Boot, BeginFrame, TweenUpdate, FinishTween, Drawn,
         EditorLeaves, Raise, NoClick, ClickJump, ClickExit, ClickCloseAssets,
         ClickCloseFolder, ClickCloseEditor

\* A screen other than the first was jumped to, and leaving it keeps the links.
LEMMA ExitReturns ==
  ASSUME Managed, started, Linked, ExitState, current # "MainStartup"
  PROVE  run' = run /\ Linked'
<1>1. Grounded
  BY GroundedIsManaged
<1>2. jumped \in Nat \ {0}
  BY <1>1, GroundedPath
<1>3. run' = run
  BY <1>2 DEF ExitState, ExitLast, ExitJumped
<1>4. jumped' <= jumped /\ jumped' \in Nat
  BY <1>1, ExitKeeps DEF Grounded, ManagerTypeOK
<1>5. \A i \in 1..(jumped' + 1) : Path'[i] = Path[i]
  BY <1>1, ExitKeeps
<1>6. ASSUME NEW i \in 1..jumped'
      PROVE  i \in 1..jumped /\ i \in 1..(jumped' + 1) /\ i + 1 \in 1..(jumped' + 1)
  <2>1. i \in Nat /\ 1 <= i /\ i <= jumped'
    BY <1>4
  <2>2. i \in 1..jumped
    BY <1>2, <1>4, <2>1
  <2>3. \A d \in Nat : \A k \in 1..d : k \in 1..(d + 1) /\ k + 1 \in 1..(d + 1)
    OBVIOUS
  <2>4. i \in 1..(jumped' + 1) /\ i + 1 \in 1..(jumped' + 1)
    BY <1>4, <2>3
  <2> QED
    BY <2>2, <2>4
<1>7. Linked'
  BY <1>5, <1>6 DEF Linked
<1> QED
  BY <1>3, <1>7

\* A button of the screen in front links the screen it jumps to.
LEMMA JumpLinks ==
  ASSUME Managed, started, Linked, NEW n \in Name, n \in Jumps[current], JumpToState(n)
  PROVE  run' = run /\ Linked'
<1>1. Grounded
  BY GroundedIsManaged
<1>2. /\ jumped \in Nat /\ Path[jumped + 1] = current
      /\ jumped' = jumped + 1 /\ current' = n
      /\ \A i \in 1..(jumped + 1) : Path'[i] = Path[i]
  BY <1>1, JumpKeeps, GroundedPath
<1>3. Path'[jumped + 2] = n
  BY <1>2 DEF Path
<1>4. ASSUME NEW i \in 1..jumped' PROVE Path'[i + 1] \in Jumps[Path'[i]]
  <2>1. CASE i = jumped + 1
    BY <1>2, <1>3, <2>1
  <2>2. CASE i # jumped + 1
    <3>1. i \in 1..jumped /\ i \in 1..(jumped + 1) /\ i + 1 \in 1..(jumped + 1)
      BY <1>2, <2>2
    <3> QED
      BY <1>2, <3>1 DEF Linked
  <2> QED
    BY <2>1, <2>2
<1> QED
  BY <1>4 DEF Linked, JumpToState

\* A step that calls nothing of the manager keeps the links.
LEMMA LinkedUnmoved ==
  ASSUME Linked, UNCHANGED manager
  PROVE  run' = run /\ Linked' /\ current' = current
<1>1. Path' = Path
  BY DEF manager, Path
<1> QED
  BY <1>1 DEF manager, Linked

\* As long as no panel is closed twice, every change of the manager is one of the calls of a
\* running application, and none of them ends it.
LEMMA OrderlyStep ==
  ASSUME Managed, Framed, Orderly, ScreensNext, ~eager'
  PROVE  [Calls]_manager /\ run' = run /\ Linked' /\ OneClosing'
<1> USE ScreenAssumption, NameAssumption
<1>a. /\ Linked /\ Run /\ OneClosing
      /\ Len(tweens) \in Nat /\ due \in Nat /\ tweens \in Seq(0..(SlideTime - 1))
      /\ tweens = <<>> <=> Len(tweens) = 0
  BY DEF Orderly, Framed
<1>b. ASSUME due = 0, current \notin {"AssetManager", "FolderSelect"}
      PROVE  tweens = <<>> /\ ~gExitApp
  BY <1>a, <1>b DEF OneClosing
<1>c. ASSUME phase = "input" PROVE due = 0 /\ ~gExitApp /\ started /\ frame \in Name
  BY <1>a, <1>c DEF OneClosing, Framed
<1>d. ASSUME started, ExitState, current # "MainStartup"
      PROVE  Calls /\ run' = run /\ Linked'
  BY <1>a, <1>d, ExitReturns DEF Calls
<1>1. CASE Boot
  <2>1. /\ ~started /\ jumped = 0 /\ jumped' = 0 /\ run' = run /\ current' = "MainStartup"
        /\ UNCHANGED <<phase, frame, tweens, due, gExitApp, close, clicks, eager>>
    BY <1>1 DEF Boot, ChangeState, Managed
  <2>2. Calls
    BY <1>1, <1>a DEF Boot, Calls
  <2>3. tweens = <<>> /\ due = 0 /\ ~gExitApp /\ phase \notin {"draw", "tween", "input"}
    BY <1>1, <1>a, <2>1 DEF Boot, OneClosing, Framed
  <2>4. Linked'
    BY <2>1 DEF Linked
  <2>5. OneClosing'
    BY <2>1, <2>3 DEF OneClosing
  <2> QED
    BY <2>1, <2>2, <2>4, <2>5
<1>2. CASE BeginFrame
  <2>1. UNCHANGED manager /\ phase' = "draw" /\ frame' = current /\ due' = due /\ phase = "idle"
    BY <1>2 DEF BeginFrame
  <2>2. run' = run /\ Linked' /\ current' = current
    BY <1>a, <2>1, LinkedUnmoved
  <2>3. due = 0
    BY <1>a, <2>1 DEF OneClosing
  <2>4. /\ ~gExitApp' /\ Len(tweens') <= 1
        /\ tweens' # <<>> => current \in {"AssetManager", "FolderSelect"}
    <3>1. CASE current = "AssetManager" /\ gExitApp
      <4>1. tweens = <<>> /\ tweens' = Append(tweens, 0) /\ ~gExitApp'
        BY <1>2, <1>a, <3>1 DEF BeginFrame, OneClosing
      <4> QED
        BY <3>1, <4>1
    <3>2. CASE ~(current = "AssetManager" /\ gExitApp)
      <4>1. tweens' = tweens /\ gExitApp' = gExitApp
        BY <1>2, <3>2 DEF BeginFrame
      <4>2. ~gExitApp
        BY <1>a, <3>2 DEF OneClosing
      <4> QED
        BY <1>a, <2>3, <4>1, <4>2 DEF OneClosing
    <3> QED
      BY <3>1, <3>2
  <2>5. Len(tweens') + due' <= 1
    <3>1. Len(tweens') \in Nat
      BY <1>2, <1>a DEF BeginFrame
    <3> QED
      BY <2>1, <2>3, <2>4, <3>1
  <2>6. OneClosing'
    BY <2>1, <2>2, <2>3, <2>4, <2>5 DEF OneClosing
  <2> QED
    BY <2>1, <2>2, <2>6
<1>3. ASSUME NEW dt \in 1..MaxTick, TweenUpdate(dt)
      PROVE  [Calls]_manager /\ run' = run /\ Linked' /\ OneClosing'
  <2>1. /\ UNCHANGED <<manager, frame, gExitApp, close, clicks, eager>>
        /\ phase = "draw" /\ phase' = "tween"
    BY <1>3 DEF TweenUpdate
  <2>2. run' = run /\ Linked' /\ current' = current
    BY <1>a, <2>1, LinkedUnmoved
  <2>3. TypeOK /\ OldestFirst
    BY Parts
  <2>4. tweens' \in Seq(0..(SlideTime - 1)) /\ due' \in Nat /\ Len(tweens') + due' = Len(tweens)
    BY <1>3, <2>3, TweensExpire
  <2>5. due = 0 /\ ~gExitApp /\ frame = current
    BY <1>a, <2>1 DEF OneClosing
  <2>6. Len(tweens') + due' <= 1
    BY <1>a, <2>4, <2>5 DEF OneClosing
  <2>7. tweens' # <<>> \/ due' > 0 => tweens # <<>>
    BY <1>a, <2>4
  <2>8. OneClosing'
    BY <1>a, <2>1, <2>2, <2>5, <2>6, <2>7 DEF OneClosing
  <2> QED
    BY <2>1, <2>2, <2>8
<1>4. CASE FinishTween
  <2>1. /\ phase = "tween" /\ due > 0 /\ due' = due - 1 /\ ExitState
        /\ UNCHANGED <<phase, frame, tweens, gExitApp, close, clicks, eager>>
    BY <1>4 DEF FinishTween
  <2>2. /\ due = 1 /\ tweens = <<>> /\ ~gExitApp /\ frame = current
        /\ current \in {"AssetManager", "FolderSelect"}
    BY <1>a, <2>1 DEF OneClosing
  <2>3. Calls /\ run' = run /\ Linked'
    BY <1>d, <2>1, <2>2 DEF Framed
  <2>4. due' = 0 /\ tweens' = <<>>
    BY <2>1, <2>2
  <2>5. OneClosing'
    BY <2>1, <2>2, <2>4 DEF OneClosing
  <2> QED
    BY <2>3, <2>5
<1>5. CASE Drawn
  <2>1. /\ phase = "tween" /\ due = 0 /\ phase' = "input"
        /\ UNCHANGED <<manager, frame, tweens, due, gExitApp, close, clicks, eager>>
    BY <1>5 DEF Drawn
  <2>2. run' = run /\ Linked' /\ current' = current
    BY <1>a, <2>1, LinkedUnmoved
  <2>3. OneClosing'
    BY <1>a, <2>1, <2>2 DEF OneClosing
  <2> QED
    BY <2>1, <2>2, <2>3
<1>6. CASE EditorLeaves
  <2>1. /\ phase = "tween" /\ due = 0 /\ phase' = "input" /\ frame = "MainMenu" /\ ExitState
        /\ UNCHANGED <<frame, tweens, due, gExitApp, close, clicks, eager>>
    BY <1>6 DEF EditorLeaves
  <2>2. current = "MainMenu" /\ tweens = <<>> /\ ~gExitApp
    BY <1>a, <1>b, <2>1 DEF OneClosing
  <2>3. Calls /\ run' = run /\ Linked'
    BY <1>d, <2>1, <2>2 DEF Framed
  <2>4. OneClosing'
    BY <2>1, <2>2 DEF OneClosing
  <2> QED
    BY <2>3, <2>4
<1>7. CASE Raise
  <2>1. /\ phase' = "raised" /\ phase \in {"draw", "tween"} /\ (phase = "tween" => due = 0)
        /\ UNCHANGED <<manager, frame, tweens, due, gExitApp, close, clicks, eager>>
    BY <1>7 DEF Raise
  <2>2. run' = run /\ Linked' /\ current' = current
    BY <1>a, <2>1, LinkedUnmoved
  <2>3. due = 0 /\ ~gExitApp
    BY <1>a, <2>1 DEF OneClosing
  <2>4. OneClosing'
    BY <1>a, <2>1, <2>2, <2>3 DEF OneClosing
  <2> QED
    BY <2>1, <2>2, <2>4
<1>8. CASE NoClick
  <2>1. /\ phase = "input" /\ phase' = "idle"
        /\ UNCHANGED <<manager, tweens, due, gExitApp, close, clicks, eager>>
    BY <1>8 DEF NoClick, EndFrame
  <2>2. run' = run /\ Linked' /\ current' = current
    BY <1>a, <2>1, LinkedUnmoved
  <2>3. OneClosing'
    BY <1>a, <1>c, <2>1, <2>2 DEF OneClosing
  <2> QED
    BY <2>1, <2>2, <2>3
<1>9. CASE ClickJump
  <2>1. /\ phase = "input" /\ phase' = "idle" /\ UNCHANGED <<tweens, due, gExitApp, eager>>
    BY <1>9 DEF ClickJump, Click, EndFrame
  <2>2. PICK n \in Jumps[frame] : JumpToState(n)
    BY <1>9 DEF ClickJump
  <2>3. n \in Name /\ frame \in {"MainStartup", "ProjectSetup", "CfgPlatform"}
    BY <1>c, <2>1, JumpTargets
  <2>4. frame = current /\ due = 0 /\ ~gExitApp /\ tweens = <<>> /\ started
    BY <1>a, <1>b, <1>c, <2>1, <2>3 DEF OneClosing
  <2>5. run' = run /\ Linked'
    BY <1>a, <2>2, <2>3, <2>4, JumpLinks
  <2>6. Calls
    BY <1>a, <2>2, <2>3, <2>4 DEF Calls
  <2>7. OneClosing'
    BY <2>1, <2>4 DEF OneClosing
  <2> QED
    BY <2>5, <2>6, <2>7
<1>10. CASE ClickExit
  <2>1. /\ phase = "input" /\ phase' = "idle" /\ ExitState
        /\ frame \in {"ProjectSetup", "CfgPlatform", "AboutPage"}
        /\ UNCHANGED <<tweens, due, gExitApp, close, eager>>
    BY <1>10 DEF ClickExit, Click, EndFrame
  <2>2. frame = current /\ due = 0 /\ ~gExitApp /\ tweens = <<>> /\ started
    BY <1>a, <1>b, <1>c, <2>1 DEF OneClosing
  <2>3. Calls /\ run' = run /\ Linked'
    BY <1>d, <2>1, <2>2
  <2>4. OneClosing'
    BY <2>1, <2>2 DEF OneClosing
  <2> QED
    BY <2>3, <2>4
<1>11. CASE ClickCloseAssets
  <2>1. /\ phase = "input" /\ phase' = "idle" /\ frame = "AssetManager" /\ ~Closing
        /\ UNCHANGED <<manager, tweens, due>>
    BY <1>11 DEF ClickCloseAssets, Click, EndFrame
  <2>2. current = "AssetManager" /\ tweens = <<>> /\ due = 0
    BY <1>c, <2>1 DEF Closing
  <2>3. run' = run /\ Linked' /\ current' = current
    BY <1>a, <2>1, LinkedUnmoved
  <2>4. OneClosing'
    BY <2>1, <2>2, <2>3 DEF OneClosing
  <2> QED
    BY <2>1, <2>3, <2>4
<1>12. CASE ClickCloseFolder
  <2>1. /\ phase = "input" /\ phase' = "idle" /\ frame = "FolderSelect" /\ ~Closing
        /\ tweens' = Append(tweens, 0)
        /\ UNCHANGED <<manager, due, gExitApp>>
    BY <1>12 DEF ClickCloseFolder, Click, EndFrame
  <2>2. current = "FolderSelect" /\ tweens = <<>> /\ due = 0 /\ ~gExitApp
    BY <1>c, <2>1 DEF Closing
  <2>3. run' = run /\ Linked' /\ current' = current
    BY <1>a, <2>1, LinkedUnmoved
  <2>4. Len(tweens') + due' <= 1
    BY <2>1, <2>2
  <2>5. OneClosing'
    BY <2>1, <2>2, <2>3, <2>4 DEF OneClosing
  <2> QED
    BY <2>1, <2>3, <2>5
<1>13. CASE ClickCloseEditor
  <2>1. /\ phase = "input" /\ phase' = "idle"
        /\ UNCHANGED <<manager, tweens, due, gExitApp>>
    BY <1>13 DEF ClickCloseEditor, Click, EndFrame
  <2>2. run' = run /\ Linked' /\ current' = current
    BY <1>a, <2>1, LinkedUnmoved
  <2>3. OneClosing'
    BY <1>a, <1>c, <2>1, <2>2 DEF OneClosing
  <2> QED
    BY <2>1, <2>2, <2>3
<1> QED
  BY <1>1, <1>2, <1>3, <1>4, <1>5, <1>6, <1>7, <1>8, <1>9, <1>10, <1>11, <1>12, <1>13
  DEF ScreensNext, Frame, User

\* Orderly screens stay so until a panel is closed twice, and until then are a stack.
LEMMA OrderKept ==
  /\ Managed /\ Framed /\ (~eager => Orderly) /\ [ScreensNext]_vars => (~eager => Orderly)'
  /\ Managed /\ Framed /\ (~eager => Orderly) /\ [ScreensNext]_vars
       => [eager' \/ Screen!Next]_<<open, Run>>
<1> SUFFICES ASSUME Managed, Framed, ~eager => Orderly, [ScreensNext]_vars
             PROVE  /\ ~eager' => Orderly'
                    /\ [eager' \/ Screen!Next]_<<open, Run>>
  OBVIOUS
<1>1. CASE UNCHANGED vars
  <2>1. open' = open /\ Run' = Run /\ eager' = eager
    BY <1>1 DEF vars, manager, Run
  <2>2. ASSUME ~eager PROVE Orderly'
    <3>1. Inv /\ Run /\ Linked /\ OneClosing /\ UNCHANGED manager
      BY <1>1, <2>2 DEF Orderly, vars
    <3>2. Inv'
      BY <3>1, NextInv
    <3>3. Linked' /\ current' = current
      BY <3>1, LinkedUnmoved
    <3>4. OneClosing'
      BY <1>1, <3>1, <3>3 DEF vars, OneClosing
    <3> QED
      BY <2>1, <3>1, <3>2, <3>3, <3>4 DEF Orderly
  <2> QED
    BY <2>1, <2>2
<1>2. CASE ScreensNext
  <2>1. CASE eager'
    BY <2>1
  <2>2. CASE ~eager'
    <3>1. Orderly
      BY <1>2, <2>2, EagerStays
    <3>2. [Calls]_manager /\ run' = run /\ Linked' /\ OneClosing'
      BY <1>2, <2>2, <3>1, OrderlyStep
    <3>3. Inv /\ Inv'
      BY <3>1, <3>2, NextInv DEF Orderly
    <3>4. Run'
      <4>1. \A m \in Name : run[m]
        BY <3>1, <3>3, NameAssumption DEF Orderly, Inv, Registered, Run
      <4>2. current' \in Name \cup {Nothing}
        BY <3>3 DEF Inv, ManagerTypeOK
      <4> QED
        BY <3>2, <4>1, <4>2 DEF Run
    <3>5. [Screen!Next]_<<open, Run>>
      BY <3>2, <3>3, StepRefines
    <3> QED
      BY <3>2, <3>3, <3>4, <3>5 DEF Orderly
  <2> QED
    BY <2>1, <2>2
<1> QED
  BY <1>1, <1>2

\* No panel is closing at the start.
LEMMA OrderlyInit == ScreensInit => Orderly
<1> SUFFICES ASSUME ScreensInit PROVE Orderly
  OBVIOUS
<1>1. Inv /\ Run /\ Linked
  BY InitInv DEF ScreensInit, Init, Run, Linked
<1>2. tweens = <<>> /\ due = 0 /\ phase = "idle" /\ ~gExitApp
  BY DEF ScreensInit
<1>3. OneClosing
  BY <1>2 DEF OneClosing
<1> QED
  BY <1>1, <1>3 DEF Orderly

\* As long as no panel was closed twice, the screens are orderly.
LEMMA Order == ScreensSpec => [](~eager => Orderly)
  BY OrderlyInit, OrderKept, Standing, PTL DEF ScreensSpec

-----------------------------------------------------------------------------
(***************************************************************************)
(* The variables of the screens keep their types for any sliding time, any *)
(* frame times and any number of clicks: the jump depth and the count of   *)
(* callbacks that are due never go below zero, and a tween that is not due *)
(* is younger than the slide, since the expired ones are the oldest.       *)
(***************************************************************************)
THEOREM ScreensTypeCorrect == ScreensSpec => []TypeOK
  BY Standing, Parts, PTL

(***************************************************************************)
(* However often panels are closed and whatever screen a late callback of  *)
(* tween.update leaves, ExitState finds a registered screen below the one  *)
(* in front, and the lowest is MainStartup.                                *)
(***************************************************************************)
THEOREM ScreensWayBack == ScreensSpec => []WayBack
  BY Standing, Parts, PTL

(***************************************************************************)
(* If no panel is closed again while it is closing, the callback of a      *)
(* sliding tween finds its own panel in front, ExitState returns to the    *)
(* screen whose button opened it, and the application never ends.          *)
(***************************************************************************)
THEOREM ScreensCloseOnce == ScreensSpec => []OneCloseOneExit
<1>1. Managed /\ Framed /\ (~eager => Orderly) => OneCloseOneExit
  BY OrderlyIs DEF Managed
<1> QED
  BY <1>1, Standing, Order, PTL

(***************************************************************************)
(* Until a panel is closed twice, whatever ChangeState, JumpToState and    *)
(* ExitState do for these screens is a step of a stack of screens.         *)
(***************************************************************************)
THEOREM ScreensNested == ScreensSpec => NestedUntilEager
  BY OrderKept, Standing, Order, PTL DEF ScreensSpec, NestedUntilEager
=============================================================================
