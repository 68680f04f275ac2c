--------------------------- MODULE StateManager ---------------------------
(***************************************************************************)
(* The state manager of the editor (scripts/states/statemanager.lua).  A   *)
(* screen is registered under a name, entered by ChangeState or            *)
(* JumpToState and left by ExitState.  The manager keeps the name in       *)
(* front, a jump depth and an array of the names jumped from that is       *)
(* cleared by the first jump only.  The ghost variables open and unmatched *)
(* record the Begin and Finish calls that the screens receive.             *)
(***************************************************************************)
EXTENDS Integers, Sequences

CONSTANTS
  Name,       \* the names screens are registered under
  Nothing,    \* the empty name, current before the first ChangeState
  Registers,  \* the screens that a screen's Begin registers
  Known,      \* the screens the application registers at the start
  MaxDepth    \* bound: the deepest jump

ASSUME NameAssumption ==
  /\ Nothing \notin Name
  /\ Registers \in [Name -> SUBSET Name]
  /\ Known \subseteq Name
  /\ MaxDepth \in Nat

VARIABLES
  states,    \* the registered names
  current,   \* the name in front, Nothing before the first
  started,   \* start # nil: ChangeState has been called
  jumped,    \* jump depth
  stack,     \* names jumped from; entries above jumped are stale
  run,       \* the run flag of every screen
  open,      \* ghost: screens whose Begin has not been matched by a Finish
  unmatched  \* ghost: Finish calls on a screen that did not begin last

manager == <<states, current, started, jumped, stack, run, open, unmatched>>

Init ==
  /\ states = Known
  /\ current = Nothing /\ started = FALSE
  /\ jumped = 0 /\ stack = <<>>
  /\ run = [n \in Name |-> TRUE]
  /\ open = <<>> /\ unmatched = 0

-----------------------------------------------------------------------------
\* stack[i] = n on a Lua array.
Put(s, i, n) ==
  [k \in 1..(IF i > Len(s) THEN i ELSE Len(s)) |-> IF k = i THEN n ELSE s[k]]

InFront(n) == open # <<>> /\ open[Len(open)] = n

\* What is open after Finish on n: a Finish that does not match closes nothing.
Closed(n) == IF InFront(n) THEN SubSeq(open, 1, Len(open) - 1) ELSE open

Miscounted(n) == IF InFront(n) THEN unmatched ELSE unmatched + 1

Run == current # Nothing => run[current]

CreateState(n) ==
  /\ states' = states \cup {n}
  /\ UNCHANGED <<current, started, jumped, stack, run, open, unmatched>>

\* Faulty variant of ChangeState: the screen in front is not finished.
ChangeState_NoFinish(n) ==
  /\ n \in states
  /\ current' = n /\ started' = TRUE
  /\ open' = Append(open, n)
  /\ states' = states \cup Registers[n]
  /\ UNCHANGED <<jumped, stack, run, unmatched>>

\* An unknown name has no effect.  The first call finishes nothing.
ChangeState(n) ==
  /\ n \in states
  /\ current' = n /\ started' = TRUE
  /\ open' = Append(IF started THEN Closed(current) ELSE open, n)
  /\ unmatched' = IF started THEN Miscounted(current) ELSE unmatched
  /\ states' = states \cup Registers[n]
  /\ UNCHANGED <<jumped, stack, run>>

\* Faulty variant of JumpToState: the array is cleared by every jump.
JumpToState_Clear(n) ==
  /\ n \in states
  /\ jumped' = jumped + 1
  /\ stack' = [k \in 1..(jumped + 1) |-> current]
  /\ current' = n
  /\ open' = Append(open, n)
  /\ states' = states \cup Registers[n]
  /\ UNCHANGED <<started, run, unmatched>>

\* The screen in front is covered, not finished.
JumpToState(n) ==
  /\ n \in states
  /\ jumped' = jumped + 1
  /\ stack' = Put(IF jumped = 0 THEN <<>> ELSE stack, jumped + 1, current)
  /\ current' = n
  /\ open' = Append(open, n)
  /\ states' = states \cup Registers[n]
  /\ UNCHANGED <<started, run, unmatched>>

\* ExitState on a screen that was not jumped to ends the application.
ExitLast ==
  /\ jumped = 0 /\ current # Nothing
  /\ run' = [run EXCEPT ![current] = FALSE]
  /\ open' = Closed(current) /\ unmatched' = Miscounted(current)
  /\ UNCHANGED <<states, current, started, jumped, stack>>

\* Faulty variant of ExitJumped: the depth is not tested.
ExitJumped_AnyDepth ==
  /\ open' = Closed(current) /\ unmatched' = Miscounted(current)
  /\ current' = IF jumped \in DOMAIN stack /\ stack[jumped] \in states
                THEN stack[jumped] ELSE current
  /\ jumped' = jumped - 1
  /\ UNCHANGED <<states, started, stack, run>>

\* ExitState on a screen that was jumped to; the array keeps the entry.
ExitJumped ==
  /\ jumped > 0
  /\ open' = Closed(current) /\ unmatched' = Miscounted(current)
  /\ current' = IF stack[jumped] \in states THEN stack[jumped] ELSE current
  /\ jumped' = jumped - 1
  /\ UNCHANGED <<states, started, stack, run>>

ExitState == ExitLast \/ ExitJumped

-----------------------------------------------------------------------------
(***************************************************************************)
(* The callers are the screens themselves, so there is none before the     *)
(* application's first ChangeState, and the application's loop stops       *)
(* calling Update once Run() is false.                                     *)
(***************************************************************************)
Call ==
  \/ \E n \in Name : CreateState(n) \/ ChangeState(n)
  \/ started /\ jumped < MaxDepth /\ \E n \in Name : JumpToState(n)
  \/ started /\ ExitState

ManagerNext == Run /\ Call

ManagerSpec == Init /\ [][ManagerNext]_manager

-----------------------------------------------------------------------------
ManagerTypeOK ==
  /\ states \subseteq Name
  /\ current \in Name \cup {Nothing}
  /\ started \in BOOLEAN
  /\ jumped \in Nat
  /\ stack \in Seq(Name)
  /\ run \in [Name -> BOOLEAN]
  /\ open \in Seq(Name)
  /\ unmatched \in Nat

\* The names from the bottom of the array to the one in front.
Path == [i \in 1..(jumped + 1) |-> IF i <= jumped THEN stack[i] ELSE current]

(***************************************************************************)
(* ExitState always comes back to a screen that has begun and has not      *)
(* finished: while the application runs, the live part of the array plus   *)
(* current is exactly the nesting of the Begin calls, whatever mix of      *)
(* changes and jumps led there and whatever stale entries the array holds, *)
(* and no screen is ever finished twice or out of turn.                    *)
(***************************************************************************)
ProperlyNested ==
  /\ unmatched = 0
  /\ started /\ Run => open = Path

(***************************************************************************)
(* Why: nothing is in front before the first ChangeState, the live part of *)
(* the array holds registered names, which never become unknown, and only  *)
(* the screen in front can have been told to stop.                         *)
(***************************************************************************)
Registered ==
  /\ ~started => current = Nothing /\ open = <<>> /\ jumped = 0
  /\ started => current \in states
  /\ jumped <= Len(stack) /\ \A i \in 1..jumped : stack[i] \in states
  /\ \A n \in Name : ~run[n] => n = current

(***************************************************************************)
(* The Begin and Finish calls are those of a stack of screens              *)
(* (ScreenStack): the manager's array, depth and name in front implement   *)
(* it, and the application ends exactly when the last screen is left.      *)
(***************************************************************************)
Screen == INSTANCE ScreenStack WITH running <- Run

ImplementsScreenStack == Screen!Spec
=============================================================================
