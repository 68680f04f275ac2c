---------------------------- MODULE ScreenStack ----------------------------
(***************************************************************************)
(* What the state manager promises the screens it runs: their Begin and    *)
(* Finish calls nest like brackets.  The screen in front is the one that   *)
(* began last; changing replaces it, jumping covers it, leaving uncovers   *)
(* the one below, and leaving the last one is the end of the application.  *)
(***************************************************************************)
EXTENDS Naturals, Sequences

CONSTANT Name

VARIABLES
  open,     \* the screens that have begun and not finished, front screen last
  running   \* the application still runs

Front == SubSeq(open, 1, Len(open) - 1)

Init == open = <<>> /\ running = TRUE

Enter(n) == open = <<>> /\ running /\ open' = <<n>> /\ UNCHANGED running

Replace(n) == open # <<>> /\ open' = Append(Front, n) /\ UNCHANGED running

Cover(n) == open # <<>> /\ open' = Append(open, n) /\ UNCHANGED running

Uncover == Len(open) > 1 /\ open' = Front /\ UNCHANGED running

Quit == Len(open) = 1 /\ open' = <<>> /\ running' = FALSE

Next == (\E n \in Name : Enter(n) \/ Replace(n) \/ Cover(n)) \/ Uncover \/ Quit

Spec == Init /\ [][Next]_<<open, running>>
=============================================================================
