----------------------------- MODULE MCConsole -----------------------------
(* Small instances of Console for TLC. *)
EXTENDS Console, TLC

MCLower == "A" :> "a"

Stroke(keys) == [key : keys, value : {0, 1}]

\* Letters, Shift, UP and ENTER: every kind of command can be typed.
CommandInput == Stroke({"A", "ENTER", "LEFTSHIFT", "UP"})

\* Both Shift keys, one of them repeating, a correction and an event that is not a key.
ShiftInput ==
  Stroke({"A", "ENTER", "LEFTSHIFT", "RIGHTSHIFT", "BACKSPACE"})
    \cup {[key |-> "LEFTSHIFT", value |-> 2], [key |-> "SYN", value |-> 0]}

SpaceInput == Stroke({"A", "SPACE", "ENTER"})

UnnamedInput == Stroke({"A", "UNNAMED", "ENTER"})

RunBoth == {<<"a">>, <<"A">>}
RunSmall == {<<"a">>}
RunInstalled == {<<"a">>}
MCRaise == {<<"a", "a">>}
MCReboot == {<<"a", "A">>}
NoLines == {}
=============================================================================
