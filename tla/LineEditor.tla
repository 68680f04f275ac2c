----------------------------- MODULE LineEditor -----------------------------
(***************************************************************************)
(* The line editor of the ljos console: what one iteration of the loop of  *)
(* runconsole (deps/console.lua) does with one keyboard event, as          *)
(* operators on an editor record.  Executing the line is not here: Console *)
(* composes these operators with the process model.                        *)
(***************************************************************************)
EXTENDS Integers, Sequences

CONSTANTS
  Printable,  \* the key names of one character ("A".."Z", "0".."9")
  Lower       \* string.lower on those names

SpecialKeys == {"LEFTSHIFT", "RIGHTSHIFT", "ENTER", "UP", "DOWN", "BACKSPACE",
                "DELETE", "SPACE", "SYN", "UNNAMED"}

ASSUME KeyAssumption ==
  /\ Printable \cap SpecialKeys = {}
  /\ DOMAIN Lower = Printable

(***************************************************************************)
(* key_ascii names a key code.  "SYN" stands for every event that is not a *)
(* key event (type # 1, so ch stays ""), and "UNNAMED" for a key code that *)
(* the table does not name (ch becomes nil).                               *)
(***************************************************************************)
Key == Printable \cup SpecialKeys

ShiftKeys == {"LEFTSHIFT", "RIGHTSHIFT"}

\* value is 0 for a release, 1 for a press and 2 for an autorepeat.
Event == [key : Key, value : 0..2]

\* Case is folded when Shift is up, so a character is a key name or its lower form.
Char == Printable \cup {Lower[k] : k \in Printable}

Editor == [line           : Seq(Char),
           history        : Seq(Seq(Char)),
           history_select : Nat,
           mod_shift      : BOOLEAN]

Fresh == [line |-> <<>>, history |-> <<>>, history_select |-> 0, mod_shift |-> FALSE]

-----------------------------------------------------------------------------

\* Only a release acts on the line; an autorepeat counts as a press.
Released(ev) == ev.value = 0

\* Faulty variant of SetShift: the release branch is missing.
SetShift_NoRelease(ed, ev) == [ed EXCEPT !.mod_shift = @ \/ ~Released(ev)]

\* A single flag for both Shift keys, assigned from the last one that moved.
SetShift(ed, ev) == [ed EXCEPT !.mod_shift = ~Released(ev)]

\* Faulty variant of RecallOlder: the index moves the wrong way.
RecallOlder_Newer(ed) ==
  IF ed.history_select < Len(ed.history)
  THEN [ed EXCEPT !.history_select = @ - 1,
                  !.line = ed.history[1]]
  ELSE ed

\* UP walks towards older entries; nothing ever moves history_select back.
RecallOlder(ed) ==
  IF ed.history_select < Len(ed.history)
  THEN [ed EXCEPT !.history_select = @ + 1,
                  !.line = ed.history[ed.history_select + 1]]
  ELSE ed

delete_char(ed) ==
  IF ed.line # <<>>
  THEN [ed EXCEPT !.line = SubSeq(@, 1, Len(@) - 1)]
  ELSE ed

\* The case is the one of mod_shift at the RELEASE of the key.
Insert(ed, k) ==
  [ed EXCEPT !.line = Append(@, IF ed.mod_shift THEN k ELSE Lower[k])]

\* Faulty variant of Submits: the length of the line is not tested.
Submits_Empty(ed, ev) == ev.key = "ENTER" /\ Released(ev)

\* The line is a command to execute: ENTER released on a line that is not empty.
Submits(ed, ev) == ev.key = "ENTER" /\ Released(ev) /\ ed.line # <<>>

\* #ch on nil: the Lua error that ends runconsole.
Raises(ev) == ev.key = "UNNAMED" /\ Released(ev)

\* Every event that neither executes a line nor raises.
Edit(ed, ev) ==
  CASE ev.key \in ShiftKeys                              -> SetShift(ed, ev)
    [] Released(ev) /\ ev.key = "UP"                     -> RecallOlder(ed)
    [] Released(ev) /\ ev.key \in {"BACKSPACE", "DELETE"} -> delete_char(ed)
    [] Released(ev) /\ ev.key \in Printable              -> Insert(ed, ev.key)
    [] OTHER                                             -> ed

\* cli:parse came back: the line becomes the newest history entry.
Completed(ed) == [ed EXCEPT !.history = <<ed.line>> \o @, !.line = <<>>]
=============================================================================
