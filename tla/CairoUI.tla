------------------------------ MODULE CairoUI ------------------------------
(***************************************************************************)
(* The widgets of cairo_ui that keep state from frame to frame: exploders  *)
(* (a button with a list that grows and shrinks by a tween), the text box  *)
(* with its cursor, and the frame that serves them.  Begin advances the    *)
(* tweens by the time since the last frame, the screen draws and so makes  *)
(* the list of this frame's objects, and Update runs their handlers with   *)
(* the mouse button and the keys that were released.  The text box is the  *)
(* one of project_setup.lua; of the text only the length is kept.          *)
(***************************************************************************)
EXTENDS Integers

CONSTANTS
  Exploder,   \* the names of the exploders
  TweenTime,  \* EXPLODER_TWEEN_TIME in clock ticks
  FlashTime,  \* cursorFlash in clock ticks
  MaxTick,    \* bound: the most ticks between two frames
  MaxKeys,    \* bound: the most keys released between two frames
  MaxLen      \* bound: length of the text

ASSUME WidgetAssumption ==
  /\ TweenTime \in Nat \ {0} /\ FlashTime \in Nat \ {0}
  /\ MaxTick \in Nat \ {0} /\ MaxKeys \in Nat /\ MaxLen \in Nat

VARIABLES
  phase,     \* "idle" between frames, then "mouse" and "keys" in Update
  state,     \* state of each exploder
  move,      \* move of each exploder: "closed", "open", or on its way
  tweens,    \* the running tweens of each exploder
  text,      \* length of projectName
  data,      \* length of the text box's data in this frame
  dlen,      \* what data was when the handler was called
  pos,       \* pos of the text box's cursor
  modified,  \* a key that edits was handled in this frame
  keys,      \* number of keys handled in this frame
  focus,     \* currentCursor is the text box
  flash,     \* state of the text box's cursor and the time left of its tween, 0 for nil
  tie,       \* ghost: the last tweens to end were of both kinds and ended together
  off        \* ghost: the text was replaced, or three keys came in one frame

exploders == <<state, move, tweens, tie>>
box == <<text, data, dlen, pos, modified, keys, off>>
vars == <<phase, exploders, box, focus, flash>>

Goals == {"open", "closed"}
Tween == [goal : Goals, left : 1..TweenTime]

UIInit ==
  /\ phase = "idle"
  /\ state = [e \in Exploder |-> "INITIAL"] /\ move = [e \in Exploder |-> "closed"]
  /\ tweens = [e \in Exploder |-> {}] /\ tie = [e \in Exploder |-> FALSE]
  /\ text = 0 /\ data = 0 /\ dlen = 0 /\ pos = 0
  /\ modified = FALSE /\ keys = 0 /\ off = FALSE
  /\ focus = FALSE /\ flash = [state |-> "none", left |-> 0]

-----------------------------------------------------------------------------
Expired(e, dt) == {t \in tweens[e] : t.left <= dt}

\* Where an exploder may be when all its tweens are eased and then the expired ones
\* finished, in the order of a hash table.
Eased(e, dt) ==
  IF Expired(e, dt) # {} THEN {t.goal : t \in Expired(e, dt)}
  ELSE IF tweens[e] # {} THEN {"moving"}
  ELSE {move[e]}

\* Faulty variant of FlashLeft: TweenDone does not clear the tween.
FlashLeft_Keep(dt) == IF flash.left > dt THEN flash.left - dt ELSE flash.left

\* TweenDone clears the tween of the cursor.
FlashLeft(dt) == IF flash.left > dt THEN flash.left - dt ELSE 0

\* cairo_ui:Begin, and the screen draws: the text box gets the text of this moment.
Begin(dt) ==
  /\ phase = "idle" /\ phase' = "mouse"
  /\ move' \in [Exploder -> Goals \cup {"moving"}]
  /\ \A e \in Exploder : move'[e] \in Eased(e, dt)
  /\ tie' = [e \in Exploder |->
               IF Expired(e, dt) = {} THEN tie[e]
               ELSE \E t, u \in Expired(e, dt) : t.goal # u.goal]
  /\ tweens' = [e \in Exploder |->
                  {[t EXCEPT !.left = @ - dt] : t \in tweens[e] \ Expired(e, dt)}]
  /\ flash' = [flash EXCEPT !.left = FlashLeft(dt)]
  /\ data' = text /\ dlen' = text
  /\ UNCHANGED <<state, text, pos, modified, keys, off, focus>>

-----------------------------------------------------------------------------
\* Faulty variant of Move: an exploder that moves is left alone.
Move_Once(e, s, goal) ==
  /\ state' = [state EXCEPT ![e] = s]
  /\ tweens' = IF tweens[e] # {} THEN tweens
               ELSE [tweens EXCEPT ![e] = {[goal |-> goal, left |-> TweenTime]}]

\* ExploderHandler starts a tween; the one that may be running is not stopped.
Move(e, s, goal) ==
  /\ state' = [state EXCEPT ![e] = s]
  /\ tweens' = [tweens EXCEPT ![e] = @ \cup {[goal |-> goal, left |-> TweenTime]}]

Mouse == phase = "mouse" /\ phase' = "keys"

NoClick ==
  /\ Mouse
  /\ UNCHANGED <<exploders, box, focus, flash>>

\* A click on the button: the state becomes IN or OUT, and the object's callback, in the
\* same call, takes it on.
ClickExploder(e) ==
  /\ Mouse
  /\ IF state[e] = "MOVING_OUT" THEN Move(e, "MOVING_IN", "closed")
                                ELSE Move(e, "MOVING_OUT", "open")
  /\ UNCHANGED <<move, tie, box, focus, flash>>

\* A click in the list, which is drawn unless the exploder is all but closed: ChangeCamera
\* sets the state to IN, and the callback of the exploder comes after those of its list.
ClickItem(e) ==
  /\ Mouse /\ move[e] # "closed"
  /\ Move(e, "MOVING_IN", "closed")
  /\ UNCHANGED <<move, tie, box, focus, flash>>

\* A click in the text box, or in that of another screen.
ClickBox(here) ==
  /\ Mouse /\ focus' = here
  /\ UNCHANGED <<exploders, box, flash>>

\* SelectProject replaces the name; the cursor stays where it is.
SelectProject(l) ==
  /\ Mouse /\ text' = l /\ off' = TRUE
  /\ UNCHANGED <<exploders, data, dlen, pos, modified, keys, focus, flash>>

-----------------------------------------------------------------------------
\* The text box's handler, key by key.  string.sub clips its indices to the text.
Least(i, j) == IF i < j THEN i ELSE j
Most(i, j) == IF i < j THEN j ELSE i

\* It is called if the box has the focus and its cursor was drawn in an earlier frame.
Key ==
  /\ phase = "keys" /\ focus /\ flash.state # "none"
  /\ keys < MaxKeys /\ keys' = keys + 1
  /\ UNCHANGED <<phase, exploders, text, dlen, off, focus, flash>>

\* RETURN, and GRAVE; or a letter with Shift, which is dropped.
KeyOther ==
  /\ Key
  /\ modified' \in {TRUE, modified}
  /\ UNCHANGED <<data, pos>>

\* Faulty variant of KeyRight: the cursor reaches the end of the text.
KeyRight_End ==
  /\ Key /\ modified' = TRUE
  /\ pos' = IF pos < dlen THEN pos + 1 ELSE pos
  /\ UNCHANGED data

KeyRight ==
  /\ Key /\ modified' = TRUE
  /\ pos' = IF pos < dlen - 1 THEN pos + 1 ELSE pos
  /\ UNCHANGED data

\* Faulty variant of KeyLeft: no test for the start of the text.
KeyLeft_Any ==
  /\ Key /\ modified' = TRUE
  /\ pos' = pos - 1
  /\ UNCHANGED data

KeyLeft ==
  /\ Key /\ modified' = TRUE
  /\ pos' = IF pos > 0 THEN pos - 1 ELSE pos
  /\ UNCHANGED data

KeyDelete ==
  /\ Key /\ modified' = TRUE
  /\ data' = IF pos < dlen
             THEN Least(pos, data) + Most(0, Least(data, dlen) - (pos + 1))
             ELSE data
  /\ UNCHANGED pos

KeyBackspace ==
  /\ Key /\ modified' = TRUE
  /\ IF pos > 0 /\ pos <= dlen
     THEN data' = Least(pos - 1, data) + Most(0, data - pos) /\ pos' = pos - 1
     ELSE UNCHANGED <<data, pos>>

\* A character is dropped after a key that edits.  Into an empty text, or one of a single
\* character, it goes in its own way, by the length before the frame's keys.
KeyChar ==
  /\ Key /\ UNCHANGED modified
  /\ IF modified THEN UNCHANGED <<data, pos>>
     ELSE /\ data < MaxLen /\ pos < MaxLen
          /\ data' = IF dlen = 0 THEN 1 ELSE data + 1
          /\ pos' = IF dlen < 2 THEN dlen + 1 ELSE pos + 1

\* RenderCursor makes the cursor when it is first drawn, and turns its tween round when it
\* is over.
RenderCursor ==
  IF focus /\ flash.left = 0
  THEN [state |-> IF flash.state = "INITIAL" THEN "MOVING_OUT" ELSE "INITIAL",
        left |-> FlashTime]
  ELSE flash

\* The cursor is drawn, and a text box that saw keys sets the name.
EndFrame ==
  /\ phase = "keys" /\ phase' = "idle"
  /\ flash' = RenderCursor
  /\ text' = IF keys > 0 THEN data ELSE text
  /\ off' = (pos > text' /\ (off \/ keys > 2))
  /\ data' = 0 /\ dlen' = 0 /\ modified' = FALSE /\ keys' = 0
  /\ UNCHANGED <<exploders, pos, focus>>

-----------------------------------------------------------------------------
Click ==
  \/ NoClick
  \/ \E e \in Exploder : ClickExploder(e) \/ ClickItem(e)
  \/ \E here \in BOOLEAN : ClickBox(here)
  \/ \E l \in 0..MaxLen : SelectProject(l)

Keys ==
  KeyOther \/ KeyRight \/ KeyLeft \/ KeyDelete \/ KeyBackspace \/ KeyChar

UINext == (\E dt \in 1..MaxTick : Begin(dt)) \/ Click \/ Keys \/ EndFrame

\* The application's loop keeps drawing frames.
UISpec == UIInit /\ [][UINext]_vars /\ WF_vars(UINext)

-----------------------------------------------------------------------------
ExploderType ==
  /\ state \in [Exploder -> {"INITIAL", "MOVING_OUT", "MOVING_IN"}]
  /\ move \in [Exploder -> Goals \cup {"moving"}]
  /\ tweens \in [Exploder -> SUBSET Tween]
  /\ tie \in [Exploder -> BOOLEAN]

BoxType ==
  /\ text \in Nat /\ data \in Nat /\ dlen \in Nat /\ pos \in Nat /\ keys \in Nat
  /\ modified \in BOOLEAN /\ off \in BOOLEAN

CursorType ==
  /\ focus \in BOOLEAN
  /\ flash \in [state : {"none", "INITIAL", "MOVING_OUT"}, left : 0..FlashTime]

TypeOK ==
  /\ phase \in {"idle", "mouse", "keys"}
  /\ ExploderType /\ BoxType /\ CursorType

\* Where the last click sent the exploder.
Side(e) == IF state[e] = "MOVING_OUT" THEN "open" ELSE "closed"

\* However often an exploder is turned round while its older tweens still write the same
\* field, it ends where the last click sent it, unless tweens to both ends were over in one
\* frame.
Settled ==
  \A e \in Exploder :
    (tweens[e] = {} /\ ~tie[e]) => move[e] = Side(e)

\* Between frames the cursor is within the text, although the handler works with the length
\* that the text had before the frame's keys: only a text replaced behind its back, or three
\* keys in one frame, take it out.
CursorInText == phase = "idle" => pos <= text \/ off

\* Why: of the tweens of an exploder the one that was started last is the last to end, and
\* it goes where the exploder was sent; a click finds only tweens that have run a while.
LastWins ==
  /\ \A e \in Exploder :
       tweens[e] # {} => \E t \in tweens[e] :
         t.goal = Side(e) /\ \A u \in tweens[e] : u = t \/ u.left < t.left
  /\ phase = "mouse" => \A e \in Exploder : \A t \in tweens[e] : t.left < TweenTime

\* Why: one key makes the text at most one shorter than the handler thinks, and a character
\* is only inserted after keys that did not.
KeyByKey ==
  /\ phase # "keys" => keys = 0 /\ (pos <= text \/ off)
  /\ phase = "mouse" => data = text /\ dlen = text
  /\ phase = "keys" /\ ~off =>
       /\ keys = 0 => data = dlen /\ text = dlen /\ pos <= dlen
       /\ keys = 1 => pos <= data /\ data >= dlen - 1 /\ (modified \/ data >= dlen)
       /\ keys = 2 => pos <= data

\* An exploder that is sent out is open some time, if it is not sent back.
Answered ==
  \A e \in Exploder :
    state[e] = "MOVING_OUT" ~> (move[e] = "open" \/ state[e] # "MOVING_OUT" \/ tie[e])

\* The cursor of a box with the focus keeps flashing.
CursorFlashes ==
  /\ (focus /\ flash.state # "MOVING_OUT") ~> (~focus \/ flash.state = "MOVING_OUT")
  /\ (focus /\ flash.state # "INITIAL") ~> (~focus \/ flash.state = "INITIAL")
=============================================================================
