--------------------------- MODULE CairoUIProofs ---------------------------
(***************************************************************************)
(* For any set of exploders, any duration of tweens, any time between      *)
(* frames and any number of keys in a frame: an exploder ends where the    *)
(* last click sent it, and two keys in a frame do not take the cursor out  *)
(* of the text.                                                            *)
(***************************************************************************)
EXTENDS CairoUI, TLAPS

Inv == TypeOK /\ LastWins /\ KeyByKey /\ Settled

\* The invariant holds at the start.
LEMMA InitInv == UIInit => Inv
<1> SUFFICES ASSUME UIInit PROVE Inv
  OBVIOUS
<1>1. ExploderType
  BY DEF UIInit, ExploderType, Goals, Tween
<1>2. BoxType
  BY DEF UIInit, BoxType
<1>3. CursorType
  <2>1. focus \in BOOLEAN
    BY Zenon DEF UIInit
  <2>2. flash \in [state : {"none", "INITIAL", "MOVING_OUT"}, left : 0..FlashTime]
    BY WidgetAssumption DEF UIInit
  <2> QED
    BY <2>1, <2>2 DEF CursorType
<1>4. TypeOK
  BY <1>1, <1>2, <1>3 DEF UIInit, TypeOK
<1>5. LastWins /\ Settled
  BY DEF UIInit, LastWins, Settled, Side
<1>6. KeyByKey
  BY DEF UIInit, KeyByKey
<1> QED
  BY <1>4, <1>5, <1>6 DEF Inv

-----------------------------------------------------------------------------
\* A new tween keeps the types of the exploders.
LEMMA MoveType ==
  ASSUME ExploderType, NEW e \in Exploder, NEW s \in {"MOVING_OUT", "MOVING_IN"},
         NEW goal \in Goals, Move(e, s, goal), UNCHANGED <<move, tie>>
  PROVE  ExploderType'
<1>1. [goal |-> goal, left |-> TweenTime] \in Tween
  BY WidgetAssumption DEF Tween
<1>2. tweens' \in [Exploder -> SUBSET Tween]
  BY <1>1 DEF ExploderType, Move
<1> QED
  BY <1>2 DEF ExploderType, Move

\* A frame keeps the types of the tweens.
LEMMA BeginType ==
  ASSUME ExploderType, NEW dt \in 1..MaxTick, Begin(dt)
  PROVE  ExploderType'
<1>1. ASSUME NEW e \in Exploder, NEW t \in tweens[e] \ Expired(e, dt)
      PROVE  [t EXCEPT !.left = @ - dt] \in Tween
  <2>1. t \in Tween /\ ~(t.left <= dt)
    BY DEF ExploderType, Expired
  <2> QED
    BY <2>1, WidgetAssumption DEF Tween
<1>2. tweens' \in [Exploder -> SUBSET Tween]
  BY <1>1 DEF Begin
<1>3. tie' \in [Exploder -> BOOLEAN]
  BY Zenon DEF Begin, ExploderType
<1> QED
  BY <1>2, <1>3 DEF Begin, ExploderType

\* A key keeps the types of the text box.
LEMMA KeysType ==
  ASSUME BoxType, Keys
  PROVE  BoxType'
<1>1. Key
  BY DEF Keys, KeyOther, KeyRight, KeyLeft, KeyDelete, KeyBackspace, KeyChar
<1>2. text' = text /\ dlen' = dlen /\ off' = off /\ keys' \in Nat
  BY <1>1 DEF BoxType, Key
<1>3. modified' \in BOOLEAN
  BY Zenon DEF BoxType, Keys, KeyOther, KeyRight, KeyLeft, KeyDelete, KeyBackspace, KeyChar
<1>4. data' \in Nat /\ pos' \in Nat
  <2> USE DEF BoxType
  <2>1. CASE KeyOther
    BY <2>1 DEF KeyOther
  <2>2. CASE KeyRight
    BY <2>2 DEF KeyRight
  <2>3. CASE KeyLeft
    BY <2>3 DEF KeyLeft
  <2>4. CASE KeyDelete
    BY <2>4 DEF KeyDelete, Least, Most
  <2>5. CASE KeyBackspace
    BY <2>5 DEF KeyBackspace, Least, Most
  <2>6. CASE KeyChar
    BY <2>6 DEF KeyChar
  <2> QED
    BY <2>1, <2>2, <2>3, <2>4, <2>5, <2>6 DEF Keys
<1> QED
  BY <1>2, <1>3, <1>4 DEF BoxType

\* Every step keeps the types.
LEMMA NextType == TypeOK /\ [UINext]_vars => TypeOK'
<1> SUFFICES ASSUME TypeOK, [UINext]_vars PROVE TypeOK'
  OBVIOUS
<1>1. ASSUME NEW dt \in 1..MaxTick, Begin(dt) PROVE TypeOK'
  <2>1. BoxType'
    BY <1>1 DEF TypeOK, Begin, BoxType
  <2>2. FlashLeft(dt) \in 0..FlashTime
    BY WidgetAssumption DEF TypeOK, CursorType, FlashLeft
  <2>3. CursorType'
    BY <1>1, <2>2 DEF TypeOK, Begin, CursorType
  <2> QED
    BY <1>1, <2>1, <2>3, BeginType DEF TypeOK, Begin
<1>2. CASE NoClick
  BY <1>2 DEF TypeOK, NoClick, Mouse, ExploderType, BoxType, CursorType, exploders, box
<1>3. ASSUME NEW e \in Exploder, ClickExploder(e) PROVE TypeOK'
  <2>1. ExploderType'
    BY <1>3, MoveType DEF TypeOK, ClickExploder, Goals
  <2> QED
    BY <1>3, <2>1 DEF TypeOK, ClickExploder, Mouse, BoxType, CursorType, box
<1>4. ASSUME NEW e \in Exploder, ClickItem(e) PROVE TypeOK'
  <2>1. ExploderType'
    BY <1>4, MoveType DEF TypeOK, ClickItem, Goals
  <2> QED
    BY <1>4, <2>1 DEF TypeOK, ClickItem, Mouse, BoxType, CursorType, box
<1>5. ASSUME NEW here \in BOOLEAN, ClickBox(here) PROVE TypeOK'
  BY <1>5 DEF TypeOK, ClickBox, Mouse, ExploderType, BoxType, CursorType, exploders, box
<1>6. ASSUME NEW l \in 0..MaxLen, SelectProject(l) PROVE TypeOK'
  BY <1>6 DEF TypeOK, SelectProject, Mouse, ExploderType, BoxType, CursorType, exploders
<1>7. CASE Keys
  <2>1. Key
    BY <1>7 DEF Keys, KeyOther, KeyRight, KeyLeft, KeyDelete, KeyBackspace, KeyChar
  <2> QED
    BY <1>7, <2>1, KeysType DEF TypeOK, Key, ExploderType, CursorType, exploders
<1>8. CASE EndFrame
  <2>1. off' \in BOOLEAN
    BY <1>8, Zenon DEF EndFrame
  <2>2. BoxType'
    BY <1>8, <2>1 DEF TypeOK, EndFrame, BoxType
  <2>3. CursorType'
    BY <1>8, WidgetAssumption DEF TypeOK, EndFrame, RenderCursor, CursorType
  <2> QED
    BY <1>8, <2>2, <2>3 DEF TypeOK, EndFrame, ExploderType, exploders
<1>9. CASE UNCHANGED vars
  BY <1>9 DEF TypeOK, vars, ExploderType, BoxType, CursorType, exploders, box
<1> QED
  BY <1>1, <1>2, <1>3, <1>4, <1>5, <1>6, <1>7, <1>8, <1>9 DEF UINext, Click

-----------------------------------------------------------------------------
\* A click starts the tween that ends last.
LEMMA MoveLast ==
  ASSUME ExploderType, LastWins, Settled, phase = "mouse", phase' = "keys",
         NEW e \in Exploder, NEW s \in {"MOVING_OUT", "MOVING_IN"}, NEW goal \in Goals,
         goal = (IF s = "MOVING_OUT" THEN "open" ELSE "closed"),
         Move(e, s, goal), UNCHANGED <<move, tie>>
  PROVE  LastWins' /\ Settled'
<1> DEFINE new == [goal |-> goal, left |-> TweenTime]
<1>1. tweens'[e] = tweens[e] \cup {new} /\ Side(e)' = goal
  BY DEF Move, ExploderType, Side
<1>2. \A u \in tweens'[e] : u = new \/ u.left < new.left
  BY <1>1 DEF LastWins
<1>3. ASSUME NEW f \in Exploder, f # e
      PROVE  tweens'[f] = tweens[f] /\ Side(f)' = Side(f)
  BY <1>3 DEF Move, ExploderType, Side
<1>4. \A f \in Exploder :
        tweens'[f] # {} => \E t \in tweens'[f] :
          t.goal = Side(f)' /\ \A u \in tweens'[f] : u = t \/ u.left < t.left
  <2> SUFFICES ASSUME NEW f \in Exploder, tweens'[f] # {}
               PROVE  \E t \in tweens'[f] :
                        t.goal = Side(f)' /\ \A u \in tweens'[f] : u = t \/ u.left < t.left
    OBVIOUS
  <2>1. CASE f = e
    <3>1. new \in tweens'[f] /\ new.goal = Side(f)'
      BY <1>1, <2>1
    <3> QED
      BY <3>1, <1>2, <2>1, Zenon
  <2>2. CASE f # e
    BY <1>3, <2>2 DEF LastWins
  <2> QED
    BY <2>1, <2>2
<1>5. LastWins'
  BY <1>4 DEF LastWins
<1>6. Settled'
  <2> SUFFICES ASSUME NEW f \in Exploder, tweens'[f] = {}, ~tie'[f]
               PROVE  move'[f] = Side(f)'
    BY DEF Settled
  <2>1. f # e
    BY <1>1
  <2> QED
    BY <2>1, <1>3 DEF Settled
<1> QED
  BY <1>5, <1>6

\* When a frame begins, the tween that was started last is still the last, or it is over
\* and the exploder is where it goes.
LEMMA BeginLast ==
  ASSUME ExploderType, LastWins, Settled, NEW dt \in 1..MaxTick, Begin(dt)
  PROVE  LastWins' /\ Settled'
<1> DEFINE aged(t) == [t EXCEPT !.left = @ - dt]
<1>1. ASSUME NEW e \in Exploder
      PROVE  /\ tweens'[e] = {aged(t) : t \in tweens[e] \ Expired(e, dt)}
             /\ Side(e)' = Side(e)
             /\ \A t \in tweens[e] : t \in Tween
  BY DEF Begin, ExploderType, Side
<1>2. ASSUME NEW e \in Exploder, NEW t \in tweens[e] \ Expired(e, dt)
      PROVE  aged(t).goal = t.goal /\ aged(t).left = t.left - dt /\ aged(t).left < TweenTime
  <2>1. t \in Tween
    BY <1>1
  <2> QED
    BY <2>1, WidgetAssumption DEF Tween
<1>3. ASSUME NEW e \in Exploder, NEW t \in tweens[e], t.goal = Side(e),
             \A u \in tweens[e] : u = t \/ u.left < t.left, t \notin Expired(e, dt)
      PROVE  \E n \in tweens'[e] :
               n.goal = Side(e)' /\ \A u \in tweens'[e] : u = n \/ u.left < n.left
  <2>1. aged(t) \in tweens'[e] /\ aged(t).goal = Side(e)'
    BY <1>1, <1>2, <1>3
  <2>2. ASSUME NEW u \in tweens'[e] PROVE u = aged(t) \/ u.left < aged(t).left
    <3>1. PICK v \in tweens[e] \ Expired(e, dt) : u = aged(v)
      BY <1>1
    <3>2. v = t \/ v.left < t.left
      BY <1>3
    <3>3. CASE v.left < t.left
      BY <3>1, <3>3, <1>1, <1>2, <1>3 DEF Tween
    <3> QED
      BY <3>1, <3>2, <3>3
  <2> QED
    BY <2>1, <2>2
<1>4. ASSUME NEW e \in Exploder, NEW t \in tweens[e],
             \A u \in tweens[e] : u = t \/ u.left < t.left, t \in Expired(e, dt)
      PROVE  Expired(e, dt) = tweens[e]
  <2>1. ASSUME NEW u \in tweens[e] PROVE u.left <= dt
    BY <1>1, <1>4 DEF Expired, Tween
  <2> QED
    BY <2>1 DEF Expired
<1>5. LastWins'
  <2>1. ASSUME NEW e \in Exploder, tweens'[e] # {}
        PROVE  \E n \in tweens'[e] :
                 n.goal = Side(e)' /\ \A u \in tweens'[e] : u = n \/ u.left < n.left
    <3>1. tweens[e] # {} /\ tweens[e] # Expired(e, dt)
      BY <1>1, <2>1
    <3>2. PICK t \in tweens[e] : t.goal = Side(e) /\ \A u \in tweens[e] : u = t \/ u.left < t.left
      BY <3>1 DEF LastWins
    <3> QED
      BY <3>1, <3>2, <1>3, <1>4
  <2>2. ASSUME NEW e \in Exploder, NEW n \in tweens'[e] PROVE n.left < TweenTime
    <3>1. PICK t \in tweens[e] \ Expired(e, dt) : n = aged(t)
      BY <1>1
    <3> QED
      BY <3>1, <1>2
  <2> QED
    BY <2>1, <2>2 DEF LastWins
<1>6. Settled'
  <2> SUFFICES ASSUME NEW e \in Exploder, tweens'[e] = {}, ~tie'[e]
               PROVE  move'[e] = Side(e)
    BY <1>1 DEF Settled
  <2>1. ASSUME NEW t \in tweens[e] PROVE t \in Expired(e, dt)
    <3> HIDE DEF aged
    <3>1. {aged(u) : u \in tweens[e] \ Expired(e, dt)} = {}
      BY <1>1
    <3>2. ASSUME t \notin Expired(e, dt) PROVE FALSE
      <4>1. aged(t) \in {aged(u) : u \in tweens[e] \ Expired(e, dt)}
        BY <3>2, Zenon
      <4> QED
        BY <3>1, <4>1, Zenon
    <3> QED
      BY <3>2
  <2>2. CASE tweens[e] = {}
    <3>1. Expired(e, dt) = {}
      BY <2>2 DEF Expired
    <3>2. tie'[e] = tie[e] /\ move'[e] = move[e]
      BY <2>2, <3>1 DEF Begin, Eased
    <3> QED
      BY <2>2, <3>2 DEF Settled
  <2>3. CASE tweens[e] # {}
    <3>1. PICK t \in tweens[e] : t.goal = Side(e)
      BY <2>3 DEF LastWins
    <3>2. t \in Expired(e, dt)
      BY <2>1
    <3>3. \A u, v \in Expired(e, dt) : u.goal = v.goal
      BY <3>2, Zenon DEF Begin
    <3>4. PICK u \in Expired(e, dt) : move'[e] = u.goal
      BY <3>2 DEF Begin, Eased
    <3> QED
      BY <3>1, <3>2, <3>3, <3>4
  <2> QED
    BY <2>2, <2>3
<1> QED
  BY <1>5, <1>6

\* The other steps leave the exploders alone and do not begin a frame.
LEMMA RestLast ==
  ASSUME LastWins, Settled, UNCHANGED exploders, phase' = "mouse" => phase = "mouse"
  PROVE  LastWins' /\ Settled'
  BY DEF LastWins, Settled, Side, exploders

\* Every step keeps what is known of the exploders.
LEMMA NextLast == TypeOK /\ LastWins /\ Settled /\ [UINext]_vars => LastWins' /\ Settled'
<1> SUFFICES ASSUME TypeOK, LastWins, Settled, [UINext]_vars PROVE LastWins' /\ Settled'
  OBVIOUS
<1>1. ASSUME NEW dt \in 1..MaxTick, Begin(dt) PROVE LastWins' /\ Settled'
  BY <1>1, BeginLast DEF TypeOK
<1>2. CASE NoClick
  BY <1>2, RestLast DEF NoClick, Mouse
<1>3. ASSUME NEW e \in Exploder, ClickExploder(e) PROVE LastWins' /\ Settled'
  BY <1>3, MoveLast DEF TypeOK, ClickExploder, Mouse, Goals
<1>4. ASSUME NEW e \in Exploder, ClickItem(e) PROVE LastWins' /\ Settled'
  BY <1>4, MoveLast DEF TypeOK, ClickItem, Mouse, Goals
<1>5. ASSUME NEW here \in BOOLEAN, ClickBox(here) PROVE LastWins' /\ Settled'
  BY <1>5, RestLast DEF ClickBox, Mouse
<1>6. ASSUME NEW l \in 0..MaxLen, SelectProject(l) PROVE LastWins' /\ Settled'
  BY <1>6, RestLast DEF SelectProject, Mouse
<1>7. CASE Keys
  BY <1>7, RestLast DEF Keys, Key, KeyOther, KeyRight, KeyLeft, KeyDelete, KeyBackspace,
    KeyChar
<1>8. CASE EndFrame
  BY <1>8, RestLast DEF EndFrame
<1>9. CASE UNCHANGED vars
  BY <1>9, RestLast DEF vars
<1> QED
  BY <1>1, <1>2, <1>3, <1>4, <1>5, <1>6, <1>7, <1>8, <1>9 DEF UINext, Click

-----------------------------------------------------------------------------
\* One key more: the length and the cursor stay within what the handler may assume.
LEMMA KeyStep ==
  ASSUME BoxType, KeyByKey, Keys
  PROVE  KeyByKey'
<1>1. Key /\ phase = "keys" /\ phase' = "keys" /\ keys' = keys + 1 /\ off' = off /\ dlen' = dlen
  BY DEF Keys, Key, KeyOther, KeyRight, KeyLeft, KeyDelete, KeyBackspace, KeyChar
<1>2. CASE off
  BY <1>1, <1>2 DEF KeyByKey
<1>3. CASE ~off
  <2>1. ASSUME keys = 0
        PROVE  pos' <= data' /\ data' >= dlen - 1 /\ (modified' \/ data' >= dlen)
    <3>1. data = dlen /\ pos <= dlen
      BY <1>1, <1>3, <2>1 DEF KeyByKey
    <3> USE DEF BoxType
    <3>2. CASE KeyOther
      BY <3>1, <3>2 DEF KeyOther
    <3>3. CASE KeyRight
      BY <3>1, <3>3 DEF KeyRight
    <3>4. CASE KeyLeft
      BY <3>1, <3>4 DEF KeyLeft
    <3>5. CASE KeyDelete
      BY <3>1, <3>5 DEF KeyDelete, Least, Most
    <3>6. CASE KeyBackspace
      BY <3>1, <3>6 DEF KeyBackspace, Least, Most
    <3>7. CASE KeyChar
      BY <3>1, <3>7 DEF KeyChar
    <3> QED
      BY <3>2, <3>3, <3>4, <3>5, <3>6, <3>7 DEF Keys
  <2>2. ASSUME keys = 1 PROVE pos' <= data'
    <3>1. pos <= data /\ data >= dlen - 1 /\ (modified \/ data >= dlen)
      BY <1>1, <1>3, <2>2 DEF KeyByKey
    <3> USE DEF BoxType
    <3>2. CASE KeyOther
      BY <3>1, <3>2 DEF KeyOther
    <3>3. CASE KeyRight
      BY <3>1, <3>3 DEF KeyRight
    <3>4. CASE KeyLeft
      BY <3>1, <3>4 DEF KeyLeft
    <3>5. CASE KeyDelete
      BY <3>1, <3>5 DEF KeyDelete, Least, Most
    <3>6. CASE KeyBackspace
      BY <3>1, <3>6 DEF KeyBackspace, Least, Most
    <3>7. CASE KeyChar
      BY <3>1, <3>7 DEF KeyChar
    <3> QED
      BY <3>2, <3>3, <3>4, <3>5, <3>6, <3>7 DEF Keys
  <2>3. keys \in Nat
    BY DEF BoxType
  <2> QED
    BY <1>1, <1>3, <2>1, <2>2, <2>3 DEF KeyByKey
<1> QED
  BY <1>2, <1>3

\* Every step keeps what is known of the text box.
LEMMA NextKey == TypeOK /\ KeyByKey /\ [UINext]_vars => KeyByKey'
<1> SUFFICES ASSUME TypeOK, KeyByKey, [UINext]_vars PROVE KeyByKey'
  OBVIOUS
<1>1. ASSUME NEW dt \in 1..MaxTick, Begin(dt) PROVE KeyByKey'
  BY <1>1 DEF Begin, KeyByKey
<1>2. ASSUME Mouse, UNCHANGED box PROVE KeyByKey'
  BY <1>2 DEF Mouse, KeyByKey, box
<1>3. ASSUME NEW l \in 0..MaxLen, SelectProject(l) PROVE KeyByKey'
  BY <1>3 DEF SelectProject, Mouse, KeyByKey
<1>4. CASE Keys
  BY <1>4, KeyStep DEF TypeOK
<1>5. CASE EndFrame
  <2>1. phase = "keys" /\ phase' = "idle" /\ keys' = 0 /\ pos' = pos
    BY <1>5 DEF EndFrame
  <2>2. pos <= text' \/ off'
    <3>1. CASE off \/ keys > 2
      <4>1. pos \in Nat /\ text' \in Nat
        BY <1>5 DEF TypeOK, BoxType, EndFrame
      <4>2. pos <= text' \/ pos > text'
        BY <4>1
      <4> QED
        BY <1>5, <3>1, <4>2, Zenon DEF EndFrame
    <3>2. CASE ~off /\ ~(keys > 2)
      <4>1. keys \in {0, 1, 2}
        BY <3>2 DEF TypeOK, BoxType
      <4>2. pos <= IF keys > 0 THEN data ELSE text
        BY <2>1, <3>2, <4>1 DEF KeyByKey
      <4> QED
        BY <1>5, <4>2 DEF EndFrame
    <3> QED
      BY <3>1, <3>2
  <2> QED
    BY <2>1, <2>2 DEF KeyByKey
<1>6. CASE UNCHANGED vars
  BY <1>6 DEF vars, box, KeyByKey
<1> QED
  BY <1>1, <1>2, <1>3, <1>4, <1>5, <1>6 DEF UINext, Click, NoClick, ClickExploder, ClickItem,
    ClickBox

-----------------------------------------------------------------------------
\* Inv is an invariant.
THEOREM Invariance == UISpec => []Inv
<1>1. Inv /\ [UINext]_vars => Inv'
  BY NextType, NextLast, NextKey DEF Inv
<1> QED
  BY InitInv, <1>1, PTL DEF UISpec

\* The state of the widgets keeps its types: the states OUT and IN of an exploder do not
\* outlive the handler's call, and the cursor is never before the text.
THEOREM TypeCorrect == UISpec => []TypeOK
<1>1. Inv => TypeOK
  BY DEF Inv
<1> QED
  BY <1>1, Invariance, PTL

\* An exploder ends where the last click sent it, for any durations and any clicks, unless
\* tweens to both ends were over in one frame.
THEOREM ExplodersSettle == UISpec => []Settled
<1>1. Inv => Settled
  BY DEF Inv
<1> QED
  BY <1>1, Invariance, PTL

\* Two keys in a frame never take the cursor out of the text.
THEOREM CursorStays == UISpec => []CursorInText
<1>1. Inv => CursorInText
  BY DEF Inv, KeyByKey, CursorInText
<1> QED
  BY <1>1, Invariance, PTL
=============================================================================
