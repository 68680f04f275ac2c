--------------------------- MODULE ConsoleProofs ---------------------------
(***************************************************************************)
(* What TLAPS proves of Console for every process table, every keyboard    *)
(* and every set of commands.                                              *)
(***************************************************************************)
EXTENDS Console, FiniteSetTheorems, SequenceTheorems, TLAPS

-----------------------------------------------------------------------------
(***************************************************************************)
(* Lemmas about the operators of the line editor and of the registry.      *)
(***************************************************************************)

\* A keyboard event leaves the locals of runconsole well typed.
LEMMA EditType ==
  ASSUME NEW e \in Editor, NEW ev \in Event
  PROVE  Edit(e, ev) \in Editor
<1>1. SetShift(e, ev) \in Editor
  BY DEF SetShift, Editor, Event, Released
<1>2. RecallOlder(e) \in Editor
  <2>1. CASE e.history_select < Len(e.history)
    <3>1. e.history_select + 1 \in 1..Len(e.history)
      BY <2>1 DEF Editor
    <3>2. e.history[e.history_select + 1] \in Seq(Char)
      BY <3>1 DEF Editor
    <3>3. RecallOlder(e) = [line           |-> e.history[e.history_select + 1],
                            history        |-> e.history,
                            history_select |-> e.history_select + 1,
                            mod_shift      |-> e.mod_shift]
      BY <2>1 DEF RecallOlder, Editor
    <3> QED BY <3>2, <3>3 DEF Editor
  <2>2. CASE ~(e.history_select < Len(e.history))
    BY <2>2 DEF RecallOlder
  <2> QED BY <2>1, <2>2
<1>3. delete_char(e) \in Editor
  <2>1. CASE e.line = <<>>
    BY <2>1 DEF delete_char
  <2>2. CASE e.line # <<>>
    <3>1. e.line \in Seq(Char) /\ Len(e.line) \in Nat /\ Len(e.line) # 0
      BY <2>2, EmptySeq DEF Editor
    <3>2. SubSeq(e.line, 1, Len(e.line) - 1) \in Seq(Char)
      BY <3>1, SubSeqProperties
    <3> QED BY <2>2, <3>2 DEF delete_char, Editor
  <2> QED BY <2>1, <2>2
<1>4. ASSUME ev.key \in Printable PROVE Insert(e, ev.key) \in Editor
  <2>1. (IF e.mod_shift THEN ev.key ELSE Lower[ev.key]) \in Char
    BY <1>4 DEF Char
  <2>2. Append(e.line, IF e.mod_shift THEN ev.key ELSE Lower[ev.key]) \in Seq(Char)
    BY <2>1 DEF Editor
  <2> QED BY <2>2 DEF Insert, Editor
<1> QED BY <1>1, <1>2, <1>3, <1>4 DEF Edit

\* Storing the line in the history keeps the locals well typed.
LEMMA CompletedType ==
  ASSUME NEW e \in Editor
  PROVE  Completed(e) \in Editor
<1> DEFINE h == <<e.line>> \o e.history
<1>1. h \in Seq(Seq(Char))
  BY DEF Editor
<1>2. Completed(e) = [e EXCEPT !.history = h, !.line = <<>>]
  BY DEF Completed
<1> HIDE DEF h
<1>3. Completed(e) = [line           |-> <<>>,
                      history        |-> h,
                      history_select |-> e.history_select,
                      mod_shift      |-> e.mod_shift]
  BY <1>2 DEF Editor
<1>4. <<>> \in Seq(Char)
  OBVIOUS
<1> QED BY <1>1, <1>3, <1>4 DEF Editor

\* A process without Lua memory is well typed.
LEMMA FreshType == Fresh \in Editor /\ NoProcesses \in Registry
BY DEF Fresh, Editor, NoProcesses, Registry

\* process_new and process_end keep the registry well typed.
LEMMA RegistryType ==
  ASSUME NEW r \in Registry
  PROVE  process_end(process_new(r), r.ids + 1) \in Registry
<1> DEFINE n == process_new(r)
<1>1. n = [ids |-> r.ids + 1, active |-> r.ids + 1, list |-> r.list \cup {r.ids + 1}]
  BY DEF process_new
<1>2. process_end(n, r.ids + 1) =
        [ids |-> r.ids + 1, active |-> 0, list |-> n.list \ {r.ids + 1}]
  BY <1>1 DEF process_end
<1>3. r.ids + 1 \in Nat /\ n.list \subseteq Nat
  BY <1>1 DEF Registry
<1> QED BY <1>2, <1>3 DEF Registry

\* The evdev buffer holds events, also after an overflow.
LEMMA DeliverType ==
  ASSUME NEW q \in Seq(Event), NEW ev \in Event
  PROVE  Deliver(q, ev) \in Seq(Event)
<1>1. [key |-> "SYN", value |-> 0] \in Event
  BY DEF Event, Key, SpecialKeys
<1> QED BY <1>1 DEF Deliver

\* A process has finitely many children.
LEMMA ChildrenFinite == \A p \in Proc : Cardinality(Children(p)) \in Nat
<1> SUFFICES ASSUME NEW p \in Proc PROVE Cardinality(Children(p)) \in Nat
  OBVIOUS
<1>1. Children(p) \subseteq Proc
  BY DEF Children
<1> QED BY <1>1, ProcAssumption, FS_Subset, FS_CardinalityType

-----------------------------------------------------------------------------
(***************************************************************************)
(* Type correctness.                                                       *)
(***************************************************************************)

\* The end of a process keeps the process table well typed.
LEMMA ExitType ==
  ASSUME TypeOK, NEW p \in Proc, Exit(p)
  PROVE  /\ system' \in {"up", "rebooted", "panic"} /\ adopted' \in Nat
         /\ mode' \in [Proc -> Mode] /\ parent' \in [Proc -> Proc \cup {None}]
         /\ ed' \in [Proc -> Editor] /\ processes' \in [Proc -> Registry]
<1>1. CASE p = Root
  BY <1>1 DEF Exit, TypeOK
<1>2. CASE p # Root
  <2>1. adopted' \in Nat
    BY <1>2, ChildrenFinite DEF Exit, TypeOK
  <2>2. parent' \in [Proc -> Proc \cup {None}]
    BY <1>2, ProcAssumption DEF Exit, TypeOK
  <2>3. ed' \in [Proc -> Editor] /\ processes' \in [Proc -> Registry]
    BY <1>2, FreshType DEF Exit, TypeOK
  <2>4. system' \in {"up", "rebooted", "panic"} /\ mode' \in [Proc -> Mode]
    BY <1>2 DEF Exit, TypeOK, Mode
  <2> QED BY <2>1, <2>2, <2>3, <2>4
<1> QED BY <1>1, <1>2

\* Every variable of the console has its type in every reachable state.
THEOREM TypeCorrect == Spec => []TypeOK
<1>1. Init => TypeOK
  <2> SUFFICES ASSUME Init PROVE TypeOK
    OBVIOUS
  <2>0. ed = [p \in Proc |-> Fresh] /\ processes = [p \in Proc |-> NoProcesses]
    BY DEF Init
  <2>1. ed \in [Proc -> Editor] /\ processes \in [Proc -> Registry]
    BY <2>0, FreshType
  <2>2. mode \in [Proc -> Mode] /\ parent \in [Proc -> Proc \cup {None}]
    BY DEF Init, Mode
  <2>3. evq \in Seq(Event) /\ held \in SUBSET Key
    BY DEF Init
  <2> QED BY <2>1, <2>2, <2>3 DEF Init, TypeOK
<1>2. TypeOK /\ [Next]_vars => TypeOK'
  <2> SUFFICES ASSUME TypeOK, [Next]_vars PROVE TypeOK'
    OBVIOUS
  <2>1. ASSUME NEW ev \in Input, Type(ev) PROVE TypeOK'
    <3>1. ev \in Event /\ ev.key \in Key
      BY BoundAssumption DEF Event
    <3>2. evq' \in Seq(Event)
      BY <2>1, <3>1, DeliverType DEF Type, TypeOK
    <3>3. held' \in SUBSET Key
      BY <2>1, <3>1 DEF Type, TypeOK
    <3> QED BY <2>1, <3>2, <3>3 DEF Type, TypeOK
  <2>2. ASSUME NEW p \in Proc, ReadEvent(p)
        PROVE  /\ evq' \in Seq(Event) /\ held' \in SUBSET Key
               /\ typed' \in Nat /\ dropped' \in BOOLEAN /\ Head(evq) \in Event
    BY <2>2 DEF ReadEvent, TypeOK
  <2>3. ASSUME NEW p \in Proc, EditLine(p) PROVE TypeOK'
    BY <2>3, <2>2, EditType DEF EditLine, TypeOK
  <2>4. ASSUME NEW p \in Proc, RunBuiltin(p) PROVE TypeOK'
    BY <2>4, <2>2, CompletedType DEF RunBuiltin, TypeOK
  <2>5. ASSUME NEW p \in Proc, Reboot(p) PROVE TypeOK'
    BY <2>5, <2>2 DEF Reboot, TypeOK
  <2>6. ASSUME NEW p \in Proc, RaiseError(p) PROVE TypeOK'
    BY <2>6, <2>2, ExitType DEF RaiseError, TypeOK
  <2>7. ASSUME NEW p \in Proc, NEW c \in Proc, Fork(p, c) PROVE TypeOK'
    BY <2>7, <2>2 DEF Fork, TypeOK, Mode
  <2>8. ASSUME NEW p \in Proc, ForkFails(p) PROVE TypeOK'
    BY <2>8, <2>2 DEF ForkFails, TypeOK, Mode
  <2>9. ASSUME NEW p \in Proc, Exec(p) PROVE TypeOK'
    BY <2>9, FreshType DEF Exec, TypeOK, Mode
  <2>10. ASSUME NEW p \in Proc, ExecFails(p) PROVE TypeOK'
    BY <2>10, CompletedType, RegistryType DEF ExecFails, TypeOK, Mode
  <2>11. ASSUME NEW p \in Proc, Wait(p) PROVE TypeOK'
    BY <2>11, CompletedType, ProcAssumption DEF Wait, Returned, TypeOK, Mode, Children
  <2>12. ASSUME NEW p \in Proc, WaitNoChild(p) PROVE TypeOK'
    BY <2>12, CompletedType DEF WaitNoChild, Returned, TypeOK, Mode
  <2>13. ASSUME NEW p \in Proc, ProgramExit(p) PROVE TypeOK'
    BY <2>13, ExitType DEF ProgramExit, TypeOK
  <2>14. ASSUME NEW p \in Proc, NEW c \in Proc, ProgramFork(p, c) PROVE TypeOK'
    BY <2>14 DEF ProgramFork, TypeOK, Mode
  <2>15. ASSUME NEW p \in Proc, Interrupt(p) PROVE TypeOK'
    BY <2>15, ExitType DEF Interrupt, TypeOK
  <2>16. CASE UNCHANGED vars
    BY <2>16 DEF vars, TypeOK
  <2> QED
    BY <2>1, <2>3, <2>4, <2>5, <2>6, <2>7, <2>8, <2>9, <2>10, <2>11, <2>12,
       <2>13, <2>14, <2>15, <2>16
       DEF Next, Keyboard, Step, Handle, Outside
<1> QED BY <1>1, <1>2, PTL DEF Spec

-----------------------------------------------------------------------------
(***************************************************************************)
(* The chain of consoles.                                                  *)
(***************************************************************************)

\* A process that does not wait has no children, so its end moves no child.
LEMMA ExitChain ==
  ASSUME TypeOK, Chain, NEW p \in Proc, mode[p] \in {"console", "program"}, Exit(p)
  PROVE  Chain'
<1>1. CASE p = Root
  BY <1>1 DEF Exit, Chain, Tip, Children
<1>2. CASE p # Root
  <2>1. \A c \in Proc : parent[c] # p
    BY ProcAssumption DEF Chain, TypeOK
  <2>2. parent' = parent
    BY <1>2, <2>1 DEF Exit, TypeOK
  <2>3. mode' = [mode EXCEPT ![p] = "zombie"]
    BY <1>2 DEF Exit
  <2>4. \A q \in Proc : Tip(q)' => Tip(q)
    BY <2>2, <2>3 DEF Tip, Children, TypeOK
  <2>5. \A c \in Proc : parent[c] # None =>
          mode'[c] # "free" /\ mode'[parent[c]] = "waiting"
    BY <2>1, <2>3 DEF Chain, TypeOK
  <2> QED BY <2>2, <2>4, <2>5 DEF Chain
<1> QED BY <1>1, <1>2

\* Every step of an undisturbed system keeps the processes a chain.
LEMMA ChainStep ==
  ASSUME TypeOK, Chain, Undisturbed, [Next]_vars
  PROVE  Chain'
<1>1. ASSUME UNCHANGED <<mode, parent>> PROVE Chain'
  BY <1>1 DEF Chain, Tip, Children
<1>2. ASSUME NEW ev \in Input, Type(ev) PROVE Chain'
  BY <1>1, <1>2 DEF Type
<1>3. ASSUME NEW p \in Proc, EditLine(p) \/ RunBuiltin(p) \/ Reboot(p) PROVE Chain'
  BY <1>1, <1>3 DEF EditLine, RunBuiltin, Reboot
<1>4. ASSUME NEW p \in Proc, RaiseError(p) PROVE Chain'
  BY <1>4, ExitChain DEF RaiseError, ReadEvent
<1>5. ASSUME NEW p \in Proc, NEW c \in Proc, Fork(p, c) PROVE Chain'
  <2>1. /\ mode[p] = "console" /\ mode[c] = "free" /\ p # c
        /\ mode' = [mode EXCEPT ![p] = "waiting", ![c] = "child"]
        /\ parent' = [parent EXCEPT ![c] = p]
    BY <1>5 DEF Fork, ReadEvent
  <2>2. parent[c] = None /\ \A b \in Proc : parent[b] # p /\ parent[b] # c
    BY <2>1, ProcAssumption DEF Chain, TypeOK
  <2>3. \A q \in Proc : Tip(q)' => q = c
    <3> SUFFICES ASSUME NEW q \in Proc, Tip(q)', q # c PROVE FALSE
      OBVIOUS
    <3>1. q # p
      <4>1. c \in Children(p)' /\ mode'[p] = "waiting"
        BY <2>1 DEF Children, TypeOK
      <4> QED BY <4>1 DEF Tip
    <3>2. Tip(q)
      <4>1. mode'[q] = mode[q]
        BY <2>1, <3>1 DEF TypeOK
      <4>2. Children(q) \subseteq Children(q)'
        BY <2>1, <2>2, ProcAssumption DEF Children, TypeOK
      <4> QED BY <4>1, <4>2 DEF Tip
    <3>3. Tip(p)
      BY <2>1 DEF Tip
    <3> QED BY <3>1, <3>2, <3>3 DEF Chain
  <2>4. \A b \in Proc : parent'[b] # None =>
          mode'[b] # "free" /\ mode'[parent'[b]] = "waiting"
    BY <2>1, <2>2 DEF Chain, TypeOK
  <2>5. \A a, b \in Proc : parent'[a] = parent'[b] /\ parent'[a] # None => a = b
    BY <2>1, <2>2 DEF Chain, TypeOK
  <2> QED BY <2>3, <2>4, <2>5 DEF Chain
<1>6. ASSUME NEW p \in Proc, ForkFails(p) PROVE Chain'
  <2>1. /\ mode[p] = "console" /\ mode' = [mode EXCEPT ![p] = "waiting"]
        /\ parent' = parent
    BY <1>6 DEF ForkFails, ReadEvent
  <2>2. \A q \in Proc : Tip(q)' => Tip(q)
    BY <2>1 DEF Tip, Children, TypeOK
  <2>3. \A b \in Proc : parent[b] # None =>
          mode'[b] # "free" /\ mode'[parent[b]] = "waiting"
    BY <2>1 DEF Chain, TypeOK
  <2> QED BY <2>1, <2>2, <2>3 DEF Chain
<1>7. ASSUME NEW p \in Proc, Exec(p) \/ ExecFails(p) PROVE Chain'
  <2>1. /\ mode[p] = "child" /\ parent' = parent
        /\ \/ mode' = [mode EXCEPT ![p] = "program"]
           \/ mode' = [mode EXCEPT ![p] = "console"]
    BY <1>7 DEF Exec, ExecFails
  <2>2. \A q \in Proc : Tip(q)' => Tip(q)
    BY <2>1 DEF Tip, Children, TypeOK
  <2>3. \A b \in Proc : parent[b] # None =>
          mode'[b] # "free" /\ mode'[parent[b]] = "waiting"
    BY <2>1 DEF Chain, TypeOK
  <2> QED BY <2>1, <2>2, <2>3 DEF Chain
<1>8. ASSUME NEW p \in Proc, Wait(p) PROVE Chain'
  <2>1. PICK z \in Proc :
          /\ mode[p] = "waiting" /\ parent[z] = p /\ mode[z] = "zombie"
          /\ mode' = [mode EXCEPT ![p] = "console", ![z] = "free"]
          /\ parent' = [parent EXCEPT ![z] = None]
    BY <1>8 DEF Wait, Returned, Children
  <2>2. \A b \in Proc : parent[b] = p => b = z
    BY <2>1, ProcAssumption DEF Chain
  <2>3. \A b \in Proc : parent[b] # z
    BY <2>1, ProcAssumption DEF Chain, TypeOK
  <2>4. \A q \in Proc : Tip(q)' => q = p
    <3> SUFFICES ASSUME NEW q \in Proc, Tip(q)', q # p PROVE FALSE
      OBVIOUS
    <3>1. q # z
      BY <2>1 DEF Tip, TypeOK
    <3>2. Tip(q)
      BY <2>1, <2>2, <3>1 DEF Tip, Children, TypeOK
    <3>3. Tip(z)
      BY <2>1 DEF Tip
    <3> QED BY <3>1, <3>2, <3>3 DEF Chain
  <2>5. \A b \in Proc : parent'[b] # None =>
          mode'[b] # "free" /\ mode'[parent'[b]] = "waiting"
    BY <2>1, <2>2, <2>3 DEF Chain, TypeOK
  <2>6. \A a, b \in Proc : parent'[a] = parent'[b] /\ parent'[a] # None => a = b
    BY <2>1 DEF Chain, TypeOK
  <2> QED BY <2>4, <2>5, <2>6 DEF Chain
<1>9. ASSUME NEW p \in Proc, WaitNoChild(p) PROVE Chain'
  <2>1. /\ mode[p] = "waiting" /\ Children(p) = {} /\ parent' = parent
        /\ mode' = [mode EXCEPT ![p] = "console"]
    BY <1>9 DEF WaitNoChild, Returned
  <2>2. \A q \in Proc : Tip(q)' => Tip(q)
    BY <2>1 DEF Tip, Children, TypeOK
  <2>3. \A b \in Proc : parent[b] # None =>
          mode'[b] # "free" /\ mode'[parent[b]] = "waiting"
    BY <2>1 DEF Chain, TypeOK, Children
  <2> QED BY <2>1, <2>2, <2>3 DEF Chain
<1>10. ASSUME NEW p \in Proc, ProgramExit(p) PROVE Chain'
  BY <1>10, ExitChain DEF ProgramExit
<1>11. ASSUME NEW p \in Proc, NEW c \in Proc, ProgramFork(p, c) \/ Interrupt(p)
       PROVE  Chain'
  BY <1>11 DEF ProgramFork, Interrupt, Undisturbed
<1>12. CASE UNCHANGED vars
  BY <1>1, <1>12 DEF vars
<1> QED
  BY <1>2, <1>3, <1>4, <1>5, <1>6, <1>7, <1>8, <1>9, <1>10, <1>11, <1>12
     DEF Next, Keyboard, Step, Handle, Outside

\* One process at a time has the keyboard and the terminal, whatever commands are
\* typed and however many execves fail, when programs do not fork and no signal comes.
THEOREM OneForeground == Spec => [](Undisturbed => SingleForeground)
<1>1. Init => Chain
  BY DEF Init, Chain, Tip
<1>2. TypeOK /\ (Undisturbed => Chain) /\ [Next]_vars => (Undisturbed => Chain)'
  BY ChainStep DEF Undisturbed
<1>3. Chain => SingleForeground
  BY DEF Chain, SingleForeground, Foreground, Tip
<1> QED BY <1>1, <1>2, <1>3, TypeCorrect, PTL DEF Spec

-----------------------------------------------------------------------------
(***************************************************************************)
(* The editor's own invariants.                                            *)
(***************************************************************************)

\* What HistoryRecallable asks of one editor.
Recallable(e) ==
  /\ e.history_select <= Len(e.history)
  /\ \A i \in 1..Len(e.history) : e.history[i] # <<>>

\* No editing key invalidates history_select or the history.
LEMMA EditRecallable ==
  ASSUME NEW e \in Editor, NEW ev \in Event, Recallable(e)
  PROVE  Recallable(Edit(e, ev))
<1>1. Recallable(SetShift(e, ev))
  BY DEF SetShift, Editor, Recallable
<1>2. Recallable(RecallOlder(e))
  BY DEF RecallOlder, Editor, Recallable
<1>3. Recallable(delete_char(e))
  BY DEF delete_char, Editor, Recallable
<1>4. Recallable(Insert(e, ev.key))
  BY DEF Insert, Editor, Recallable
<1> QED BY <1>1, <1>2, <1>3, <1>4 DEF Edit

\* A line that is stored in the history was not empty, so it can be recalled.
LEMMA CompletedRecallable ==
  ASSUME NEW e \in Editor, Recallable(e), e.line # <<>>
  PROVE  Recallable(Completed(e))
<1> DEFINE h == <<e.line>> \o e.history
<1>1. /\ h \in Seq(Seq(Char)) /\ Len(h) = Len(e.history) + 1
      /\ \A i \in 1..Len(h) : h[i] = IF i = 1 THEN e.line ELSE e.history[i - 1]
  BY DEF Editor
<1>2. Completed(e) = [e EXCEPT !.history = h, !.line = <<>>]
  BY DEF Completed
<1> HIDE DEF h
<1>3. Completed(e).history = h /\ Completed(e).history_select = e.history_select
  BY <1>2 DEF Editor
<1>4. \A i \in 1..Len(h) : h[i] # <<>>
  <2> SUFFICES ASSUME NEW i \in 1..Len(h), i # 1 PROVE h[i] # <<>>
    BY <1>1
  <2>1. i - 1 \in 1..Len(e.history)
    BY <1>1 DEF Editor
  <2> QED BY <1>1, <2>1 DEF Recallable
<1>5. e.history_select <= Len(h)
  BY <1>1 DEF Editor, Recallable
<1> QED BY <1>3, <1>4, <1>5 DEF Recallable

\* Fresh editors have nothing to recall.
LEMMA FreshRecallable == Recallable(Fresh)
BY DEF Recallable, Fresh

\* UP recalls a command that was executed, in every copy of the console, for ever.
THEOREM HistoryAlwaysRecallable == Spec => []HistoryRecallable
<1> DEFINE Waiters == \A p \in Proc : mode[p] \in {"waiting", "child"} => ed[p].line # <<>>
           Good    == \A p \in Proc : Recallable(ed[p])
<1>0. HistoryRecallable <=> Good
  BY DEF HistoryRecallable, Recallable
<1>1. Init => Good /\ Waiters
  BY FreshRecallable DEF Init
<1>2. TypeOK /\ Good /\ Waiters /\ [Next]_vars => Good' /\ Waiters'
  <2> SUFFICES ASSUME TypeOK, Good, Waiters, [Next]_vars PROVE Good' /\ Waiters'
    OBVIOUS
  <2>1. ASSUME UNCHANGED <<mode, ed>> PROVE Good' /\ Waiters'
    BY <2>1
  <2>2. ASSUME NEW p \in Proc, Exit(p) PROVE Good' /\ Waiters'
    BY <2>2, <2>1, FreshRecallable DEF Exit, TypeOK
  <2>3. ASSUME NEW p \in Proc, ReadEvent(p) PROVE mode[p] = "console" /\ Head(evq) \in Event
    BY <2>3 DEF ReadEvent, TypeOK
  <2>4. ASSUME NEW ev \in Input, Type(ev) PROVE Good' /\ Waiters'
    BY <2>1, <2>4 DEF Type
  <2>5. ASSUME NEW p \in Proc, EditLine(p) PROVE Good' /\ Waiters'
    BY <2>3, <2>5, EditRecallable DEF EditLine, TypeOK
  <2>6. ASSUME NEW p \in Proc, RunBuiltin(p) PROVE Good' /\ Waiters'
    BY <2>3, <2>6, CompletedRecallable DEF RunBuiltin, Submits, TypeOK
  <2>7. ASSUME NEW p \in Proc, Reboot(p) PROVE Good' /\ Waiters'
    BY <2>1, <2>7 DEF Reboot
  <2>8. ASSUME NEW p \in Proc, RaiseError(p) \/ ProgramExit(p) \/ Interrupt(p)
        PROVE  Good' /\ Waiters'
    BY <2>2, <2>8 DEF RaiseError, ProgramExit, Interrupt
  <2>9. ASSUME NEW p \in Proc, NEW c \in Proc, Fork(p, c) PROVE Good' /\ Waiters'
    BY <2>9 DEF Fork, Launches, Submits, TypeOK
  <2>10. ASSUME NEW p \in Proc, ForkFails(p) PROVE Good' /\ Waiters'
    BY <2>10 DEF ForkFails, Launches, Submits, TypeOK
  <2>11. ASSUME NEW p \in Proc, Exec(p) PROVE Good' /\ Waiters'
    BY <2>11, FreshRecallable DEF Exec, TypeOK
  <2>12. ASSUME NEW p \in Proc, ExecFails(p) PROVE Good' /\ Waiters'
    BY <2>12, CompletedRecallable DEF ExecFails, TypeOK
  <2>13. ASSUME NEW p \in Proc, Wait(p) \/ WaitNoChild(p) PROVE Good' /\ Waiters'
    BY <2>13, CompletedRecallable DEF Wait, WaitNoChild, Returned, TypeOK, Children
  <2>14. ASSUME NEW p \in Proc, NEW c \in Proc, ProgramFork(p, c) PROVE Good' /\ Waiters'
    BY <2>14 DEF ProgramFork, TypeOK
  <2>15. CASE UNCHANGED vars
    BY <2>1, <2>15 DEF vars
  <2> QED
    BY <2>4, <2>5, <2>6, <2>7, <2>8, <2>9, <2>10, <2>11, <2>12, <2>13, <2>14, <2>15
       DEF Next, Keyboard, Step, Handle, Outside
<1> QED BY <1>0, <1>1, <1>2, TypeCorrect, PTL DEF Spec

-----------------------------------------------------------------------------
(***************************************************************************)
(* Shift does not stick.                                                   *)
(***************************************************************************)

\* Only SetShift touches mod_shift.
LEMMA EditShift ==
  ASSUME NEW e \in Editor, NEW ev \in Event
  PROVE  Edit(e, ev).mod_shift = IF ev.key \in ShiftKeys THEN ~Released(ev) ELSE e.mod_shift
<1>1. SetShift(e, ev).mod_shift = ~Released(ev)
  BY DEF SetShift, Editor
<1>2. RecallOlder(e).mod_shift = e.mod_shift
  BY DEF RecallOlder, Editor
<1>3. delete_char(e).mod_shift = e.mod_shift
  BY DEF delete_char, Editor
<1>4. Insert(e, ev.key).mod_shift = e.mod_shift
  BY DEF Insert, Editor
<1>5. "UP" \notin ShiftKeys /\ "BACKSPACE" \notin ShiftKeys /\ "DELETE" \notin ShiftKeys
      /\ Printable \cap ShiftKeys = {}
  BY KeyAssumption DEF ShiftKeys, SpecialKeys
<1> QED BY <1>1, <1>2, <1>3, <1>4, <1>5 DEF Edit

\* Storing the line leaves mod_shift alone.
LEMMA CompletedShift ==
  ASSUME NEW e \in Editor
  PROVE  Completed(e).mod_shift = e.mod_shift
<1> DEFINE h == <<e.line>> \o e.history
<1>1. Completed(e) = [e EXCEPT !.history = h, !.line = <<>>]
  BY DEF Completed
<1> HIDE DEF h
<1> QED BY <1>1 DEF Editor

\* While every program is installed, only pid 1 leaves or enters the console loop.
LEMMA RootReadsStep ==
  ASSUME TypeOK, RootReads, Installed = RunLines, [Next]_vars
  PROVE  RootReads'
<1>1. ASSUME UNCHANGED <<mode, ed>> PROVE RootReads'
  BY <1>1 DEF RootReads
<1>2. ASSUME NEW p \in Proc, Exit(p) PROVE RootReads'
  <2>1. CASE p = Root
    BY <1>1, <1>2, <2>1 DEF Exit
  <2>2. CASE p # Root
    <3>1. mode' = [mode EXCEPT ![p] = "zombie"] /\ ed' = [ed EXCEPT ![p] = Fresh]
      BY <1>2, <2>2 DEF Exit
    <3> QED BY <2>2, <3>1, ProcAssumption DEF RootReads, TypeOK
  <2> QED BY <2>1, <2>2
<1>3. ASSUME NEW ev \in Input, Type(ev) PROVE RootReads'
  BY <1>1, <1>3 DEF Type
<1>4. ASSUME NEW p \in Proc, EditLine(p) \/ RunBuiltin(p) PROVE RootReads'
  BY <1>4, ProcAssumption DEF EditLine, RunBuiltin, ReadEvent, RootReads, TypeOK
<1>5. ASSUME NEW p \in Proc, Reboot(p) PROVE RootReads'
  BY <1>1, <1>5 DEF Reboot
<1>6. ASSUME NEW p \in Proc, RaiseError(p) \/ ProgramExit(p) \/ Interrupt(p) PROVE RootReads'
  BY <1>2, <1>6 DEF RaiseError, ProgramExit, Interrupt
<1>7. ASSUME NEW p \in Proc, NEW c \in Proc, Fork(p, c) PROVE RootReads'
  BY <1>7, ProcAssumption DEF Fork, Launches, ReadEvent, RootReads, TypeOK
<1>8. ASSUME NEW p \in Proc, ForkFails(p) PROVE RootReads'
  BY <1>8, ProcAssumption DEF ForkFails, ReadEvent, RootReads, TypeOK
<1>9. ASSUME NEW p \in Proc, Exec(p) \/ ExecFails(p) PROVE RootReads'
  BY <1>9, ProcAssumption DEF Exec, ExecFails, RootReads, TypeOK
<1>10. ASSUME NEW p \in Proc, Wait(p) \/ WaitNoChild(p) PROVE RootReads'
  BY <1>10, ProcAssumption DEF Wait, WaitNoChild, Returned, RootReads, TypeOK, Children
<1>11. ASSUME NEW p \in Proc, NEW c \in Proc, ProgramFork(p, c) PROVE RootReads'
  BY <1>11, ProcAssumption DEF ProgramFork, RootReads, TypeOK
<1>12. CASE UNCHANGED vars
  BY <1>1, <1>12 DEF vars
<1> QED
  BY <1>3, <1>4, <1>5, <1>6, <1>7, <1>8, <1>9, <1>10, <1>11, <1>12
     DEF Next, Keyboard, Step, Handle, Outside

\* A new event: the last Shift event of the buffer tells which way Shift went.
LEMMA TypeShift ==
  ASSUME TypeOK, NoStuckShift, NEW ev \in Input, Type(ev)
  PROVE  NoStuckShift'
<1> SUFFICES ASSUME system' = "up", ~dropped', held' \cap ShiftKeys = {}, ShiftPending(Root)'
             PROVE  FALSE
  BY DEF NoStuckShift
<1>1. ev \in Event
  BY BoundAssumption
<1>2. /\ system = "up" /\ ~dropped /\ Len(evq) < EvCap /\ evq' = Append(evq, ev) /\ ed' = ed
  <2>1. /\ system = "up" /\ ~dropped /\ ~(Len(evq) >= EvCap)
        /\ evq' = Deliver(evq, ev) /\ ed' = ed
    BY Zenon DEF Type
  <2>2. Len(evq) < EvCap
    BY <2>1, BoundAssumption DEF TypeOK
  <2> QED BY <2>1, <2>2 DEF Deliver
<1>3. /\ Len(evq') = Len(evq) + 1 /\ Len(evq) \in Nat /\ evq'[Len(evq) + 1] = ev
      /\ \A i \in 1..Len(evq) : evq'[i] = evq[i]
  BY <1>1, <1>2 DEF TypeOK
<1>4. CASE ev.key \in ShiftKeys
  <2>1. Released(ev)
    BY <1>4 DEF Type
  <2> QED BY <1>3, <1>4, <2>1 DEF ShiftPending
<1>5. CASE ev.key \notin ShiftKeys
  <2>1. held \cap ShiftKeys = {}
    BY <1>5 DEF Type
  <2>2. ShiftPending(Root)
    BY <1>2, <1>3, <1>5 DEF ShiftPending
  <2> QED BY <1>2, <2>1, <2>2 DEF NoStuckShift
<1> QED BY <1>4, <1>5

\* An event that pid 1 reads: mod_shift takes over what the event says.
LEMMA ReadShift ==
  ASSUME TypeOK, evq # <<>>, evq' = Tail(evq), ed'[Root].mod_shift =
           IF Head(evq).key \in ShiftKeys THEN ~Released(Head(evq)) ELSE ed[Root].mod_shift,
         ShiftPending(Root)'
  PROVE  ShiftPending(Root)
<1>1. /\ Len(evq) \in Nat \ {0} /\ Len(evq') = Len(evq) - 1 /\ Head(evq) = evq[1]
      /\ \A i \in 1..Len(evq') : evq'[i] = evq[i + 1]
  BY DEF TypeOK
<1>2. CASE \A i \in 1..Len(evq') : evq'[i].key \notin ShiftKeys
  <2>1. ed'[Root].mod_shift
    BY <1>2 DEF ShiftPending
  <2>2. \A i \in 2..Len(evq) : evq[i].key \notin ShiftKeys
    <3> SUFFICES ASSUME NEW i \in 2..Len(evq) PROVE evq[i].key \notin ShiftKeys
      OBVIOUS
    <3>1. i - 1 \in 1..Len(evq') /\ evq'[i - 1] = evq[i]
      BY <1>1
    <3> QED BY <1>2, <3>1
  <2>3. CASE evq[1].key \in ShiftKeys
    <3>1. ~Released(evq[1])
      BY <1>1, <2>1, <2>3
    <3> QED BY <1>1, <2>2, <2>3, <3>1 DEF ShiftPending
  <2>4. CASE evq[1].key \notin ShiftKeys
    <3>1. ed[Root].mod_shift
      BY <1>1, <2>1, <2>4
    <3>2. \A i \in 1..Len(evq) : evq[i].key \notin ShiftKeys
      BY <1>1, <2>2, <2>4
    <3> QED BY <3>1, <3>2 DEF ShiftPending
  <2> QED BY <2>3, <2>4
<1>3. CASE ~(\A i \in 1..Len(evq') : evq'[i].key \notin ShiftKeys)
  <2>1. PICK i \in 1..Len(evq') :
          /\ evq'[i].key \in ShiftKeys /\ ~Released(evq'[i])
          /\ \A j \in (i + 1)..Len(evq') : evq'[j].key \notin ShiftKeys
    BY <1>3 DEF ShiftPending
  <2>2. i + 1 \in 1..Len(evq) /\ evq[i + 1].key \in ShiftKeys /\ ~Released(evq[i + 1])
    BY <1>1, <2>1
  <2>3. \A j \in (i + 2)..Len(evq) : evq[j].key \notin ShiftKeys
    <3> SUFFICES ASSUME NEW j \in (i + 2)..Len(evq) PROVE evq[j].key \notin ShiftKeys
      OBVIOUS
    <3>1. j - 1 \in (i + 1)..Len(evq') /\ evq'[j - 1] = evq[j]
      BY <1>1
    <3> QED BY <2>1, <3>1
  <2> QED BY <1>1, <2>2, <2>3 DEF ShiftPending
<1> QED BY <1>2, <1>3

\* Every step keeps Shift from sticking while only pid 1 reads.
LEMMA ShiftStep ==
  ASSUME TypeOK, RootReads, Installed = RunLines, NoStuckShift, [Next]_vars
  PROVE  NoStuckShift'
<1>1. ASSUME UNCHANGED <<system, held, dropped, evq>>, ed'[Root].mod_shift = ed[Root].mod_shift
      PROVE  NoStuckShift'
  BY <1>1 DEF NoStuckShift, ShiftPending
<1>2. ASSUME UNCHANGED <<held, dropped>>, system = "up", evq # <<>>, evq' = Tail(evq),
             ed'[Root].mod_shift = IF Head(evq).key \in ShiftKeys
                                   THEN ~Released(Head(evq)) ELSE ed[Root].mod_shift
      PROVE  NoStuckShift'
  BY <1>2, ReadShift DEF NoStuckShift
<1>3. ASSUME system' # "up" PROVE NoStuckShift'
  BY <1>3 DEF NoStuckShift
<1>4. ASSUME NEW p \in Proc, ReadEvent(p)
      PROVE  /\ p = Root /\ UNCHANGED <<held, dropped>> /\ system = "up" /\ evq # <<>>
             /\ evq' = Tail(evq) /\ Head(evq) \in Event /\ mode[Root] = "console"
  BY <1>4 DEF ReadEvent, RootReads, TypeOK
<1>5. "ENTER" \notin ShiftKeys
  BY DEF ShiftKeys
<1>6. ed[Root] \in Editor
  BY ProcAssumption DEF TypeOK
<1>7. ASSUME NEW p \in Proc, EditLine(p) PROVE NoStuckShift'
  <2>1. ReadEvent(p) /\ p = Root /\ ed'[Root] = Edit(ed[Root], Head(evq))
    BY <1>4, <1>7, ProcAssumption DEF EditLine, TypeOK
  <2> QED BY <1>2, <1>4, <1>6, <2>1, EditShift
<1>8. ASSUME NEW p \in Proc, RunBuiltin(p) PROVE NoStuckShift'
  <2>1. /\ ReadEvent(p) /\ p = Root /\ ed'[Root] = Completed(ed[Root])
        /\ Head(evq).key \notin ShiftKeys
    BY <1>4, <1>5, <1>8, ProcAssumption DEF RunBuiltin, TypeOK, Submits
  <2> QED BY <1>2, <1>4, <1>6, <2>1, CompletedShift
<1>9. ASSUME NEW p \in Proc, Reboot(p) PROVE NoStuckShift'
  BY <1>3, <1>9 DEF Reboot
<1>10. ASSUME NEW p \in Proc, RaiseError(p) PROVE NoStuckShift'
  BY <1>3, <1>4, <1>10 DEF RaiseError, Exit
<1>11. ASSUME NEW p \in Proc, NEW c \in Proc, Fork(p, c) PROVE NoStuckShift'
  <2>1. /\ ReadEvent(p) /\ c # Root /\ ed'[Root] = ed[Root] /\ Head(evq).key \notin ShiftKeys
    BY <1>4, <1>5, <1>11, ProcAssumption DEF Fork, Launches, TypeOK, Submits
  <2> QED BY <1>2, <1>4, <2>1
<1>12. ASSUME NEW p \in Proc, ForkFails(p) PROVE NoStuckShift'
  <2>1. ReadEvent(p) /\ ed' = ed /\ Head(evq).key \notin ShiftKeys
    BY <1>5, <1>12 DEF ForkFails, Launches, Submits
  <2> QED BY <1>2, <1>4, <2>1
<1>13. ASSUME NEW p \in Proc, Exec(p) PROVE NoStuckShift'
  <2>1. p # Root /\ ed'[Root] = ed[Root]
    BY <1>13, ProcAssumption DEF Exec, RootReads, TypeOK
  <2> QED BY <1>1, <1>13, <2>1 DEF Exec
<1>14. ASSUME NEW p \in Proc, ExecFails(p) PROVE NoStuckShift'
  BY <1>14 DEF ExecFails, RootReads
<1>15. ASSUME NEW p \in Proc, Wait(p) \/ WaitNoChild(p) PROVE NoStuckShift'
  <2>1. Returned(p) /\ p = Root /\ ed'[Root] = Completed(ed[Root])
    BY <1>15, ProcAssumption DEF Wait, WaitNoChild, Returned, RootReads, TypeOK
  <2> QED BY <1>1, <1>6, <2>1, CompletedShift DEF Returned
<1>16. ASSUME NEW p \in Proc, Exit(p), UNCHANGED <<evq, held, typed, dropped>>
       PROVE  NoStuckShift'
  <2>1. CASE p = Root
    BY <1>3, <1>16, <2>1 DEF Exit
  <2>2. CASE p # Root
    <3>1. ed'[Root] = ed[Root]
      BY <1>16, <2>2, ProcAssumption DEF Exit, TypeOK
    <3> QED BY <1>1, <1>16, <2>2, <3>1 DEF Exit
  <2> QED BY <2>1, <2>2
<1>17. ASSUME NEW p \in Proc, ProgramExit(p) \/ Interrupt(p) PROVE NoStuckShift'
  BY <1>16, <1>17 DEF ProgramExit, Interrupt
<1>18. ASSUME NEW p \in Proc, NEW c \in Proc, ProgramFork(p, c) PROVE NoStuckShift'
  BY <1>1, <1>18 DEF ProgramFork
<1>19. CASE UNCHANGED vars
  BY <1>1, <1>19 DEF vars
<1> QED
  BY <1>7, <1>8, <1>9, <1>10, <1>11, <1>12, <1>13, <1>14, <1>15, <1>17, <1>18, <1>19, TypeShift
     DEF Next, Keyboard, Step, Handle, Outside

\* With every program installed, the console of pid 1 never keeps Shift on after both
\* Shift keys are up, whatever is typed while programs run, until the buffer overflows.
THEOREM ShiftNeverSticks == Spec => [](Installed = RunLines => NoStuckShift)
<1> DEFINE Inv == Installed = RunLines => RootReads /\ NoStuckShift
<1>1. Init => Inv
  BY ProcAssumption DEF Init, RootReads, NoStuckShift, ShiftPending, Fresh
<1>2. TypeOK /\ Inv /\ [Next]_vars => Inv'
  BY RootReadsStep, ShiftStep
<1> QED BY <1>1, <1>2, TypeCorrect, PTL DEF Spec

-----------------------------------------------------------------------------
(***************************************************************************)
(* No console is deaf.                                                     *)
(***************************************************************************)

\* An entry that is made and ended leaves an empty registry empty.
LEMMA RegistryEmptied ==
  ASSUME NEW r \in Registry, r.active = 0, r.list = {}
  PROVE  /\ process_end(process_new(r), r.ids + 1).active = 0
         /\ process_end(process_new(r), r.ids + 1).list = {}
  BY DEF process_end, process_new, Registry

\* A console that came back from a failed execve listens like the one it was forked from:
\* no copy of the process registry keeps an entry, whoever forked whom.
THEOREM ConsolesListen == Spec => []NoDeafConsole
<1> DEFINE Empty == \A p \in Proc : processes[p].active = 0 /\ processes[p].list = {}
<1>1. Init => Empty
  BY DEF Init, NoProcesses
<1>2. TypeOK /\ Empty /\ [Next]_vars => Empty'
  <2> SUFFICES ASSUME TypeOK, Empty, [Next]_vars PROVE Empty'
    OBVIOUS
  <2>1. CASE UNCHANGED processes
    BY <2>1
  <2>2. ASSUME NEW p \in Proc, processes' = [processes EXCEPT ![p] = NoProcesses] PROVE Empty'
    BY <2>2 DEF NoProcesses, TypeOK
  <2>3. ASSUME NEW p \in Proc, Exit(p) PROVE Empty'
    BY <2>1, <2>2, <2>3 DEF Exit
  <2>4. ASSUME NEW p \in Proc, NEW c \in Proc, Fork(p, c) PROVE Empty'
    BY <2>4 DEF Fork, TypeOK
  <2>5. ASSUME NEW p \in Proc, ExecFails(p) PROVE Empty'
    <3>1. processes' = [processes EXCEPT ![p] =
                          process_end(process_new(processes[p]), processes[p].ids + 1)]
      BY <2>5 DEF ExecFails
    <3>2. processes[p] \in Registry /\ processes[p].active = 0 /\ processes[p].list = {}
      BY DEF TypeOK
    <3> QED
      BY <3>1, <3>2, RegistryEmptied DEF TypeOK
  <2>6. ASSUME NEW p \in Proc, Exec(p) PROVE Empty'
    BY <2>2, <2>6 DEF Exec
  <2>7. ASSUME NEW p \in Proc, RaiseError(p) \/ ProgramExit(p) \/ Interrupt(p) PROVE Empty'
    BY <2>3, <2>7 DEF RaiseError, ProgramExit, Interrupt
  <2>8. ASSUME NEW p \in Proc, EditLine(p) \/ RunBuiltin(p) \/ Reboot(p) \/ ForkFails(p)
        PROVE  Empty'
    BY <2>1, <2>8 DEF EditLine, RunBuiltin, Reboot, ForkFails
  <2>9. ASSUME NEW p \in Proc, Wait(p) \/ WaitNoChild(p) PROVE Empty'
    BY <2>1, <2>9 DEF Wait, WaitNoChild, Returned
  <2>10. CASE (\E ev \in Input : Type(ev)) \/ UNCHANGED vars
    BY <2>1, <2>10 DEF Type, vars
  <2>11. ASSUME NEW p \in Proc, NEW c \in Proc, ProgramFork(p, c) PROVE Empty'
    BY <2>1, <2>11 DEF ProgramFork
  <2> QED
    BY <2>4, <2>5, <2>6, <2>7, <2>8, <2>9, <2>10, <2>11
       DEF Next, Keyboard, Step, Handle, Outside
<1>3. Empty => NoDeafConsole
  BY DEF NoDeafConsole
<1> QED BY <1>1, <1>2, <1>3, TypeCorrect, PTL DEF Spec

-----------------------------------------------------------------------------
(***************************************************************************)
(* Children are reaped.                                                    *)
(***************************************************************************)

\* The children that runproc has not yet reaped, and those that p inherited.
Owed(p) == (IF p = Root THEN adopted ELSE 0) + (IF mode[p] = "waiting" THEN 1 ELSE 0)

\* Pid 1 never becomes anything but a console, and the dead have no children.
Reaping ==
  /\ ChildrenReaped
  /\ mode[Root] \in {"console", "waiting"}
  /\ \A p \in Proc : mode[p] \in {"free", "zombie"} => Children(p) = {}

\* Sets of processes are finite, and counting them respects inclusion.
LEMMA Counting ==
  ASSUME NEW S \in SUBSET Proc, NEW T \in SUBSET Proc
  PROVE  /\ Cardinality(S) \in Nat /\ Cardinality(T) \in Nat
         /\ S \subseteq T => Cardinality(S) <= Cardinality(T)
         /\ Cardinality(S \cup T) <= Cardinality(S) + Cardinality(T)
         /\ \A c \in Proc : Cardinality(S \cup {c}) <= Cardinality(S) + 1
         /\ \A c \in S : Cardinality(S \ {c}) = Cardinality(S) - 1
<1>1. IsFiniteSet(S) /\ IsFiniteSet(T) /\ IsFiniteSet(S \cap T)
  BY ProcAssumption, FS_Subset, FS_Intersection
<1>2. Cardinality(S) \in Nat /\ Cardinality(T) \in Nat /\ Cardinality(S \cap T) \in Nat
  BY <1>1, FS_CardinalityType
<1>3. S \subseteq T => Cardinality(S) <= Cardinality(T)
  BY <1>1, FS_Subset
<1>4. Cardinality(S \cup T) <= Cardinality(S) + Cardinality(T)
  <2>1. Cardinality(S \cup T) = Cardinality(S) + Cardinality(T) - Cardinality(S \cap T)
    BY <1>1, FS_Union
  <2> QED BY <1>2, <2>1
<1>5. \A c \in Proc : Cardinality(S \cup {c}) <= Cardinality(S) + 1
  BY <1>1, <1>2, FS_AddElement
<1>6. \A c \in S : Cardinality(S \ {c}) = Cardinality(S) - 1
  BY <1>1, FS_RemoveElement
<1> QED BY <1>2, <1>3, <1>4, <1>5, <1>6

\* The end of a process makes pid 1 owe exactly the children it inherits.
LEMMA ExitReaps ==
  ASSUME TypeOK, Reaping, NEW p \in Proc, Exit(p) PROVE Reaping'
<1>1. CASE p = Root
  BY <1>1 DEF Exit, Reaping, ChildrenReaped, Children
<1>2. CASE p # Root
  <2>1. /\ mode' = [mode EXCEPT ![p] = "zombie"]
        /\ parent' = [c \in Proc |-> IF parent[c] = p THEN Root ELSE parent[c]]
        /\ adopted' = adopted + Cardinality(Children(p))
    BY <1>2 DEF Exit
  <2>2. /\ Children(Root)' = Children(Root) \cup Children(p)
        /\ Children(p)' = {}
        /\ \A q \in Proc \ {p, Root} : Children(q)' = Children(q)
    BY <1>2, <2>1 DEF Children
  <2>3. mode'[Root] \in {"console", "waiting"}
    BY <1>2, <2>1, ProcAssumption DEF Reaping, TypeOK
  <2>4. \A q \in Proc : mode'[q] \in {"free", "zombie"} => Children(q)' = {}
    BY <2>1, <2>2, <2>3 DEF Reaping, TypeOK
  <2>5. Cardinality(Children(Root)') <= Owed(Root)'
    <3>1. /\ Cardinality(Children(Root)) \in Nat /\ Cardinality(Children(p)) \in Nat
          /\ Cardinality(Children(Root) \cup Children(p))
               <= Cardinality(Children(Root)) + Cardinality(Children(p))
      BY Counting DEF Children
    <3>2. Cardinality(Children(Root)) <= Owed(Root)
      BY ProcAssumption DEF Reaping, ChildrenReaped, Owed
    <3>3. mode'[Root] = mode[Root]
      BY <1>2, <2>1, ProcAssumption DEF TypeOK
    <3>4. Cardinality(Children(Root)') \in Nat
      BY Counting DEF Children
    <3> QED BY <2>1, <2>2, <3>1, <3>2, <3>3, <3>4 DEF Owed, TypeOK
  <2>6. \A q \in Proc \ {Root} : mode'[q] \in {"console", "child", "waiting"} =>
          Cardinality(Children(q)') <= Owed(q)'
    <3> SUFFICES ASSUME NEW q \in Proc \ {Root}, mode'[q] \in {"console", "child", "waiting"}
                 PROVE  Cardinality(Children(q)') <= Owed(q)'
      OBVIOUS
    <3>1. q # p /\ mode'[q] = mode[q]
      BY <2>1 DEF TypeOK
    <3> QED BY <2>2, <3>1 DEF Reaping, ChildrenReaped, Owed
  <2> QED BY <2>3, <2>4, <2>5, <2>6 DEF Reaping, ChildrenReaped, Owed
<1> QED BY <1>1, <1>2

\* Every step keeps the account of children.
LEMMA ReapingStep ==
  ASSUME TypeOK, Reaping, [Next]_vars PROVE Reaping'
<1>0. \A q \in Proc : mode[q] \in {"console", "child", "waiting"} =>
        Cardinality(Children(q)) <= Owed(q)
  BY DEF Reaping, ChildrenReaped, Owed
<1>1. ASSUME UNCHANGED <<mode, parent, adopted>> PROVE Reaping'
  BY <1>1 DEF Reaping, ChildrenReaped, Children
<1>2. ASSUME NEW p \in Proc, ReadEvent(p) PROVE mode[p] = "console"
  BY <1>2 DEF ReadEvent
<1>3. ASSUME NEW p \in Proc, NEW c \in Proc, Fork(p, c) PROVE Reaping'
  <2>1. /\ mode[p] = "console" /\ mode[c] = "free" /\ p # c /\ c # Root
        /\ mode' = [mode EXCEPT ![p] = "waiting", ![c] = "child"]
        /\ parent' = [parent EXCEPT ![c] = p] /\ adopted' = adopted
    BY <1>2, <1>3 DEF Fork, Reaping
  <2>2. /\ Children(p)' = Children(p) \cup {c}
        /\ \A q \in Proc \ {p} : Children(q)' \subseteq Children(q)
    BY <2>1 DEF Children, TypeOK
  <2>3. Cardinality(Children(p)') <= Owed(p)'
    <3>1. /\ Cardinality(Children(p) \cup {c}) <= Cardinality(Children(p)) + 1
          /\ Cardinality(Children(p)) \in Nat
      BY Counting DEF Children
    <3>2. Cardinality(Children(p)) <= Owed(p)
      BY <1>0, <2>1
    <3>3. Cardinality(Children(p)') \in Nat
      BY Counting DEF Children
    <3>4. mode'[p] = "waiting"
      BY <2>1 DEF TypeOK
    <3> QED BY <2>1, <2>2, <3>1, <3>2, <3>3, <3>4 DEF Owed, TypeOK
  <2>4. \A q \in Proc \ {p} : mode'[q] \in {"console", "child", "waiting"} =>
          Cardinality(Children(q)') <= Owed(q)'
    <3> SUFFICES ASSUME NEW q \in Proc \ {p}, mode'[q] \in {"console", "child", "waiting"}
                 PROVE  Cardinality(Children(q)') <= Owed(q)'
      OBVIOUS
    <3>1. /\ Cardinality(Children(q)') <= Cardinality(Children(q))
          /\ Cardinality(Children(q)') \in Nat /\ Cardinality(Children(q)) \in Nat
      BY <2>2, Counting DEF Children
    <3>2. CASE q = c
      <4>1. Children(q)' = {}
        BY <2>1, <2>2, <3>2 DEF Reaping
      <4>2. Cardinality(Children(q)') = 0
        BY <4>1, FS_EmptySet
      <4>3. mode'[q] = "child"
        BY <2>1, <3>2 DEF TypeOK
      <4> QED BY <2>1, <3>2, <4>2, <4>3 DEF Owed
    <3>3. CASE q # c
      <4>1. mode'[q] = mode[q]
        BY <2>1, <3>3 DEF TypeOK
      <4>2. Cardinality(Children(q)) <= Owed(q) /\ Owed(q)' = Owed(q) /\ Owed(q) \in Nat
        BY <1>0, <2>1, <4>1 DEF Owed, TypeOK
      <4> QED BY <3>1, <4>2
    <3> QED BY <3>2, <3>3
  <2>5. \A q \in Proc : mode'[q] \in {"free", "zombie"} => Children(q)' = {}
    BY <2>1, <2>2 DEF Reaping, TypeOK
  <2>6. mode'[Root] \in {"console", "waiting"}
    BY <2>1, ProcAssumption DEF Reaping, TypeOK
  <2> QED BY <2>3, <2>4, <2>5, <2>6 DEF Reaping, ChildrenReaped, Owed
<1>4. ASSUME NEW p \in Proc, UNCHANGED <<parent, adopted>>,
             \/ mode[p] = "console" /\ mode' = [mode EXCEPT ![p] = "waiting"]
             \/ mode[p] = "child" /\ mode' = [mode EXCEPT ![p] = "program"]
             \/ mode[p] = "child" /\ mode' = [mode EXCEPT ![p] = "console"]
             \/ mode[p] = "waiting" /\ Children(p) = {} /\ mode' = [mode EXCEPT ![p] = "console"]
      PROVE  Reaping'
  <2>1. \A q \in Proc : Children(q)' = Children(q) /\ Cardinality(Children(q)) \in Nat
    BY <1>4, Counting DEF Children
  <2>2. \A q \in Proc \ {p} : mode'[q] = mode[q] /\ Owed(q)' = Owed(q)
    BY <1>4 DEF Owed, TypeOK
  <2>3. mode'[p] \in {"console", "child", "waiting"} => Cardinality(Children(p)) <= Owed(p)'
    <3>1. CASE Children(p) = {}
      <4>1. Cardinality(Children(p)) = 0
        BY <3>1, FS_EmptySet
      <4> QED BY <1>4, <4>1 DEF Owed, TypeOK
    <3>2. CASE Children(p) # {}
      <4>1. mode[p] \in {"console", "child"} /\ Cardinality(Children(p)) <= Owed(p)
        BY <1>0, <1>4, <3>2
      <4>2. Owed(p) <= Owed(p)' /\ Owed(p) \in Nat /\ Owed(p)' \in Nat
        BY <1>4, <4>1 DEF Owed, TypeOK
      <4> QED BY <2>1, <4>1, <4>2
    <3> QED BY <3>1, <3>2
  <2>4. mode'[Root] \in {"console", "waiting"}
    BY <1>4, ProcAssumption DEF Reaping, TypeOK
  <2>5. \A q \in Proc : mode'[q] \in {"free", "zombie"} => mode[q] \in {"free", "zombie"}
    BY <1>4 DEF TypeOK
  <2> QED BY <1>0, <2>1, <2>2, <2>3, <2>4, <2>5 DEF Reaping, ChildrenReaped, Owed
<1>5. ASSUME NEW p \in Proc, Wait(p) PROVE Reaping'
  <2>1. PICK z \in Children(p) :
          /\ mode[p] = "waiting" /\ mode[z] = "zombie" /\ adopted' = adopted
          /\ mode' = [mode EXCEPT ![p] = "console", ![z] = "free"]
          /\ parent' = [parent EXCEPT ![z] = None]
    BY <1>5 DEF Wait, Returned
  <2>2. z \in Proc /\ z # p /\ z # Root
    BY <2>1 DEF Children, Reaping
  <2>3. /\ Children(p)' = Children(p) \ {z}
        /\ \A q \in Proc : Children(q)' \subseteq Children(q)
    BY <2>1, <2>2, ProcAssumption DEF Children, TypeOK
  <2>4. Cardinality(Children(p)') <= Owed(p)'
    <3>1. /\ Cardinality(Children(p) \ {z}) = Cardinality(Children(p)) - 1
          /\ Cardinality(Children(p)) \in Nat
      BY Counting DEF Children
    <3>2. Cardinality(Children(p)) <= Owed(p) /\ mode'[p] = "console"
      BY <1>0, <2>1, <2>2 DEF TypeOK
    <3> QED BY <2>1, <2>3, <3>1, <3>2 DEF Owed, TypeOK
  <2>5. \A q \in Proc \ {p} : mode'[q] \in {"console", "child", "waiting"} =>
          Cardinality(Children(q)') <= Owed(q)'
    <3> SUFFICES ASSUME NEW q \in Proc \ {p}, mode'[q] \in {"console", "child", "waiting"}
                 PROVE  Cardinality(Children(q)') <= Owed(q)'
      OBVIOUS
    <3>1. mode'[q] = mode[q]
      BY <2>1, <2>2 DEF TypeOK
    <3>2. /\ Cardinality(Children(q)') <= Cardinality(Children(q))
          /\ Cardinality(Children(q)') \in Nat /\ Cardinality(Children(q)) \in Nat
      BY <2>3, Counting DEF Children
    <3>3. Cardinality(Children(q)) <= Owed(q) /\ Owed(q)' = Owed(q) /\ Owed(q) \in Nat
      BY <1>0, <2>1, <3>1 DEF Owed, TypeOK
    <3> QED BY <3>2, <3>3
  <2>6. \A q \in Proc : mode'[q] \in {"free", "zombie"} => Children(q)' = {}
    BY <2>1, <2>2, <2>3 DEF Reaping, TypeOK
  <2>7. mode'[Root] \in {"console", "waiting"}
    BY <2>1, <2>2, ProcAssumption DEF Reaping, TypeOK
  <2> QED BY <2>4, <2>5, <2>6, <2>7 DEF Reaping, ChildrenReaped, Owed
<1>6. ASSUME NEW p \in Proc, NEW c \in Proc, ProgramFork(p, c) PROVE Reaping'
  <2>1. /\ mode[p] = "program" /\ mode[c] = "free" /\ p # c /\ adopted' = adopted
        /\ mode' = [mode EXCEPT ![c] = "program"] /\ parent' = [parent EXCEPT ![c] = p]
    BY <1>6 DEF ProgramFork
  <2>2. \A q \in Proc \ {p} : Children(q)' \subseteq Children(q)
    BY <2>1 DEF Children, TypeOK
  <2>3. \A q \in Proc : mode'[q] \in {"console", "child", "waiting"} =>
          Cardinality(Children(q)') <= Owed(q)'
    <3> SUFFICES ASSUME NEW q \in Proc, mode'[q] \in {"console", "child", "waiting"}
                 PROVE  Cardinality(Children(q)') <= Owed(q)'
      OBVIOUS
    <3>1. mode'[q] = mode[q] /\ q # p
      BY <2>1 DEF TypeOK
    <3>2. /\ Cardinality(Children(q)') <= Cardinality(Children(q))
          /\ Cardinality(Children(q)') \in Nat /\ Cardinality(Children(q)) \in Nat
      BY <2>2, <3>1, Counting DEF Children
    <3>3. Cardinality(Children(q)) <= Owed(q) /\ Owed(q)' = Owed(q) /\ Owed(q) \in Nat
      BY <1>0, <2>1, <3>1 DEF Owed, TypeOK
    <3> QED BY <3>2, <3>3
  <2>4. \A q \in Proc : mode'[q] \in {"free", "zombie"} => Children(q)' = {}
    BY <2>1, <2>2 DEF Reaping, TypeOK
  <2>5. mode'[Root] \in {"console", "waiting"}
    BY <2>1, ProcAssumption DEF Reaping, TypeOK
  <2> QED BY <2>3, <2>4, <2>5 DEF Reaping, ChildrenReaped, Owed
<1>7. ASSUME NEW p \in Proc, EditLine(p) \/ RunBuiltin(p) \/ Reboot(p) PROVE Reaping'
  BY <1>1, <1>7 DEF EditLine, RunBuiltin, Reboot
<1>8. ASSUME NEW p \in Proc, ForkFails(p) PROVE Reaping'
  BY <1>2, <1>4, <1>8 DEF ForkFails
<1>9. ASSUME NEW p \in Proc, Exec(p) \/ ExecFails(p) PROVE Reaping'
  BY <1>4, <1>9 DEF Exec, ExecFails
<1>10. ASSUME NEW p \in Proc, WaitNoChild(p) PROVE Reaping'
  BY <1>4, <1>10 DEF WaitNoChild, Returned
<1>11. ASSUME NEW p \in Proc, RaiseError(p) \/ ProgramExit(p) \/ Interrupt(p) PROVE Reaping'
  BY <1>11, ExitReaps DEF RaiseError, ProgramExit, Interrupt
<1>12. CASE (\E ev \in Input : Type(ev)) \/ UNCHANGED vars
  BY <1>1, <1>12 DEF Type, vars
<1> QED
  BY <1>3, <1>5, <1>6, <1>7, <1>8, <1>9, <1>10, <1>11, <1>12
     DEF Next, Keyboard, Step, Handle, Outside

\* Whatever programs fork and signals kill, runproc reaps one child for each it forks: a
\* console has no children but the one it waits for and, if it is pid 1, the orphans.
THEOREM ConsolesReap == Spec => []ChildrenReaped
<1>1. Init => Reaping
  <2> SUFFICES ASSUME Init PROVE Reaping
    OBVIOUS
  <2>1. \A p \in Proc : Children(p) = {}
    BY ProcAssumption DEF Init, Children
  <2>2. \A p \in Proc : Cardinality(Children(p)) = 0
    BY <2>1, FS_EmptySet
  <2>3. adopted = 0 /\ mode[Root] = "console"
    BY ProcAssumption DEF Init
  <2> QED BY <2>1, <2>2, <2>3 DEF Reaping, ChildrenReaped
<1>2. TypeOK /\ Reaping /\ [Next]_vars => Reaping'
  BY ReapingStep
<1>3. Reaping => ChildrenReaped
  BY DEF Reaping
<1> QED BY <1>1, <1>2, <1>3, TypeCorrect, PTL DEF Spec
=============================================================================
