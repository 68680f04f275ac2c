---------------------------- MODULE GetchProofs ----------------------------
(***************************************************************************)
(* For any number of processes, the functions of getch.c do no more to the *)
(* terminal and to stdin than borrow them, and so restore them.            *)
(***************************************************************************)
EXTENDS Getch, TLAPS

\* The types hold at the start.
LEMMA InitType == Init => TypeOK
<1> SUFFICES ASSUME Init PROVE TypeOK
  OBVIOUS
<1>1. \A s \in Setting : Origin[s] \in Mode
  BY DEF Setting, Origin, Mode
<1>2. value \in [Setting -> Mode] /\ saved \in [Setting -> [Proc -> Mode]]
  BY <1>1, Zenon DEF Init, Origin
<1>3. /\ pc \in [Proc -> {"idle"} \cup BlockingStep \cup NonBlockingStep]
      /\ opener \in [Setting -> Proc \cup {Nobody}]
      /\ lost \in [Setting -> BOOLEAN]
  BY Zenon DEF Init
<1>4. unread \in 0..MaxTyped /\ line \in 0..MaxTyped /\ line <= unread /\ hup \in BOOLEAN
  <2>1. unread \in 0..MaxTyped /\ line \in 0..MaxTyped /\ line <= unread
    BY ProcAssumption DEF Init
  <2>2. hup \in BOOLEAN
    BY Zenon DEF Init
  <2> QED
    BY <2>1, <2>2
<1> QED
  BY <1>2, <1>3, <1>4 DEF Init, TypeOK

\* A read keeps the counts of waiting keys.
LEMMA ReadType ==
  ASSUME TypeOK, ReadsKey \/ UNCHANGED tty
  PROVE  /\ unread' \in 0..MaxTyped /\ line' \in 0..MaxTyped /\ line' <= unread'
         /\ hup' \in BOOLEAN
  BY ProcAssumption DEF TypeOK, ReadsKey, Ready, tty

\* Every step keeps the types.
LEMMA NextType == TypeOK /\ [Next]_vars => TypeOK'
<1> SUFFICES ASSUME TypeOK, [Next]_vars PROVE TypeOK'
  OBVIOUS
<1> USE ProcAssumption
<1>1. ASSUME NEW p \in Proc, BlockingSave(p) PROVE TypeOK'
  BY <1>1 DEF TypeOK, BlockingSave, Goto, SaveSetting, tty, BlockingStep, Setting
<1>2. ASSUME NEW p \in Proc, BlockingRaw(p) PROVE TypeOK'
  BY <1>2 DEF TypeOK, BlockingRaw, Goto, ChangeSetting, tty, BlockingStep, Setting, Mode
<1>3. ASSUME NEW p \in Proc, BlockingKey(p) PROVE TypeOK'
  BY <1>3, ReadType DEF TypeOK, BlockingKey, Goto, BlockingStep
<1>4. ASSUME NEW p \in Proc, BlockingEof(p) PROVE TypeOK'
  BY <1>4, ReadType DEF TypeOK, BlockingEof, Goto, BlockingStep
<1>5. ASSUME NEW p \in Proc, BlockingRestore(p) PROVE TypeOK'
  BY <1>5 DEF TypeOK, BlockingRestore, Goto, RestoreSetting, Leave, tty, Setting, Mode, Origin
<1>6. ASSUME NEW p \in Proc, NonBlockingSave(p) PROVE TypeOK'
  BY <1>6 DEF TypeOK, NonBlockingSave, Goto, SaveSetting, tty, NonBlockingStep, Setting, Inside
<1>7. ASSUME NEW p \in Proc, NonBlockingFlag(p) PROVE TypeOK'
  BY <1>7 DEF TypeOK, NonBlockingFlag, Goto, ChangeSetting, tty, NonBlockingStep, Setting, Mode
<1>8. ASSUME NEW p \in Proc, NonBlockingGet(p) PROVE TypeOK'
  BY <1>8 DEF TypeOK, NonBlockingGet, Goto, SaveSetting, tty, NonBlockingStep, Setting
<1>9. ASSUME NEW p \in Proc, NonBlockingRaw(p) PROVE TypeOK'
  BY <1>9 DEF TypeOK, NonBlockingRaw, Goto, ChangeSetting, tty, NonBlockingStep, Setting, Mode
<1>10. ASSUME NEW p \in Proc, NonBlockingRead(p) PROVE TypeOK'
  BY <1>10, ReadType DEF TypeOK, NonBlockingRead, Goto, NonBlockingStep
<1>11. ASSUME NEW p \in Proc, NonBlockingAttr(p) PROVE TypeOK'
  BY <1>11 DEF TypeOK, NonBlockingAttr, Goto, RestoreSetting, Leave, tty, NonBlockingStep,
    Setting, Mode, Origin
<1>12. ASSUME NEW p \in Proc, NonBlockingRestore(p) PROVE TypeOK'
  BY <1>12 DEF TypeOK, NonBlockingRestore, Goto, RestoreSetting, Leave, tty, Setting, Mode,
    Origin
<1>13. ASSUME NEW p \in Proc, Killed(p) PROVE TypeOK'
  BY <1>13 DEF TypeOK, Killed, tty, Setting, Mode, Origin
<1>14. ASSUME NEW enter \in BOOLEAN, Type(enter) PROVE TypeOK'
  BY <1>14 DEF TypeOK, Type
<1>15. CASE Hangup
  BY <1>15 DEF TypeOK, Hangup
<1>16. CASE UNCHANGED vars
  BY <1>16 DEF TypeOK, vars, tty
<1> QED
  BY <1>1, <1>2, <1>3, <1>4, <1>5, <1>6, <1>7, <1>8, <1>9, <1>10, <1>11, <1>12, <1>13, <1>14,
    <1>15, <1>16 DEF Next, Call

-----------------------------------------------------------------------------
Shared(s) == INSTANCE SaveRestore WITH
  Value <- Mode, Origin <- Origin[s], value <- value[s], saved <- saved[s],
  inside <- Inside(s), opener <- opener[s], lost <- lost[s]

\* A process outside has no saved value, and the first borrower is inside.
Local(s) ==
  \A q \in Proc :
    /\ opener[s] = q => q \in Inside(s)
    /\ q \notin Inside(s) => saved[s][q] = Origin[s]

Inv == TypeOK /\ \A s \in Setting : Local(s) /\ Shared(s)!OriginKept

Borrows(s) == [Shared(s)!BorrowNext]_(Shared(s)!borrow)

\* Saving one setting borrows it and leaves the other alone.
LEMMA SaveBorrows ==
  ASSUME TypeOK, NEW p \in Proc, NEW t \in Setting, SaveSetting(p, t), p \notin Inside(t),
         NEW s \in Setting, Local(s),
         Inside(s)' = IF s = t THEN Inside(s) \cup {p} ELSE Inside(s)
  PROVE  Borrows(s) /\ Local(s)'
<1>1. ASSUME s = t PROVE Borrows(s)
  <2>1. Shared(s)!Save(p)
    BY <1>1 DEF TypeOK, SaveSetting, Shared!Save
  <2> QED
    BY <2>1 DEF Borrows, Shared!BorrowNext
<1>2. ASSUME s # t PROVE Borrows(s)
  <2>1. UNCHANGED Shared(s)!borrow
    BY <1>2 DEF TypeOK, SaveSetting, Shared!borrow
  <2> QED
    BY <2>1 DEF Borrows
<1>3. Local(s)'
  <2> SUFFICES ASSUME NEW q \in Proc
               PROVE  /\ opener'[s] = q => q \in Inside(s)'
                      /\ q \notin Inside(s)' => saved'[s][q] = Origin[s]
    BY DEF Local
  <2>1. CASE s = t
    BY <2>1 DEF TypeOK, Local, SaveSetting
  <2>2. CASE s # t
    BY <2>2 DEF TypeOK, Local, SaveSetting
  <2> QED
    BY <2>1, <2>2
<1> QED
  BY <1>1, <1>2, <1>3

\* Only a process that has saved a setting changes it.
LEMMA ChangeBorrows ==
  ASSUME TypeOK, NEW p \in Proc, NEW t \in Setting, NEW v \in Mode, ChangeSetting(t, v),
         p \in Inside(t), NEW s \in Setting, Local(s), Inside(s)' = Inside(s)
  PROVE  Borrows(s) /\ Local(s)'
<1>1. ASSUME s = t PROVE Borrows(s)
  <2>1. Shared(s)!Change(p)
    BY <1>1 DEF TypeOK, ChangeSetting, Shared!Change
  <2> QED
    BY <2>1 DEF Borrows, Shared!BorrowNext
<1>2. ASSUME s # t PROVE Borrows(s)
  <2>1. UNCHANGED Shared(s)!borrow
    BY <1>2 DEF TypeOK, ChangeSetting, Shared!borrow
  <2> QED
    BY <2>1 DEF Borrows
<1>3. Local(s)'
  BY DEF TypeOK, Local, ChangeSetting
<1> QED
  BY <1>1, <1>2, <1>3

\* Restoring one setting gives it back and leaves the other alone.
LEMMA RestoreBorrows ==
  ASSUME TypeOK, NEW p \in Proc, NEW t \in Setting, RestoreSetting(p, t), p \in Inside(t),
         NEW s \in Setting, Local(s),
         Inside(s)' = IF s = t THEN Inside(s) \ {p} ELSE Inside(s)
  PROVE  Borrows(s) /\ Local(s)'
<1>1. ASSUME s = t PROVE Borrows(s)
  <2>1. Origin[s] \in Mode
    BY DEF Origin, Mode, Setting
  <2>2. saved'[s] = [saved[s] EXCEPT ![p] = Origin[s]]
    BY <1>1 DEF TypeOK, RestoreSetting, Leave
  <2>3. Shared(s)!Gone(p)
    BY <1>1, <2>1, <2>2 DEF TypeOK, RestoreSetting, Leave, Shared!Gone
  <2>4. Shared(s)!Restore(p)
    BY <1>1, <2>3 DEF TypeOK, RestoreSetting, Leave, Shared!Restore
  <2> QED
    BY <2>4 DEF Borrows, Shared!BorrowNext
<1>2. ASSUME s # t PROVE Borrows(s)
  <2>1. UNCHANGED Shared(s)!borrow
    BY <1>2 DEF TypeOK, RestoreSetting, Leave, Shared!borrow
  <2> QED
    BY <2>1 DEF Borrows
<1>3. Local(s)'
  <2> SUFFICES ASSUME NEW q \in Proc
               PROVE  /\ opener'[s] = q => q \in Inside(s)'
                      /\ q \notin Inside(s)' => saved'[s][q] = Origin[s]
    BY DEF Local
  <2>1. CASE s = t
    <3>1. opener'[s] = IF opener[s] = p THEN Nobody ELSE opener[s]
      BY <2>1 DEF TypeOK, RestoreSetting, Leave
    <3>2. saved'[s][q] = IF q = p THEN Origin[s] ELSE saved[s][q]
      BY <2>1 DEF TypeOK, RestoreSetting, Leave
    <3> QED
      BY <2>1, <3>1, <3>2, ProcAssumption DEF Local
  <2>2. CASE s # t
    BY <2>2 DEF TypeOK, Local, RestoreSetting, Leave
  <2> QED
    BY <2>1, <2>2
<1> QED
  BY <1>1, <1>2, <1>3

\* A killed process drops what it has borrowed.
LEMMA KilledBorrows ==
  ASSUME TypeOK, NEW p \in Proc, Killed(p), NEW s \in Setting,
         Local(s)
  PROVE  Borrows(s) /\ Local(s)'
<1>1. Inside(s)' = Inside(s) \ {p}
  BY DEF TypeOK, Killed, Inside, BlockingStep, NonBlockingStep
<1>2. ASSUME p \in Inside(s) PROVE Borrows(s)
  <2>1. Origin[s] \in Mode
    BY DEF Origin, Mode, Setting
  <2>2. saved'[s] = [saved[s] EXCEPT ![p] = Origin[s]]
    BY DEF TypeOK, Killed
  <2>3. Shared(s)!Gone(p)
    BY <1>1, <2>1, <2>2 DEF TypeOK, Killed, Shared!Gone
  <2>4. Shared(s)!Drop(p)
    BY <1>2, <2>3 DEF TypeOK, Killed, Shared!Drop
  <2> QED
    BY <2>4 DEF Borrows, Shared!BorrowNext
<1>3. ASSUME p \notin Inside(s) PROVE Borrows(s)
  <2>1. saved'[s] = [saved[s] EXCEPT ![p] = Origin[s]] /\ saved[s][p] = Origin[s]
    BY <1>3 DEF TypeOK, Local, Killed
  <2>2. saved'[s] = saved[s]
    BY <2>1 DEF TypeOK
  <2>3. UNCHANGED Shared(s)!borrow
    BY <1>1, <1>3, <2>2 DEF TypeOK, Local, Killed, Shared!borrow
  <2> QED
    BY <2>3 DEF Borrows
<1>4. Local(s)'
  <2> SUFFICES ASSUME NEW q \in Proc
               PROVE  /\ opener'[s] = q => q \in Inside(s)'
                      /\ q \notin Inside(s)' => saved'[s][q] = Origin[s]
    BY DEF Local
  <2>1. opener'[s] = IF opener[s] = p THEN Nobody ELSE opener[s]
    BY DEF TypeOK, Killed
  <2>2. saved'[s][q] = IF q = p THEN Origin[s] ELSE saved[s][q]
    BY DEF TypeOK, Killed
  <2> QED
    BY <1>1, <2>1, <2>2, ProcAssumption DEF Local
<1> QED
  BY <1>2, <1>3, <1>4

\* Steps that leave the settings and their borrowers alone.
LEMMA OthersBorrow ==
  ASSUME NEW s \in Setting, Local(s), UNCHANGED <<value, saved, opener, lost>>,
         Inside(s)' = Inside(s)
  PROVE  Borrows(s) /\ Local(s)'
  BY DEF Borrows, Local, Shared!borrow

\* Each step of the program borrows, changes or restores a setting that way.
LEMMA NextBorrows ==
  ASSUME TypeOK, [Next]_vars, NEW s \in Setting, Local(s)
  PROVE  Borrows(s) /\ Local(s)'
<1> DEFINE Goal == Borrows(s) /\ Local(s)'
<1>1. ASSUME NEW p \in Proc, BlockingSave(p) PROVE Goal
  <2>1. /\ p \notin Inside("attr")
        /\ Inside(s)' = IF s = "attr" THEN Inside(s) \cup {p} ELSE Inside(s)
    BY <1>1 DEF BlockingSave, Goto, Inside, TypeOK, BlockingStep, NonBlockingStep, Setting
  <2> QED
    BY <1>1, <2>1, SaveBorrows DEF BlockingSave, Setting
<1>2. ASSUME NEW p \in Proc, BlockingRaw(p) PROVE Goal
  <2>1. p \in Inside("attr") /\ Inside(s)' = Inside(s)
    BY <1>2 DEF BlockingRaw, Goto, Inside, TypeOK, BlockingStep, NonBlockingStep, Setting
  <2> QED
    BY <1>2, <2>1, ChangeBorrows DEF BlockingRaw, Setting, Mode
<1>3. ASSUME NEW p \in Proc, BlockingKey(p) PROVE Goal
  <2>1. Inside(s)' = Inside(s)
    BY <1>3 DEF BlockingKey, Goto, Inside, TypeOK, BlockingStep, NonBlockingStep, Setting
  <2> QED
    BY <1>3, <2>1, OthersBorrow DEF BlockingKey
<1>4. ASSUME NEW p \in Proc, BlockingEof(p) PROVE Goal
  <2>1. Inside(s)' = Inside(s)
    BY <1>4 DEF BlockingEof, Goto, Inside, TypeOK, BlockingStep, NonBlockingStep, Setting
  <2> QED
    BY <1>4, <2>1, OthersBorrow DEF BlockingEof
<1>5. ASSUME NEW p \in Proc, BlockingRestore(p) PROVE Goal
  <2>1. /\ p \in Inside("attr")
        /\ Inside(s)' = IF s = "attr" THEN Inside(s) \ {p} ELSE Inside(s)
    BY <1>5 DEF BlockingRestore, Goto, Inside, TypeOK, BlockingStep, NonBlockingStep, Setting
  <2> QED
    BY <1>5, <2>1, RestoreBorrows DEF BlockingRestore, Setting
<1>6. ASSUME NEW p \in Proc, NonBlockingSave(p) PROVE Goal
  <2>1. /\ p \notin Inside("flag")
        /\ Inside(s)' = IF s = "flag" THEN Inside(s) \cup {p} ELSE Inside(s)
    BY <1>6 DEF NonBlockingSave, Goto, Inside, TypeOK, BlockingStep, NonBlockingStep, Setting
  <2> QED
    BY <1>6, <2>1, SaveBorrows DEF NonBlockingSave, Setting
<1>7. ASSUME NEW p \in Proc, NonBlockingFlag(p) PROVE Goal
  <2>1. p \in Inside("flag") /\ Inside(s)' = Inside(s)
    BY <1>7 DEF NonBlockingFlag, Goto, Inside, TypeOK, BlockingStep, NonBlockingStep, Setting
  <2> QED
    BY <1>7, <2>1, ChangeBorrows DEF NonBlockingFlag, Setting, Mode
<1>8. ASSUME NEW p \in Proc, NonBlockingGet(p) PROVE Goal
  <2>1. /\ p \notin Inside("attr")
        /\ Inside(s)' = IF s = "attr" THEN Inside(s) \cup {p} ELSE Inside(s)
    BY <1>8 DEF NonBlockingGet, Goto, Inside, TypeOK, BlockingStep, NonBlockingStep, Setting
  <2> QED
    BY <1>8, <2>1, SaveBorrows DEF NonBlockingGet, Setting
<1>9. ASSUME NEW p \in Proc, NonBlockingRaw(p) PROVE Goal
  <2>1. p \in Inside("attr") /\ Inside(s)' = Inside(s)
    BY <1>9 DEF NonBlockingRaw, Goto, Inside, TypeOK, BlockingStep, NonBlockingStep, Setting
  <2> QED
    BY <1>9, <2>1, ChangeBorrows DEF NonBlockingRaw, Setting, Mode
<1>10. ASSUME NEW p \in Proc, NonBlockingRead(p) PROVE Goal
  <2>1. Inside(s)' = Inside(s)
    BY <1>10 DEF NonBlockingRead, Goto, Inside, TypeOK, BlockingStep, NonBlockingStep, Setting
  <2> QED
    BY <1>10, <2>1, OthersBorrow DEF NonBlockingRead
<1>11. ASSUME NEW p \in Proc, NonBlockingAttr(p) PROVE Goal
  <2>1. /\ p \in Inside("attr")
        /\ Inside(s)' = IF s = "attr" THEN Inside(s) \ {p} ELSE Inside(s)
    BY <1>11 DEF NonBlockingAttr, Goto, Inside, TypeOK, BlockingStep, NonBlockingStep, Setting
  <2> QED
    BY <1>11, <2>1, RestoreBorrows DEF NonBlockingAttr, Setting
<1>12. ASSUME NEW p \in Proc, NonBlockingRestore(p) PROVE Goal
  <2>1. /\ p \in Inside("flag")
        /\ Inside(s)' = IF s = "flag" THEN Inside(s) \ {p} ELSE Inside(s)
    BY <1>12 DEF NonBlockingRestore, Goto, Inside, TypeOK, BlockingStep, NonBlockingStep, Setting
  <2> QED
    BY <1>12, <2>1, RestoreBorrows DEF NonBlockingRestore, Setting
<1>13. ASSUME NEW p \in Proc, Killed(p) PROVE Goal
  BY <1>13, KilledBorrows
<1>14. CASE (\E enter \in BOOLEAN : Type(enter)) \/ Hangup \/ UNCHANGED vars
  <2>1. UNCHANGED <<pc, value, saved, opener, lost>>
    BY <1>14 DEF Type, Hangup, vars
  <2>2. Inside(s)' = Inside(s)
    BY <2>1 DEF Inside
  <2> QED
    BY <2>1, <2>2, OthersBorrow
<1> QED
  BY <1>1, <1>2, <1>3, <1>4, <1>5, <1>6, <1>7, <1>8, <1>9, <1>10, <1>11, <1>12, <1>13, <1>14 DEF Next, Call

\* Borrowing that way keeps the original value where it can be restored from.
LEMMA BorrowKeeps ==
  ASSUME TypeOK, NEW s \in Setting, Local(s), Shared(s)!OriginKept, Borrows(s)
  PROVE  Shared(s)!OriginKept'
<1> USE DEF Shared!OriginKept, TypeOK
<1>0. Inside(s) \subseteq Proc
  BY DEF Inside
<1>1. ASSUME NEW p \in Proc, Shared(s)!Save(p) PROVE Shared(s)!OriginKept'
  BY <1>0, <1>1 DEF Shared!Save
<1>2. ASSUME NEW p \in Proc, Shared(s)!Change(p) PROVE Shared(s)!OriginKept'
  BY <1>0, <1>2 DEF Shared!Change
<1>3. ASSUME NEW p \in Proc, Shared(s)!Restore(p) PROVE Shared(s)!OriginKept'
  BY <1>0, <1>3, ProcAssumption DEF Shared!Restore, Shared!Gone
<1>4. ASSUME NEW p \in Proc, Shared(s)!Drop(p) PROVE Shared(s)!OriginKept'
  BY <1>0, <1>4, ProcAssumption DEF Shared!Drop, Shared!Gone
<1>5. CASE UNCHANGED Shared(s)!borrow
  BY <1>5 DEF Shared!borrow
<1> QED
  BY <1>1, <1>2, <1>3, <1>4, <1>5 DEF Borrows, Shared!BorrowNext

\* The invariant holds at the start.
LEMMA InitInv == Init => Inv
<1> SUFFICES ASSUME Init, NEW s \in Setting PROVE Local(s) /\ Shared(s)!OriginKept
  BY InitType DEF Inv
<1>1. Inside(s) = {}
  BY DEF Init, Inside, BlockingStep, NonBlockingStep
<1>2. opener[s] = Nobody /\ value[s] = Origin[s] /\ \A q \in Proc : saved[s][q] = Origin[s]
  BY DEF Init
<1> QED
  BY <1>1, <1>2, ProcAssumption DEF Local, Shared!OriginKept

\* Every step keeps the invariant.
LEMMA NextInv == Inv /\ [Next]_vars => Inv'
<1> SUFFICES ASSUME Inv, [Next]_vars, NEW s \in Setting
             PROVE  Local(s)' /\ Shared(s)!OriginKept'
  BY NextType DEF Inv
<1> QED
  BY NextBorrows, BorrowKeeps DEF Inv

\* The types of the model are an invariant.
THEOREM TypeCorrect == Spec => []TypeOK
<1> QED
  BY InitType, NextType, PTL DEF Spec

\* When every call has returned, a setting is as it was found, provided that the call that
\* saved it first also restored it last.
THEOREM SettingsRestored == Spec => []Restored
<1>1. Inv => Restored
  BY DEF Inv, Restored, Shared!OriginKept
<1> QED
  BY <1>1, InitInv, NextInv, PTL DEF Spec

\* A blocking getch returns without a key only because of a hangup or of another process.
THEOREM BlockingCallsWait == Spec => BlockingWaits
<1>1. ASSUME Inv, NEW p \in Proc, BlockingEof(p)
      PROVE  hup \/ lost["flag"] \/ Inside("flag") # {}
  <2>1. (Inside("flag") = {} /\ ~lost["flag"]) => value["flag"] = "blocking"
    BY <1>1 DEF Inv, Shared!OriginKept, Setting, Origin
  <2> QED
    BY <1>1, <2>1 DEF BlockingEof, ReadFails
<1>2. Inv /\ [Next]_vars =>
        [\A p \in Proc : BlockingEof(p) => hup \/ lost["flag"] \/ Inside("flag") # {}]_vars
  BY <1>1
<1> QED
  BY <1>2, InitInv, NextInv, PTL DEF Spec, BlockingWaits

\* The functions implement SaveRestore, for the attributes and for the flags.
THEOREM GetchBorrows == Spec => SettingsBorrowed
<1>1. Init => Attributes!BorrowInit /\ Flags!BorrowInit
  <2> SUFFICES ASSUME Init PROVE Attributes!BorrowInit /\ Flags!BorrowInit
    OBVIOUS
  <2>1. \A s \in Setting : Inside(s) = {}
    BY DEF Init, Inside, BlockingStep, NonBlockingStep
  <2>2. \A s \in Setting : saved[s] \in [Proc -> Mode]
    BY InitType DEF TypeOK
  <2>3. \A s \in Setting : value[s] = Origin[s] /\ opener[s] = Nobody /\ lost[s] = FALSE
    BY DEF Init
  <2>4. "attr" \in Setting /\ "flag" \in Setting
    BY DEF Setting
  <2> QED
    BY <2>1, <2>2, <2>3, <2>4 DEF Attributes!BorrowInit, Flags!BorrowInit
<1>2. Inv /\ [Next]_vars => [Attributes!BorrowNext]_(Attributes!borrow)
  <2> SUFFICES ASSUME Inv, [Next]_vars
               PROVE  [Attributes!BorrowNext]_(Attributes!borrow)
    OBVIOUS
  <2>1. "attr" \in Setting /\ Borrows("attr")
    BY NextBorrows DEF Inv, Setting
  <2> QED
    BY <2>1 DEF Borrows, Shared!borrow, Shared!BorrowNext, Shared!Save, Shared!Change,
      Shared!Restore, Shared!Drop, Shared!Gone, Attributes!borrow, Attributes!BorrowNext,
      Attributes!Save, Attributes!Change, Attributes!Restore, Attributes!Drop, Attributes!Gone
<1>3. Inv /\ [Next]_vars => [Flags!BorrowNext]_(Flags!borrow)
  <2> SUFFICES ASSUME Inv, [Next]_vars PROVE [Flags!BorrowNext]_(Flags!borrow)
    OBVIOUS
  <2>1. "flag" \in Setting /\ Borrows("flag")
    BY NextBorrows DEF Inv, Setting
  <2> QED
    BY <2>1 DEF Borrows, Shared!borrow, Shared!BorrowNext, Shared!Save, Shared!Change,
      Shared!Restore, Shared!Drop, Shared!Gone, Flags!borrow, Flags!BorrowNext,
      Flags!Save, Flags!Change, Flags!Restore, Flags!Drop, Flags!Gone
<1> QED
  BY <1>1, <1>2, <1>3, InitInv, NextInv, PTL
  DEF Spec, SettingsBorrowed, Attributes!BorrowSpec, Flags!BorrowSpec
=============================================================================
