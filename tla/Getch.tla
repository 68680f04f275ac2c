------------------------------- MODULE Getch -------------------------------
(***************************************************************************)
(* apps/getch/getch.c: getch_blocking and getch_non_blocking in processes  *)
(* that were forked from one another and so share the terminal and the     *)
(* open file behind stdin.  Both functions save a setting, change it, read *)
(* a key and restore the setting, one system call after the other.  The    *)
(* terminal and its line discipline are the kernel's.                      *)
(***************************************************************************)
EXTENDS Naturals

CONSTANTS
  Proc,     \* the processes that share the terminal
  Nobody,   \* no process
  MaxTyped  \* bound: keys waiting in the terminal

ASSUME ProcAssumption == Nobody \notin Proc /\ MaxTyped \in Nat

Setting == {"attr", "flag"}  \* struct termios, and F_GETFL of stdin

\* ICANON | ECHO set or clear; O_NONBLOCK clear or set.
Mode == {"canonical", "raw", "blocking", "nonblocking"}

Origin == [s \in Setting |-> IF s = "attr" THEN "canonical" ELSE "blocking"]

\* The step a process takes next.
BlockingStep == {"b_raw", "b_read", "b_attr"}
NonBlockingStep == {"n_flag", "n_get", "n_raw", "n_read", "n_attr", "n_restore"}

VARIABLES
  pc,      \* where each process is; "idle" outside both functions
  value,   \* the two settings
  saved,   \* oldt and flags of each process
  unread,  \* keys typed and not read
  line,    \* how many of them belong to a line ended by ENTER
  hup,     \* the terminal is gone: read returns 0
  opener,  \* ghost: as in SaveRestore, for each setting
  lost,    \* ghost: as in SaveRestore, for each setting
  met      \* ghost: processes that shared the flags with another in their call

tty == <<unread, line, hup>>
vars == <<pc, value, saved, tty, opener, lost, met>>

\* The processes that have saved a setting and not restored it.
Inside(s) ==
  {p \in Proc : pc[p] \in IF s = "attr"
                            THEN BlockingStep \cup {"n_raw", "n_read", "n_attr"}
                            ELSE NonBlockingStep}

Init ==
  /\ pc = [p \in Proc |-> "idle"]
  /\ value = Origin
  /\ saved = [s \in Setting |-> [p \in Proc |-> Origin[s]]]
  /\ unread = 0 /\ line = 0 /\ hup = FALSE
  /\ opener = [s \in Setting |-> Nobody]
  /\ lost = [s \in Setting |-> FALSE]
  /\ met = {}

-----------------------------------------------------------------------------
Goto(p, from, to) == pc[p] = from /\ pc' = [pc EXCEPT ![p] = to]

\* tcgetattr into oldt, or F_GETFL into flags.
SaveSetting(p, s) ==
  /\ saved' = [saved EXCEPT ![s][p] = value[s]]
  /\ opener' = IF Inside(s) = {} THEN [opener EXCEPT ![s] = p] ELSE opener
  /\ UNCHANGED <<value, tty, lost>>

\* tcsetattr with newt, or F_SETFL with O_NONBLOCK.
ChangeSetting(s, v) ==
  /\ value' = [value EXCEPT ![s] = v]
  /\ UNCHANGED <<saved, tty, opener, lost, met>>

\* The locals die with the call.
Leave(p, s) ==
  /\ opener' = IF opener[s] = p THEN [opener EXCEPT ![s] = Nobody] ELSE opener
  /\ saved' = [saved EXCEPT ![s][p] = Origin[s]]

\* tcsetattr with oldt, or F_SETFL with flags.
RestoreSetting(p, s) ==
  /\ value' = [value EXCEPT ![s] = saved[s][p]]
  /\ Leave(p, s)
  /\ lost' = [lost EXCEPT ![s] = @ \/ (opener[s] = p /\ Inside(s) # {p})]
  /\ UNCHANGED tty

\* A read can take a key: a raw terminal gives it at once, a canonical one after ENTER.
Ready == IF value["attr"] = "raw" THEN unread > 0 ELSE line > 0

\* Faulty variant of ReadsKey: stdin stays buffered, and a read swallows all that is there.
ReadsKey_Buffered ==
  /\ ~hup /\ Ready
  /\ unread' = 0
  /\ line' = IF line = 0 THEN 0 ELSE line - 1
  /\ UNCHANGED hup

\* What read and getchar find: a key, no key, or the end of the file (hup).
ReadsKey ==
  /\ ~hup /\ Ready
  /\ unread' = unread - 1
  /\ line' = IF line = 0 THEN 0 ELSE line - 1
  /\ UNCHANGED hup

ReadFails == ~hup /\ ~Ready /\ value["flag"] = "nonblocking"

-----------------------------------------------------------------------------
\* getch_blocking.  setbuf only decides how much stdio reads ahead: one character.
BlockingSave(p) == Goto(p, "idle", "b_raw") /\ SaveSetting(p, "attr") /\ UNCHANGED met

BlockingRaw(p) == Goto(p, "b_raw", "b_read") /\ ChangeSetting("attr", "raw")

BlockingKey(p) ==
  Goto(p, "b_read", "b_attr") /\ ReadsKey /\ UNCHANGED <<value, saved, opener, lost, met>>

\* getchar returns EOF, also when somebody has set O_NONBLOCK and no key is there.
BlockingEof(p) ==
  /\ Goto(p, "b_read", "b_attr")
  /\ ReadFails \/ hup
  /\ UNCHANGED <<value, saved, tty, opener, lost, met>>

\* Faulty variant of BlockingRestore: the attributes are set back to the changed ones.
BlockingRestore_Raw(p) ==
  /\ Goto(p, "b_attr", "idle")
  /\ Leave(p, "attr")
  /\ lost' = [lost EXCEPT !["attr"] = @ \/ (opener["attr"] = p /\ Inside("attr") # {p})]
  /\ UNCHANGED <<value, tty, met>>

BlockingRestore(p) ==
  Goto(p, "b_attr", "idle") /\ RestoreSetting(p, "attr") /\ UNCHANGED met

\* getch_non_blocking.  A process that is here with another shares the flags with it.
NonBlockingSave(p) ==
  /\ Goto(p, "idle", "n_flag")
  /\ SaveSetting(p, "flag")
  /\ met' = IF Inside("flag") = {} THEN met ELSE met \cup Inside("flag") \cup {p}

\* Faulty variant of NonBlockingFlag: O_NONBLOCK is left out.
NonBlockingFlag_Blocking(p) ==
  Goto(p, "n_flag", "n_get") /\ ChangeSetting("flag", "blocking")

NonBlockingFlag(p) == Goto(p, "n_flag", "n_get") /\ ChangeSetting("flag", "nonblocking")

NonBlockingGet(p) == Goto(p, "n_get", "n_raw") /\ SaveSetting(p, "attr") /\ UNCHANGED met

NonBlockingRaw(p) == Goto(p, "n_raw", "n_read") /\ ChangeSetting("attr", "raw")

\* *outch is the key, 0 if read fails, and at the end of the file, where read returns 0, the
\* uninitialised ch: any value.  What the caller makes of it is not modelled.
NonBlockingRead(p) ==
  /\ Goto(p, "n_read", "n_attr")
  /\ ReadsKey \/ ((ReadFails \/ hup) /\ UNCHANGED tty)
  /\ UNCHANGED <<value, saved, opener, lost, met>>

NonBlockingAttr(p) ==
  Goto(p, "n_attr", "n_restore") /\ RestoreSetting(p, "attr") /\ UNCHANGED met

\* Faulty variant of NonBlockingRestore: O_NONBLOCK stays set.
NonBlockingRestore_Keep(p) ==
  /\ Goto(p, "n_restore", "idle")
  /\ Leave(p, "flag")
  /\ lost' = [lost EXCEPT !["flag"] = @ \/ (opener["flag"] = p /\ Inside("flag") # {p})]
  /\ met' = met \ {p}
  /\ UNCHANGED <<value, tty>>

NonBlockingRestore(p) ==
  Goto(p, "n_restore", "idle") /\ RestoreSetting(p, "flag") /\ met' = met \ {p}

\* ISIG stays set, so ^C ends a process in the middle of either function.
Killed(p) ==
  /\ pc[p] # "idle"
  /\ pc' = [pc EXCEPT ![p] = "idle"]
  /\ opener' = [s \in Setting |-> IF opener[s] = p THEN Nobody ELSE opener[s]]
  /\ lost' = [s \in Setting |-> lost[s] \/ opener[s] = p]
  /\ saved' = [s \in Setting |-> [saved[s] EXCEPT ![p] = Origin[s]]]
  /\ met' = met \ {p}
  /\ UNCHANGED <<value, tty>>

Type(enter) ==
  /\ unread < MaxTyped
  /\ unread' = unread + 1
  /\ line' = IF enter THEN unread + 1 ELSE line
  /\ UNCHANGED <<pc, value, saved, hup, opener, lost, met>>

Hangup ==
  /\ ~hup /\ hup' = TRUE
  /\ UNCHANGED <<pc, value, saved, unread, line, opener, lost, met>>

Call(p) ==
  \/ BlockingRaw(p) \/ BlockingKey(p) \/ BlockingEof(p) \/ BlockingRestore(p)
  \/ NonBlockingFlag(p) \/ NonBlockingGet(p) \/ NonBlockingRaw(p) \/ NonBlockingRead(p)
  \/ NonBlockingAttr(p) \/ NonBlockingRestore(p)

Next ==
  \/ \E p \in Proc : BlockingSave(p) \/ NonBlockingSave(p) \/ Call(p) \/ Killed(p)
  \/ \E enter \in BOOLEAN : Type(enter)
  \/ Hangup

\* The kernel runs every process; a call goes on unless its read has to wait.
Spec == Init /\ [][Next]_vars /\ \A p \in Proc : WF_vars(Call(p))

-----------------------------------------------------------------------------
TypeOK ==
  /\ pc \in [Proc -> {"idle"} \cup BlockingStep \cup NonBlockingStep]
  /\ value \in [Setting -> Mode]
  /\ saved \in [Setting -> [Proc -> Mode]]
  /\ unread \in 0..MaxTyped /\ line \in 0..MaxTyped /\ line <= unread
  /\ hup \in BOOLEAN
  /\ opener \in [Setting -> Proc \cup {Nobody}]
  /\ lost \in [Setting -> BOOLEAN]
  /\ met \subseteq Proc

\* Whatever the calls of several processes do to each other in between, terminal and stdin
\* are as they were found once all have returned, if for each setting the call that was
\* first to save it was also the last to restore it.
Restored ==
  \A s \in Setting : (Inside(s) = {} /\ ~lost[s]) => value[s] = Origin[s]

\* getch_blocking comes back from a live terminal without a key only while another process
\* is inside getch_non_blocking, or after one left O_NONBLOCK behind.
BlockingWaits ==
  [][\A p \in Proc : BlockingEof(p) =>
       hup \/ lost["flag"] \/ Inside("flag") # {}]_vars

\* getch_non_blocking returns, key or no key, unless another process was inside it at the
\* same time: that one may restore the flags before this one has read.
NonBlockingReturns ==
  \A p \in Proc : (pc[p] \in NonBlockingStep) ~> (pc[p] = "idle" \/ p \in met)

\* The attributes of the terminal and the flags of stdin are each borrowed, no more.
Attributes == INSTANCE SaveRestore WITH
  Value <- Mode, Origin <- Origin["attr"], value <- value["attr"], saved <- saved["attr"],
  inside <- Inside("attr"), opener <- opener["attr"], lost <- lost["attr"]
Flags == INSTANCE SaveRestore WITH
  Value <- Mode, Origin <- Origin["flag"], value <- value["flag"], saved <- saved["flag"],
  inside <- Inside("flag"), opener <- opener["flag"], lost <- lost["flag"]
SettingsBorrowed == Attributes!BorrowSpec /\ Flags!BorrowSpec
=============================================================================
