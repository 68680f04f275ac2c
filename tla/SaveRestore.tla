---------------------------- MODULE SaveRestore ----------------------------
(***************************************************************************)
(* A setting that several processes share and each borrows: a process      *)
(* saves the value it finds, may change it, and puts the saved value back. *)
(* Nothing locks the setting.  This is all that the functions of getch.c   *)
(* promise for the attributes of the terminal and for the flags of stdin.  *)
(***************************************************************************)
CONSTANTS
  Proc,    \* the processes
  Nobody,  \* no process, not in Proc
  Value,   \* the values of the setting
  Origin   \* its value before anyone borrows it, one of Value

VARIABLES
  value,   \* the setting
  saved,   \* what each process saved
  inside,  \* the processes that have borrowed it
  opener,  \* the one that borrowed it first, while nobody else had
  lost     \* an opener gave up the original while others kept a copy

borrow == <<value, saved, inside, opener, lost>>

BorrowInit ==
  /\ value = Origin
  /\ saved \in [Proc -> Value]
  /\ inside = {} /\ opener = Nobody /\ lost = FALSE

Save(p) ==
  /\ p \notin inside
  /\ saved' = [saved EXCEPT ![p] = value]
  /\ inside' = inside \cup {p}
  /\ opener' = IF inside = {} THEN p ELSE opener
  /\ UNCHANGED <<value, lost>>

Change(p) ==
  /\ p \in inside
  /\ value' \in Value
  /\ UNCHANGED <<saved, inside, opener, lost>>

\* A process leaves and forgets what it saved.
Gone(p) ==
  /\ inside' = inside \ {p}
  /\ \E v \in Value : saved' = [saved EXCEPT ![p] = v]
  /\ opener' = IF opener = p THEN Nobody ELSE opener

Restore(p) ==
  /\ p \in inside
  /\ value' = saved[p]
  /\ Gone(p)
  /\ lost' = (lost \/ (opener = p /\ inside # {p}))

\* The process ends before it has restored the setting.
Drop(p) ==
  /\ p \in inside
  /\ Gone(p)
  /\ lost' = (lost \/ opener = p)
  /\ UNCHANGED value

BorrowNext == \E p \in Proc : Save(p) \/ Change(p) \/ Restore(p) \/ Drop(p)

BorrowSpec == BorrowInit /\ [][BorrowNext]_borrow

-----------------------------------------------------------------------------
\* While the first borrower is still there it holds the original value, and the setting is
\* back to the original when nobody has borrowed it.
OriginKept ==
  ~lost => IF inside = {} THEN value = Origin
                          ELSE opener \in inside /\ saved[opener] = Origin
=============================================================================
