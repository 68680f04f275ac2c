------------------------------ MODULE Console ------------------------------
(***************************************************************************)
(* The console of ljos as a system of processes.  Process Root is pid 1:   *)
(* init.c runs boot.lua, which ends in runconsole.  A command that runs a  *)
(* program forks (runproc); the child either becomes the program or, when  *)
(* execve fails, returns from runproc and is a second console that shares  *)
(* the keyboard descriptor with its parent.  The kernel's part (evdev      *)
(* buffer, fork, wait, reparenting to pid 1) is modelled from the use the  *)
(* code makes of it.                                                       *)
(***************************************************************************)
EXTENDS LineEditor, FiniteSets

CONSTANTS
  Proc,         \* slots of the process table
  Root,         \* pid 1
  None,         \* no parent
  RunLines,     \* lines whose command calls runproc
  Installed,    \* those of them whose program execve can start
  RaiseLines,   \* lines whose command raises a Lua error
  RebootLines,  \* lines whose command calls S.reboot
  Daemons,      \* programs may fork
  Interrupts,   \* SIGINT may reach a Lua process
  EvCap,        \* events the evdev buffer of kybdfd holds
  Input,        \* the events this keyboard can produce
  MaxTyped      \* bound: how many of them it produces

ASSUME ProcAssumption == IsFiniteSet(Proc) /\ Root \in Proc /\ None \notin Proc

ASSUME LineAssumption ==
  /\ RunLines \subseteq Seq(Char)
  /\ Installed \subseteq RunLines
  /\ (RunLines \cup RaiseLines) \cap RebootLines = {}
  /\ RunLines \cap RaiseLines = {}

ASSUME BoundAssumption ==
  EvCap \in Nat /\ EvCap >= 2 /\ MaxTyped \in Nat /\ Input \subseteq Event

ASSUME EnvironmentAssumption == Daemons \in BOOLEAN /\ Interrupts \in BOOLEAN

VARIABLES
  system,     \* "up", "rebooted", or "panic" once pid 1 has died
  evq,        \* unread events of kybdfd, one buffer for every fork of the console
  held,       \* keys that are physically down
  typed,      \* number of events produced so far
  dropped,    \* the buffer has overflowed
  mode,       \* what each process is doing
  parent,     \* its parent process
  ed,         \* its copy of the locals of runconsole
  processes,  \* its copy of the global process registry
  adopted     \* children pid 1 has inherited from dead processes

vars == <<system, evq, held, typed, dropped, mode, parent, ed, processes, adopted>>

(***************************************************************************)
(*  "console"  in the loop of runconsole                                   *)
(*  "child"    forked by runproc, before execve                            *)
(*  "waiting"  in S.wait() of runproc                                      *)
(*  "program"  replaced by execve, or started by a program                 *)
(*  "zombie"   dead, not yet reaped                                        *)
(***************************************************************************)
Mode == {"free", "console", "child", "waiting", "program", "zombie"}

\* processes.active is nil or the id of an entry of processes.list; 0 stands for nil.
Registry == [ids : Nat, active : Nat, list : SUBSET Nat]

NoProcesses == [ids |-> 0, active |-> 0, list |-> {}]

process_new(r) ==
  [ids |-> r.ids + 1, active |-> r.ids + 1, list |-> r.list \cup {r.ids + 1}]

\* Faulty variant of process_end: the active id is not cleared.
process_end_KeepActive(r, id) == [r EXCEPT !.list = @ \ {id}]

process_end(r, id) ==
  [ids |-> r.ids, active |-> IF r.active = id THEN 0 ELSE r.active, list |-> r.list \ {id}]

Children(p) == {c \in Proc : parent[c] = p}

Init ==
  /\ system = "up"
  /\ evq = <<>> /\ held = {} /\ typed = 0 /\ dropped = FALSE
  /\ mode = [p \in Proc |-> IF p = Root THEN "console" ELSE "free"]
  /\ parent = [p \in Proc |-> None]
  /\ ed = [p \in Proc |-> Fresh]
  /\ processes = [p \in Proc |-> NoProcesses]
  /\ adopted = 0

-----------------------------------------------------------------------------
(***************************************************************************)
(* The keyboard.  A full evdev buffer is emptied but for a SYN_DROPPED     *)
(* marker and the newest event.                                            *)
(***************************************************************************)
Deliver(q, ev) ==
  IF Len(q) < EvCap THEN Append(q, ev)
                    ELSE <<[key |-> "SYN", value |-> 0], ev>>

Type(ev) ==
  /\ system = "up" /\ typed < MaxTyped
  /\ ev.key # "SYN" => ((ev.value = 1) <=> (ev.key \notin held))
  /\ held' = IF Released(ev) THEN held \ {ev.key} ELSE held \cup {ev.key}
  /\ evq' = Deliver(evq, ev)
  /\ dropped' = (dropped \/ Len(evq) >= EvCap)
  /\ typed' = typed + 1
  /\ UNCHANGED <<system, mode, parent, ed, processes, adopted>>

(***************************************************************************)
(* The end of a process.  Pid 1 must not die; the children of any other    *)
(* process become children of pid 1.  The memory of the dead is gone.      *)
(***************************************************************************)
Exit(p) ==
  IF p = Root
  THEN /\ system' = "panic"
       /\ UNCHANGED <<mode, parent, ed, processes, adopted>>
  ELSE /\ mode' = [mode EXCEPT ![p] = "zombie"]
       /\ parent' = [c \in Proc |-> IF parent[c] = p THEN Root ELSE parent[c]]
       /\ adopted' = adopted + Cardinality(Children(p))
       /\ ed' = [ed EXCEPT ![p] = Fresh]
       /\ processes' = [processes EXCEPT ![p] = NoProcesses]
       /\ UNCHANGED system

-----------------------------------------------------------------------------
(***************************************************************************)
(* One iteration of the loop of runconsole, in which read_event got an     *)
(* event.  The descriptor is non-blocking: without an event, or with       *)
(* processes.active set, the iteration only sleeps.                        *)
(***************************************************************************)
ReadEvent(p) ==
  /\ system = "up" /\ mode[p] = "console" /\ processes[p].active = 0
  /\ evq # <<>>
  /\ evq' = Tail(evq)
  /\ UNCHANGED <<held, typed, dropped>>

EditLine(p) ==
  /\ ReadEvent(p)
  /\ ~Submits(ed[p], Head(evq)) /\ ~Raises(Head(evq))
  /\ ed' = [ed EXCEPT ![p] = Edit(@, Head(evq))]
  /\ UNCHANGED <<system, mode, parent, processes, adopted>>

\* A command that changes nothing modelled, a usage message, or no command at all.
\* cmd would block in a shell, but no line can hold its argument.
RunBuiltin(p) ==
  /\ ReadEvent(p)
  /\ Submits(ed[p], Head(evq))
  /\ ed[p].line \notin RunLines \cup RaiseLines \cup RebootLines
  /\ ed' = [ed EXCEPT ![p] = Completed(@)]
  /\ UNCHANGED <<system, mode, parent, processes, adopted>>

Reboot(p) ==
  /\ ReadEvent(p)
  /\ Submits(ed[p], Head(evq)) /\ ed[p].line \in RebootLines
  /\ system' = "rebooted"
  /\ UNCHANGED <<mode, parent, ed, processes, adopted>>

(***************************************************************************)
(* A Lua error leaves runconsole and boot.lua.  init.c reports it, closes  *)
(* the Lua state and jumps back to never_leave, where it uses the closed   *)
(* state: the process ends there.                                          *)
(***************************************************************************)
RaiseError(p) ==
  /\ ReadEvent(p)
  /\ \/ Raises(Head(evq))
     \/ Submits(ed[p], Head(evq)) /\ ed[p].line \in RaiseLines
  /\ Exit(p)

\* exec, strace, dofile and ctest, past their checks that the file is there.
Launches(e, ev) == Submits(e, ev) /\ e.line \in RunLines

\* Faulty variant of Fork: the parent does not wait.
Fork_NoWait(p, c) ==
  /\ ReadEvent(p)
  /\ Launches(ed[p], Head(evq))
  /\ mode[c] = "free"
  /\ mode' = [mode EXCEPT ![c] = "child"]
  /\ parent' = [parent EXCEPT ![c] = p]
  /\ ed' = [ed EXCEPT ![c] = ed[p], ![p] = Completed(@)]
  /\ processes' = [processes EXCEPT ![c] = processes[p]]
  /\ UNCHANGED <<system, adopted>>

\* runproc: the child is a copy of the console, the parent waits for any child.
Fork(p, c) ==
  /\ ReadEvent(p)
  /\ Launches(ed[p], Head(evq))
  /\ mode[c] = "free"
  /\ mode' = [mode EXCEPT ![p] = "waiting", ![c] = "child"]
  /\ parent' = [parent EXCEPT ![c] = p]
  /\ ed' = [ed EXCEPT ![c] = ed[p]]
  /\ processes' = [processes EXCEPT ![c] = processes[p]]
  /\ UNCHANGED <<system, adopted>>

\* S.fork() returned nil, which runproc does not tell from a parent's pid.
ForkFails(p) ==
  /\ ReadEvent(p)
  /\ Launches(ed[p], Head(evq))
  /\ \A c \in Proc : mode[c] # "free"
  /\ mode' = [mode EXCEPT ![p] = "waiting"]
  /\ UNCHANGED <<system, parent, ed, processes, adopted>>

Exec(c) ==
  /\ system = "up" /\ mode[c] = "child" /\ ed[c].line \in Installed
  /\ mode' = [mode EXCEPT ![c] = "program"]
  /\ ed' = [ed EXCEPT ![c] = Fresh]
  /\ processes' = [processes EXCEPT ![c] = NoProcesses]
  /\ UNCHANGED <<system, evq, held, typed, dropped, parent, adopted>>

\* execve came back: the child leaves runproc and carries on in runconsole.
ExecFails(c) ==
  /\ system = "up" /\ mode[c] = "child" /\ ed[c].line \notin Installed
  /\ mode' = [mode EXCEPT ![c] = "console"]
  /\ ed' = [ed EXCEPT ![c] = Completed(@)]
  /\ processes' = [processes EXCEPT ![c] = process_end(process_new(@), @.ids + 1)]
  /\ UNCHANGED <<system, evq, held, typed, dropped, parent, adopted>>

Returned(p) ==
  /\ mode[p] = "waiting"
  /\ ed' = [ed EXCEPT ![p] = Completed(@)]
  /\ UNCHANGED <<system, evq, held, typed, dropped, processes, adopted>>

\* S.wait() reaps whichever child is dead, not the one runproc forked.
Wait(p) ==
  /\ system = "up" /\ Returned(p)
  /\ \E z \in Children(p) :
       /\ mode[z] = "zombie"
       /\ mode' = [mode EXCEPT ![p] = "console", ![z] = "free"]
       /\ parent' = [parent EXCEPT ![z] = None]

\* ECHILD: only after a failed fork.
WaitNoChild(p) ==
  /\ system = "up" /\ Returned(p)
  /\ Children(p) = {}
  /\ mode' = [mode EXCEPT ![p] = "console"]
  /\ UNCHANGED parent

-----------------------------------------------------------------------------
(***************************************************************************)
(* The programs and the signals, which the console does not control.       *)
(***************************************************************************)
ProgramExit(p) ==
  /\ system = "up" /\ mode[p] = "program"
  /\ Exit(p)
  /\ UNCHANGED <<evq, held, typed, dropped>>

ProgramFork(p, c) ==
  /\ Daemons /\ system = "up" /\ mode[p] = "program" /\ mode[c] = "free"
  /\ mode' = [mode EXCEPT ![c] = "program"]
  /\ parent' = [parent EXCEPT ![c] = p]
  /\ UNCHANGED <<system, evq, held, typed, dropped, ed, processes, adopted>>

\* laction hands lua_sethook the global state pointer that nothing ever sets.
Interrupt(p) ==
  /\ Interrupts /\ system = "up" /\ mode[p] \in {"console", "child", "waiting"}
  /\ Exit(p)
  /\ UNCHANGED <<evq, held, typed, dropped>>

-----------------------------------------------------------------------------
Keyboard == \E ev \in Input : Type(ev)

Handle(p) ==
  \/ EditLine(p) \/ RunBuiltin(p) \/ Reboot(p) \/ RaiseError(p)
  \/ (\E c \in Proc : Fork(p, c)) \/ ForkFails(p)

Step(p) ==
  \/ Handle(p)
  \/ Exec(p) \/ ExecFails(p)
  \/ Wait(p) \/ WaitNoChild(p)

Outside(p) ==
  \/ ProgramExit(p)
  \/ \E c \in Proc : ProgramFork(p, c)
  \/ Interrupt(p)

Next == Keyboard \/ \E p \in Proc : Step(p) \/ Outside(p)

\* The scheduler runs every process; nothing obliges the user, a program or a signal.
Fairness == \A p \in Proc : WF_vars(Step(p))

Spec == Init /\ [][Next]_vars /\ Fairness

-----------------------------------------------------------------------------
TypeOK ==
  /\ system \in {"up", "rebooted", "panic"}
  /\ evq \in Seq(Event) /\ held \in SUBSET Key
  /\ typed \in Nat /\ dropped \in BOOLEAN /\ adopted \in Nat
  /\ mode \in [Proc -> Mode]
  /\ parent \in [Proc -> Proc \cup {None}]
  /\ ed \in [Proc -> Editor]
  /\ processes \in [Proc -> Registry]

(***************************************************************************)
(* As long as no program forks and no signal arrives, S.wait() is as good  *)
(* as waiting for the child that runproc forked: at any time at most one   *)
(* process is a console, a child on its way to execve or a running         *)
(* program.  So two consoles never split one line's keys between them, and *)
(* a program never runs behind a live prompt, however many consoles failed *)
(* execves have stacked up.                                                *)
(***************************************************************************)
Foreground == {p \in Proc : mode[p] \in {"console", "child", "program"}}

SingleForeground == \A p, q \in Foreground : p = q

(***************************************************************************)
(* Why: the live processes form a chain.  Only a waiting process has a     *)
(* child, it has one, and a single process is the tip of the chain.        *)
(***************************************************************************)
Undisturbed == ~Daemons /\ ~Interrupts

Tip(p) == \/ mode[p] \in {"console", "child", "program", "zombie"}
          \/ mode[p] = "waiting" /\ Children(p) = {}

Chain ==
  /\ \A p, q \in Proc : Tip(p) /\ Tip(q) => p = q
  /\ \A c \in Proc : parent[c] # None => mode[c] # "free" /\ mode[parent[c]] = "waiting"
  /\ \A b, c \in Proc : parent[b] = parent[c] /\ parent[b] # None => b = c

(***************************************************************************)
(* A console only leaves children behind that pid 1 inherited: every call  *)
(* of runproc reaps one child for the one it forked, also when it reaps    *)
(* somebody else's and when fork fails, so the zombies that nothing else   *)
(* in ljos collects are bounded by the orphans of the programs.            *)
(***************************************************************************)
ChildrenReaped ==
  \A p \in Proc : mode[p] \in {"console", "child", "waiting"} =>
    Cardinality(Children(p)) <= (IF p = Root THEN adopted ELSE 0)
                              + (IF mode[p] = "waiting" THEN 1 ELSE 0)

(***************************************************************************)
(* A process in the loop of runconsole reads the keyboard: the registry    *)
(* entry that a forked child made of itself is gone when its execve has    *)
(* failed, else processes.active would keep that console deaf for ever     *)
(* while its parent waits for it.                                          *)
(***************************************************************************)
NoDeafConsole ==
  \A p \in Proc : mode[p] = "console" =>
    processes[p].active = 0 /\ processes[p].list = {}

(***************************************************************************)
(* UP never recalls nil or an empty line, in any copy of the console:      *)
(* history_select, which is never reset, stays within the history.         *)
(***************************************************************************)
HistoryRecallable ==
  \A p \in Proc :
    /\ ed[p].history_select <= Len(ed[p].history)
    /\ \A i \in 1..Len(ed[p].history) : ed[p].history[i] # <<>>

\* The value mod_shift of p will have when p has read all that is in the buffer.
ShiftPending(p) ==
  \/ /\ ed[p].mod_shift
     /\ \A i \in 1..Len(evq) : evq[i].key \notin ShiftKeys
  \/ \E i \in 1..Len(evq) :
       /\ evq[i].key \in ShiftKeys /\ ~Released(evq[i])
       /\ \A j \in (i + 1)..Len(evq) : evq[j].key \notin ShiftKeys

(***************************************************************************)
(* Shift does not stick: when neither Shift key is down, the console of    *)
(* pid 1 will type lower case once it has caught up with the buffer, also  *)
(* with the keys that went to the buffer while a program was running, and  *)
(* with one Shift key pressed over the other.  It needs that the buffer    *)
(* never overflowed and that no failed execve made another console read    *)
(* the release (Installed = RunLines).                                     *)
(***************************************************************************)
NoStuckShift ==
  (system = "up" /\ ~dropped /\ held \cap ShiftKeys = {}) => ~ShiftPending(Root)

(***************************************************************************)
(* Why: with every program installed, nothing but pid 1 ever reads.        *)
(***************************************************************************)
RootReads ==
  /\ mode[Root] \in {"console", "waiting"}
  /\ \A p \in Proc \ {Root} :
       /\ mode[p] \notin {"console", "waiting"}
       /\ mode[p] = "child" => ed[p].line \in RunLines

(***************************************************************************)
(* The processes of the console never all wait for each other: if programs *)
(* do not run for ever, everything typed is read in the end, unless the    *)
(* machine stops.                                                          *)
(***************************************************************************)
KeyboardServed ==
  []<>(\A p \in Proc : mode[p] # "program")
    => (evq # <<>> ~> (evq = <<>> \/ system # "up"))

-----------------------------------------------------------------------------
(***************************************************************************)
(* What the repository says of the console, and the code does not do.      *)
(***************************************************************************)

\* console.lua:21 "if we have forked we need to fail in main thread not fork".
ForkedChildNeverConsole == \A p \in Proc \ {Root} : mode[p] # "console"

\* README.md:157, help for a single command ("help <command>"): SPACE reaches the line.
SpaceSeparatesWords ==
  [][\A p \in Proc :
       ReadEvent(p) /\ Head(evq).key = "SPACE" /\ Released(Head(evq))
         => Len(ed'[p].line) = Len(ed[p].line) + 1]_vars

\* init.c:94-106, never_leave and "Should never get here!!": pid 1 restarts boot.lua.
NeverLeave == system # "panic"
=============================================================================
