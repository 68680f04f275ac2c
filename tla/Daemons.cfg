\* Every program is installed; programs fork, exit and orphan, and SIGINT may arrive.
CONSTANTS
  Printable = {"A"}
  Lower <- MCLower
  Proc = {p1, p2, p3}
  Root = p1
  None = none
  RunLines <- RunSmall
  Installed <- RunSmall
  RaiseLines <- NoLines
  RebootLines <- NoLines
  Daemons = TRUE
  Interrupts = TRUE
  EvCap = 3
  Input <- ShiftInput
  MaxTyped = 8
SPECIFICATION Spec
INVARIANTS ChildrenReaped NoStuckShift
CHECK_DEADLOCK FALSE
