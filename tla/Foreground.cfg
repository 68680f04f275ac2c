\* No program forks and no signal arrives; one program is installed, one is missing.
CONSTANTS
  Printable = {"A"}
  Lower <- MCLower
  Proc = {p1, p2, p3}
  Root = p1
  None = none
  RunLines <- RunBoth
  Installed <- RunInstalled
  RaiseLines <- MCRaise
  RebootLines <- MCReboot
  Daemons = FALSE
  Interrupts = FALSE
  EvCap = 3
  Input <- CommandInput
  MaxTyped = 13
SPECIFICATION Spec
INVARIANTS TypeOK SingleForeground NoDeafConsole HistoryRecallable
PROPERTY KeyboardServed
CHECK_DEADLOCK FALSE
