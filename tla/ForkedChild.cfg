\* A program that is not installed.
CONSTANTS
  Printable = {"A"}
  Lower <- MCLower
  Proc = {p1, p2, p3}
  Root = p1
  None = none
  RunLines <- RunBoth
  Installed <- RunInstalled
  RaiseLines <- MCRaise
  RebootLines <- MCReboot
  Daemons = FALSE
  Interrupts = FALSE
  EvCap = 3
  Input <- CommandInput
  MaxTyped = 13
SPECIFICATION Spec
INVARIANT ForkedChildNeverConsole
CHECK_DEADLOCK FALSE
