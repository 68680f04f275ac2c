\* A command that raises, and a key without a name.
CONSTANTS
  Printable = {"A"}
  Lower <- MCLower
  Proc = {p1, p2, p3}
  Root = p1
  None = none
  RunLines <- RunBoth
  Installed <- RunInstalled
  RaiseLines <- MCRaise
  RebootLines <- MCReboot
  Daemons = FALSE
  Interrupts = FALSE
  EvCap = 3
  Input <- UnnamedInput
  MaxTyped = 13
SPECIFICATION Spec
INVARIANT NeverLeave
CHECK_DEADLOCK FALSE
