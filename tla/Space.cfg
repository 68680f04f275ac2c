\* The user types SPACE.
CONSTANTS
  Printable = {"A"}
  Lower <- MCLower
  Proc = {p1, p2, p3}
  Root = p1
  None = none
  RunLines <- RunBoth
  Installed <- RunInstalled
  RaiseLines <- MCRaise
  RebootLines <- MCReboot
  Daemons = FALSE
  Interrupts = FALSE
  EvCap = 3
  Input <- SpaceInput
  MaxTyped = 13
SPECIFICATION Spec
PROPERTY SpaceSeparatesWords
CHECK_DEADLOCK FALSE
