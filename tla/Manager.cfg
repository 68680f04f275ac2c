\* Any sequence of calls by the screens; one screen registers another.
CONSTANTS
  Nothing = ""
  Name = {"a", "b", "c"}
  Registers <- MCRegisters
  Known = {"a", "b"}
  MaxDepth = 4
SPECIFICATION ManagerSpec
INVARIANTS ManagerTypeOK ProperlyNested
PROPERTY ImplementsScreenStack
CHECK_DEADLOCK FALSE
