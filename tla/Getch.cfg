\* Two processes on one terminal with up to two keys waiting.
CONSTANTS
  Proc = {p1, p2}
  Nobody = nobody
  MaxTyped = 2
SPECIFICATION Spec
INVARIANTS TypeOK Restored
PROPERTIES BlockingWaits NonBlockingReturns SettingsBorrowed
CHECK_DEADLOCK FALSE
