\* The cache update button.
CONSTANTS
  File = {"mesh", "tex"}
  Folder = {"models", "media"}
  Home <- MCHome
  Unreadable = {}
  Kind <- MCKind
  Filters = {"mesh", "tex"}
  SlideTime = 2
  MaxTick = 2
  MaxInputs = 3
  MaxStarts = 1
SPECIFICATION ListSpec
PROPERTY RefreshFinds
CHECK_DEADLOCK FALSE
