\* A mesh, a texture with a dot in its path, and a sound, in two folders; three inputs and two
\* starts of the editor; panels slide for two ticks, frames take one or two.
CONSTANTS
  File = {"mesh", "dotted", "wav"}
  Folder = {"models", "media"}
  Home <- MCHome
  Unreadable = {"dotted"}
  Kind <- MCKind
  Filters = {"mesh", "tex"}
  SlideTime = 2
  MaxTick = 2
  MaxInputs = 3
  MaxStarts = 2
SPECIFICATION ListSpec
INVARIANTS TypeOK RaisesOnlyAfterLoss ListFiltered ListComplete Settled
PROPERTIES ComesToRest CancelServed
CHECK_DEADLOCK FALSE
