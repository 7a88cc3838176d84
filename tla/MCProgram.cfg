SPECIFICATION MCSpec
CONSTANTS
  Context = {c1, c2}
  Value = {Error, Thrown}
  Error = Error
  Std = Std
  Quit = Quit
  None = None
  MaxDepth = 8
  Code = {0, 3}
  NoQuit = 99
  MaxArgs = 3
  MaxLines = 4
INVARIANTS
  TypeOK
  PendingOwned
  LoopSound
PROPERTIES
  ImplementsFlow
  ComesToRest
  QuitEndsLoop
  MainEnds
