SPECIFICATION Spec
CONSTANTS
  Objs = {o1, o2, o3}
  Natives = {n1, n2}
  None = None
  MaxDepth = 3
INVARIANT ObjectsSound
PROPERTIES ImplementsOwnership NothingLeaks
CHECK_DEADLOCK FALSE
