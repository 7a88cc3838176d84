SPECIFICATION Spec
CONSTANTS
  Bytes = {"a", "z"}
  Nul = "z"
  Chunk = 2
  InitLen = 3
  MaxLen = 4
  Lists <- MCLists
  Unset = Unset
  NameA = NameA
  NameB = NameB
INVARIANT StreamsSound
PROPERTY WholeEnds
CHECK_DEADLOCK FALSE
