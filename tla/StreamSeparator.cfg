SPECIFICATION Spec
CONSTANTS
  Bytes = {"a", "z"}
  Nul = "z"
  Chunk = 2
  InitLen = 3
  MaxLen = 4
  Lists <- MCThrowing
  Unset = Unset
  NameA = NameA
  NameB = NameB
PROPERTY SeparatorPrinted
CHECK_DEADLOCK FALSE
