SPECIFICATION Spec
CONSTANTS
  Cursor = {c1, c2}
  Rows = 2
  Params = 2
  Known <- MCKnown
  Canonical <- MCCanonical
  Inherited <- MCInherited
  Codes = {"100", "200"}
  Lines <- MCLines
  MaxRequests = 2
  MaxBlocks = 2
  MaxLines = 4
  MaxPieces = 2
  Absent = Absent
INVARIANTS CursorsSound ShowsItsAnswer
PROPERTIES RowsOnce ResponsesKept
CHECK_DEADLOCK FALSE
