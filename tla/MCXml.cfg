SPECIFICATION MCSpec
CONSTANTS
  D = D
  I1 = I1
  I2 = I2
  E1 = E1
  E2 = E2
  N1 = N1
  N2 = N2
  Node = {D, E1, E2, I1, I2}
  Document = {D}
  Text = {I1, I2}
  Nil = Nil
  MaxNodes = 4
  Elem = {E1, E2}
  Attr = {I1, I2}
  Names = {N1, N2}
  Lang = Lang
  Null = Null
  Words <- MCWords
  MaxText = 1
  Elt = {E1, E2}
  Space = {I1, I2}
  Uri = {"u"}
  Prefix = {"p"}
  None = None
  MaxHeld = 2
  Parser = {"P1", "P2"}
  Doc = {"Doc1", "Doc2"}
  NoDoc = "null"
  Pieces = 2
  Ctx = {"X"}
  DocNode = "document"
  XNode = {"a", "b"}
  NsName = {"xml", "n"}
  XmlName = "xml"
  NsUri = {"u", "v"}
  Missing = "missing"
SYMMETRY Alike
INVARIANTS
  TreesSound
  AttributesSound
  NamespacesStand
  OneOwner
  ContextsSound
CHECK_DEADLOCK FALSE
