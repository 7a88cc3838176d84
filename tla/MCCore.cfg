SPECIFICATION MCSpec
CONSTANTS
  Context = {x1, x2}
  NoHandle = NoHandle
  MaxDepth = 4
  Names = {"p", "q"}
  Descriptors <- MCDescriptors
  Iterators = {"i", "j"}
  MaxDefining = 2
  MaxWalks = 1
  NoProp = NoProp
  Cell = {c1, c2}
  Variable = {v1, v2}
  List = {"x.arg", "arg"}
  TheCall = "x.arg"
  Root = {k1, k2}
  Void = Void
  None = None
  MaxItems = 2
  MaxSteps = 6
  Lowest = 0
  Highest = 2
  Numbers <- MCNumbers
  Signatures <- MCSignatures
  MaxArgs = 2
  Widths = {1, 2, 3}
SYMMETRY Symmetric
INVARIANTS
  TypeOK
  Chained
  LiveHandles
  PropertiesSound
  ArgumentsSound
  ConversionsSound
PROPERTIES
  Restores
  ImplementsStack
  DefinitionsKeep
