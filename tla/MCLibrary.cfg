SPECIFICATION MCSpec
CONSTANTS
  Name <- MCNames
  Key <- MCKeys
  KeyOf <- MCKeyOf
  FileOf <- MCFile
  NoId <- MCEmpty
  Alias <- MCAlias
  Loader <- MCLoader
  NullLoader <- MCNull
  So <- MCShared
  Js <- MCScripts
  BrokenSo <- MCBroken
  MaxObjects = 4
  Segment = {"", ".", "..", "a", "b"}
  MaxSegments = 4
  MaxKey = 3
  Suite = {s1, s2}
  NCases = 2
  MaxAsserts = 2
  MaxRuns = 2
  Value <- MCValue
  Byte = {0, 1}
  Bad = Bad
  Self = Self
  None = None
  Delims <- MCDelims
  MaxLength = 4
  Reach = 5
  Chunk <- MCChunks
  Texts <- MCTexts
  Slack = 1
  MaxPushes = 4
SYMMETRY MCSymmetry
INVARIANTS
  TypeOK
  NoReentry
  CacheSound
  IdKnown
  FindsFile
  Tested
  
  ArraySound
  Transcodes
PROPERTIES
  ImplementsRegistry
CHECK_DEADLOCK FALSE
