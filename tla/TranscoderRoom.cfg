SPECIFICATION CoderSpec
CONSTANTS
  Chunk <- MCWhole
  Texts = {}
  Slack = 1
  MaxPushes = 3
INVARIANTS
  CorrectOpening
