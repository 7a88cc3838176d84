SPECIFICATION CoderSpec
CONSTANTS
  Chunk <- MCBytes
  Texts = {}
  Slack = 4
  MaxPushes = 3
PROPERTIES
  ThrowsInvalid
