CONSTANTS
  NoKey = NoKey
  a = a
  b = b
  Texts = {a, b}
  JSON_MAX_DEPTH = 2
  MaxTokens = 8
SPECIFICATION FairSpec
INVARIANTS
  NestingBounded
  AcceptsJson
  EverythingInspected
PROPERTY
  ParseEnds
CHECK_DEADLOCK FALSE
