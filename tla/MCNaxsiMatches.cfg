CONSTANTS
  sql = sql
  xss = xss
  Tags = {sql, xss}
  CheckRules <- LowerLimits
  Effects <- AllEffects
  NbMatches = {0, 1, 2}
  Memories <- AllMemories
  MaxMatches = 4
SPECIFICATION Spec
INVARIANTS
  ScoresAddUp
  OrderIndependent
  NeverOverblocks
  IgnoredNeverStopped
PROPERTY
  FlagsSticky
CHECK_DEADLOCK FALSE
