CONSTANTS
  Strings <- StringsDef
  Uris <- UrisDef
  lower <- lowerDef
  rx_matches <- rx_matchesDef
  Tags <- TagsDef
  CheckRules <- CheckRulesDef
  Chars <- CharsDef
  low <- lowDef
  spelling <- spellingDef
  MaxPairs = 2
  Lines <- LinesDef
  Inputs <- InputsDef
  MaxRules = 2
SPECIFICATION RulesSpec
CONSTRAINT Bound
CHECK_DEADLOCK FALSE
INVARIANT ExclusivelyWithin
