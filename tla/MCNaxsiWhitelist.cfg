CONSTANTS
  Strings <- StringsDef
  Uris <- UrisDef
  lower <- lowerDef
  rx_matches <- rx_matchesDef
  MatchZones <- AllMatchZones
  IdLists <- IdListsDef
  Items <- ItemsDef
  MayFail = TRUE
  FailSteps = {5}
  MaxWhitelists = 2
SPECIFICATION Spec
INVARIANTS
  OnlyWhatIsListed
  WhitelistsApply
  Aggregation
CHECK_DEADLOCK FALSE
