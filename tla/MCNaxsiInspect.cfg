CONSTANTS
  sql = sql
  uwa = uwa
  LIBINJECTION_SQL = LIBINJECTION_SQL
  LIBINJECTION_XSS = LIBINJECTION_XSS
  Tags = {sql, uwa, LIBINJECTION_SQL, LIBINJECTION_XSS}
  CheckRules <- ThreeLimits
  Effects <- FourPoints
  Requests <- AllRequests
  LocConfs <- AllConfs
  MayFail = TRUE
SPECIFICATION Spec
INVARIANTS
  EarlyExitSound
  PassSeesEverything
  FailClosed
CHECK_DEADLOCK FALSE
