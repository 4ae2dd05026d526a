CONSTANTS
  http = http
  srv = srv
  loc = loc
  url = url
  other_url = other_url
  file = file
  NoUrl = NoUrl
  NoIp = NoIp
  NoMask = NoMask
  Width4 = 2
  Half = 2
  Confs = {http, srv, loc}
  Root = http
  Parent <- ParentDef
  Rules <- RulesDef
  CheckRules <- CheckRulesDef
  Urls = {url, other_url}
  Clients <- Addresses
  IpTexts <- IpTextsDef
  CidrTexts <- CidrTextsDef
  Files = {file}
  MaxLines = 3
SPECIFICATION Spec
INVARIANTS
  RulesInForce
  SwitchesStick
  EnabledIsReady
  IgnoredAsListed
CHECK_DEADLOCK FALSE
