CONSTANTS
  app = app
  learn = learn
  off = off
  page = page
  NoRequest = NoRequest
  NoLocation = NoLocation
  enabled <- Enabled
  force_disabled <- ForceDisabled
  learning <- Learning
  denied_url <- DeniedUrl
  PageGuarded = TRUE
  Requests = {q1, q2}
  Locations = {learn, page}
  EnableFlags = {"unset", "0"}
  LearningFlags = {"unset"}
  PostActionFlags = {"0", "1"}
  MaxHops = 1
SPECIFICATION FairSpec
INVARIANTS
  CountersAgree
  ReferencesExact
PROPERTIES
  VerdictFinal
  EveryRequestFreed
