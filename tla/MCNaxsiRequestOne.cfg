CONSTANTS
  app = app
  learn = learn
  off = off
  page = page
  NoRequest = NoRequest
  NoLocation = NoLocation
  enabled <- Enabled
  force_disabled <- ForceDisabled
  learning <- Learning
  denied_url <- DeniedUrl
  PageGuarded = TRUE
  Requests = {q1}
  Locations = {app, learn, off, page}
  EnableFlags = {"unset", "0", "1"}
  LearningFlags = {"unset", "0", "1"}
  PostActionFlags = {"unset", "0", "1"}
  MaxHops = 3
SPECIFICATION Spec
INVARIANTS
  TypeOK
  InspectedOnce
  NoBypass
  VerdictHonoured
  BodyHasContext
  ActionIsExported
PROPERTY
  ImplementsGate
