SPECIFICATION LifecycleSpec
CONSTANTS
  Sockets = {s1, s2}
  Startups = {p1, p2}
  Stops = {q1, q2}
  None = None
  MaxReconnects = 2
  MaxCrashes = 1
  LogoutMayReject = TRUE
  DbMayFail = TRUE
SYMMETRY Symmetry
INVARIANTS
  SingleStartup
  NoStrayConnection
  MapHoldsLiveSocket
  NoStoppingLeak
PROPERTIES
  StaleCloseHarmless
  CredentialsSurviveDrops
  DueNotDropped
