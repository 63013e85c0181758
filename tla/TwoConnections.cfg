SPECIFICATION LifecycleSpec
CONSTANTS
  Sockets = {s1, s2}
  Startups = {p1}
  Stops = {q1}
  None = None
  MaxReconnects = 1
  MaxCrashes = 0
  LogoutMayReject = TRUE
  DbMayFail = FALSE
INVARIANTS
  NeverTwoConnections
