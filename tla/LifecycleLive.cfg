SPECIFICATION FairLifecycleSpec
CONSTANTS
  Sockets = {s1, s2}
  Startups = {p1}
  Stops = {q1}
  None = None
  MaxReconnects = 1
  MaxCrashes = 1
  LogoutMayReject = FALSE
  DbMayFail = FALSE
INVARIANTS
  NeverTwoConnections
PROPERTIES
  DueSessionStarts
