SPECIFICATION SessionSpec
CONSTANTS
  Sockets = {s1, s2}
  Startups = {p1}
  Stops = {q1}
  Requests = {r1, r2}
  Codes = {k1}
  None = None
  MaxInFlight = 1
  MaxReconnects = 1
  MaxCrashes = 1
  LogoutMayReject = FALSE
  DbMayFail = TRUE
CONSTRAINT InFlight
SYMMETRY Symmetry
INVARIANTS
  SessionTypeOK
  NoPairingModeLeak
  CodeOfCurrentSocket
PROPERTIES
  ImplementsLifecycle
