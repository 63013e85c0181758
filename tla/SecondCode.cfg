SPECIFICATION SessionSpec
CONSTANTS
  Sockets = {s1, s2}
  Startups = {p1}
  Stops = {}
  Requests = {r1}
  Codes = {k1, k2}
  None = None
  MaxInFlight = 1
  MaxReconnects = 1
  MaxCrashes = 0
  LogoutMayReject = FALSE
  DbMayFail = FALSE
CONSTRAINT InFlight
PROPERTIES
  NoSecondCode
