SPECIFICATION HistorySpec
CONSTANTS
  Sockets = {s1, s2}
  Startups = {p1}
  Stops = {q1}
  None = None
  MaxReconnects = 1
  MaxCrashes = 0
  LogoutMayReject = FALSE
  DbMayFail = FALSE
PROPERTIES
  ReplacedStaysDown
