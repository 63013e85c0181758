SPECIFICATION FairPresenceSpec
CONSTANTS
  a1 = a1
  a2 = a2
  c1 = c1
  c2 = c2
  d1 = d1
  d2 = d2
  Scopes = {a1, a2}
  Contacts = {c1, c2}
  Updates = {u1}
  Deliveries = {d1, d2}
  PerContact = 1
  MaxSockets = 2
  MaxCrashes = 1
  DbMayFail = TRUE
  Times = {0, 1, 2, 4}
  MaxRows = 6
  Day = 2
CONSTRAINTS ReportAlone SocketAlone FewTargets TwoEvents
ACTION_CONSTRAINT AfterExit
INVARIANTS PresenceTypeOK EvidenceOnlyWhileActive NoEvidenceMissed OneRowPerEvent HeardOnItsSocket MeasuredOnce PercentilesAreRanks
PROPERTIES EventForwarded
