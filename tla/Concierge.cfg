SPECIFICATION ConciergeSpec
CONSTANTS
  Configurations <- Pairing
  Accounts = {"number 1", "number 2"}
  TenantOf <- TwoTenants
  PerChat = 1
  Replies = {r1, r2}
  MaxCrashes = 2
  DbMayFail = TRUE
SYMMETRY Symmetry
INVARIANTS
  ConciergeTypeOK
  RepliedWasAnswered
  RecordIsTrue
  AnsweredFromTheirNumber
PROPERTIES
  RedeliveryHarmless
