SPECIFICATION ConciergeSpec
CONSTANTS
  Configurations <- OneBranch
  Accounts = {"number 1"}
  TenantOf <- TwoTenants
  PerChat = 2
  Replies = {r1}
  MaxCrashes = 0
  DbMayFail = FALSE
PROPERTIES
  PendingInboxIsTrue
