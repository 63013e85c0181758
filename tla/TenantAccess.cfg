SPECIFICATION TenantSpec
CONSTANTS
  Apps = {app}
  Tenants = {t1, t2}
  Labels = {lbl}
  Provisions = {p1, p2, p3}
  Requests = {q1}
  LegacyAllowed = TRUE
  None = None
SYMMETRY Symmetry
CHECK_DEADLOCK FALSE
INVARIANTS
  TenantTypeOK
  SharedByReconciliation
  GrantedToOwner
  ReplacedTokenRefused
  BootstrapReuses
PROPERTIES
  TokenKept
