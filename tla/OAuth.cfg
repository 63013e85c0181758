SPECIFICATION OAuthSpec
CONSTANTS
  Codes = {c1, c2}
  Pairs = {p1, p2, p3, p4, p5}
  Grants = {g1, g2}
SYMMETRY Symmetry
INVARIANTS OAuthTypeOK OneLivePair
CHECK_DEADLOCK FALSE
