SPECIFICATION Spec
CONSTANTS
  Requests = {r1, r2, r3}
  AccessTTL = 1
  RefreshTTL = 2
  TPS = 2
  MaxPairs = 3
  MaxLogins = 1
  MaxTime = 4
SYMMETRY Symm
CHECK_DEADLOCK FALSE
INVARIANTS
  LogoutRevokesBoth
  DoubleSpendNeedsOverlap
PROPERTIES
  RevokedIsRefused
