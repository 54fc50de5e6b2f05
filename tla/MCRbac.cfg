SPECIFICATION FairSpec
CONSTANTS
  Users = {root, u1}
  Roles = {superadmin}
  Permissions = {p1}
  SeedUser = root
  SeedRole = superadmin
  SeedPermissions <- MCSeedPermissions
  Requests = {q1, q2}
  Guards = {g1}
  Starters = {s1}
  TTL = 1
  MaxEdits = 1
CHECK_DEADLOCK FALSE
INVARIANTS
  StaleListHasCause
PROPERTIES
  SeedIsComplete
  PermissionsConverge
