SPECIFICATION FleetSpec
CONSTANTS
  Users = {x, y}
  Plates = {p1, p2, p3}
  Requests = {q1, q2}
  Walkers = {w1}
  PageSize = 1
  MaxOwners = 2
  MaxChanges = 2
SYMMETRY Symm
CHECK_DEADLOCK FALSE
INVARIANTS
  OwnershipIntact
  WalkSeesEveryRow
