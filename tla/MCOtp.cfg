SPECIFICATION Spec
CONSTANTS
  Generators = {g1, g2}
  Validators = {v1, v2, v3}
  TTL = 2
  Max = 2
  Window = 1
SYMMETRY Symm
CHECK_DEADLOCK FALSE
INVARIANTS
  DoubleUseNeedsOverlap
  CachedIsLatest
  UsedIsNotCached
  AdmittedBounded
