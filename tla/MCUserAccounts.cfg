SPECIFICATION FairSpec
CONSTANTS
  Writers = {w1, w2}
  Readers = {d1}
  Targets = {"active", "suspended"}
  TTL = 1
  MaxUsers = 2
  MaxEdits = 1
CHECK_DEADLOCK FALSE
INVARIANTS
  StaleEntryHasCause
PROPERTIES
  SerialWithoutOverlap
  ProfileConverges
