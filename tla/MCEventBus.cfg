SPECIFICATION Spec
CONSTANTS
  Procs = {a, b}
  Updates = {u1}
  Transitions = {t1}
  Protected = {g1}
  Beats = {b1}
  Configs = {c1, c2}
  MaxOutages = 2
  None = None
SYMMETRY Symm
INVARIANTS
  RunningHasStreams
  AnsweredIsInvalidated
PROPERTIES
  FailsClosed
