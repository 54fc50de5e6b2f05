CONSTANTS
    c1 = c1 c2 = c2 c3 = c3 t1 = t1 t2 = t2 t3 = t3 t4 = t4 j1 = j1 j2 = j2 n1 = n1 n2 = n2
    NoJob = NoJob NoOrder = NoOrder
    Creates = {c1} Transitions = {t1, t2, t3, t4} Jobs = {j1} Numbers = {n1}
    NumberOf <- MCOneNumberOf JobsOf <- MCOneJobsOf
SPECIFICATION OrderingSpec
SYMMETRY Symmetry
INVARIANTS SerialHistory EventsExplainStatus
CHECK_DEADLOCK FALSE
