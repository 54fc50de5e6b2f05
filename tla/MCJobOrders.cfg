CONSTANTS
    c1 = c1 c2 = c2 c3 = c3 t1 = t1 t2 = t2 t3 = t3 t4 = t4 j1 = j1 j2 = j2 n1 = n1 n2 = n2
    NoJob = NoJob NoOrder = NoOrder
    Creates = {c1, c2, c3} Transitions = {t1} Jobs = {j1, j2} Numbers = {n1, n2}
    NumberOf <- MCNumberOf JobsOf <- MCJobsOf
SPECIFICATION FairOrderingSpec
INVARIANTS OrdersAtomic
PROPERTIES CreatesEnd
CHECK_DEADLOCK FALSE
