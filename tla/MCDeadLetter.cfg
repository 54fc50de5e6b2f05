CONSTANTS
    k1 = k1
    k2 = k2
    o1 = o1
    o2 = o2
    c1 = c1
    c2 = c2
    g1 = g1
    n1 = n1
    NoCopy = NoCopy
    NoRow = NoRow
    Copies = {c1, g1}
    Garbled = {g1}
    Renamed = {}
    Consumers = {k1, k2}
    Operators = {o1, o2}
    MaxDeliver = 2
    MaxSlips = 1
SPECIFICATION FairSpec
INVARIANTS AckedIsPersisted OutageIsSurvived ResolvedWasRepublished
PROPERTIES DeadLettersSettle
CHECK_DEADLOCK FALSE
