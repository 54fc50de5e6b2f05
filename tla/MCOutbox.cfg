CONSTANTS
    r1 = r1
    r2 = r2
    r3 = r3
    Requests = {r1, r2, r3}
    BatchLimit = 2
    Unserializable = {}
    Rejected = {r2, r3}
SPECIFICATION FairSpec
INVARIANTS TypeOK NoPhantomEvent PublishedWasSent AuditMatchesStream NoLockCycle OwnRowIsTried
PROPERTIES RelaySettlesBatch ImplementsPromise RequestsEnd
