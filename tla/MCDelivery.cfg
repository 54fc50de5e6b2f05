CONSTANTS
    w1 = w1
    w2 = w2
    m1 = m1
    p1 = p1
    NoMessage = NoMessage
    Workers = {w1, w2}
    Messages = {m1, p1}
    Poison = {p1}
    MaxDeliver = 3
    FetchBatch = 2
    MaxSlips = 2
    MaxDlqFailures = 1
SPECIFICATION FairSpec
INVARIANTS TypeOK NoSilentLoss DeadLetterIsLast NoRetryAfterDeadLetter
PROPERTIES MessagesSettle
CHECK_DEADLOCK FALSE
