CONSTANTS
    Receivers = {r1}
    Workers = {w1, w2}
    QueueCap = 1
    MaxReq = 4
SPECIFICATION FairSpec
CHECK_DEADLOCK FALSE
INVARIANTS SettledOnce NoSendOnClosed
PROPERTIES PoolCloseReturns RequestSettled
