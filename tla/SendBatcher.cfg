SPECIFICATION FairSpec
CONSTANTS
    Senders = {s1, s2, s3}
    Jobs = {j1, j2, j3}
    NoJob = NoJob
    BatchMax = 2
    MaxSends = 1
INVARIANTS JobExclusive OneDatagram
PROPERTIES SendReturnsUnlessStranded CloseReturns
CHECK_DEADLOCK FALSE
