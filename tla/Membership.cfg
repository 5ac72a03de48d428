SPECIFICATION FairSpec
CONSTANTS
    Logics = {l1}
    Workers = {w1, w2}
    SuspectTimeout = 1
    DeadTimeout = 2
    MaxDelay = 1
    MaxRestarts = 1
    MaxStarts = 2
INVARIANTS RunningIsKnown
PROPERTIES NoEarlyDeath Lifecycle CrashDetected RegisterConverges
