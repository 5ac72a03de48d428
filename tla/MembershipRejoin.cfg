SPECIFICATION FairSpec
CONSTANTS
    Logics = {l1}
    Workers = {w1}
    SuspectTimeout = 1
    DeadTimeout = 2
    MaxDelay = 1
    MaxRestarts = 0
    MaxStarts = 1
PROPERTIES DeadRejoins
