SPECIFICATION FairSpec
CONSTANTS
    n1 = n1
    m1 = m1
    Nodes = {n1}
    Procs = {p1, p2}
    NodeOf <- MCNodeOf
    OwnIds <- MCOwnIds
    Master = Master
    Nobody = Nobody
    SuspectTimeout = 1
    DeadTimeout = 2
    MaxRestarts = 1
INVARIANTS ListedAsItself
PROPERTIES OnlyRegisterRevives GoneIsGivenUp
