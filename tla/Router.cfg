SPECIFICATION Spec
CONSTANTS
    Nodes = {1, 2, 3}
    Addrs = {a1}
    Msgs = {"m1", "m2"}
    Serves <- MCServes
    Keys = {"k1", "k2"}
    Callers = {c1, c2}
    VHash <- MCVHash
    KHash <- MCKHash
    MaxPicks = 4
    NoNode = 0
INVARIANTS PicksCandidate MinimalDisruption RoundRobinSpreads
