CONSTANTS
    Requesters = {r1, r2}
    Workers = {w1, w2}
    Closer = Closer
    Slots = {s1, s2}
    NoSlot = NoSlot
    MaxId = 2
    MaxResp = 1
CHECK_DEADLOCK FALSE
SPECIFICATION Spec
SYMMETRY Symmetry
INVARIANT Correlated
