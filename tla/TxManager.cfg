SPECIFICATION FairSpec
CONSTANTS
    Requesters = {r1, r2}
    Workers = {w1}
    Closer = Closer
    Slots = {s1, s2}
    NoSlot = NoSlot
    MaxId = 2
    MaxResp = 1
INVARIANTS TypeOK SlotExclusive MapIsInFlight CorrelatedUnlessRaced
           TimedOutWaitIsFed DeliverNeverBlocks
PROPERTIES CallReturnsUnlessRaced ImplementsTable
CHECK_DEADLOCK FALSE
