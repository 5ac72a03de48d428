SPECIFICATION FairSpec
CONSTANTS
    Requests = {r1}
    Nodes = {n1, n2}
    NoNode = NoNode
    Codes = {"TIMEOUT", "OVERLOAD"}
    MaxId = 2
INVARIANTS WrittenOnce NothingLeft NoFake504
PROPERTIES RequestReturns
