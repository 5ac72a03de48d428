SPECIFICATION DispatchFairSpec
CONSTANTS
    Envs = {e1, e2, e3}
    NoEnv = NoEnv
    InboundWorkers = {w1, w2}
    QueueCap = 1
    MaxRecv = 3
    Debug = TRUE
INVARIANTS EnvExclusive Accounted
PROPERTIES GoroutinesEnd
CHECK_DEADLOCK FALSE
