SPECIFICATION GatewayFairSpec
CONSTANTS
    ErrCap = 6
    NoConfig = NoConfig
INVARIANTS CleanReturn
PROPERTIES GatewayReturns
CHECK_DEADLOCK FALSE
