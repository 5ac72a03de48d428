SPECIFICATION FairSpec
CONSTANTS
    MaxReq = 3
    MaxPending = 1
    LogicStatuses <- MCStatuses
    Errors <- MCErrors
    Statuses = {103, 200, 429, 499, 504}
    Commands <- MCCommands
    MaxWorkers = 2
    MaxSeq = 2
    Codes = {103, 200, 429, 499, 504}
    FailCap = 1
    FailMax = 1
INVARIANTS NeverOverNeverRefused ClientAccounts ReportsAgree
 
CHECK_DEADLOCK FALSE
