CONSTANTS
    MaxTx = 2
    MaxBlock = 2
    Ids = {i1}
    ReuseIds = TRUE
    TxEndpoint = TRUE
    MaxReorgs = 1
    MaxDrops = 1
    MaxRestarts = 0
    MaxFaults = 1
    MaxDbFaults = 0
SPECIFICATION FairSpec
PROPERTIES ImplementsResultStream EveryResultComes RelayReturns
CHECK_DEADLOCK FALSE
