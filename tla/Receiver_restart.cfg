CONSTANTS
    SlotPerEpoch = 2
    EpochsPerSyncCommitteePeriod = 256
    SlotPerHistoricalRoot = 8192
    ForkEpochCapella = 0
    FirstSlot = 2
    MaxSlot = 6
    MaxTxSeq = 1
    MaxMissed = 1
    MaxReorgs = 1
    ReorgDepth = 1
    FinalityDelay = 1
    MaxFilter = 128
    MaxRestarts = 1
    MaxFaults = 1
    MaxClears = 0
SPECIFICATION FairSpec
CHECK_DEADLOCK FALSE
INVARIANTS StatusNeverAhead
PROPERTIES RebuildCovers UndeliveredFound ImplementsDelivery HandlerReturns
