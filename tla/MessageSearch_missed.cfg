CONSTANTS
    SlotPerEpoch = 2
    EpochsPerSyncCommitteePeriod = 256
    SlotPerHistoricalRoot = 8192
    ForkEpochCapella = 0
    FirstSlot = 2
    MaxSlot = 8
    MaxTxSeq = 1
    MaxMissed = 3
    MaxReorgs = 0
    ReorgDepth = 2
    FinalityDelay = 1
    MaxFilter = 1
    MaxRun = 2
    MaxFaults = 0
SPECIFICATION FairSpec
CHECK_DEADLOCK FALSE
PROPERTIES MissedLeftBehind
