CONSTANTS
    SlotPerEpoch = 2
    EpochsPerSyncCommitteePeriod = 256
    SlotPerHistoricalRoot = 8192
    ForkEpochCapella = 0
    FirstSlot = 2
    MaxSlot = 7
    MaxTxSeq = 2
    MaxMissed = 1
    MaxReorgs = 1
    ReorgDepth = 2
    FinalityDelay = 1
    MaxFilter = 1
    MaxRun = 1
    MaxFaults = 1
SPECIFICATION FairSpec
CHECK_DEADLOCK FALSE
INVARIANTS TypeOK MadeProvable MadeComplete
PROPERTIES AgreesWithStep SearchEnds
