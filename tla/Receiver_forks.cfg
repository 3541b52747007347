CONSTANTS
    SlotPerEpoch = 2
    EpochsPerSyncCommitteePeriod = 256
    SlotPerHistoricalRoot = 8192
    ForkEpochCapella = 0
    FirstSlot = 2
    MaxSlot = 6
    MaxTxSeq = 2
    MaxMissed = 1
    MaxReorgs = 1
    ReorgDepth = 2
    FinalityDelay = 1
    MaxFilter = 128
    MaxRestarts = 1
    MaxFaults = 0
    MaxClears = 0
SPECIFICATION Spec
CHECK_DEADLOCK FALSE
PROPERTIES RebuildCovers UndeliveredFound ImplementsDelivery
