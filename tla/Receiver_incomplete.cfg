CONSTANTS
    SlotPerEpoch = 2
    EpochsPerSyncCommitteePeriod = 256
    SlotPerHistoricalRoot = 8192
    ForkEpochCapella = 0
    FirstSlot = 2
    MaxSlot = 7
    MaxTxSeq = 2
    MaxMissed = 0
    MaxReorgs = 0
    ReorgDepth = 1
    FinalityDelay = 2
    MaxFilter = 128
    MaxRestarts = 0
    MaxFaults = 0
    MaxClears = 0
SPECIFICATION Spec
CHECK_DEADLOCK FALSE
INVARIANTS StatusComplete
