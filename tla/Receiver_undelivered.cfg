CONSTANTS
    SlotPerEpoch = 2
    EpochsPerSyncCommitteePeriod = 256
    SlotPerHistoricalRoot = 8192
    ForkEpochCapella = 0
    FirstSlot = 2
    MaxSlot = 7
    MaxTxSeq = 1
    MaxMissed = 0
    MaxReorgs = 0
    ReorgDepth = 1
    FinalityDelay = 2
    MaxFilter = 128
    MaxRestarts = 1
    MaxFaults = 0
    MaxClears = 0
SPECIFICATION Spec
CHECK_DEADLOCK FALSE
INVARIANTS UndeliveredInRange
