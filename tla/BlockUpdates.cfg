CONSTANTS
    SlotPerEpoch = 2
    EpochsPerSyncCommitteePeriod = 2
    SlotPerHistoricalRoot = 8192
    ForkEpochCapella = 0
    FirstSlot = 4
    MaxSlot = 14
    FinalityDelay = 1
    MaxRetry = 1
    Forks = {13, 15}
    MaxTrouble = 1
    MaxRestarts = 1
SPECIFICATION Spec
CHECK_DEADLOCK FALSE
INVARIANTS
    TypeOK
    StatusesAscend
PROPERTIES
    StatusLeadsOn
    PredictionRight
