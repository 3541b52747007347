CONSTANTS
    SlotPerEpoch = 2
    EpochsPerSyncCommitteePeriod = 256
    SlotPerHistoricalRoot = 4
    ForkEpochCapella = 2
    SummariesLimit = 4
    MaxSlot = 12
    MaxMissed = 3
    MaxTx = 2
    MaxLogs = 2
    ReceiptsGIndices = {899, 1795}
    MaxRequests = 2
    MaxFaults = 1
SPECIFICATION Spec
CHECK_DEADLOCK FALSE
INVARIANTS
    TypeOK
    TriesRight
    BlockProofVerifies
    MessageProofRight
PROPERTIES
    NoneRefused
