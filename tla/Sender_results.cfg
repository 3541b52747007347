CONSTANTS
    MaxTx = 3
    MaxBlock = 2
    Ids = {i1, i2, i3}
    ReuseIds = FALSE
    TxEndpoint = TRUE
    MaxReorgs = 1
    MaxDrops = 0
    MaxRestarts = 1
    MaxFaults = 0
    MaxDbFaults = 1
SPECIFICATION Spec
SYMMETRY IdSymmetry
INVARIANTS TypeOK FinalIsTrue FinalOnce NoneForgotten ResultsInOrder
PROPERTIES StatusSettled
CHECK_DEADLOCK FALSE
