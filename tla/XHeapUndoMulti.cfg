SPECIFICATION Spec
CONSTANTS
    Backends = {b1}
    Workers = {w1}
    Readers = {}
    NBlocks = 1
    MaxOffset = 3
    InitRows = 1
    MaxXid = 1
    MaxRecords = 3
    MaxFrozen = 1
    MaxSlot = 1
    BatchSize = 3
    Deletes = TRUE
    MultiInsert = TRUE
    Savepoints = FALSE
SYMMETRY Symmetry
CHECK_DEADLOCK FALSE
INVARIANT RollbackComplete
