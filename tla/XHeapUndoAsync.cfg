SPECIFICATION Spec
CONSTANTS
    Backends = {b1, b2}
    Workers = {w1}
    Readers = {r1}
    NBlocks = 1
    MaxOffset = 2
    InitRows = 1
    MaxXid = 2
    MaxRecords = 3
    MaxFrozen = 3
    MaxSlot = 2
    BatchSize = 2
    Deletes = TRUE
    MultiInsert = FALSE
    Savepoints = FALSE
SYMMETRY Symmetry
CHECK_DEADLOCK FALSE
INVARIANT TypeOK ReadersFindCommitted HintsTrue RollbackComplete
