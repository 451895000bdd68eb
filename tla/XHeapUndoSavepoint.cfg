SPECIFICATION Spec
CONSTANTS
    Backends = {b1, b2}
    Workers = {}
    Readers = {}
    NBlocks = 2
    MaxOffset = 2
    InitRows = 1
    MaxXid = 2
    MaxRecords = 3
    MaxFrozen = 1
    MaxSlot = 1
    BatchSize = 2
    Deletes = FALSE
    MultiInsert = FALSE
    Savepoints = TRUE
SYMMETRY Symmetry
CHECK_DEADLOCK FALSE
PROPERTY SavepointRestored
