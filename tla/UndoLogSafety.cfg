SPECIFICATION Spec
CONSTANTS
    b1 = b1
    b2 = b2
    r1 = r1
    Backends = {b1, b2}
    Readers = {r1}
    NLogs = 2
    LogSize = 2
    RecordSizes = {1}
    SlotsPerBlock = 2
    HashSize = 2
    MaxXid = 4
    FeedbackXmins = {0}
    FORCE_RECYCLE_RETRY_TIMES = 2
    ForceRecycle = {FALSE}
    MaxRestarts = 0
SYMMETRY BackendSymmetry
INVARIANTS
    IndInv
    SnapshotUndoKept
    SlotsContiguous
