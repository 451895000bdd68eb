SPECIFICATION FairSpec
CONSTANTS
    b1 = b1
    r1 = r1
    Backends = {b1}
    Readers = {r1}
    NLogs = 1
    LogSize = 2
    RecordSizes = {1}
    SlotsPerBlock = 2
    HashSize = 2
    MaxXid = 4
    FeedbackXmins = {0}
    FORCE_RECYCLE_RETRY_TIMES = 2
    ForceRecycle = {FALSE, TRUE}
    MaxRestarts = 0
INVARIANTS
    RecycledSettled
    GlobalRecycleBound
    SnapshotUndoKept
PROPERTIES
    ImplementsRetention
    AbortedRolledBack
    UndoReclaimed
