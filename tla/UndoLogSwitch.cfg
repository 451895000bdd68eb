SPECIFICATION Spec
CONSTANTS
    b1 = b1
    Backends = {b1}
    Readers = {}
    NLogs = 2
    LogSize = 2
    RecordSizes = {1, 2}
    SlotsPerBlock = 2
    HashSize = 2
    MaxXid = 4
    FeedbackXmins = {0, 3}
    FORCE_RECYCLE_RETRY_TIMES = 2
    ForceRecycle = {FALSE}
    MaxRestarts = 1
INVARIANTS
    TypeOK
    FrozenSettled
PROPERTIES
    HorizonsAdvance
