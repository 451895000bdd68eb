SPECIFICATION Spec
CONSTANTS
    Requests = {1, 2}
    Xid <- OneXid
    Bucket <- OwnBuckets
    NBuckets = 3
    HashSize = 1
    WaitsFor <- LaterLogFirst
    Procs = {p1, p2}
    NWorkers = 2
    Delay = 1
    MaxErrors = 1
    MaxFatal = 1
    SlowStart = TRUE
    Restarts = TRUE
    NoRequest = 0
    NoProc = NoProc
SYMMETRY Symmetry
INVARIANT TypeOK FinishedRolledBack 
