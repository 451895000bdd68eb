SPECIFICATION FairSpec
CONSTANTS
    Requests = {1, 2}
    Xid <- OneXid
    Bucket <- OwnBuckets
    NBuckets = 2
    HashSize = 2
    WaitsFor <- LaterLogFirst
    Procs = {p1, p2}
    NWorkers = 2
    Delay = 1
    MaxErrors = 1
    MaxFatal = 0
    SlowStart = FALSE
    Restarts = FALSE
    NoRequest = 0
    NoProc = NoProc
PROPERTY AllRolledBack
 
