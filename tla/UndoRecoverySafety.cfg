CONSTANTS
    MaxXid = 2
    RecordsPerFile = 2
    SlotsPerFile = 1
    MaxRecords = 2
    InitTails = {0, 2}
    MaxWal = 6
    MaxCheckpoints = 1
    MaxFaults = 2
SPECIFICATION Spec
CHECK_DEADLOCK FALSE
INVARIANTS TypeOK RedoNeverPanics PointersMatchWal UndoKept FrozenGone
