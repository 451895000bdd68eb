SPECIFICATION Spec
CONSTANTS
    MaxDepth = 4
    MaxRecords = 5
    NLogs = 3
INVARIANTS
    TypeOK
    SubRollbackExact
CHECK_DEADLOCK FALSE
