SPECIFICATION Spec
CONSTANTS
    MaxDepth = 3
    MaxRecords = 3
    NLogs = 2
INVARIANTS
    SubRollbackCompletes
CHECK_DEADLOCK FALSE
