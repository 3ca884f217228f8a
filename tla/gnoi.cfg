SPECIFICATION MCSpec
CONSTANTS
    Rpcs = {"r1", "r2"}
    Ops = {"put", "transfer", "dpu", "pull", "get", "stat", "remove"}
    MaxSize = 1
    MaxFaults = 1
    MaxChunks = 2
    MaxHostFaults = 2
    MaxRebootFaults = 1
    Cap = 1
    MaxOut = 3
    MaxDebugFaults = 1
    MaxFsChanges = 2
INVARIANTS
    TypesOK
    CleanWrites
    HostInStep
    ResponsesInOrder
    ListingsAgree
PROPERTIES
    
    AnswersMatch
    GnoiReturns
\* RPCs come to an end.
CHECK_DEADLOCK FALSE
