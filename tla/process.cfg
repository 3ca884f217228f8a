SPECIFICATION MCSpec
CONSTANTS
    r1 = r1
    r2 = r2
    r3 = r3
    Rpcs <- ThreeRpcs
    Addrs = {"a"}
    Queries = {"x"}
    Threshold = 2
    MaxClock = 1
    MaxCrashes = 1
    MaxCertChanges = 2
    MaxProcFaults = 1
    MaxMsgs = 2
    MaxDpuChanges = 1
    MaxDpuFaults = 1
INVARIANTS
    TypesOK
    
    
    ReachesDpu
PROPERTIES
    ElectionOrder
    CertServed
    AllEnd
CHECK_DEADLOCK FALSE
