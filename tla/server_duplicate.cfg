SPECIFICATION Spec
CONSTANTS
    r1 = r1
    r2 = r2
    r3 = r3
    Rpcs <- ThreeRpcs
    Addrs = {"a"}
    Queries = {"x"}
    Threshold = 0
    MaxClock = 0
    MaxCrashes = 0
INVARIANT
    OneStreamPerKey
CHECK_DEADLOCK FALSE
