SPECIFICATION Spec
CONSTANTS
    r1 = r1
    r2 = r2
    r3 = r3
    Rpcs = {r1}
    Policies = {"a", "b"}
    VersionOf <- Versions
    Invalid = {}
    First = "a"
    Services = {"pathz"}
    PathzPolicy = FALSE
    Faults = {}
CHECK_DEADLOCK FALSE
PROPERTY
    RevertsAll
