SPECIFICATION Spec
CONSTANTS
    r1 = r1
    r2 = r2
    r3 = r3
    Rpcs <- ThreeRpcs
    Policies = {"a", "b", "c", "d"}
    VersionOf <- Versions
    Invalid = {"d"}
    First = "a"
    Services = {"authz", "pathz"}
    PathzPolicy = TRUE
    Faults = {"db", "file", "crash"}
SYMMETRY RpcSymmetry
INVARIANT
    SettledAgree
PROPERTY
    AbortRestores
CHECK_DEADLOCK FALSE
