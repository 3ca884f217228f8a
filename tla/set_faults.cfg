SPECIFICATION CompSpec
CONSTANTS
    r1 = r1
    r2 = r2
    r3 = r3
    Rpcs <- TwoRpcs
    Keys = {"a", "b"}
    Kinds = {"bypass", "appl", "patch", "replace", "full", "transl"}
    Arbitration = FALSE
    SaveOnSet = TRUE
    Word = 1
    Present = {"a"}
    Faults = TRUE
    MaxOps = 3
    MaxRules = 3
SYMMETRY RpcSymmetry
INVARIANTS
    TypesOK
    AckedHolds
    DecidedByBestRule
PROPERTY
    PatchFaithful
CHECK_DEADLOCK FALSE
