SPECIFICATION Spec
CONSTANTS
    r1 = r1
    r2 = r2
    Rpcs <- TwoRpcs
    Versions = {"V1", "v2"}
    MaxUploads = 2
    MaxFaults = 1
SYMMETRY RpcSymmetry
INVARIANTS
    TypeOK
    FilesKept
PROPERTIES
    
    FinalizedAgree
\* All RPCs are done, or the server does not start for lack of a file.
CHECK_DEADLOCK FALSE
