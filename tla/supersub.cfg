SPECIFICATION MCSpec
CONSTANTS
    c1 = c1
    c2 = c2
    c3 = c3
    Clients <- ThreeClients
    Requests = {"x", "y"}
    Instances = {"p"}
    Values = {"a", "b"}
    Suppress = FALSE
    MaxChanges = 2
INVARIANT
    SharingSafe
PROPERTIES
    NobodyStranded
    PrimaryConverges
CHECK_DEADLOCK FALSE
