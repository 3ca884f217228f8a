SPECIFICATION Spec
CONSTANTS
    p1 = p1
    p2 = p2
    Paths <- MCPaths
    Combos <- AllCombos
    MaxQueue = 2
    MaxOwed = 2
    Faults = {"dupEarly", "dup", "dupPoll", "terminate", "readError"}

    
PROPERTY
    ImplementsContract
CHECK_DEADLOCK FALSE
