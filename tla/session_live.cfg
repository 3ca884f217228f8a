SPECIFICATION FairSpec
CONSTANTS
    p1 = p1
    p2 = p2
    Paths <- MCPaths
    Combos <- ServedCombos
    MaxQueue = 2
    MaxOwed = 1
    Faults = {"dup"}

    
PROPERTIES
    RunTerminates
    PollAnswered
