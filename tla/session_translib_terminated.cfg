SPECIFICATION Spec
CONSTANTS
    p1 = p1
    p2 = p2
    Paths <- MCPaths
    Combos <- TranslStream
    MaxQueue = 2
    MaxOwed = 1
    Faults = {"terminate"}
INVARIANT NoCrash
