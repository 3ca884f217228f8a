SPECIFICATION MCSpec
CONSTANTS
    Keys = {"k1", "k2"}
    Setups <- MCSetups
    MaxChanges = 2
    MaxPolls = 2
    MaxFaults = 1
    PqMax = 1
    LatencyListSize = 2
    MaxEvents = 3
    MaxClients = 2
    MaxEventFaults = 1
    MaxDialChanges = 2
    MaxDialFaults = 1
    MaxFile = 1
    MaxDbChanges = 3
    MaxJournalFaults = 1
INVARIANTS
    TypesOK
    PollExact
    EventsKept
    
    JournalTrue
PROPERTIES
    
    StopsEnd
\* Sessions end, processes panic and configurations come to rest.
CHECK_DEADLOCK FALSE
