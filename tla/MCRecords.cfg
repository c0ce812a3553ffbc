SPECIFICATION RecordsSpec
SYMMETRY Interchangeable
CHECK_DEADLOCK FALSE
CONSTANTS
    Workers <- BothWorkers
    MaxLive = 1
    Phases = 2
    Winners <- BothTeams
    MaxFailures = 2
    MaxAttempts = 2
    MaxBoots = 2
    MaxFaults = 2
    Connections = {a, b}
    StreamCap = 1
    MaxStored = 4
    MaxCuts = 1
INVARIANTS
    RecordsTypeOK
    HistoryReadsOnce
    RatedWithTheEnd
    FailuresAreEarned
    StreamsFollowTheLog
    PagesAgreeOnTheEnd
PROPERTIES
    Lockstep
    ResolvedForEver
