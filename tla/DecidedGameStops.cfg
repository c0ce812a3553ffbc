SPECIFICATION Spec
CONSTANTS
    Workers <- MCWorkers
    MaxLive = 1
    Phases = 2
    Winners <- MCWinners
    MaxFailures = 1
    MaxAttempts = 2
    MaxBoots = 2
    MaxFaults = 0
INVARIANTS
    DecidedGameStops
CHECK_DEADLOCK FALSE
