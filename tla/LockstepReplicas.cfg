SPECIFICATION Spec
CONSTANTS
    Workers <- MCWorkers
    MaxLive = 2
    Phases = 2
    Winners <- MCWinners
    MaxFailures = 1
    MaxAttempts = 2
    MaxBoots = 2
    MaxFaults = 0
PROPERTIES
    Lockstep
CHECK_DEADLOCK FALSE
