SPECIFICATION FairSpec
CONSTANTS
    A = A
    B = B
    g1 = g1
    g2 = g2
    g3 = g3
    Workers = {A, B}
    Gauntlets <- OneGauntlet
    Games <- TwoGames
    Parent <- TwoParents
    Balanced <- OneGauntlet
    SlotCap = 2
    MaxSpent = 0
    MaxAttempts = 2
    Reaper = TRUE
    MaxLive = 1
    MaxFaults = 0
    MaxStrays = 0
    MaxCrashes = 1
    MaxExpiries = 0
    MaxMishaps = 1
PROPERTY PendingDrains
CHECK_DEADLOCK FALSE
