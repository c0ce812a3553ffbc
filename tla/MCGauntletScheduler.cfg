SPECIFICATION FairSpec
CONSTANTS
    A = A
    B = B
    g1 = g1
    g2 = g2
    g3 = g3
    Workers = {A, B}
    Gauntlets <- TwoGauntlets
    Games <- ThreeGames
    Parent <- ThreeParents
    Balanced <- TwoGauntlets
    SlotCap = 2
    MaxSpent = 1
    MaxMishaps = 1
    MaxAttempts = 2
    Reaper = TRUE
    MaxLive = 2
    MaxFaults = 1
    MaxStrays = 1
    MaxCrashes = 1
    MaxExpiries = 1
INVARIANTS SlotsComeBack PlayIsPaidFor CompletedIsOver
PROPERTIES CompletedGamesStay DoneUnlessInterrupted
CHECK_DEADLOCK FALSE
