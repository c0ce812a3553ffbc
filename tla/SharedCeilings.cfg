SPECIFICATION CeilingsSpec
CHECK_DEADLOCK FALSE
CONSTANTS
    Seats = {1}
    Phases = 1
    Grace = 0
    MaxTime = 0
    MaxRequests = 1
    MaxMishaps = 1
    Principals = {p1}
    LobbyIds = {1}
    GameCap = 1
    JoinCap = 1
    UserBudget = 1
    GlobalBudget = 1
    MaxSpend = 0
    MaxSilences = 0
    MaxHanded = 0
    Browsers = {b1}
    Subjects = {s1}
    FlowTtl = 1
    MaxClock = 0
    MaxGuests = 0
    MaxFlows = 0
    MaxCallbacks = 1
    Drivers = {d1}
    CampaignIds = {1}
    Cells = {1}
    CampaignOf <- OneCampaign
    BatchSize = 1
    CellAttempts = 1
    MaxTrouble = 0
    Callers = {1}
    Routes <- MCRoutes
    MaxTries = 1
    MaxRaised = 0
    ApiWorkers = {a, b}
    Handlers = {a, b}
    ApiKeys = {k}
    People = {p}
    Addresses = {}
    Ceilings <- MCCeilings
    BootTimes <- MCBootTimes
    MaxWindow = 2
    MaxArrivals = 3
INVARIANTS
    CeilingsAreShared
