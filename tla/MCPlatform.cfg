SPECIFICATION PlatformSpec
SYMMETRY Interchangeable
CHECK_DEADLOCK FALSE
CONSTANTS
    Seats = {1, 2}
    Phases = 1
    Grace = 0
    MaxTime = 1
    MaxRequests = 2
    MaxMishaps = 1
    Principals = {a, b}
    LobbyIds = {1, 2}
    GameCap = 2
    JoinCap = 1
    UserBudget = 2
    GlobalBudget = 2
    MaxSpend = 1
    MaxSilences = 1
    MaxHanded = 1
    Browsers = {a, b}
    Subjects = {s1, s2}
    FlowTtl = 0
    MaxClock = 1
    MaxGuests = 1
    MaxFlows = 2
    MaxCallbacks = 2
    Drivers = {a, b}
    CampaignIds = {1}
    Cells = {1, 2}
    CampaignOf <- OneCampaign
    BatchSize = 1
    CellAttempts = 2
    MaxTrouble = 2
    Callers = {1, 2}
    Routes <- MCRoutes
    MaxTries = 2
    MaxRaised = 1
    ApiWorkers = {a, b}
    Handlers = {a, b}
    ApiKeys = {k}
    People = {p}
    Addresses = {}
    Ceilings <- MCCeilings
    BootTimes <- MCBootTimes
    MaxWindow = 2
    MaxArrivals = 3
INVARIANTS
    PlatformTypeOK
    HumanHistoryHolds
    ChatReleasedOnce
    LaunchedOnce
    SlotsFollowLobbies
    SignInsReachAnAccount
    CampaignResultsStand
    TicksAddUp
    CeilingsStand
PROPERTIES
    LiveHumansKeepTheirSeats
