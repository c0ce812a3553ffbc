SPECIFICATION ReplicasSpec
SYMMETRY Interchangeable
CHECK_DEADLOCK FALSE
CONSTANTS
    Workers <- BothWorkers
    MaxLive = 2
    Phases = 2
    Winners <- BothTeams
    MaxFailures = 0
    MaxAttempts = 2
    MaxBoots = 2
    MaxFaults = 0
    Processes = {a, b}
    Contests = {1, 2, 3, 4, 5, 6}
    Ladder <- OneOfEach
    PairOf <- FirstTwo
    Seating <- Lineups
    HumanPlayers = {"p"}
    TerminalResults <- Ends
    ModelOf <- TwoModels
    Submissions <- Bundles
    Established = 2
    MaxReads = 1
    Fleet = {a, b}
    Schedules = {1}
    GamesOf <- TwoGames
    Rosters <- OneSeat
    Roster = {"x", "y"}
    TableSize = 1
    PerDay = 3
    AtOnce = 2
    MaxTime = 2
    MaxGauntlets = 2
    MaxBreaks = 1
    Setups <- FourSetups
    Factions <- TwoFactions
    Families <- ThreeFamilies
    MaxExtra = 1
    Laps <- TwoLaps
    CampaignCells = {1, 2}
    RosterBuilds <- BothBuilds
    ModelKeyOf <- OwnModel
    GameTarget = 2
    SigmaGames = 2
    StabilityWindow = 2
    CellMaxAttempts = 2
    Blemishes = {"leak", "chain"}
    MaxElsewhere = 1
INVARIANTS
    ReplicasTypeOK
    RatedOnce
    LedgerExplainsRatings
    BoardsKeepUp
    ProgrammeIsFair
    MatricesAreFair
    ReadyMeansEvidence
