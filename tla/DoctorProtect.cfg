SPECIFICATION GamesSpec
CONSTANTS
    Players <- MCPlayers
    MaxDays = 2
    Rounds = 1
    ShotCap = 1
    Games <- DoctorGames
    Boards <- MCBoards
    Casts <- MCCasts
    Humans = {4}
    RecentLimit = 1
    MaxShown = 3
    MaxSecrets = 1
PROPERTIES
    ProtectionBlocksKill
CHECK_DEADLOCK FALSE
