SPECIFICATION ViewsSpec
CONSTANTS
    Players <- MCPlayers
    MaxDays = 2
    Rounds = 1
    ShotCap = 1
    Games <- MCGames
    Boards <- MCBoards
    Casts <- MCCasts
    Humans = {4}
    RecentLimit = 1
    MaxShown = 3
    MaxSecrets = 1
INVARIANT SeatsAreAnonymous
CHECK_DEADLOCK FALSE
