------------------------------ MODULE MCEngine ------------------------------
(***************************************************************************)
(* The engine for TLC, with five seats: whole games of two days and one    *)
(* discussion round, single nights on boards that put every pair of night  *)
(* roles side by side, and two worlds that one viewer should not be able   *)
(* to tell apart.  Each has a scene of its own.                            *)
(***************************************************************************)
EXTENDS GameLoop, NightCases, Observations

VARIABLE scene

engineVars == <<scene, vars, nightVars, observationVars>>

MCPlayers == 1..5

LoopAtRest == Init /\ st.role = (CHOOSE g \in Games : TRUE).role

NightAtRest == NightInit /\ board = CHOOSE b \in Boards : TRUE

ViewsAtRest ==
    /\ viewer = Spectator /\ identityMode = "NULL"
    /\ worlds = [n \in World |-> [StartOf(CHOOSE c \in Casts : TRUE, NoPlayer) EXCEPT !.log = <<>>]]

\* In a scene the other ones' variables rest: at one of their initial values, or before it.
EngineInit ==
    \/ scene = "games" /\ Init /\ NightAtRest /\ ViewsAtRest
    \/ scene = "nights" /\ LoopAtRest /\ NightInit /\ ViewsAtRest
    \/ scene = "views" /\ LoopAtRest /\ NightAtRest /\ ObservationsInit

EngineNext ==
    /\ UNCHANGED scene
    /\ \/ scene = "games" /\ Next /\ UNCHANGED <<nightVars, observationVars>>
       \/ scene = "nights" /\ NightNext /\ UNCHANGED <<vars, observationVars>>
       \/ scene = "views" /\ ObservationsNext /\ UNCHANGED <<vars, nightVars>>

GamesSpec == scene = "games" /\ EngineInit /\ [][EngineNext]_engineVars

ViewsSpec == scene = "views" /\ EngineInit /\ [][EngineNext]_engineVars

EngineSpec == EngineInit /\ [][EngineNext]_engineVars /\ WF_vars(scene = "games" /\ Next)

\* The loop of drive_game_loop comes to its end in every game that is played, whatever the
\* seats answer or fail to answer.
GamesTerminate == scene = "games" => GameTerminates

\* Casts that only some of the seats can tell apart
MCCasts ==
    {<<"MAFIA_GOON", "DOCTOR", "VILLAGER", "NINJA", "DETECTIVE">>,
     <<"JANITOR", "DOCTOR", "MASON", "MASON", "DETECTIVE">>}

Nobody == [p \in MCPlayers |-> NoPlayer]

FullShots == [p \in MCPlayers |-> 1]

Board(role) == [role |-> role, alive |-> MCPlayers, lastProtected |-> Nobody, shots |-> FullShots,
                redirectors |-> {}]

MCBoards ==
    {[Board(<<"MAFIA_GOON", "NINJA", "DOCTOR", "DETECTIVE", "VILLAGER">>)
        EXCEPT !.alive = MCPlayers, !.lastProtected[3] = 4],
     [Board(<<"MAFIA_GOON", "MAFIA_GOON", "DOCTOR", "DETECTIVE", "VILLAGER">>)
        EXCEPT !.alive = {1, 3, 4, 5}],
     Board(<<"MAFIA_GOON", "MAFIA_ROLEBLOCKER", "DOCTOR", "DETECTIVE", "COMMUTER">>),
     Board(<<"NINJA", "SERIAL_KILLER", "TRACKER", "WATCHER", "DOCTOR">>),
     Board(<<"MAFIA_GOON", "MAFIA_ROLEBLOCKER", "TRACKER", "WATCHER", "COMMUTER">>),
     Board(<<"MAFIA_GOON", "JANITOR", "DETECTIVE", "FRAMER", "GODFATHER">>),
     [Board(<<"GODFATHER", "JANITOR", "FRAMER", "VILLAGER", "MAFIA_ROLEBLOCKER">>)
        EXCEPT !.shots[2] = 0, !.shots[3] = 0],
     [Board(<<"MAFIA_GOON", "DOCTOR", "VILLAGER", "VILLAGER", "MAFIA_ROLEBLOCKER">>)
        EXCEPT !.lastProtected[2] = 4, !.redirectors = {3}],
     [Board(<<"VILLAGER", "SERIAL_KILLER", "VILLAGER", "WATCHER", "VILLAGER">>)
        EXCEPT !.redirectors = {1, 3}, !.alive = {1, 2, 3, 4}],
     [Board(<<"TRACKER", "COMMUTER", "VILLAGER", "WATCHER", "VILLAGER">>)
        EXCEPT !.redirectors = {3}, !.alive = {1, 2, 3, 4}]}

Rule(kind, winner, factions, opponents, blockedBy) ==
    [kind |-> kind, winner |-> winner, factions |-> factions,
     opponents |-> opponents, blockedBy |-> blockedBy]

NoThreats(factions) == Rule("TARGET_FACTIONS_ELIMINATED", "TOWN", factions, {}, {})

Parity(blockedBy) == Rule("FACTION_PARITY", "MAFIA", {"MAFIA"}, {"TOWN"}, blockedBy)

DayCap == Rule("DAY_CAP", "DRAW", {}, {}, {})

\* canonical_two_faction_win_conditions
Canonical == <<NoThreats({"MAFIA"}), Parity({}), DayCap>>

\* sk12_v1
SerialKiller ==
    <<NoThreats({"MAFIA", "SERIAL_KILLER"}),
      Rule("SOLO_LAST_ALIVE", "SERIAL_KILLER", {"SERIAL_KILLER"}, {}, {}),
      Parity({"SERIAL_KILLER"}), DayCap>>

\* jester8_v1
Jester ==
    <<Rule("ALT_TRIGGER", "JESTER", {}, {}, {}), NoThreats({"MAFIA"}), Parity({}), DayCap>>

Game(role, conditions) == [role |-> role, conditions |-> conditions]

MCGames ==
    {Game(<<"MAFIA_GOON", "SERIAL_KILLER", "VILLAGER", "VILLAGER", "MAYOR">>, SerialKiller),
     Game(<<"JESTER", "MAFIA_GOON", "VILLAGER", "VILLAGER", "VILLAGER">>, Jester),
     Game(<<"MAFIA_GOON", "JANITOR", "COMMUTER", "DOCTOR", "VILLAGER">>, Canonical)}

DoctorGames ==
    {Game(<<"MAFIA_GOON", "DOCTOR", "DETECTIVE", "VILLAGER", "VILLAGER">>, Canonical)}
=============================================================================
