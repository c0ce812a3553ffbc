----------------------------- MODULE MCReplicas -----------------------------
(***************************************************************************)
(* What several processes do to the same rows, for TLC.  The journal of a  *)
(* game, the ratings, the boards that are read from them and the           *)
(* gauntlets that nobody asks for share no state that the modules model,   *)
(* so each is explored in a scene of its own, with the others at rest; and *)
(* so are the making of a campaign's pairing matrix and the gate that      *)
(* decides whether its results are published.                              *)
(***************************************************************************)
EXTENDS GameJournal, Leaderboards, Tournaments, Pairing, PublishGate, TLC

VARIABLE scene

others == <<ratingVars, boardVars, tournamentVars, pairingVars, gateVars>>

replicaVars == <<scene, vars, others>>

\* Tables of three and of four, mirrored, of three and of two, not; the last of them meets too
\* few others in one round.
OneOfThree == [goon |-> 1, detective |-> 1, villager |-> 1]

MirrorOfThree ==
    [format |-> "MIRROR", field |-> 4, players |-> 3, cast |-> OneOfThree, goal |-> 12]

FourSetups ==
    {MirrorOfThree,
     [format |-> "MIRROR", field |-> 4, players |-> 4, goal |-> 8,
      cast |-> [goon |-> 1, detective |-> 1, villager |-> 2]],
     [format |-> "ROUND_ROBIN", field |-> 4, players |-> 3, cast |-> OneOfThree, goal |-> 3],
     [format |-> "ROUND_ROBIN", field |-> 6, players |-> 2, goal |-> 2,
      cast |-> [goon |-> 1, villager |-> 1]]}

TwoFactions == [MAFIA |-> {"goon"}, TOWN |-> {"detective", "villager"}]

ThreeFamilies ==
    [DECEPTIVE |-> {"goon"}, INVESTIGATIVE |-> {"detective"}, VANILLA_TOWN |-> {"villager"}]

\* The order that was, and one with two models swapped and the next offset
TwoLaps(n) ==
    {[order |-> [i \in 1..n |-> i], offset |-> 0],
     [order |-> [i \in 1..n |-> IF i <= 2 THEN 3 - i ELSE i], offset |-> 1]}

\* In the scene of the boards one contest is over, so that the boards are asked for often
\* and the ratings change seldom.
OneMoreContest ==
    Cardinality({g \in Contests :
        /\ PairOf[g] = 0
        /\ \/ winners[g] # Unplayed
           \/ \E w \in Processes : writing[w].kind # "none" /\ writing[w].game = g}) <= 1

ReplicasInit ==
    /\ scene \in {"journal", "ladders", "boards", "tournaments", "pairing", "gate"}
    /\ Init /\ RatingsInit /\ BoardsInit /\ TournamentsInit /\ PairingInit /\ GateInit
    /\ scene # "pairing" => setup = MirrorOfThree /\ strides = <<1, 3>>

ReplicasNext ==
    /\ UNCHANGED scene
    /\ \/ scene = "journal" /\ Next /\ UNCHANGED others
       \/ /\ UNCHANGED vars
          /\ \/ /\ scene \in {"ladders", "boards"} /\ RatingsNext
                /\ scene = "boards" => OneMoreContest'
                /\ UNCHANGED <<boardVars, tournamentVars, pairingVars, gateVars>>
             \/ /\ scene = "boards" /\ BoardsNext
                /\ UNCHANGED <<ratingVars, tournamentVars, pairingVars, gateVars>>
             \/ /\ scene = "tournaments" /\ TournamentsNext
                /\ UNCHANGED <<ratingVars, boardVars, pairingVars, gateVars>>
             \/ /\ scene = "pairing" /\ PairingNext
                /\ UNCHANGED <<ratingVars, boardVars, tournamentVars, gateVars>>
             \/ /\ scene = "gate" /\ GateNext
                /\ UNCHANGED <<ratingVars, boardVars, tournamentVars, pairingVars>>

ReplicasSpec == ReplicasInit /\ [][ReplicasNext]_replicaVars

\* Every table and every process of the scenes is what its module says.  What is at rest is
\* as it was in the first state of its own scene.
ReplicasTypeOK ==
    CASE scene = "journal"             -> TypeOK
      [] scene \in {"ladders", "boards"} -> RatingsTypeOK /\ BoardsTypeOK
      [] scene = "tournaments"         -> TournamentsTypeOK
      [] scene = "pairing"             -> PairingTypeOK
      [] scene = "gate"                -> GateTypeOK

BothWorkers == {"host:1", "host:2"}

BothTeams == {"TOWN", "MAFIA"}

\* Three agent builds, two of which run the same model, and a human.  A mirror pair of two
\* games, a game that seats builds on both sides, and a game of every other ladder.
SeatFor(who, side) == [who |-> who, side |-> side]

OneOfEach == <<"team", "team", "team", "placement", "solo", "human">>

FirstTwo == <<1, 1, 0, 0, 0, 0>>

Lineups ==
    << <<SeatFor("x", "TOWN"), SeatFor("y", "MAFIA")>>,
       <<SeatFor("y", "TOWN"), SeatFor("x", "MAFIA")>>,
       <<SeatFor("x", "TOWN"), SeatFor("y", "TOWN"), SeatFor("x", "MAFIA"),
         SeatFor("y", "MAFIA"), SeatFor("z", "TOWN")>>,
       <<SeatFor("x", "TOWN"), SeatFor("x", "TOWN"), SeatFor("y", "JESTER")>>,
       <<SeatFor("x", "JESTER"), SeatFor("y", "TOWN")>>,
       <<SeatFor("p", "TOWN"), SeatFor("x", "MAFIA")>> >>

Ends == <<{"TOWN"}, {"MAFIA"}, {"TOWN"}, {"DRAW", "MAFIA"}, {"JESTER"}, {"TOWN"}>>

TwoModels == [b \in {"x", "y", "z"} |-> IF b = "z" THEN "n" ELSE "m"]

\* One game by a submitter without a key, and one that is sent with and without a signature
Bundles ==
    {[game |-> "u", seats |-> Lineups[1], winner |-> "TOWN", intact |-> TRUE, sig |-> "none"],
     [game |-> "v", seats |-> Lineups[3], winner |-> "MAFIA", intact |-> TRUE, sig |-> "verifies"],
     [game |-> "v", seats |-> Lineups[3], winner |-> "MAFIA", intact |-> TRUE, sig |-> "none"]}

TwoGames == [s \in Schedules |-> 2]

OneSeat == [s \in Schedules |-> {"x"}]

\* Each cell of the campaign seats the same two builds, of a model each.
BothBuilds == [c \in CampaignCells |-> {1, 2}]

OwnModel == [b \in 1..2 |-> b]

\* The processes of the scenes go by the same two names.
Interchangeable == Permutations(Processes)
=============================================================================
