---------------------------- MODULE PublishGate ----------------------------
(***************************************************************************)
(* When the results of a campaign may be published.  The gate is asked at  *)
(* any moment, while cells are played, fail and are tried again and while  *)
(* the league's ratings move, also by games that are not the campaign's.   *)
(* It reads the event rows, the rating events, the ratings and the report, *)
(* and answers with a list of what is in the way.                          *)
(***************************************************************************)
EXTENDS Integers, Sequences, FiniteSets, SequencesExt, FiniteSetsExt

CONSTANTS
    CampaignCells,  \* the cells of one campaign
    RosterBuilds,   \* cell -> the builds its pair of games seats
    ModelKeyOf,     \* build -> the key of the model it runs
    GameTarget,     \* Campaign.per_model_game_target
    SigmaGames,     \* rated games after which a rating's sigma is at the campaign's target
    StabilityWindow,\* Campaign.rank_stability_k
    CellMaxAttempts,\* cell_max_attempts
    Blemishes,      \* what may be wrong with a game's rows: "chain", "leak", "stamp"
    MaxElsewhere    \* bound: rated games of the league outside the campaign

ASSUME GateAssumption ==
    /\ RosterBuilds \in [CampaignCells -> SUBSET DOMAIN ModelKeyOf]
    /\ \A c \in CampaignCells : IsFiniteSet(RosterBuilds[c])
    /\ CellMaxAttempts \in Nat \ {0} /\ StabilityWindow \in Nat

VARIABLES
    pairings,       \* cell -> its status, attempts and current gauntlet (0 = NULL)
    pairs,          \* the gauntlets of the campaign, each of one mirror pair: cell and the two games
    updates,        \* rating_events of the GLOBAL scope, in the order they were written
    blemished,      \* the games with something wrong, and what
    lostFailures    \* history: cells completed by a driver that had lost track of a failed game

gateVars == <<pairings, pairs, updates, blemished, lostFailures>>

RatedBuilds == DOMAIN ModelKeyOf

Leg == 1..2

CampaignGames == (DOMAIN pairs) \X Leg

GameStatus(g) == pairs[g[1]].games[g[2]]

Elsewhere == <<0, 0>>

\* A rating event: by how much a game moved the conservative score of a build
RatingUpdate(g, b, by) == [game |-> g, build |-> b, by |-> by]

-----------------------------------------------------------------------------
\* The campaign

GateInit ==
    /\ pairings = [c \in CampaignCells |-> [status |-> "PENDING", attempts |-> 0, gauntlet |-> 0]]
    /\ pairs = <<>> /\ updates = <<>>
    /\ blemished = {} /\ lostFailures = {}

\* materialize_due_cells, for one cell
MaterializePairing(c) ==
    /\ pairings[c].status = "PENDING"
    /\ pairs' = Append(pairs, [cell |-> c, games |-> [l \in Leg |-> "RUNNING"],
                               again |-> pairings[c].attempts > 0])
    /\ pairings' = [pairings EXCEPT ![c].status = "MATERIALIZED", ![c].gauntlet = Len(pairs) + 1]
    /\ UNCHANGED <<updates, blemished, lostFailures>>

\* What a game is to the builds it seats: as many go up as go down.  A sequence of events.
Moves(g, c) ==
    LET seats == SetToSeq(RosterBuilds[c]) IN
    {[i \in DOMAIN seats |-> RatingUpdate(g, seats[i], by[seats[i]])] :
        by \in {by \in [RosterBuilds[c] -> {-1, 1}] : MapThenSumSet(LAMBDA b : by[b], RosterBuilds[c]) = 0}}

\* A game ends.  The pair is rated when both legs have COMPLETED, unless the cell was tried
\* before: the new games carry the old pair_id, and four games are no pair.
EndLeg(n, l, status) ==
    LET games == [pairs[n].games EXCEPT ![l] = status] IN
    /\ pairs[n].games[l] = "RUNNING"
    /\ pairs' = [pairs EXCEPT ![n].games = games]
    /\ IF (\A k \in Leg : games[k] = "COMPLETED") /\ ~pairs[n].again
       THEN \E first \in Moves(<<n, 1>>, pairs[n].cell), second \in Moves(<<n, 2>>, pairs[n].cell) :
               updates' = updates \o first \o second
       ELSE UNCHANGED updates
    /\ blemished' \in IF status = "COMPLETED" /\ blemished = {}
                      THEN {blemished} \cup {{<<<<n, l>>, what>>} : what \in Blemishes} ELSE {blemished}
    /\ UNCHANGED <<pairings, lostFailures>>

\* The driver of the gauntlet records what became of the cell.  A driver that took over from
\* one that was killed does not know of a game that had failed by then.
SettlePairing(c) ==
    LET n == pairings[c].gauntlet
        failed == \E l \in Leg : pairs[n].games[l] = "FAILED"
        attempts == pairings[c].attempts + 1
    IN  /\ pairings[c].status = "MATERIALIZED"
        /\ \A l \in Leg : pairs[n].games[l] # "RUNNING"
        /\ \/ /\ failed
              /\ pairings' = [pairings EXCEPT ![c] =
                   IF attempts >= CellMaxAttempts
                   THEN [@ EXCEPT !.status = "DEAD_LETTER", !.attempts = attempts]
                   ELSE [@ EXCEPT !.status = "PENDING", !.attempts = attempts, !.gauntlet = 0]]
              /\ UNCHANGED lostFailures
           \/ /\ pairings' = [pairings EXCEPT ![c].status = "COMPLETED"]
              /\ lostFailures' = IF failed THEN lostFailures \cup {c} ELSE lostFailures
        /\ UNCHANGED <<pairs, updates, blemished>>

\* A ranked game of the league that is not the campaign's lifts a build of the campaign.
PlayElsewhere ==
    /\ Cardinality({n \in DOMAIN updates : updates[n].game = Elsewhere}) < MaxElsewhere
    /\ \E b \in RatedBuilds : updates' = Append(updates, RatingUpdate(Elsewhere, b, 1))
    /\ UNCHANGED <<pairings, pairs, blemished, lostFailures>>

GateNext ==
    \/ \E c \in CampaignCells : MaterializePairing(c) \/ SettlePairing(c)
    \/ \E n \in DOMAIN pairs, l \in Leg, status \in {"COMPLETED", "FAILED"} : EndLeg(n, l, status)
    \/ PlayElsewhere

GateSpec == GateInit /\ [][GateNext]_gateVars

-----------------------------------------------------------------------------
\* What the gate reads

\* A game of a cell's current gauntlet, by the join over CampaignPairing.gauntlet_id
CellOf(g) == {c \in CampaignCells : pairings[c].gauntlet = g[1]}

\* _published_game_ids
PublishedGames ==
    {g \in CampaignGames : GameStatus(g) = "COMPLETED" /\
        \E c \in CellOf(g) : pairings[c].status = "COMPLETED"}

\* _replay_hash_blockers: every game of the campaign, also those of a failed attempt
ReplayHashBlockers == {g \in CampaignGames : <<g, "chain">> \in blemished}

\* _identity_blockers and _cost_stamp_blockers: the published games
StampBlockers == {g \in PublishedGames : {<<g, "leak">>, <<g, "stamp">>} \cap blemished # {}}

\* Had the gate looked at the games' status only, and not at that of their cells:
ExcludedRatingBlockers_Slip ==
    {g \in CampaignGames : /\ CellOf(g) # {} /\ GameStatus(g) # "COMPLETED"
                           /\ \E n \in DOMAIN updates : updates[n].game = g}

\* _excluded_rating_blockers: a rating event of a game that is not published
ExcludedRatingBlockers ==
    {g \in CampaignGames : /\ CellOf(g) # {} /\ g \notin PublishedGames
                           /\ \E n \in DOMAIN updates : updates[n].game = g}

\* The ratings of the league, after the first n updates
GamesRated(b, n) == Cardinality({i \in 1..n : updates[i].build = b})

ScoreOf(b, n) ==
    LET moved(by) == Cardinality({i \in 1..n : updates[i].build = b /\ updates[i].by = by})
    IN  moved(1) - moved(-1)

RatedNow == {b \in RatedBuilds : GamesRated(b, Len(updates)) > 0}

\* _model_scopes_from_build_ids
ModelsOf(builds) == {ModelKeyOf[b] : b \in builds}

\* _expected_model_scopes: from the rosters of all cells, played or not
ExpectedModels == ModelsOf(UNION {RosterBuilds[c] : c \in CampaignCells})

\* _published_model_coverage: seats
PublishedModelCoverage(m) ==
    MapThenSumSet(LAMBDA g : Cardinality({b \in RosterBuilds[pairs[g[1]].cell] : ModelKeyOf[b] = m}),
                  PublishedGames)

BuildsOf(m) == {b \in RatedBuilds : ModelKeyOf[b] = m}

\* _canonical_model_convergence and _aggregate_rating: the mean over a model's builds, weighted
\* by their games
RatingGames(m, n) == MapThenSumSet(LAMBDA b : GamesRated(b, n), BuildsOf(m))

AggregateRating(m, n) ==
    LET total == RatingGames(m, n) IN
    IF total = 0 THEN 0
    ELSE MapThenSumSet(LAMBDA b : ScoreOf(b, n) * GamesRated(b, n), BuildsOf(m)) \div total

\* _ranks: by score, then by key
Ranks(who, score(_)) ==
    [x \in who |-> 1 + Cardinality({y \in who : score(y) > score(x) \/ (score(y) = score(x) /\ y < x)})]

\* The last k rating events of the league
RecentUpdates == {n \in DOMAIN updates : n > Len(updates) - StabilityWindow}

\* _model_rank_stability: what the recent updates moved is taken back from today's scores.
ModelRankStable(m) ==
    LET models == ModelsOf(RatedNow)
        now(x) == AggregateRating(x, Len(updates))
        baseline(x) == now(x) - MapThenSumSet(LAMBDA n :
            IF ModelKeyOf[updates[n].build] = x THEN updates[n].by ELSE 0, RecentUpdates)
    IN  Ranks(models, now)[m] = Ranks(models, baseline)[m]

\* _agent_rank_stability: a build starts the window with the score before its oldest update.
AgentRankStable(b) ==
    LET now(x) == ScoreOf(x, Len(updates))
        oldest(x) == {n \in RecentUpdates : updates[n].build = x}
        baseline(x) == IF oldest(x) = {} THEN now(x) ELSE ScoreOf(x, Min(oldest(x)) - 1)
    IN  Ranks(RatedNow, now)[b] = Ranks(RatedNow, baseline)[b]

\* _canonical_model_blockers
CanonicalModelBlockers ==
    {m \in ExpectedModels :
        \/ PublishedModelCoverage(m) < GameTarget
        \/ RatingGames(m, Len(updates)) < GameTarget
        \/ RatingGames(m, Len(updates)) < SigmaGames
        \/ m \notin ModelsOf(RatedNow) \/ ~ModelRankStable(m)}

\* _reported_scope_blockers, over _campaign_convergence: every rated build of the league
ReportedScopeBlockers ==
    {b \in RatedNow :
        \/ GamesRated(b, Len(updates)) < GameTarget
        \/ GamesRated(b, Len(updates)) < SigmaGames
        \/ ~AgentRankStable(b)}

\* evaluate_publish_gate
ReadyToPublish ==
    /\ ReplayHashBlockers = {} /\ StampBlockers = {} /\ ExcludedRatingBlockers = {}
    /\ CanonicalModelBlockers = {} /\ ReportedScopeBlockers = {}

\* list_dead_letter_cells
DocumentedHoles == {c \in CampaignCells : pairings[c].status = "DEAD_LETTER"}

-----------------------------------------------------------------------------
GateTypeOK ==
    /\ \A c \in CampaignCells :
          /\ pairings[c].status \in {"PENDING", "MATERIALIZED", "COMPLETED", "DEAD_LETTER"}
          /\ pairings[c].attempts \in 0..CellMaxAttempts
          /\ pairings[c].gauntlet \in 0..Len(pairs)
    /\ \A g \in CampaignGames : GameStatus(g) \in {"RUNNING", "COMPLETED", "FAILED"}
    /\ \A n \in DOMAIN updates : updates[n].game \in CampaignGames \cup {Elsewhere}
    /\ blemished \subseteq CampaignGames \X Blemishes
    /\ lostFailures \subseteq CampaignCells

\* A campaign that is ready rests on games that count: whatever of its games moved a rating is
\* published, in a cell that was played to its end or whose driver lost track; no game of any
\* attempt breaks its chain; every failed cell that is not played again is documented; and the
\* ranks of the builds are those of the moment before the window of updates.
ReadyMeansEvidence ==
    ReadyToPublish =>
        /\ \A n \in DOMAIN updates : updates[n].game # Elsewhere =>
              updates[n].game \in PublishedGames
        /\ \A g \in CampaignGames : <<g, "chain">> \notin blemished
        /\ \A n \in DOMAIN pairs :
              "FAILED" \in {pairs[n].games[l] : l \in Leg} =>
                  \/ pairs[n].cell \in DocumentedHoles \cup lostFailures
                  \/ pairings[pairs[n].cell].gauntlet # n
                  \/ pairings[pairs[n].cell].status = "MATERIALIZED"
        /\ LET then == Max({0, Len(updates) - StabilityWindow})
               before(b) == ScoreOf(b, then)
               now(b) == ScoreOf(b, Len(updates))
           IN  Ranks(RatedNow, before) = Ranks(RatedNow, now)
=============================================================================
