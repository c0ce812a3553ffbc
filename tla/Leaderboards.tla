----------------------------- MODULE Leaderboards -----------------------------
(***************************************************************************)
(* The boards that are computed from the ladders of Ratings: the rollup by *)
(* model, the public board with its cards and its table of games ingested  *)
(* from other nodes, and the board of a league.                            *)
(*                                                                         *)
(* The first two are kept in a dict of the process under a tag.  A request *)
(* reads the tag, and if nothing is kept under it, the rows: two steps,    *)
(* between which games end.  Each is several statements, every one of      *)
(* which reads a table of its own.  A kept board is never dropped.         *)
(***************************************************************************)
EXTENDS Ratings, FiniteSetsExt

CONSTANTS
    ModelOf,        \* build -> its provider, model name and model version
    Submissions,    \* the bundles that submitters send: the game, its seats and winner, whether
                    \* it is intact, and its signature: "none", "verifies" or "fails"
    Established,    \* games or attempts from which a card is not provisional
    MaxReads        \* bound: requests that miss the cache

VARIABLES
    rollups,        \* model_rollup._CACHE
    boards,         \* public_leaderboard._CACHE
    ingested,       \* ingested_games, in the order of their creation
    asking,         \* process -> the board it is computing, and its tag
    misses           \* requests that have missed

boardVars == <<rollups, boards, ingested, asking, misses>>

-----------------------------------------------------------------------------
\* The rollup by model

Completed == {g \in Contests : winners[g] # Unplayed /\ Ladder[g] = "team"}

RowsOf(table) == table \cap DOMAIN ratings

\* max(updated_at), and the number of rows beside it where the code counts them
LatestInsert(table) ==
    LET at == {ratings[k].at : k \in RowsOf(table)}
    IN  IF at = {} THEN 0 ELSE CHOOSE t \in at : \A u \in at : u <= t

\* Had the rollup been kept under the ratings alone:
RollupTag_Slip == [ratings |-> LatestInsert(Rating), events |-> 0]

\* _cache_tag: the seats of every game submit something, so that the number of completed
\* games stands for the number of their submission events.
RollupTag == [ratings |-> LatestInsert(Rating), events |-> Cardinality(Completed)]

\* _record_outcome, over the seats <<game, index>>
Outcomes(seats) ==
    LET With(result) ==
            Cardinality({s \in seats : Standing(Seating[s[1]][s[2]].side, winners[s[1]]) = result})
    IN  [games |-> Cardinality(seats), wins |-> With("won"), draws |-> With("drawn"),
         losses |-> With("lost")]

\* _seat_counters_per_build
SeatsBy(builds) ==
    {s \in UNION {{g} \X DOMAIN Seating[g] : g \in Completed} : Seating[s[1]][s[2]].who \in builds}

\* _ModelBucket and _bucket_to_entry.  Its mu and sigma are a mean of the samples, which
\* they determine.
ModelEntry(m) ==
    LET builds == {b \in Builds : ModelOf[b] = m}
        seats == SeatsBy(builds)
        samples == [scope \in {"GLOBAL", "TOWN", "MAFIA"} |->
            {[who |-> k.who, value |-> ratings[k].value, games |-> ratings[k].games] :
                k \in {k \in RowsOf(Rating) : k.who \in builds /\ k.scope = scope}}]
    IN  [samples |-> samples, outcomes |-> Outcomes(seats),
         factions |-> [f \in {"TOWN", "MAFIA"} |->
             Outcomes({s \in seats : Seating[s[1]][s[2]].side = f})]]

\* rollup_by_model: the models of all builds with a rating or a seat
ModelRollup ==
    [m \in {ModelOf[b] : b \in {b \in Builds : \/ \E k \in RowsOf(Rating) : k.who = b
                                               \/ SeatsBy({b}) # {}}} |-> ModelEntry(m)]

-----------------------------------------------------------------------------
\* The board of the league, which is computed for every request

\* _is_provisional, with the thresholds of a gauntlet's completion scaled down alike
LeagueProvisional(outcomes, factions) ==
    outcomes.games < Established \/ \E f \in {"TOWN", "MAFIA"} : factions[f].games < 1

\* _per_ab_counters, _per_ab_faction_breakdown and _build_entry: a build without a rating row
\* is listed with the initial values.
LeagueEntry(b) ==
    LET outcomes == Outcomes(SeatsBy({b}))
        factions == [f \in {"TOWN", "MAFIA"} |->
            Outcomes({s \in SeatsBy({b}) : Seating[s[1]][s[2]].side = f})]
    IN  [outcomes |-> outcomes, factions |-> factions,
         ratings |-> [scope \in {"GLOBAL", "TOWN", "MAFIA"} |->
             Row(RatingKey("team", b, scope)).value],
         provisional |-> LeagueProvisional(outcomes, factions)]

\* compute_leaderboard: the builds with a seat in a terminal game
LeagueBoard == [b \in {b \in Builds : SeatsBy({b}) # {}} |-> LeagueEntry(b)]

-----------------------------------------------------------------------------
\* The public board

\* _openskill_card, _solo_card and _human_openskill_card
Card(k) == [key |-> k, sample |-> ratings[k].games, provisional |-> ratings[k].games < Established]

CanonicalCards == {Card(k) : k \in {k \in RowsOf(Rating) : k.scope = "GLOBAL"}}

FactionCards == {Card(k) : k \in {k \in RowsOf(Rating) : k.scope # "GLOBAL"}}

ExperimentalCards == {Card(k) : k \in RowsOf(PlacementRating) \cup RowsOf(SoloRateRating)}

HumanCards == {Card(k) : k \in RowsOf(HumanRating)}

\* _rank_cards: established cards compete with those of their context and scope.
RankedWith(c, cards) ==
    IF c.provisional THEN {}
    ELSE {d.key : d \in {d \in cards : /\ ~d.provisional
                                       /\ d.key.ladder = c.key.ladder
                                       /\ d.key.scope = c.key.scope}}

Ranked(cards) == {[card |-> c, rivals |-> RankedWith(c, cards)] : c \in cards}

\* _aggregate and _apply_game: the verified games in order; a game needs a winner that it
\* knows, and both teams.
Countable(row) ==
    /\ row.status = "verified"
    /\ row.winner \in {"TOWN", "MAFIA", "DRAW"}
    /\ {"TOWN", "MAFIA"} \subseteq {row.seats[i].side : i \in DOMAIN row.seats}

EntityEntry(rows, who) ==
    LET Of(row) == {i \in DOMAIN row.seats : row.seats[i].who = who
                                             /\ row.seats[i].side \in {"TOWN", "MAFIA"}}
        played == SelectSeq(rows, LAMBDA row : Countable(row) /\ Of(row) # {})
        \* The mafia is written after the town.
        SideIn(row) == IF \E i \in Of(row) : row.seats[i].side = "MAFIA" THEN "MAFIA" ELSE "TOWN"
    IN  [n \in DOMAIN played |-> Standing(SideIn(played[n]), played[n].winner)]

EntityEntries ==
    LET entities == UNION {{ingested[n].seats[i].who : i \in DOMAIN ingested[n].seats} :
                           n \in DOMAIN ingested}
    IN  {[entity |-> w, value |-> EntityEntry(ingested, w)] :
            w \in {w \in entities : EntityEntry(ingested, w) # <<>>}}

\* _rating_cache_part and _ingested_cache_part
CachePart(table) == [at |-> LatestInsert(table), count |-> Cardinality(RowsOf(table))]

BoardTag ==
    [ingested |-> Cardinality({n \in DOMAIN ingested : ingested[n].status = "verified"}),
     canonical |-> CachePart(Rating), placement |-> CachePart(PlacementRating),
     solo |-> CachePart(SoloRateRating), human |-> CachePart(HumanRating)]

PublicLeaderboard ==
    [entries |-> EntityEntries, canonical |-> Ranked(CanonicalCards),
     faction |-> Ranked(FactionCards), experimental |-> Ranked(ExperimentalCards),
     human |-> Ranked(HumanCards)]

-----------------------------------------------------------------------------
\* Requests

NoBoard == [board |-> "none"]

BoardsInit ==
    /\ rollups = {} /\ boards = {}
    /\ ingested = <<>>
    /\ asking = [w \in Processes |-> NoBoard]
    /\ misses = 0

\* ingest_game.  A bundle that was altered, or whose signature fails, is refused; a game
\* that is there already stays as it is.
Ingest(b) ==
    /\ b.intact /\ b.sig # "fails"
    /\ \A n \in DOMAIN ingested : ingested[n].game # b.game
    /\ ingested' = Append(ingested,
         [game |-> b.game, seats |-> b.seats, winner |-> b.winner,
          status |-> IF b.sig = "verifies" THEN "verified" ELSE "unverified"])
    /\ UNCHANGED <<rollups, boards, asking, misses>>

Miss(w, board, tag, cache) ==
    /\ asking[w] = NoBoard /\ misses < MaxReads
    /\ \A c \in cache : c.tag # tag
    /\ asking' = [asking EXCEPT ![w] = [board |-> board, tag |-> tag]]
    /\ misses' = misses + 1
    /\ UNCHANGED <<rollups, boards, ingested>>

\* rollup_by_model, compute_public_leaderboard: the tag
AskRollup(w) == Miss(w, "rollup", RollupTag, rollups)

AskBoard(w) == Miss(w, "public", BoardTag, boards)

KeptUnder(cache, tag, content) == {c \in cache : c.tag # tag} \cup {[tag |-> tag, content |-> content]}

\* ... and the rows
FillRollup(w) ==
    /\ asking[w].board = "rollup"
    /\ rollups' = KeptUnder(rollups, asking[w].tag, ModelRollup)
    /\ asking' = [asking EXCEPT ![w] = NoBoard]
    /\ UNCHANGED <<boards, ingested, misses>>

FillBoard(w) ==
    /\ asking[w].board = "public"
    /\ boards' = KeptUnder(boards, asking[w].tag, PublicLeaderboard)
    /\ asking' = [asking EXCEPT ![w] = NoBoard]
    /\ UNCHANGED <<rollups, ingested, misses>>

BoardsNext ==
    \/ \E b \in Submissions : Ingest(b)
    \/ \E w \in Processes : AskRollup(w) \/ AskBoard(w) \/ FillRollup(w) \/ FillBoard(w)

-----------------------------------------------------------------------------
BoardsTypeOK ==
    /\ \A w \in Processes : asking[w].board \in {"none", "rollup", "public"}
    /\ \A n \in DOMAIN ingested : ingested[n].status \in {"verified", "unverified"}
    /\ misses \in 0..MaxReads

\* Keys of the rows that a pair changed when its gauntlet settled, with neither a new row
\* nor a new game
SettledKeys == {ledger[n].key : n \in {n \in DOMAIN ledger : PairOf[ledger[n].game] \in settled}}

CardsOf(board) == board.canonical \cup board.faction \cup board.experimental \cup board.human

\* What a request is served from the cache: the rollup counts every game that has ended, and
\* has the ratings of now, but for pairs that were rated after both games, and as many games
\* as the board of the league lists for its builds; the public board
\* has a card for every row and counts every verified game, and ranks none against a card of
\* another ladder, though it may show a card as it was before its latest games.
BoardsKeepUp ==
    /\ \A c \in rollups : c.tag = RollupTag =>
          /\ DOMAIN c.content = DOMAIN ModelRollup
          /\ \A m \in DOMAIN ModelRollup :
                LET kept == c.content[m] now == ModelEntry(m)
                IN  /\ kept.outcomes = now.outcomes /\ kept.factions = now.factions
                    /\ \/ kept.samples = now.samples
                       \/ \E k \in SettledKeys : ModelOf[k.who] = m
                    /\ kept.outcomes.games = MapThenSumSet(LAMBDA b : LeagueBoard[b].outcomes.games,
                                                          {b \in DOMAIN LeagueBoard : ModelOf[b] = m})
    /\ \A c \in boards : c.tag = BoardTag =>
          /\ c.content.entries = EntityEntries
          /\ {r.card.key : r \in CardsOf(c.content)} = RowsOf(Keys)
          /\ \A r \in CardsOf(c.content) :
                /\ r.card.sample <= ratings[r.card.key].games
                /\ \A k \in r.rivals : k.ladder = r.card.key.ladder
=============================================================================
