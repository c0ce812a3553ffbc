------------------------------- MODULE Ratings -------------------------------
(***************************************************************************)
(* The rating ladders: what the end of a game writes to ratings,           *)
(* placement_ratings, solo_rate_ratings and human_rating, and to the audit *)
(* rows beside each of them.                                               *)
(*                                                                         *)
(* A row's mu and sigma (or its counts) are the contributions that went    *)
(* into them, in order: the arithmetic of openskill is left out, and two   *)
(* ratings are equal exactly if the same results made them.  Rows are read *)
(* when a transaction begins to rate and written when it commits, without  *)
(* a lock in between; once it writes, the locks on the global rows keep    *)
(* other writers out until it has committed, so that the faction rows,     *)
(* which it reads only then, are current.                                  *)
(***************************************************************************)
EXTENDS Integers, Sequences, FiniteSets

CONSTANTS
    Processes,      \* that play games or settle gauntlets
    Contests,       \* the games, numbered in the order of game_seed, pair_leg and id
    Ladder,         \* game -> the ladder of its ruleset and league: "team", "placement",
                    \* "solo" or "human"
    PairOf,         \* game -> its pair_id, 0 for none
    Seating,        \* game -> its seats in order, each with who sits there and the faction
    HumanPlayers,   \* occupants that are human principals; everyone else is an agent build
    TerminalResults \* game -> the winners it may end with

\* The kinds of rating_contexts; games with ranked humans have a ladder of their own.
RatingContext == {"team", "placement", "solo"}

Unplayed == "open"

\* Games have seats, and people sit on the ladder for games with people only.
ASSUME RatingsAssumption ==
    /\ Contests \subseteq Nat \ {0} /\ IsFiniteSet(Contests)
    /\ Ladder \in [Contests -> RatingContext \cup {"human"}]
    /\ PairOf \in [Contests -> Nat]
    /\ \A g \in Contests :
          /\ Len(Seating[g]) \in Nat \ {0} /\ DOMAIN Seating[g] = 1..Len(Seating[g])
          /\ Ladder[g] # "human" => \A i \in DOMAIN Seating[g] : Seating[g][i].who \notin HumanPlayers
          /\ Unplayed \notin TerminalResults[g]
          /\ Ladder[g] = "team" => TerminalResults[g] \subseteq {"TOWN", "MAFIA", "DRAW"}

VARIABLES
    winners,        \* game -> terminal_result of a COMPLETED game, or "open"
    ratings,        \* the rows of the four tables, by their keys
    ledger,         \* the audit rows of the four tables, as they were committed
    writing,        \* process -> the transaction it has open
    lost,           \* history: keys whose row was overwritten with outdated values
    settled         \* history: pairs that were rated when their gauntlet settled

ratingVars == <<winners, ratings, ledger, writing, lost, settled>>

-----------------------------------------------------------------------------
\* The rows of the four tables, by their unique constraints

RatingKey(ladder, who, scope) == [ladder |-> ladder, who |-> who, scope |-> scope]

Occupants == UNION {{Seating[g][i].who : i \in DOMAIN Seating[g]} : g \in Contests}

Builds == Occupants \ HumanPlayers

Rating == [ladder : {"team"}, who : Builds, scope : {"GLOBAL", "TOWN", "MAFIA"}]

PlacementRating == [ladder : {"placement"}, who : Builds, scope : {"GLOBAL"}]

SoloRateRating == [ladder : {"solo"}, who : Builds, scope : {"JESTER"}]

HumanRating == [ladder : {"human"}, who : HumanPlayers, scope : {"GLOBAL"}]

Keys == Rating \cup PlacementRating \cup SoloRateRating \cup HumanRating

\* get_or_create: a rating nobody has won or lost anything on.  updated_at is set by the
\* insert, and after that by the updates of a solo rate alone.
NewRow == [value |-> <<>>, games |-> 0, at |-> 0]

Row(k) == IF k \in DOMAIN ratings THEN ratings[k] ELSE NewRow

\* canonical_team_ranks_for_outcome, and its like for more than two groups
Standing(side, winner) == IF winner = "DRAW" THEN "drawn" ELSE IF side = winner THEN "won" ELSE "lost"

Side(seat) == IF seat.side = "TOWN" THEN "TOWN" ELSE "MAFIA"

SeatsOn(g, sides) == {i \in DOMAIN Seating[g] : Seating[g][i].side \in sides}

\* Indexes in ascending order
Ascending(s) == [n \in 1..Cardinality(s) |-> CHOOSE i \in s : Cardinality({j \in s : j < i}) = n - 1]

\* The team of the town first, each in the order of the seats
TeamOrder(g, seats) ==
    Ascending(seats \cap SeatsOn(g, {"TOWN"})) \o Ascending(seats \ SeatsOn(g, {"TOWN"}))

\* One seat's share of an update: the row, the seat and how it did
Entry(key, g, i, result) == [key |-> key, game |-> g, seat |-> i, result |-> result]

TeamEntries(g, winner, scopes) ==
    LET order == TeamOrder(g, DOMAIN Seating[g])
    IN  [n \in DOMAIN order |->
            LET seat == Seating[g][order[n]]
            IN  Entry(RatingKey("team", seat.who, scopes[Side(seat)]), g, order[n],
                      Standing(Side(seat), winner))]

GlobalScope == [TOWN |-> "GLOBAL", MAFIA |-> "GLOBAL"]

FactionScope == [TOWN |-> "TOWN", MAFIA |-> "MAFIA"]

\* update_ratings_for_game: the global scope, then the factions
TeamUpdate(g, winner) == TeamEntries(g, winner, GlobalScope) \o TeamEntries(g, winner, FactionScope)

\* _team_entries: only principals have rows, and both teams must be there, whoever is in them.
HumanSeats(g) ==
    IF {Seating[g][i].side : i \in DOMAIN Seating[g]} = {"TOWN", "MAFIA"}
    THEN {i \in DOMAIN Seating[g] : Seating[g][i].who \in HumanPlayers} ELSE {}

\* update_human_ratings_for_game
HumanUpdate(g, winner) ==
    LET order == TeamOrder(g, HumanSeats(g))
    IN  [n \in DOMAIN order |->
            LET seat == Seating[g][order[n]]
            IN  Entry(RatingKey("human", seat.who, "GLOBAL"), g, order[n],
                      Standing(seat.side, winner))]

\* _ordered_attempts: one for every Jester
SoloAttempts(g) == Ascending(SeatsOn(g, {"JESTER"}))

SoloUpdate(g, winner) ==
    [n \in DOMAIN SoloAttempts(g) |->
        LET i == SoloAttempts(g)[n]
        IN  Entry(RatingKey("solo", Seating[g][i].who, "JESTER"), g, i,
                  IF winner = "JESTER" THEN "won" ELSE "lost")]

\* _apply_placement_scope_update: a build counts once, in the group of its first seat.
FirstSeats(g) ==
    {i \in DOMAIN Seating[g] : \A j \in 1..i - 1 : Seating[g][j].who # Seating[g][i].who}

PlacementUpdate(g, winner) ==
    LET order == Ascending(FirstSeats(g))
    IN  [n \in DOMAIN order |->
            Entry(RatingKey("placement", Seating[g][order[n]].who, "GLOBAL"), g, order[n],
                  Standing(Seating[g][order[n]].side, winner))]

\* _should_apply_placement, _placement_result_for and _placement_groups_for: a game without a
\* pair, whose winner is one of at least two groups, and no build plays for two of them.
Placeable(g, winner) ==
    LET groups == {Seating[g][i].side : i \in DOMAIN Seating[g]}
    IN  /\ PairOf[g] = 0 /\ Cardinality(groups) > 1
        /\ winner \in groups \cup {"DRAW"}
        /\ \A i, j \in DOMAIN Seating[g] :
              Seating[g][i].who = Seating[g][j].who => Seating[g][i].side = Seating[g][j].side

\* _persist_one, for the entries of one update: all of them start from the values that
\* their rows had before it, and the second seat of a build overrides the first.
EntriesOn(k, entries) == {n \in DOMAIN entries : entries[n].key = k}

LastOf(s) == CHOOSE m \in s : \A l \in s : l =< m

WithEntry(session, e) ==
    Append(session.rows[e.key].value, [game |-> e.game, result |-> e.result])

UpdatedRow(session, entries, k) ==
    LET row == session.rows[k]
        mine == EntriesOn(k, entries)
    IN  IF mine = {} THEN row
        ELSE [value |-> WithEntry(session, entries[LastOf(mine)]),
              games |-> row.games + Cardinality(mine),
              at |-> IF row.games = 0 \/ k.ladder = "solo" THEN Len(ledger) + 1 ELSE row.at]

AuditRow(session, entries, n) ==
    LET e == entries[n]
        earlier == {m \in EntriesOn(e.key, entries) : m < n}
    IN  [key |-> e.key, game |-> e.game, seat |-> e.seat, result |-> e.result,
         after |-> WithEntry(session, e),
         before |-> IF earlier = {} THEN session.rows[e.key].value
                    ELSE WithEntry(session, entries[LastOf(earlier)])]

Written(session, entries) ==
    [rows |-> [k \in DOMAIN session.rows |-> UpdatedRow(session, entries, k)],
     events |-> session.events \o [n \in DOMAIN entries |-> AuditRow(session, entries, n)]]

\* What every end of every game writes, on the ladder of the game
Entries ==
    [g \in Contests |-> [winner \in TerminalResults[g] |->
        CASE Ladder[g] = "team" -> TeamUpdate(g, winner)
          [] Ladder[g] = "human" -> HumanUpdate(g, winner)
          [] Ladder[g] = "solo" -> SoloUpdate(g, winner)
          [] Ladder[g] = "placement" -> PlacementUpdate(g, winner)]]

Rated(session, g, winner) == Written(session, Entries[g][winner])

-----------------------------------------------------------------------------
\* Which games an end rates

LegsOf(p) == Ascending({g \in Contests : PairOf[g] = p})

HasEvents(games) == \E n \in DOMAIN ledger : ledger[n].game \in games

\* update_ratings_for_completed_pair: both legs are COMPLETED, on the canonical ladder, and
\* neither has an event
PairToRate(p, table) ==
    LET legs == LegsOf(p)
    IN  IF /\ Len(legs) = 2
           /\ \A n \in DOMAIN legs : table[legs[n]] # Unplayed /\ Ladder[legs[n]] = "team"
           /\ ~HasEvents({legs[n] : n \in DOMAIN legs})
        THEN legs ELSE <<>>

\* Had each leg of a pair been rated with its own end:
ToRate_Slip(g, winner) == <<g>>

\* _should_apply_ratings and its like, and _persist_terminated_event's choice
ToRate(g, winner) ==
    IF Ladder[g] = "placement" THEN <<>>
    ELSE IF Ladder[g] \in {"team", "human"} /\ winner \notin {"TOWN", "MAFIA", "DRAW"} THEN <<>>
    ELSE IF Ladder[g] = "team" /\ PairOf[g] # 0
         THEN PairToRate(PairOf[g], [winners EXCEPT ![g] = winner])
    ELSE <<g>>

-----------------------------------------------------------------------------
\* Transactions

NoWriting == [kind |-> "none"]

\* What a transaction reads before it writes
ReadsOf ==
    [g \in Contests |->
        {k \in Keys : /\ k.ladder = Ladder[g]
                      /\ k.who \in {Seating[g][i].who : i \in DOMAIN Seating[g]}
                      /\ k.scope \in {"GLOBAL", "JESTER"}}]

Opens(w, kind, g, winner, games) ==
    writing' = [writing EXCEPT ![w] =
        [kind |-> kind, game |-> g, winner |-> winner, rates |-> games,
         read |-> [k \in UNION {ReadsOf[games[n]] : n \in DOMAIN games} |-> Row(k)]]]

RatingsInit ==
    /\ winners = [g \in Contests |-> Unplayed]
    /\ ratings = [k \in {} |-> NewRow]
    /\ ledger = <<>>
    /\ writing = [w \in Processes |-> NoWriting]
    /\ lost = {} /\ settled = {}

\* _persist_terminated_event, as far as it reads.  That one process at a time ends a game is
\* GameJournal's; a second one would collide with the sequence of the last event.
EndContest(w, g, winner) ==
    /\ writing[w] = NoWriting
    /\ winners[g] = Unplayed
    /\ \A v \in Processes : writing[v] # NoWriting => writing[v].game # g
    /\ winner \in TerminalResults[g]
    /\ Opens(w, "end", g, winner, ToRate(g, winner))
    /\ UNCHANGED <<winners, ratings, ledger, lost, settled>>

\* _rate_completed_pairs_for_gauntlet
SettlePair(w, p) ==
    /\ writing[w] = NoWriting
    /\ PairToRate(p, winners) # <<>>
    /\ Opens(w, "settle", 0, Unplayed, PairToRate(p, winners))
    /\ UNCHANGED <<winners, ratings, ledger, lost, settled>>

\* _apply_placement_after_finalization, of a game whose end this process has committed
OpenPlacement(w) ==
    /\ writing[w].kind = "owed"
    /\ Opens(w, "placement", writing[w].game, writing[w].winner, <<writing[w].game>>)
    /\ UNCHANGED <<winners, ratings, ledger, lost, settled>>

WinnerOf(t, g) == IF g = t.game THEN t.winner ELSE winners[g]

\* The session's rows: what it read, and the current ones that it reads once it holds locks
Session0(t) ==
    [rows |-> [k \in Keys |-> IF k \in DOMAIN t.read THEN t.read[k] ELSE Row(k)],
     events |-> <<>>]

\* update_ratings_for_mirror_pair: one leg after the other, in the canonical order
AllRated(t) ==
    LET Leg(session, n) == Rated(session, t.rates[n], WinnerOf(t, t.rates[n]))
        first == Leg(Session0(t), 1)
    IN  IF t.rates = <<>> THEN Session0(t) ELSE IF Len(t.rates) = 1 THEN first ELSE Leg(first, 2)

\* The unique constraints of the tables: a row that another transaction has inserted since,
\* and an event that exists
Collides(t, events) ==
    \/ \E k \in DOMAIN t.read : t.read[k].games = 0 /\ k \in DOMAIN ratings
    \/ \E n \in DOMAIN events, m \in DOMAIN ledger :
          /\ events[n].key = ledger[m].key
          /\ events[n].game = ledger[m].game /\ events[n].seat = ledger[m].seat

Touched(events) == {events[n].key : n \in DOMAIN events}

Commits(w, t, end) ==
    LET touched == Touched(end.events)
    IN  /\ ~Collides(t, end.events)
        /\ ratings' = [k \in touched \cup DOMAIN ratings |-> IF k \in touched THEN end.rows[k] ELSE ratings[k]]
        /\ ledger' = ledger \o end.events
        /\ lost' = lost \cup {k \in touched \cap DOMAIN t.read : t.read[k] # Row(k)}
        /\ winners' = IF t.kind = "end" THEN [winners EXCEPT ![t.game] = t.winner] ELSE winners
        /\ settled' = IF t.kind = "settle" THEN settled \cup {PairOf[t.rates[1]]} ELSE settled
        /\ writing' = [writing EXCEPT ![w] =
              IF t.kind = "end" /\ Ladder[t.game] = "placement" /\ Placeable(t.game, t.winner)
              THEN [kind |-> "owed", game |-> t.game, winner |-> t.winner] ELSE NoWriting]

CommitRatings(w) ==
    /\ writing[w].kind \in {"end", "settle", "placement"}
    /\ \E t \in {writing[w]} : \E end \in {AllRated(t)} : Commits(w, t, end)

\* A constraint, a deadlock of row locks or a crash: nothing is written.  The end of a game
\* is tried again; a placement that is owed is not.
RollBack(w) ==
    /\ writing[w] # NoWriting
    /\ writing' = [writing EXCEPT ![w] = NoWriting]
    /\ UNCHANGED <<winners, ratings, ledger, lost, settled>>

RatingsStep(w) ==
    \/ \E g \in Contests : \E r \in TerminalResults[g] : EndContest(w, g, r)
    \/ \E p \in {PairOf[g] : g \in Contests} \ {0} : SettlePair(w, p)
    \/ OpenPlacement(w) \/ CommitRatings(w) \/ RollBack(w)

RatingsNext == \E w \in Processes : RatingsStep(w)

RatingsSpec == RatingsInit /\ [][RatingsNext]_ratingVars

-----------------------------------------------------------------------------
\* The audit rows: the seat of a game that changed a row, and what it did to it
AuditTrail == Seq([game : Contests, result : {"won", "lost", "drawn"}])

AuditOf(table) ==
    [key : table, game : Contests, seat : Nat, result : {"won", "lost", "drawn"},
     before : AuditTrail, after : AuditTrail]

RatingEvent == AuditOf(Rating)

PlacementRatingEvent == AuditOf(PlacementRating)

SoloRateRatingEvent == AuditOf(SoloRateRating)

HumanRatingEvent == AuditOf(HumanRating)

RatingsTypeOK ==
    /\ winners \in [Contests -> {Unplayed} \cup UNION {TerminalResults[g] : g \in Contests}]
    /\ DOMAIN ratings \subseteq Keys
    /\ \A k \in DOMAIN ratings : ratings[k] \in [value : AuditTrail, games : Nat, at : Nat]
    /\ \A n \in DOMAIN ledger :
          ledger[n] \in RatingEvent \cup PlacementRatingEvent
                        \cup SoloRateRatingEvent \cup HumanRatingEvent
    /\ \A w \in Processes : writing[w].kind \in {"none", "end", "settle", "owed", "placement"}
    /\ lost \subseteq Keys /\ settled \subseteq {PairOf[g] : g \in Contests} \ {0}

\* How often a game should change the rows of its ladder
Due ==
    [g \in Contests |->
        CASE Ladder[g] = "team" -> 2 * Len(Seating[g])
          [] Ladder[g] = "human" -> Cardinality(HumanSeats(g))
          [] Ladder[g] = "solo" -> Cardinality(SeatsOn(g, {"JESTER"}))
          [] Ladder[g] = "placement" -> Cardinality(FirstSeats(g))]

EventsAbout(g) == {n \in DOMAIN ledger : ledger[n].game = g}

\* A row is what its audit rows made of it, one after the other.
Explained(k, row, log) ==
    LET mine == {n \in DOMAIN log : log[n].key = k}
    IN  /\ row.games = Cardinality(mine)
        /\ mine = {} => row.value = <<>>
        /\ \A n \in mine :
              /\ (\A m \in mine : m =< n) => row.value = log[n].after
              /\ (\A m \in mine : n =< m) => log[n].before = <<>>
              /\ \A m \in mine : m < n /\ (\A l \in mine : l =< m \/ n =< l) =>
                    log[n].before = log[m].after

\* Games that are rated with their own end
RatedAtTheEnd(g) ==
    \/ Ladder[g] = "team" /\ PairOf[g] = 0 /\ winners[g] # Unplayed
    \/ Ladder[g] = "solo" /\ winners[g] # Unplayed
    \/ Ladder[g] = "human" /\ winners[g] \in {"TOWN", "MAFIA", "DRAW"}

\* The audit rows account for every rating: a row is what its events made of it, unless two
\* transactions overlapped on it; a game that was rated has an event for each of its seats,
\* with the result it ended with; the legs of a pair are rated both or not at all, the first
\* leg first.
LedgerExplainsRatings ==
    /\ \A k \in Keys \ lost : Explained(k, Row(k), ledger)
    /\ \A g \in Contests :
          /\ Cardinality(EventsAbout(g)) \in {0, Due[g]}
          /\ EventsAbout(g) # {} => winners[g] # Unplayed
          /\ \A n \in EventsAbout(g) :
                ledger[n].result = "drawn" <=> winners[g] = "DRAW" /\ Ladder[g] # "solo"
          /\ RatedAtTheEnd(g) /\ Due[g] # 0 => EventsAbout(g) # {}
          /\ \A h \in Contests :
                PairOf[g] = PairOf[h] /\ PairOf[g] # 0 /\ Ladder[g] = "team" /\ Ladder[h] = "team" /\ g < h =>
                    /\ EventsAbout(g) = {} <=> EventsAbout(h) = {}
                    /\ \A n \in EventsAbout(g), m \in EventsAbout(h) : n < m
=============================================================================
