---------------------------- MODULE LeagueProofs ----------------------------
(***************************************************************************)
(* Theorems about the gauntlets that nobody asks for: for any fleet,       *)
(* schedules, roster and bounds, the tables are well formed, an occurrence *)
(* of a schedule is fired once unless a run of it broke down or two ticks  *)
(* had a hand in it, and the matches are handed out in turn.  And about    *)
(* the publish gate: whatever becomes of a campaign's cells, it opens only *)
(* over games that count.  And about the ratings: for any contests and     *)
(* processes, the audit rows account for every row of the ladders.         *)
(***************************************************************************)
EXTENDS Tournaments, PublishGate, Ratings, FiniteSetTheorems, WellFoundedInduction, TLAPS

-----------------------------------------------------------------------------
\* Scheduled and matched gauntlets: the tables and the duties

\* Occurrences of the schedules, and matches
Occasions == [schedule : Schedules \cup {Match}, at : Nat]

Statuses == {"PENDING", "RUNNING", "COMPLETED", "FAILED"}

Seatable == Roster \cup UNION {Rosters[s] : s \in Schedules}

Tourneys ==
    [origin : Occasions, status : {"PENDING", "RUNNING", "COMPLETED", "cost_capped"},
     builds : SUBSET Seatable, games : Seq(Statuses)]

Firing == [at : {"firing"}, now : Nat, due : Seq(Occasions)]

Playing ==
    [at : {"run"}, now : Nat, due : Seq(Occasions), origin : Occasions, gauntlet : Nat,
     game : Nat, capped : BOOLEAN, ended : BOOLEAN]

Marking ==
    [at : {"marking"}, now : Nat, due : Seq(Occasions), origin : Occasions, gauntlet : Nat]

Duties ==
    [at : {"idle", "admitted", "claiming"}] \cup Firing \cup Playing \cup Marking
    \cup [at : {"planned"}, team : SUBSET Roster, history : Nat]
    \cup [at : {"driving"}, gauntlet : Nat]

TournamentTables ==
    /\ hour \in 1..MaxTime
    /\ schedules \in [Schedules -> ScheduledGauntlet]
    /\ \A s \in Schedules : schedules[s].enabled => schedules[s].next >= 1
    /\ gauntlets \in Seq(Tourneys) /\ Len(gauntlets) =< MaxGauntlets
    /\ duty \in [Fleet -> Duties]
    /\ breaks \in 0..MaxBreaks
    /\ aired \cup abandoned \subseteq DOMAIN gauntlets

\* A list of occurrences is in the past and names every schedule once.
Listed(due, now) ==
    /\ \A i \in DOMAIN due : due[i].schedule \in Schedules /\ due[i].at \in 1..now
    /\ \A i, j \in DOMAIN due : i # j => due[i].schedule # due[j].schedule

\* A run is that of its gauntlet; a match has one game, which is over when its run has ended.
RunFits(t) ==
    /\ t.gauntlet \in DOMAIN gauntlets /\ t.origin = gauntlets[t.gauntlet].origin
    /\ t.origin.schedule # Match => t.origin.at \in 1..t.now
    /\ \A i \in DOMAIN t.due : t.due[i].schedule # t.origin.schedule

DutyFits(t) ==
    /\ t.at \in {"firing", "run", "marking"} => t.now =< hour /\ Listed(t.due, t.now)
    /\ t.at \in {"run", "marking"} => RunFits(t)
    /\ t.at = "run" =>
          /\ ~t.ended => t.game \in GamesIn(t.gauntlet)
          /\ t.ended /\ t.origin.schedule = Match => StatusOf(<<t.gauntlet, 1>>) = "COMPLETED"
    /\ t.at = "marking" => t.origin.schedule # Match
    /\ t.at = "driving" => t.gauntlet \in DOMAIN gauntlets

MatchesHaveOneGame ==
    \A n \in DOMAIN gauntlets : gauntlets[n].origin.schedule = Match => Len(gauntlets[n].games) = 1

AiredWerePlayed ==
    \A n \in aired : gauntlets[n].origin.schedule = Match /\ StatusOf(<<n, 1>>) = "COMPLETED"

-----------------------------------------------------------------------------
\* Scheduled and matched gauntlets: occurrences

\* An occurrence that is not disturbed is in one hand at a time.
OneHand ==
    \A v, w \in Fleet : v # w =>
        \A o \in InHand(v) \cap InHand(w) : o.schedule # Match => o \in disturbed

\* Occurrences of a schedule that somebody has in hand, or that have a gauntlet
Hands == UNION {InHand(w) : w \in Fleet}

Made == {gauntlets[n].origin : n \in DOMAIN gauntlets}

Known(s) == {o \in Hands \cup Made : o.schedule = s}

\* As long as the row is still the one that was listed, nobody knows of a later occurrence.
NothingLater(w) ==
    \A q \in InHand(w) :
        q.schedule # Match /\ q \notin disturbed /\ schedules[q.schedule].next = q.at =>
            \A o \in Known(q.schedule) : o.at =< duty[w].now

InThePast ==
    \A n \in DOMAIN gauntlets :
        gauntlets[n].origin.schedule # Match => gauntlets[n].origin.at \in 1..hour

Runs(w, m) == duty[w].at \in {"run", "marking"} /\ duty[w].gauntlet = m

\* An occurrence that has a gauntlet is being run, or is neither due nor in hand.
Spent(m) ==
    LET o == gauntlets[m].origin IN
    \/ o.schedule = Match \/ m \in abandoned \/ o \in disturbed
    \/ \E w \in Fleet : Runs(w, m)
    \/ /\ schedules[o.schedule].next # o.at
       /\ \A w \in Fleet : o \notin InHand(w)

FiredOnce ==
    \A m, n \in DOMAIN gauntlets :
          m < n /\ gauntlets[m].origin = gauntlets[n].origin /\ gauntlets[m].origin.schedule # Match
              => m \in abandoned \/ gauntlets[m].origin \in disturbed

Occurrences ==
    /\ OneHand /\ (\A w \in Fleet : NothingLater(w)) /\ InThePast
    /\ (\A m \in DOMAIN gauntlets : Spent(m)) /\ FiredOnce

-----------------------------------------------------------------------------
\* Scheduled and matched gauntlets: the shares of the builds

LeastPlayed(team) ==
    \A b, c \in Roster : b \in team /\ c \notin team => PlayCount(b) =< PlayCount(c)

\* A plan is as old as the history it was made from.
PlanHolds(t) ==
    t.at = "planned" =>
        /\ t.history =< HistoryLength
        /\ t.history = HistoryLength => LeastPlayed(t.team)

OnlyMatches ==
    \A m, n \in DOMAIN gauntlets :
        gauntlets[n].origin.schedule = Match /\ (m # n => gauntlets[m].origin # gauntlets[n].origin)

\* Only the last match may still have to be played, by builds that are behind.
InTurn ==
    OnlyMatches =>
        /\ \A n \in DOMAIN gauntlets :
              /\ gauntlets[n].origin.at = n - 1
              /\ \/ StatusOf(<<n, 1>>) = "COMPLETED"
                 \/ n = Len(gauntlets) /\ LeastPlayed(gauntlets[n].builds)
        /\ \A b, c \in Roster : PlayCount(b) =< PlayCount(c) + 1

Shares == (\A w \in Fleet : PlanHolds(duty[w])) /\ InTurn

TournamentInv ==
    /\ TournamentTables /\ (\A w \in Fleet : DutyFits(duty[w]))
    /\ MatchesHaveOneGame /\ AiredWerePlayed
    /\ Occurrences /\ Shares

-----------------------------------------------------------------------------
\* Steps

\* No gauntlet is lost, and what is completed stays so.
Grows ==
    \A n \in DOMAIN gauntlets :
        /\ n \in DOMAIN gauntlets' /\ gauntlets'[n].origin = gauntlets[n].origin
        /\ gauntlets'[n].builds = gauntlets[n].builds
        /\ Len(gauntlets'[n].games) = Len(gauntlets[n].games)
        /\ \A i \in DOMAIN gauntlets[n].games :
              gauntlets[n].games[i] = "COMPLETED" => gauntlets'[n].games[i] = "COMPLETED"

\* Nobody takes an occurrence in hand, and a run that ends is abandoned, or a match.
Quiet ==
    /\ Len(gauntlets') = Len(gauntlets) /\ schedules' = schedules /\ hour =< hour'
    /\ disturbed \subseteq disturbed' /\ abandoned \subseteq abandoned'
    /\ \A v \in Fleet :
          /\ InHand(v)' \subseteq InHand(v)
          /\ InHand(v)' # {} => duty'[v].now = duty[v].now
          /\ \A m \in DOMAIN gauntlets :
                Runs(v, m) => Runs(v, m)' \/ m \in abandoned' \/ gauntlets[m].origin.schedule = Match

\* The games that count
Completed == {g \in AllGames : StatusOf(g) = "COMPLETED"}

SameScores == HistoryLength' = HistoryLength /\ \A b \in Roster : PlayCount(b)' = PlayCount(b)

\* A game of gauntlet n counts from now on.
OneMore(n) ==
    /\ StatusOf(<<n, 1>>) # "COMPLETED" \/ Len(gauntlets[n].games) # 1
    /\ HistoryLength' = HistoryLength + 1
    /\ \A b \in Roster :
          PlayCount(b)' = PlayCount(b) + IF b \in gauntlets[n].builds THEN 1 ELSE 0
    /\ Len(gauntlets[n].games) = 1 => gauntlets'[n].games[1] = "COMPLETED"

\* A duty's stage says what it holds.
LEMMA DutyShape ==
    ASSUME NEW t \in Duties
    PROVE  /\ t.at = "firing" => t \in Firing
           /\ t.at = "run" => t \in Playing
           /\ t.at = "marking" => t \in Marking
           /\ t.at = "planned" => t \in [at : {"planned"}, team : SUBSET Roster, history : Nat]
           /\ t.at = "driving" => t \in [at : {"driving"}, gauntlet : Nat]
           /\ t.at \in {"idle", "admitted", "claiming", "firing", "run", "marking", "planned", "driving"}
BY DEF Duties, Firing, Playing, Marking

\* What the row of a gauntlet holds
LEMMA TourneyRow ==
    ASSUME gauntlets \in Seq(Tourneys), NEW n \in DOMAIN gauntlets
    PROVE  /\ gauntlets[n] \in Tourneys /\ gauntlets[n].origin \in Occasions
           /\ gauntlets[n].builds \in SUBSET Seatable /\ gauntlets[n].games \in Seq(Statuses)
           /\ n \in 1..Len(gauntlets) /\ Len(gauntlets) \in Nat
<1>1. gauntlets[n] \in Tourneys /\ n \in 1..Len(gauntlets) /\ Len(gauntlets) \in Nat
  OBVIOUS
<1>. QED  BY <1>1 DEF Tourneys

\* A process takes up a duty.
LEMMA DutyTaken ==
    ASSUME duty \in [Fleet -> Duties], NEW w \in Fleet, NEW x \in Duties, Does(w, x)
    PROVE  /\ duty' \in [Fleet -> Duties] /\ duty'[w] = x
           /\ \A v \in Fleet : v # w => duty'[v] = duty[v]
BY DEF Does

\* The status of a gauntlet changes.
LEMMA StatusChanged ==
    ASSUME gauntlets \in Seq(Tourneys), NEW n \in DOMAIN gauntlets,
           NEW status \in {"PENDING", "RUNNING", "COMPLETED", "cost_capped"},
           gauntlets' = [gauntlets EXCEPT ![n].status = status]
    PROVE  /\ gauntlets' \in Seq(Tourneys) /\ Len(gauntlets') = Len(gauntlets)
           /\ DOMAIN gauntlets' = DOMAIN gauntlets
           /\ \A m \in DOMAIN gauntlets : /\ gauntlets'[m].origin = gauntlets[m].origin
                                         /\ gauntlets'[m].builds = gauntlets[m].builds
                                         /\ gauntlets'[m].games = gauntlets[m].games
<1>1. \A m \in DOMAIN gauntlets : gauntlets[m] \in Tourneys
  OBVIOUS
<1>2. [gauntlets[n] EXCEPT !.status = status] \in Tourneys
  BY <1>1 DEF Tourneys
<1>3. gauntlets' = [gauntlets EXCEPT ![n] = [gauntlets[n] EXCEPT !.status = status]]
  OBVIOUS
<1>4. gauntlets' \in Seq(Tourneys) /\ Len(gauntlets') = Len(gauntlets)
  BY <1>2, <1>3
<1>5. \A m \in DOMAIN gauntlets :
          gauntlets'[m] = IF m = n THEN [gauntlets[n] EXCEPT !.status = status] ELSE gauntlets[m]
  BY <1>3
<1>. QED  BY <1>1, <1>4, <1>5 DEF Tourneys

\* The status of a game changes.
LEMMA GameChanged ==
    ASSUME gauntlets \in Seq(Tourneys), NEW n \in DOMAIN gauntlets, NEW i \in GamesIn(n),
           NEW status \in Statuses, gauntlets' = WithGame(n, i, status)
    PROVE  /\ gauntlets' \in Seq(Tourneys) /\ Len(gauntlets') = Len(gauntlets)
           /\ DOMAIN gauntlets' = DOMAIN gauntlets
           /\ \A m \in DOMAIN gauntlets :
                 /\ gauntlets'[m].origin = gauntlets[m].origin
                 /\ gauntlets'[m].builds = gauntlets[m].builds
                 /\ Len(gauntlets'[m].games) = Len(gauntlets[m].games)
                 /\ DOMAIN gauntlets'[m].games = DOMAIN gauntlets[m].games
                 /\ \A j \in DOMAIN gauntlets[m].games :
                       gauntlets'[m].games[j] = IF m = n /\ j = i THEN status ELSE gauntlets[m].games[j]
<1>. DEFINE games == [gauntlets[n].games EXCEPT ![i] = status]
            row == [gauntlets[n] EXCEPT !.games = games]
<1>1. \A m \in DOMAIN gauntlets : gauntlets[m] \in Tourneys
  OBVIOUS
<1>2. gauntlets[n].games \in Seq(Statuses) /\ i \in DOMAIN gauntlets[n].games
  BY <1>1 DEF Tourneys, GamesIn
<1>3. /\ games \in Seq(Statuses) /\ Len(games) = Len(gauntlets[n].games)
      /\ DOMAIN games = DOMAIN gauntlets[n].games
      /\ \A j \in DOMAIN games : games[j] = IF j = i THEN status ELSE gauntlets[n].games[j]
  BY <1>2
<1>4. row \in Tourneys /\ row.games = games /\ row.origin = gauntlets[n].origin
      /\ row.builds = gauntlets[n].builds
  BY <1>1, <1>3 DEF Tourneys
<1>5. gauntlets' = [gauntlets EXCEPT ![n] = row]
  BY <1>1 DEF WithGame, Tourneys
<1>. HIDE DEF row
<1>6. gauntlets' \in Seq(Tourneys) /\ Len(gauntlets') = Len(gauntlets)
      /\ DOMAIN gauntlets' = DOMAIN gauntlets
  BY <1>4, <1>5
<1>7. \A m \in DOMAIN gauntlets : gauntlets'[m] = IF m = n THEN row ELSE gauntlets[m]
  BY <1>5
<1>. HIDE DEF games
<1>. QED  BY <1>3, <1>4, <1>6, <1>7

\* A gauntlet is made.
LEMMA TourneyMade ==
    ASSUME gauntlets \in Seq(Tourneys), NEW o \in Occasions, NEW n \in Nat \ {0},
           NEW builds \in SUBSET Seatable, CreateGauntlet(o, n, builds)
    PROVE  /\ gauntlets' \in Seq(Tourneys) /\ Len(gauntlets') = Len(gauntlets) + 1
           /\ Len(gauntlets) < MaxGauntlets
           /\ DOMAIN gauntlets' = DOMAIN gauntlets \cup {Len(gauntlets) + 1}
           /\ \A m \in DOMAIN gauntlets : gauntlets'[m] = gauntlets[m]
           /\ LET row == gauntlets'[Len(gauntlets) + 1]
              IN  /\ row.origin = o /\ row.builds = builds /\ Len(row.games) = n
                  /\ DOMAIN row.games = 1..n
                  /\ \A i \in 1..n : row.games[i] = "PENDING"
<1>. DEFINE games == [i \in 1..n |-> "PENDING"]
            row == [origin |-> o, status |-> "PENDING", builds |-> builds, games |-> games]
<1>1. games \in Seq(Statuses) /\ Len(games) = n
  BY DEF Statuses
<1>2. row \in Tourneys
  BY <1>1 DEF Tourneys
<1>3. gauntlets' = Append(gauntlets, row) /\ Len(gauntlets) < MaxGauntlets
  BY DEF CreateGauntlet
<1>. HIDE DEF row
<1>4. /\ gauntlets' \in Seq(Tourneys) /\ Len(gauntlets') = Len(gauntlets) + 1
      /\ DOMAIN gauntlets' = DOMAIN gauntlets \cup {Len(gauntlets) + 1}
      /\ \A m \in DOMAIN gauntlets : gauntlets'[m] = gauntlets[m]
      /\ gauntlets'[Len(gauntlets) + 1] = row
  BY <1>2, <1>3
<1>5. /\ row.origin = o /\ row.builds = builds /\ Len(row.games) = n
      /\ DOMAIN row.games = 1..n /\ \A i \in 1..n : row.games[i] = "PENDING"
  BY <1>1 DEF row
<1>. QED  BY <1>3, <1>4, <1>5

\* A completed game is a game of a gauntlet.
LEMMA CompletedGame ==
    ASSUME NEW g
    PROVE  /\ g \in Completed <=> \E n \in DOMAIN gauntlets : \E i \in DOMAIN gauntlets[n].games :
                                      g = <<n, i>> /\ gauntlets[n].games[i] = "COMPLETED"
           /\ g \in Completed' <=> \E n \in DOMAIN gauntlets' : \E i \in DOMAIN gauntlets'[n].games :
                                      g = <<n, i>> /\ gauntlets'[n].games[i] = "COMPLETED"
BY DEF Completed, AllGames, GamesIn, StatusOf

\* There are finitely many games.
LEMMA CompletedFinite ==
    ASSUME gauntlets \in Seq(Tourneys)
    PROVE  /\ IsFiniteSet(Completed) /\ HistoryLength = Cardinality(Completed) /\ HistoryLength \in Nat
           /\ \A b : /\ PlayCount(b) = Cardinality({g \in Completed : b \in gauntlets[g[1]].builds})
                     /\ PlayCount(b) \in Nat
<1>. DEFINE D == DOMAIN gauntlets
            f == [n \in D |-> {n} \X GamesIn(n)]
            S == {{n} \X GamesIn(n) : n \in D}
<1>1. IsFiniteSet(D)
  <2>1. D = 1..Len(gauntlets) /\ Len(gauntlets) \in Nat
    OBVIOUS
  <2>. QED  BY <2>1, FS_Interval
<1>2. f \in Surjection(D, S)
  BY DEF Surjection
<1>3. IsFiniteSet(S)
  BY <1>1, <1>2, FS_Surjection
<1>4. ASSUME NEW T \in S PROVE IsFiniteSet(T)
  <2>. PICK n \in D : T = {n} \X GamesIn(n)
    OBVIOUS
  <2>1. gauntlets[n].games \in Seq(Statuses)
    BY TourneyRow
  <2>2. GamesIn(n) = 1..Len(gauntlets[n].games) /\ Len(gauntlets[n].games) \in Nat
    BY <2>1 DEF GamesIn
  <2>3. IsFiniteSet(GamesIn(n))
    BY <2>2, FS_Interval
  <2>4. IsFiniteSet({n})
    BY FS_Singleton
  <2>. QED  BY <2>3, <2>4, FS_Product
<1>5. IsFiniteSet(UNION S)
  BY <1>3, <1>4, FS_UNION
<1>6. AllGames = UNION S
  BY DEF AllGames
<1>7. Completed \subseteq AllGames
  BY DEF Completed
<1>8. IsFiniteSet(Completed)
  BY <1>5, <1>6, <1>7, FS_Subset
<1>9. HistoryLength = Cardinality(Completed)
  BY DEF HistoryLength, Completed
<1>10. HistoryLength \in Nat
  BY <1>8, <1>9, FS_CardinalityType
<1>11. ASSUME NEW b
       PROVE  /\ PlayCount(b) = Cardinality({g \in Completed : b \in gauntlets[g[1]].builds})
              /\ PlayCount(b) \in Nat
  <2>. DEFINE own == {g \in Completed : b \in gauntlets[g[1]].builds}
  <2>1. own = {g \in AllGames : StatusOf(g) = "COMPLETED" /\ b \in gauntlets[g[1]].builds}
    BY DEF Completed
  <2>2. PlayCount(b) = Cardinality(own)
    BY <2>1 DEF PlayCount
  <2>3. own \subseteq Completed
    OBVIOUS
  <2>4. IsFiniteSet(own)
    BY <1>8, <2>3, FS_Subset
  <2>. QED  BY <2>2, <2>4, FS_CardinalityType
<1>. QED  BY <1>8, <1>9, <1>10, <1>11

\* The scores are what the completed games say.
LEMMA ScoresNow ==
    /\ HistoryLength' = Cardinality(Completed')
    /\ \A b : PlayCount(b)' = Cardinality({g \in Completed' : b \in gauntlets'[g[1]].builds})
<1>1. HistoryLength' = Cardinality(Completed')
  BY DEF HistoryLength, Completed
<1>2. ASSUME NEW b
      PROVE  PlayCount(b)' = Cardinality({g \in Completed' : b \in gauntlets'[g[1]].builds})
  <2>1. {g \in Completed' : b \in gauntlets'[g[1]].builds}
          = {g \in AllGames' : StatusOf(g)' = "COMPLETED" /\ b \in gauntlets'[g[1]].builds}
    BY DEF Completed
  <2>. QED  BY <2>1 DEF PlayCount
<1>. QED  BY <1>1, <1>2

\* If the same games are completed, the scores are the same.
LEMMA NothingCompleted ==
    ASSUME gauntlets \in Seq(Tourneys), Completed' = Completed, Grows
    PROVE  SameScores
<1>1. HistoryLength' = HistoryLength
  BY CompletedFinite, ScoresNow
<1>2. ASSUME NEW b \in Roster PROVE PlayCount(b)' = PlayCount(b)
  <2>1. \A g \in Completed : gauntlets'[g[1]].builds = gauntlets[g[1]].builds
    BY CompletedGame DEF Grows
  <2>2. {g \in Completed' : b \in gauntlets'[g[1]].builds} = {g \in Completed : b \in gauntlets[g[1]].builds}
    BY <2>1
  <2>. QED  BY <2>2, CompletedFinite, ScoresNow
<1>. QED  BY <1>1, <1>2 DEF SameScores

\* A game that is completed counts for its builds.
LEMMA GameCompleted ==
    ASSUME gauntlets \in Seq(Tourneys), NEW n \in DOMAIN gauntlets, NEW i \in GamesIn(n),
           gauntlets[n].games[i] # "COMPLETED", gauntlets' = WithGame(n, i, "COMPLETED")
    PROVE  OneMore(n)
<1>1. /\ Len(gauntlets') = Len(gauntlets) /\ DOMAIN gauntlets' = DOMAIN gauntlets
      /\ \A m \in DOMAIN gauntlets :
            /\ gauntlets'[m].builds = gauntlets[m].builds
            /\ DOMAIN gauntlets'[m].games = DOMAIN gauntlets[m].games
            /\ \A j \in DOMAIN gauntlets[m].games :
                  gauntlets'[m].games[j] = IF m = n /\ j = i THEN "COMPLETED" ELSE gauntlets[m].games[j]
  BY GameChanged DEF Statuses
<1>2. <<n, i>> \notin Completed
  BY CompletedGame
<1>3. i \in DOMAIN gauntlets[n].games
  BY DEF GamesIn
<1>4. ASSUME NEW g PROVE g \in Completed' <=> g \in Completed \cup {<<n, i>>}
  <2>1. g \in Completed' => g \in Completed \cup {<<n, i>>}
    BY <1>1, CompletedGame
  <2>2. g \in Completed => g \in Completed'
    BY <1>1, CompletedGame
  <2>3. <<n, i>> \in Completed'
    BY <1>1, <1>3, CompletedGame
  <2>. QED  BY <2>1, <2>2, <2>3
<1>5. Completed' = Completed \cup {<<n, i>>}
  BY <1>4
<1>6. HistoryLength' = HistoryLength + 1
  <2>1. IsFiniteSet(Completed)
    BY CompletedFinite
  <2>2. Cardinality(Completed \cup {<<n, i>>}) = Cardinality(Completed) + 1
    BY <1>2, <2>1, FS_AddElement
  <2>. QED  BY <1>5, <2>2, CompletedFinite, ScoresNow
<1>7. ASSUME NEW b \in Roster
      PROVE  PlayCount(b)' = PlayCount(b) + IF b \in gauntlets[n].builds THEN 1 ELSE 0
  <2>. DEFINE own == {g \in Completed : b \in gauntlets[g[1]].builds}
              now == {g \in Completed' : b \in gauntlets'[g[1]].builds}
  <2>1. PlayCount(b) = Cardinality(own) /\ PlayCount(b)' = Cardinality(now) /\ PlayCount(b) \in Nat
    BY CompletedFinite, ScoresNow
  <2>2. own \subseteq Completed /\ IsFiniteSet(Completed)
    BY CompletedFinite
  <2>3. IsFiniteSet(own)
    BY <2>2, FS_Subset
  <2>4. \A g \in Completed : gauntlets'[g[1]].builds = gauntlets[g[1]].builds
    BY <1>1, CompletedGame
  <2>5. gauntlets'[<<n, i>>[1]].builds = gauntlets[n].builds
    BY <1>1
  <2>6. now = own \cup IF b \in gauntlets[n].builds THEN {<<n, i>>} ELSE {}
    BY <1>5, <2>4, <2>5
  <2>7. <<n, i>> \notin own
    BY <1>2
  <2>. HIDE DEF own, now
  <2>8. CASE b \in gauntlets[n].builds
    <3>1. now = own \cup {<<n, i>>}
      BY <2>6, <2>8
    <3>2. Cardinality(own \cup {<<n, i>>}) = Cardinality(own) + 1
      BY <2>3, <2>7, FS_AddElement
    <3>. QED  BY <2>1, <2>8, <3>1, <3>2
  <2>9. CASE b \notin gauntlets[n].builds
    BY <2>1, <2>6, <2>9
  <2>. QED  BY <2>8, <2>9
<1>8. StatusOf(<<n, 1>>) # "COMPLETED" \/ Len(gauntlets[n].games) # 1
  <2>1. gauntlets[n].games \in Seq(Statuses)
    BY TourneyRow
  <2>. QED  BY <2>1, <1>3 DEF StatusOf
<1>9. Len(gauntlets[n].games) = 1 => gauntlets'[n].games[1] = "COMPLETED"
  <2>1. gauntlets[n].games \in Seq(Statuses)
    BY TourneyRow
  <2>2. Len(gauntlets[n].games) = 1 => i = 1
    BY <2>1, <1>3
  <2>. QED  BY <1>1, <1>3, <2>2
<1>. QED  BY <1>6, <1>7, <1>8, <1>9 DEF OneMore

\* Who knows of an occurrence
LEMMA KnownOf ==
    ASSUME NEW z, NEW o
    PROVE  /\ o \in Known(z) <=> /\ o.schedule = z
                                 /\ \/ \E w \in Fleet : o \in InHand(w)
                                    \/ \E n \in DOMAIN gauntlets : o = gauntlets[n].origin
           /\ o \in Known(z)' <=> /\ o.schedule = z
                                  /\ \/ \E w \in Fleet : o \in InHand(w)'
                                     \/ \E n \in DOMAIN gauntlets' : o = gauntlets'[n].origin
<1>1. /\ o \in Hands <=> \E w \in Fleet : o \in InHand(w)
      /\ o \in Hands' <=> \E w \in Fleet : o \in InHand(w)'
  BY DEF Hands
<1>2. /\ o \in Made <=> \E n \in DOMAIN gauntlets : o = gauntlets[n].origin
      /\ o \in Made' <=> \E n \in DOMAIN gauntlets' : o = gauntlets'[n].origin
  BY DEF Made
<1>. QED  BY <1>1, <1>2 DEF Known

\* Nobody learns of an occurrence that was not in somebody's hand.
LEMMA KnownLess ==
    ASSUME NEW z, NEW o \in Known(z)', \A w \in Fleet : InHand(w)' \subseteq InHand(w),
           DOMAIN gauntlets' = DOMAIN gauntlets,
           \A n \in DOMAIN gauntlets : gauntlets'[n].origin = gauntlets[n].origin
    PROVE  o \in Known(z)
<1>1. o.schedule = z /\ (\/ \E w \in Fleet : o \in InHand(w)'
                         \/ \E n \in DOMAIN gauntlets : o = gauntlets[n].origin)
  BY KnownOf
<1>. QED  BY <1>1, KnownOf

\* A quiet step keeps the invariant of the occurrences.
LEMMA QuietKeeps ==
    ASSUME TournamentInv, TournamentTables', Grows, Quiet
    PROVE  Occurrences'
<1>1. /\ OneHand /\ (\A w \in Fleet : NothingLater(w)) /\ InThePast
      /\ (\A m \in DOMAIN gauntlets : Spent(m)) /\ FiredOnce
  BY DEF TournamentInv, Occurrences
<1>2. /\ DOMAIN gauntlets' = DOMAIN gauntlets /\ hour \in Nat /\ hour' \in Nat /\ hour =< hour'
      /\ \A n \in DOMAIN gauntlets : gauntlets'[n].origin = gauntlets[n].origin
                                     /\ gauntlets[n].origin \in Occasions
  <2>1. gauntlets \in Seq(Tourneys) /\ gauntlets' \in Seq(Tourneys) /\ Len(gauntlets') = Len(gauntlets)
    BY DEF TournamentInv, TournamentTables, Quiet
  <2>2. \A n \in DOMAIN gauntlets : gauntlets[n].origin \in Occasions
    BY <2>1, TourneyRow
  <2>. QED  BY <2>1, <2>2 DEF Grows, TournamentInv, TournamentTables, Quiet
<1>3. OneHand'
  BY <1>1 DEF OneHand, Quiet
<1>4. \A s : Known(s)' \subseteq Known(s)
  <2>1. \A v \in Fleet : InHand(v)' \subseteq InHand(v)
    BY DEF Quiet
  <2>2. ASSUME NEW z, NEW o \in Known(z)' PROVE o \in Known(z)
    BY <1>2, <2>1, <2>2, KnownLess
  <2>. QED  BY <2>2
<1>5. ASSUME NEW w \in Fleet PROVE NothingLater(w)'
  <2>1. NothingLater(w)
    BY <1>1
  <2>2. /\ InHand(w)' \subseteq InHand(w) /\ (InHand(w)' # {} => duty'[w].now = duty[w].now)
        /\ schedules' = schedules /\ disturbed \subseteq disturbed'
    BY DEF Quiet
  <2>. QED  BY <1>4, <2>1, <2>2 DEF NothingLater
<1>6. InThePast'
  <2>1. ASSUME NEW n \in DOMAIN gauntlets, gauntlets[n].origin.schedule # Match
        PROVE  gauntlets[n].origin.at \in 1..hour'
    BY <1>1, <1>2, <2>1 DEF InThePast
  <2>. QED  BY <1>2, <2>1 DEF InThePast
<1>7. ASSUME NEW m \in DOMAIN gauntlets PROVE Spent(m)'
  <2>1. Spent(m) /\ gauntlets'[m].origin = gauntlets[m].origin
    BY <1>1, <1>2
  <2>2. \A w \in Fleet : Runs(w, m) => Runs(w, m)' \/ m \in abandoned' \/ gauntlets[m].origin.schedule = Match
    BY DEF Quiet
  <2>. QED  BY <2>1, <2>2 DEF Spent, Quiet
<1>8. FiredOnce'
  BY <1>1, <1>2 DEF FiredOnce, Quiet
<1>. QED  BY <1>2, <1>3, <1>5, <1>6, <1>7, <1>8 DEF Occurrences

\* A duty fits whatever the others do meanwhile.
LEMMA OthersFit ==
    ASSUME TournamentInv, Grows, hour =< hour', hour' \in Nat, NEW t \in Duties, DutyFits(t)
    PROVE  DutyFits(t)'
<1>1. t.at \in {"firing", "run", "marking"} => t.now =< hour' /\ Listed(t.due, t.now)
  <2>1. t.at \in {"firing", "run", "marking"} => t.now \in Nat
    BY DutyShape DEF Firing, Playing, Marking
  <2>. QED  BY <2>1 DEF DutyFits, TournamentInv, TournamentTables
<1>2. t.at \in {"run", "marking"} => RunFits(t)'
  BY DEF DutyFits, RunFits, Grows
<1>3. t.at = "run" /\ ~t.ended => t.game \in GamesIn(t.gauntlet)'
  <2>. SUFFICES ASSUME t.at = "run" /\ ~t.ended PROVE t.game \in GamesIn(t.gauntlet)'
    OBVIOUS
  <2>1. t.game \in GamesIn(t.gauntlet) /\ t.gauntlet \in DOMAIN gauntlets
    BY DEF DutyFits, RunFits
  <2>2. gauntlets[t.gauntlet].games \in Seq(Statuses)
    BY <2>1, TourneyRow DEF TournamentInv, TournamentTables
  <2>3. Len(gauntlets'[t.gauntlet].games) = Len(gauntlets[t.gauntlet].games)
    BY <2>1 DEF Grows
  <2>. QED  BY <2>1, <2>2, <2>3 DEF GamesIn
<1>4. t.at = "run" /\ t.ended /\ t.origin.schedule = Match => StatusOf(<<t.gauntlet, 1>>)' = "COMPLETED"
  <2>. SUFFICES ASSUME t.at = "run" /\ t.ended /\ t.origin.schedule = Match
                PROVE  StatusOf(<<t.gauntlet, 1>>)' = "COMPLETED"
    OBVIOUS
  <2>1. t.gauntlet \in DOMAIN gauntlets /\ gauntlets[t.gauntlet].origin.schedule = Match
        /\ gauntlets[t.gauntlet].games[1] = "COMPLETED"
    BY DEF DutyFits, RunFits, StatusOf
  <2>2. gauntlets[t.gauntlet].games \in Seq(Statuses) /\ Len(gauntlets[t.gauntlet].games) = 1
    BY <2>1, TourneyRow DEF TournamentInv, TournamentTables, MatchesHaveOneGame
  <2>3. 1 \in DOMAIN gauntlets[t.gauntlet].games
    BY <2>2
  <2>. QED  BY <2>1, <2>3 DEF Grows, StatusOf
<1>5. t.at = "driving" => t.gauntlet \in DOMAIN gauntlets'
  BY DEF DutyFits, Grows
<1>. QED  BY <1>1, <1>2, <1>3, <1>4, <1>5 DEF DutyFits

\* A plan whose moment has passed binds nobody.
LEMMA PlanKept ==
    ASSUME TournamentInv, SameScores \/ \E n \in DOMAIN gauntlets : OneMore(n),
           NEW t \in Duties, PlanHolds(t)
    PROVE  PlanHolds(t)'
<1>. SUFFICES ASSUME t.at = "planned" PROVE PlanHolds(t)'
  BY DEF PlanHolds
<1>1. HistoryLength \in Nat /\ t.history \in Nat /\ t.history =< HistoryLength
      /\ (t.history = HistoryLength => LeastPlayed(t.team))
  BY CompletedFinite, DutyShape DEF TournamentInv, TournamentTables, PlanHolds
<1>2. CASE SameScores
  BY <1>1, <1>2 DEF SameScores, PlanHolds, LeastPlayed
<1>3. CASE \E n \in DOMAIN gauntlets : OneMore(n)
  <2>1. HistoryLength' = HistoryLength + 1
    BY <1>3 DEF OneMore
  <2>2. t.history =< HistoryLength' /\ t.history # HistoryLength'
    BY <1>1, <2>1
  <2>. QED  BY <2>2 DEF PlanHolds
<1>. QED  BY <1>2, <1>3

\* The matches stay in turn while no new one is made.
LEMMA TurnKept ==
    ASSUME TournamentInv, TournamentTables', Grows, Len(gauntlets') = Len(gauntlets),
           SameScores \/ \E n \in DOMAIN gauntlets : OneMore(n)
    PROVE  InTurn'
<1>. SUFFICES ASSUME OnlyMatches' PROVE InTurn'
  BY DEF InTurn
<1>1. /\ gauntlets \in Seq(Tourneys) /\ DOMAIN gauntlets' = DOMAIN gauntlets
      /\ \A n \in DOMAIN gauntlets : gauntlets'[n].origin = gauntlets[n].origin
                                     /\ gauntlets'[n].builds = gauntlets[n].builds
  BY DEF TournamentInv, TournamentTables, Grows
<1>2. OnlyMatches
  BY <1>1 DEF OnlyMatches
<1>3. /\ \A n \in DOMAIN gauntlets :
            /\ gauntlets[n].origin.at = n - 1
            /\ \/ StatusOf(<<n, 1>>) = "COMPLETED"
               \/ n = Len(gauntlets) /\ LeastPlayed(gauntlets[n].builds)
      /\ \A b, c \in Roster : PlayCount(b) =< PlayCount(c) + 1
  BY <1>2 DEF TournamentInv, Shares, InTurn
<1>4. \A b \in Roster : PlayCount(b) \in Nat
  BY <1>1, CompletedFinite
<1>5. ASSUME NEW n \in DOMAIN gauntlets
      PROVE  /\ Len(gauntlets[n].games) = 1
             /\ StatusOf(<<n, 1>>) = "COMPLETED" => StatusOf(<<n, 1>>)' = "COMPLETED"
  <2>1. gauntlets[n].games \in Seq(Statuses) /\ Len(gauntlets[n].games) = 1
    BY <1>1, <1>2, TourneyRow DEF OnlyMatches, TournamentInv, MatchesHaveOneGame
  <2>2. 1 \in DOMAIN gauntlets[n].games
    BY <2>1
  <2>. QED  BY <2>1, <2>2 DEF Grows, StatusOf
<1>6. CASE SameScores
  <2>1. \A b, c \in Roster : PlayCount(b)' =< PlayCount(c)' + 1
    BY <1>3, <1>6 DEF SameScores
  <2>2. ASSUME NEW n \in DOMAIN gauntlets
        PROVE  /\ gauntlets'[n].origin.at = n - 1
               /\ \/ StatusOf(<<n, 1>>)' = "COMPLETED"
                  \/ n = Len(gauntlets') /\ LeastPlayed(gauntlets[n].builds)'
    <3>. PICK team : team = gauntlets[n].builds
      OBVIOUS
    <3>1. LeastPlayed(team) => LeastPlayed(team)'
      BY <1>6 DEF SameScores, LeastPlayed
    <3>2. LeastPlayed(gauntlets[n].builds)' <=> LeastPlayed(team)'
      BY <1>1 DEF LeastPlayed
    <3>. QED  BY <1>1, <1>3, <1>5, <3>1, <3>2
  <2>. QED  BY <1>1, <2>1, <2>2 DEF InTurn
<1>7. CASE \E n \in DOMAIN gauntlets : OneMore(n)
  <2>. PICK n \in DOMAIN gauntlets : OneMore(n)
    BY <1>7
  <2>1. StatusOf(<<n, 1>>) # "COMPLETED" /\ gauntlets'[n].games[1] = "COMPLETED"
        /\ \A b \in Roster : PlayCount(b)' = PlayCount(b) + IF b \in gauntlets[n].builds THEN 1 ELSE 0
    BY <1>5 DEF OneMore
  <2>2. n = Len(gauntlets) /\ LeastPlayed(gauntlets[n].builds)
    BY <1>3, <2>1
  <2>3. ASSUME NEW b \in Roster, NEW c \in Roster PROVE PlayCount(b)' =< PlayCount(c)' + 1
    <3>1. PlayCount(b) \in Nat /\ PlayCount(c) \in Nat /\ PlayCount(b) =< PlayCount(c) + 1
          /\ (b \in gauntlets[n].builds /\ c \notin gauntlets[n].builds => PlayCount(b) =< PlayCount(c))
      BY <1>3, <1>4, <2>2 DEF LeastPlayed
    <3>2. /\ PlayCount(b)' = PlayCount(b) + IF b \in gauntlets[n].builds THEN 1 ELSE 0
          /\ PlayCount(c)' = PlayCount(c) + IF c \in gauntlets[n].builds THEN 1 ELSE 0
      BY <2>1
    <3>. QED  BY <3>1, <3>2
  <2>4. ASSUME NEW m \in DOMAIN gauntlets
        PROVE  gauntlets'[m].origin.at = m - 1 /\ StatusOf(<<m, 1>>)' = "COMPLETED"
    <3>1. StatusOf(<<n, 1>>)' = "COMPLETED"
      BY <2>1 DEF StatusOf
    <3>2. m # n => StatusOf(<<m, 1>>) = "COMPLETED"
      BY <1>3, <2>2
    <3>. QED  BY <1>1, <1>3, <1>5, <3>1, <3>2
  <2>. QED  BY <1>1, <2>3, <2>4 DEF InTurn
<1>. QED  BY <1>6, <1>7

\* What a step does not do to the occurrences it does not do to the rest.
LEMMA RestKeeps ==
    ASSUME TournamentInv, TournamentTables', Grows, Len(gauntlets') = Len(gauntlets), hour =< hour',
           SameScores \/ \E n \in DOMAIN gauntlets : OneMore(n), Occurrences', AiredWerePlayed',
           \A v \in Fleet : duty'[v] = duty[v] \/ (DutyFits(duty[v])' /\ PlanHolds(duty[v])')
    PROVE  TournamentInv'
<1>2. InTurn'
  BY TurnKept
<1>3. ASSUME NEW v \in Fleet PROVE DutyFits(duty[v])' /\ PlanHolds(duty[v])'
  <2>1. CASE duty'[v] = duty[v]
    <3>. PICK t : t = duty[v]
      OBVIOUS
    <3>1. t \in Duties /\ DutyFits(t) /\ PlanHolds(t)
      BY DEF TournamentInv, TournamentTables, Shares
    <3>2. hour =< hour' /\ hour' \in Nat
      BY DEF TournamentTables
    <3>3. DutyFits(t)' /\ PlanHolds(t)'
      BY <3>1, <3>2, OthersFit, PlanKept
    <3>4. duty'[v] = t
      BY <2>1
    <3>. QED  BY <3>3, <3>4
  <2>. QED  BY <2>1
<1>4. MatchesHaveOneGame'
  <2>1. DOMAIN gauntlets' = DOMAIN gauntlets
    BY DEF TournamentInv, TournamentTables
  <2>. QED  BY <2>1 DEF MatchesHaveOneGame, Grows, TournamentInv
<1>. QED  BY <1>2, <1>3, <1>4 DEF TournamentInv, Shares

\* A quiet step of one process keeps the invariant.
LEMMA CalmKeeps ==
    ASSUME TournamentInv, TournamentTables', Grows, Quiet,
           SameScores \/ \E n \in DOMAIN gauntlets : OneMore(n), AiredWerePlayed',
           \A v \in Fleet : duty'[v] = duty[v] \/ (DutyFits(duty[v])' /\ PlanHolds(duty[v])')
    PROVE  TournamentInv'
<1>1. Occurrences'
  BY QuietKeeps
<1>2. Len(gauntlets') = Len(gauntlets) /\ hour =< hour'
  BY DEF Quiet
<1>. QED  BY <1>1, <1>2, RestKeeps

\* No gauntlet is made, and the scores follow the games.
Moved ==
    /\ gauntlets' \in Seq(Tourneys) /\ Len(gauntlets') = Len(gauntlets) /\ Grows
    /\ SameScores \/ \E n \in DOMAIN gauntlets : OneMore(n)

\* The same rows
LEMMA NothingMoves ==
    ASSUME gauntlets \in Seq(Tourneys), gauntlets' = gauntlets
    PROVE  Moved
<1>1. Grows
  BY DEF Grows
<1>2. ASSUME NEW g PROVE g \in Completed' <=> g \in Completed
  BY CompletedGame
<1>3. Completed' = Completed
  BY <1>2
<1>. QED  BY <1>1, <1>3, NothingCompleted DEF Moved

\* A gauntlet's status
LEMMA StatusMoves ==
    ASSUME gauntlets \in Seq(Tourneys), NEW n \in DOMAIN gauntlets,
           NEW status \in {"PENDING", "RUNNING", "COMPLETED", "cost_capped"},
           gauntlets' = [gauntlets EXCEPT ![n].status = status]
    PROVE  Moved
<1>1. /\ gauntlets' \in Seq(Tourneys) /\ Len(gauntlets') = Len(gauntlets)
      /\ DOMAIN gauntlets' = DOMAIN gauntlets
      /\ \A m \in DOMAIN gauntlets : /\ gauntlets'[m].origin = gauntlets[m].origin
                                    /\ gauntlets'[m].builds = gauntlets[m].builds
                                    /\ gauntlets'[m].games = gauntlets[m].games
  BY StatusChanged
<1>2. Grows
  BY <1>1 DEF Grows
<1>3. ASSUME NEW g PROVE g \in Completed' <=> g \in Completed
  BY <1>1, CompletedGame
<1>4. Completed' = Completed
  BY <1>3
<1>. QED  BY <1>1, <1>2, <1>4, NothingCompleted DEF Moved

\* A game's status, unless it was over
LEMMA GameMoves ==
    ASSUME gauntlets \in Seq(Tourneys), NEW n \in DOMAIN gauntlets, NEW i \in GamesIn(n),
           NEW status \in Statuses, gauntlets[n].games[i] # "COMPLETED",
           gauntlets' = WithGame(n, i, status)
    PROVE  Moved
<1>1. /\ gauntlets' \in Seq(Tourneys) /\ Len(gauntlets') = Len(gauntlets)
      /\ DOMAIN gauntlets' = DOMAIN gauntlets
      /\ \A m \in DOMAIN gauntlets :
            /\ gauntlets'[m].origin = gauntlets[m].origin
            /\ gauntlets'[m].builds = gauntlets[m].builds
            /\ Len(gauntlets'[m].games) = Len(gauntlets[m].games)
            /\ DOMAIN gauntlets'[m].games = DOMAIN gauntlets[m].games
            /\ \A j \in DOMAIN gauntlets[m].games :
                  gauntlets'[m].games[j] = IF m = n /\ j = i THEN status ELSE gauntlets[m].games[j]
  BY GameChanged
<1>2. Grows
  BY <1>1 DEF Grows
<1>3. CASE status = "COMPLETED"
  BY <1>1, <1>2, <1>3, GameCompleted DEF Moved
<1>4. CASE status # "COMPLETED"
  <2>1. ASSUME NEW g PROVE g \in Completed' <=> g \in Completed
    <3>1. \A m \in DOMAIN gauntlets : \A j \in DOMAIN gauntlets[m].games :
              gauntlets'[m].games[j] = "COMPLETED" <=> gauntlets[m].games[j] = "COMPLETED"
      BY <1>1, <1>4
    <3>. QED  BY <1>1, <3>1, CompletedGame
  <2>2. Completed' = Completed
    BY <2>1
  <2>. QED  BY <1>1, <1>2, <2>2, NothingCompleted DEF Moved
<1>. QED  BY <1>3, <1>4

\* The end of a gauntlet, or not
LEMMA FinalizeMoves ==
    ASSUME TournamentInv, NEW n \in DOMAIN gauntlets, FinalizeIfDone(n)
    PROVE  Moved /\ breaks' \in 0..MaxBreaks
<1>1. gauntlets \in Seq(Tourneys) /\ breaks \in 0..MaxBreaks /\ MaxBreaks \in Nat
  BY TournamentsAssumption DEF TournamentInv, TournamentTables
<1>2. breaks' \in 0..MaxBreaks
        /\ (gauntlets' = gauntlets \/ gauntlets' = [gauntlets EXCEPT ![n].status = "COMPLETED"])
  BY <1>1 DEF FinalizeIfDone
<1>3. CASE gauntlets' = gauntlets
  BY <1>1, <1>2, <1>3, NothingMoves
<1>4. CASE gauntlets' = [gauntlets EXCEPT ![n].status = "COMPLETED"]
  BY <1>1, <1>2, <1>4, StatusMoves
<1>. QED  BY <1>2, <1>3, <1>4

\* What a duty has in hand
Hand(t) ==
    IF t.at \notin {"firing", "run", "marking"} THEN {}
    ELSE {t.due[n] : n \in DOMAIN t.due} \cup IF t.at = "firing" THEN {} ELSE {t.origin}

\* A step of one process that takes no occurrence in hand keeps the invariant.
LEMMA StepKeeps ==
    ASSUME TournamentInv, Moved, UNCHANGED <<hour, schedules, disturbed>>,
           breaks' \in 0..MaxBreaks, abandoned \subseteq abandoned', aired \subseteq aired',
           aired' \cup abandoned' \subseteq DOMAIN gauntlets,
           \A n \in aired' \ aired :
               gauntlets[n].origin.schedule = Match /\ StatusOf(<<n, 1>>) = "COMPLETED",
           NEW w \in Fleet, NEW x \in Duties, Does(w, x),
           Hand(x) \subseteq Hand(duty[w]), Hand(x) # {} => x.now = duty[w].now,
           duty[w].at \in {"run", "marking"} =>
               \/ x.at \in {"run", "marking"} /\ x.gauntlet = duty[w].gauntlet
               \/ duty[w].gauntlet \in abandoned'
               \/ gauntlets[duty[w].gauntlet].origin.schedule = Match,
           DutyFits(x)', PlanHolds(x)'
    PROVE  TournamentInv'
<1>1. gauntlets \in Seq(Tourneys) /\ duty \in [Fleet -> Duties] /\ hour \in Nat
  BY DEF TournamentInv, TournamentTables
<1>2. /\ duty' \in [Fleet -> Duties] /\ duty'[w] = x
      /\ \A v \in Fleet : v # w => duty'[v] = duty[v]
  BY <1>1, DutyTaken
<1>3. DOMAIN gauntlets' = DOMAIN gauntlets
  BY <1>1 DEF Moved
<1>4. TournamentTables'
  BY <1>2, <1>3 DEF TournamentInv, TournamentTables, Moved
<1>5. \A v \in Fleet : InHand(v) = Hand(duty[v]) /\ InHand(v)' = Hand(duty'[v])
  BY DEF InHand, Hand
<1>6. Quiet
  <2>1. ASSUME NEW v \in Fleet
        PROVE  InHand(v)' \subseteq InHand(v) /\ (InHand(v)' # {} => duty'[v].now = duty[v].now)
    BY <1>2, <1>5
  <2>2. ASSUME NEW v \in Fleet, NEW m \in DOMAIN gauntlets, Runs(v, m)
        PROVE  Runs(v, m)' \/ m \in abandoned' \/ gauntlets[m].origin.schedule = Match
    BY <1>2, <2>2 DEF Runs
  <2>. QED  BY <1>1, <2>1, <2>2 DEF Quiet, Moved
<1>7. AiredWerePlayed'
  <2>. SUFFICES ASSUME NEW n \in aired'
                PROVE  gauntlets'[n].origin.schedule = Match /\ gauntlets'[n].games[1] = "COMPLETED"
    BY DEF AiredWerePlayed, StatusOf
  <2>1. n \in DOMAIN gauntlets /\ gauntlets[n].origin.schedule = Match
        /\ gauntlets[n].games[1] = "COMPLETED"
    BY DEF TournamentInv, AiredWerePlayed, StatusOf
  <2>2. gauntlets[n].games \in Seq(Statuses) /\ Len(gauntlets[n].games) = 1
    BY <1>1, <2>1, TourneyRow DEF TournamentInv, MatchesHaveOneGame
  <2>3. 1 \in DOMAIN gauntlets[n].games
    BY <2>2
  <2>. QED  BY <2>1, <2>3 DEF Moved, Grows
<1>8. \A v \in Fleet : duty'[v] = duty[v] \/ (DutyFits(duty[v])' /\ PlanHolds(duty[v])')
  BY <1>2
<1>. QED  BY <1>4, <1>6, <1>7, <1>8, CalmKeeps DEF Moved

\* What is known of a process
LEMMA DutyNow ==
    ASSUME TournamentInv, NEW w \in Fleet
    PROVE  /\ duty[w] \in Duties /\ DutyFits(duty[w]) /\ PlanHolds(duty[w])
           /\ gauntlets \in Seq(Tourneys) /\ duty \in [Fleet -> Duties]
           /\ breaks \in 0..MaxBreaks /\ MaxBreaks \in Nat /\ hour \in Nat
           /\ aired \cup abandoned \subseteq DOMAIN gauntlets
BY TournamentsAssumption DEF TournamentInv, TournamentTables, Shares

\* Between two errands
LEMMA ErrandFits ==
    ASSUME NEW x \in [at : {"idle", "admitted", "claiming"}]
    PROVE  x \in Duties /\ Hand(x) = {} /\ DutyFits(x)' /\ PlanHolds(x)'
<1>1. x \in Duties /\ x.at \in {"idle", "admitted", "claiming"}
  BY DEF Duties
<1>. QED  BY <1>1 DEF Hand, DutyFits, PlanHolds

\* A run is given up.
LEMMA AbandonKeeps ==
    ASSUME TournamentInv, NEW w \in Fleet, AtPlay(w), Abandon(w),
           UNCHANGED <<hour, schedules, disturbed, gauntlets, aired>>, breaks' \in 0..MaxBreaks
    PROVE  TournamentInv'
<1>. PICK t : t = duty[w]
  OBVIOUS
<1>. DEFINE back == [at |-> "firing", now |-> t.now, due |-> t.due]
<1>. PICK x : x = IF t.origin.schedule = Match THEN Idle ELSE back
  OBVIOUS
<1>1. t \in Playing /\ t.at = "run" /\ DutyFits(t) /\ abandoned' = abandoned \cup {t.gauntlet}
      /\ Does(w, x)
  BY DutyNow, DutyShape DEF AtPlay, Abandon
<1>2. Listed(t.due, t.now) /\ t.now =< hour /\ t.gauntlet \in DOMAIN gauntlets
  BY <1>1 DEF DutyFits, RunFits
<1>3. Moved
  BY DutyNow, NothingMoves
<1>4. /\ x \in Duties /\ Hand(x) \subseteq Hand(t) /\ (Hand(x) # {} => x.now = t.now)
      /\ DutyFits(x)' /\ PlanHolds(x)'
  <2>1. CASE t.origin.schedule = Match
    <3>1. x = Idle
      BY <2>1
    <3>2. x \in [at : {"idle", "admitted", "claiming"}]
      BY <3>1 DEF Idle
    <3>. QED  BY <3>2, ErrandFits
  <2>2. CASE t.origin.schedule # Match
    <3>1. x = back
      BY <2>2
    <3>2. x \in Firing /\ x.at = "firing" /\ x.now = t.now /\ x.due = t.due
      BY <3>1, <1>1 DEF Firing, Playing
    <3>3. x \in Duties
      BY <3>2 DEF Duties
    <3>4. Hand(x) \subseteq Hand(t)
      BY <3>2, <1>1 DEF Hand
    <3>5. DutyFits(x)' /\ PlanHolds(x)'
      BY <3>2, <1>2 DEF DutyFits, PlanHolds
    <3>. QED  BY <3>2, <3>3, <3>4, <3>5
  <2>. QED  BY <2>1, <2>2
<1>5. /\ abandoned \subseteq abandoned' /\ aired' = aired
      /\ aired' \cup abandoned' \subseteq DOMAIN gauntlets
  BY <1>1, <1>2, DutyNow
<1>. QED  BY <1>1, <1>3, <1>4, <1>5, StepKeeps

\* A game of a run begins.
LEMMA StartGameKeeps ==
    ASSUME TournamentInv, NEW w \in Fleet, StartTournamentGame(w)
    PROVE  TournamentInv'
<1>. PICK t : t = duty[w]
  OBVIOUS
<1>1. t \in Playing /\ t.at = "run" /\ DutyFits(t) /\ t \in Duties /\ ~t.ended /\ AtPlay(w) /\ PlanHolds(t)
  BY DutyNow, DutyShape DEF AtPlay, StartTournamentGame
<1>2. CASE Abandon(w) /\ UNCHANGED gauntlets
  BY <1>1, <1>2, AbandonKeeps, DutyNow DEF StartTournamentGame
<1>3. CASE /\ gauntlets[t.gauntlet].games[t.game] = "PENDING"
           /\ gauntlets' = WithGame(t.gauntlet, t.game, "RUNNING")
           /\ UNCHANGED <<duty, abandoned>>
  <2>1. t.gauntlet \in DOMAIN gauntlets /\ t.game \in GamesIn(t.gauntlet)
    BY <1>1 DEF DutyFits, RunFits
  <2>2. Moved
    BY <1>3, <2>1, DutyNow, GameMoves DEF Statuses
  <2>3. Does(w, t)
    BY <1>3, DutyNow DEF Does
  <2>4. DutyFits(t)' /\ PlanHolds(t)'
    BY <1>1, <2>2, DutyNow, OthersFit, PlanKept DEF Moved, StartTournamentGame
  <2>. QED  BY <1>1, <1>3, <2>2, <2>3, <2>4, DutyNow, StepKeeps DEF StartTournamentGame
<1>. QED  BY <1>2, <1>3 DEF StartTournamentGame, StatusOf

\* A game of a run ends.
LEMMA EndGameKeeps ==
    ASSUME TournamentInv, NEW w \in Fleet, EndTournamentGame(w)
    PROVE  TournamentInv'
<1>. PICK t : t = duty[w]
  OBVIOUS
<1>1. t \in Playing /\ t.at = "run" /\ DutyFits(t) /\ t \in Duties /\ ~t.ended
  BY DutyNow, DutyShape DEF AtPlay, EndTournamentGame
<1>2. t.gauntlet \in DOMAIN gauntlets /\ t.game \in GamesIn(t.gauntlet)
  BY <1>1 DEF DutyFits, RunFits
<1>. PICK capped \in IF breaks < MaxBreaks /\ t.origin.schedule # Match THEN BOOLEAN ELSE {FALSE} :
        /\ breaks' = IF capped THEN breaks + 1 ELSE breaks
        /\ Does(w, [t EXCEPT !.capped = capped, !.game = @ + 1,
                             !.ended = capped \/ t.game = Len(gauntlets[t.gauntlet].games)])
  BY DEF EndTournamentGame
<1>. PICK ended \in BOOLEAN : ended <=> capped \/ t.game = Len(gauntlets[t.gauntlet].games)
  OBVIOUS
<1>. PICK x : x = [t EXCEPT !.capped = capped, !.game = @ + 1, !.ended = ended]
  OBVIOUS
<1>3. capped \in BOOLEAN /\ breaks' \in 0..MaxBreaks /\ Does(w, x)
  <2>1. capped \in BOOLEAN /\ (capped => breaks < MaxBreaks)
    OBVIOUS
  <2>2. breaks' \in 0..MaxBreaks
    BY <2>1, DutyNow
  <2>3. ended = (capped \/ t.game = Len(gauntlets[t.gauntlet].games))
    OBVIOUS
  <2>. QED  BY <2>1, <2>2, <2>3
<1>4. /\ x \in Playing /\ x.at = "run" /\ x.now = t.now /\ x.due = t.due /\ x.origin = t.origin
      /\ x.gauntlet = t.gauntlet /\ x.game = t.game + 1 /\ x.ended = ended
  <2>1. t.game + 1 \in Nat
    BY <1>1 DEF Playing
  <2>. PICK game \in Nat : game = t.game + 1
    BY <2>1
  <2>2. x = [t EXCEPT !.capped = capped, !.game = game, !.ended = ended]
    OBVIOUS
  <2>3. /\ x \in Playing /\ x.at = "run" /\ x.now = t.now /\ x.due = t.due /\ x.origin = t.origin
        /\ x.gauntlet = t.gauntlet /\ x.game = game /\ x.ended = ended
    BY ONLY <1>1, <1>3, ended \in BOOLEAN, game \in Nat, <2>2 DEF Playing
  <2>. QED  BY <2>3
<1>5. /\ gauntlets[t.gauntlet].games[t.game] = "RUNNING"
      /\ gauntlets' = WithGame(t.gauntlet, t.game, "COMPLETED")
  BY DEF EndTournamentGame
<1>6. Moved
  BY <1>2, <1>5, DutyNow, GameMoves DEF Statuses
<1>7. gauntlets[t.gauntlet].games \in Seq(Statuses) /\ t.game \in 1..Len(gauntlets[t.gauntlet].games)
      /\ Len(gauntlets[t.gauntlet].games) \in Nat
  <2>1. gauntlets[t.gauntlet].games \in Seq(Statuses)
    BY <1>2, DutyNow, TourneyRow
  <2>. PICK list \in Seq(Statuses) : list = gauntlets[t.gauntlet].games
    BY <2>1
  <2>2. t.game \in DOMAIN list
    BY <1>2 DEF GamesIn
  <2>3. t.game \in 1..Len(list) /\ Len(list) \in Nat
    BY ONLY <2>2, list \in Seq(Statuses)
  <2>. QED  BY <2>1, <2>3
<1>8. /\ gauntlets'[t.gauntlet].games[t.game] = "COMPLETED"
      /\ DOMAIN gauntlets'[t.gauntlet].games = DOMAIN gauntlets[t.gauntlet].games
  <2>. PICK n \in DOMAIN gauntlets, i \in GamesIn(t.gauntlet) : n = t.gauntlet /\ i = t.game
    BY <1>2
  <2>1. gauntlets \in Seq(Tourneys) /\ "COMPLETED" \in Statuses /\ i \in GamesIn(n)
        /\ gauntlets' = WithGame(n, i, "COMPLETED")
    BY <1>5, DutyNow DEF Statuses
  <2>2. /\ DOMAIN gauntlets'[n].games = DOMAIN gauntlets[n].games
        /\ \A j \in DOMAIN gauntlets[n].games :
              gauntlets'[n].games[j] = IF j = i THEN "COMPLETED" ELSE gauntlets[n].games[j]
    <3>1. /\ DOMAIN gauntlets'[n].games = DOMAIN gauntlets[n].games
          /\ \A j \in DOMAIN gauntlets[n].games :
                gauntlets'[n].games[j] =
                    IF n = n /\ j = i THEN "COMPLETED" ELSE gauntlets[n].games[j]
      BY ONLY <2>1, n \in DOMAIN gauntlets, GameChanged
    <3>. QED  BY ONLY <3>1
  <2>3. i \in DOMAIN gauntlets[n].games
    BY <2>1 DEF GamesIn
  <2>. QED  BY <2>2, <2>3
<1>9. ~x.ended => x.game \in GamesIn(x.gauntlet)'
  <2>. SUFFICES ASSUME ~x.ended PROVE x.game \in GamesIn(x.gauntlet)'
    OBVIOUS
  <2>2. t.game # Len(gauntlets[t.gauntlet].games)
    BY <1>4
  <2>. PICK size \in Nat : size = Len(gauntlets[t.gauntlet].games)
    BY <1>7
  <2>. PICK game \in 1..size : game = t.game
    BY <1>7
  <2>3. game + 1 \in 1..size
    BY <2>2
  <2>1. t.game + 1 \in 1..Len(gauntlets[t.gauntlet].games)
    BY <2>3
  <2>. QED  BY <1>4, <1>7, <1>8, <2>1 DEF GamesIn
<1>10. x.ended /\ x.origin.schedule = Match => gauntlets'[x.gauntlet].games[1] = "COMPLETED"
  <2>1. x.origin.schedule = Match => Len(gauntlets[t.gauntlet].games) = 1
    BY <1>1, <1>2, <1>4 DEF DutyFits, RunFits, TournamentInv, MatchesHaveOneGame
  <2>2. Len(gauntlets[t.gauntlet].games) = 1 => t.game = 1
    <3>. PICK size \in Nat : size = Len(gauntlets[t.gauntlet].games)
      BY <1>7
    <3>1. t.game \in 1..size
      BY <1>7
    <3>2. size = 1 => t.game = 1
      BY ONLY <3>1, size \in Nat
    <3>. QED  BY <3>2
  <2>. QED  BY <1>4, <1>8, <2>1, <2>2
<1>11. RunFits(x)' /\ x.now =< hour' /\ Listed(x.due, x.now)
  <2>1. RunFits(t) /\ t.now =< hour /\ Listed(t.due, t.now)
    BY <1>1 DEF DutyFits
  <2>2. RunFits(x)'
    BY <1>4, <1>6, <2>1 DEF RunFits, Moved, Grows
  <2>3. hour' = hour
    BY DEF EndTournamentGame
  <2>. QED  BY <1>4, <2>1, <2>2, <2>3
<1>12. DutyFits(x)' /\ PlanHolds(x)'
  BY <1>4, <1>9, <1>10, <1>11 DEF DutyFits, PlanHolds, StatusOf
<1>13. Hand(x) = Hand(t) /\ x \in Duties
  BY <1>1, <1>4 DEF Hand, Duties
<1>14. UNCHANGED <<hour, schedules, disturbed, aired, abandoned>>
  BY DEF EndTournamentGame
<1>. QED  BY <1>3, <1>4, <1>6, <1>12, <1>13, <1>14, DutyNow, StepKeeps

\* A run of a schedule is over, and its gauntlet has a status.
LEMMA SettleKeeps ==
    ASSUME TournamentInv, NEW w \in Fleet, SettleRun(w)
    PROVE  TournamentInv'
<1>. PICK t : t = duty[w]
  OBVIOUS
<1>. PICK x : x = [at |-> "marking", now |-> t.now, due |-> t.due, origin |-> t.origin,
                   gauntlet |-> t.gauntlet]
  OBVIOUS
<1>1. /\ t \in Playing /\ t.at = "run" /\ DutyFits(t) /\ t.ended /\ t.origin.schedule # Match
      /\ Does(w, x) /\ UNCHANGED <<hour, schedules, aired, abandoned, disturbed>>
  BY DutyNow, DutyShape DEF SettleRun
<1>2. RunFits(t) /\ t.now =< hour /\ Listed(t.due, t.now) /\ t.gauntlet \in DOMAIN gauntlets
  BY <1>1 DEF DutyFits, RunFits
<1>3. /\ x \in Marking /\ x \in Duties /\ x.at = "marking" /\ x.now = t.now /\ x.due = t.due
      /\ x.origin = t.origin /\ x.gauntlet = t.gauntlet
  BY <1>1 DEF Marking, Playing, Duties
<1>4. Moved /\ breaks' \in 0..MaxBreaks
  <2>1. CASE t.capped
    <3>1. gauntlets' = [gauntlets EXCEPT ![t.gauntlet].status = "cost_capped"] /\ breaks' = breaks
      BY <2>1 DEF SettleRun
    <3>. QED  BY <1>2, <3>1, DutyNow, StatusMoves
  <2>2. CASE ~t.capped
    BY <1>2, <2>2, FinalizeMoves DEF SettleRun
  <2>. QED  BY <2>1, <2>2
<1>5. Hand(x) = Hand(t)
  BY <1>1, <1>3 DEF Hand
<1>6. DutyFits(x)' /\ PlanHolds(x)'
  <2>1. RunFits(x)'
    BY <1>2, <1>3, <1>4 DEF RunFits, Moved, Grows
  <2>. QED  BY <1>1, <1>2, <1>3, <2>1 DEF DutyFits, PlanHolds
<1>. QED  BY <1>1, <1>3, <1>4, <1>5, <1>6, DutyNow, StepKeeps

\* Between two errands, with whatever happens to the status of a gauntlet
LEMMA ErrandKeeps ==
    ASSUME TournamentInv, Moved, UNCHANGED <<hour, schedules, disturbed>>, breaks' \in 0..MaxBreaks,
           NEW w \in Fleet, NEW x \in [at : {"idle", "admitted", "claiming"}], Does(w, x),
           abandoned \subseteq abandoned', aired \subseteq aired',
           aired' \cup abandoned' \subseteq DOMAIN gauntlets,
           \A n \in aired' \ aired :
               gauntlets[n].origin.schedule = Match /\ StatusOf(<<n, 1>>) = "COMPLETED",
           duty[w].at \in {"run", "marking"} =>
               \/ duty[w].gauntlet \in abandoned'
               \/ gauntlets[duty[w].gauntlet].origin.schedule = Match
    PROVE  TournamentInv'
<1>1. x \in Duties /\ Hand(x) = {} /\ DutyFits(x)' /\ PlanHolds(x)'
  BY ErrandFits
<1>. QED  BY <1>1, StepKeeps

\* The matchmaker is admitted or not, and puts its match on air.
LEMMA AdmitKeeps ==
    ASSUME TournamentInv, NEW w \in Fleet, Admit(w) \/ PromoteMatch(w)
    PROVE  TournamentInv'
<1>. PICK t : t = duty[w]
  OBVIOUS
<1>1. Moved /\ UNCHANGED <<hour, schedules, disturbed, breaks, abandoned>>
  BY DutyNow, NothingMoves DEF Admit, PromoteMatch
<1>2. CASE Admit(w)
  <2>. PICK x : x = [at |-> IF Admitted THEN "admitted" ELSE "claiming"]
    OBVIOUS
  <2>1. Does(w, x) /\ aired' = aired /\ duty[w].at = "firing"
    BY <1>2 DEF Admit
  <2>2. x \in [at : {"idle", "admitted", "claiming"}]
    OBVIOUS
  <2>. QED  BY <1>1, <2>1, <2>2, DutyNow, ErrandKeeps
<1>3. CASE PromoteMatch(w)
  <2>. PICK x : x = [at |-> "claiming"]
    OBVIOUS
  <2>1. /\ Does(w, x) /\ aired' \in {aired, aired \cup {t.gauntlet}}
        /\ t.at = "run" /\ t.ended /\ t.origin.schedule = Match
    BY <1>3 DEF PromoteMatch
  <2>2. /\ t.gauntlet \in DOMAIN gauntlets /\ StatusOf(<<t.gauntlet, 1>>) = "COMPLETED"
        /\ gauntlets[t.gauntlet].origin.schedule = Match
    BY <2>1, DutyNow DEF DutyFits, RunFits
  <2>3. x \in [at : {"idle", "admitted", "claiming"}]
    OBVIOUS
  <2>. QED  BY <1>1, <2>1, <2>2, <2>3, DutyNow, ErrandKeeps
<1>. QED  BY <1>2, <1>3

\* A match is planned from the history of the moment.
LEMMA PlanKeeps ==
    ASSUME TournamentInv, NEW w \in Fleet, PlanMatch(w)
    PROVE  TournamentInv'
<1>1. Moved /\ SameScores /\ UNCHANGED <<hour, schedules, disturbed, breaks, abandoned, aired>>
  <2>1. gauntlets' = gauntlets /\ gauntlets \in Seq(Tourneys) /\ Moved
    BY DutyNow, NothingMoves DEF PlanMatch
  <2>2. HistoryLength' = HistoryLength
    BY <2>1 DEF HistoryLength, AllGames, GamesIn, StatusOf
  <2>3. ASSUME NEW b \in Roster PROVE PlayCount(b)' = PlayCount(b)
    BY <2>1 DEF PlayCount, AllGames, GamesIn, StatusOf
  <2>. QED  BY <2>1, <2>2, <2>3 DEF SameScores, PlanMatch
<1>. PICK team \in NextMatch : Does(w, [at |-> "planned", team |-> team, history |-> HistoryLength])
  BY DEF PlanMatch
<1>. PICK history : history = HistoryLength
  OBVIOUS
<1>. PICK x : x = [at |-> "planned", team |-> team, history |-> history]
  OBVIOUS
<1>2. team \in SUBSET Roster /\ LeastPlayed(team)
  BY DEF NextMatch, LeastPlayed
<1>3. history \in Nat
  BY DutyNow, CompletedFinite
<1>4. x \in Duties /\ x.at = "planned" /\ x.team = team /\ x.history = history
  BY <1>2, <1>3 DEF Duties
<1>5. LeastPlayed(team)' /\ HistoryLength' = history
  BY <1>1, <1>2 DEF SameScores, LeastPlayed
<1>6. DutyFits(x)' /\ PlanHolds(x)' /\ Hand(x) = {}
  BY <1>3, <1>4, <1>5 DEF DutyFits, PlanHolds, Hand
<1>7. Does(w, x) /\ duty[w].at = "admitted"
  BY DEF PlanMatch
<1>. QED  BY <1>1, <1>4, <1>6, <1>7, DutyNow, StepKeeps

\* A PENDING gauntlet is claimed, and driven to its end.
LEMMA ClaimKeeps ==
    ASSUME TournamentInv, NEW w \in Fleet, ClaimNextPending(w)
    PROVE  TournamentInv'
<1>1. /\ duty[w].at = "claiming"
      /\ UNCHANGED <<hour, schedules, breaks, aired, abandoned, disturbed>>
  BY DEF ClaimNextPending
<1>2. CASE Does(w, Idle) /\ UNCHANGED gauntlets
  <2>1. Idle \in [at : {"idle", "admitted", "claiming"}]
    BY DEF Idle
  <2>2. Moved
    BY <1>2, DutyNow, NothingMoves
  <2>. QED  BY <1>1, <1>2, <2>1, <2>2, DutyNow, ErrandKeeps
<1>3. CASE \E n \in Pending : /\ gauntlets' = [gauntlets EXCEPT ![n].status = "RUNNING"]
                              /\ Does(w, [at |-> "driving", gauntlet |-> n])
  <2>. PICK n \in Pending : /\ gauntlets' = [gauntlets EXCEPT ![n].status = "RUNNING"]
                            /\ Does(w, [at |-> "driving", gauntlet |-> n])
    BY <1>3
  <2>. PICK x : x = [at |-> "driving", gauntlet |-> n]
    OBVIOUS
  <2>1. n \in DOMAIN gauntlets /\ Does(w, x)
    BY DEF Pending
  <2>2. Moved
    BY <2>1, DutyNow, StatusMoves
  <2>3. n \in DOMAIN gauntlets' /\ n \in Nat
    BY <2>1, <2>2, DutyNow, TourneyRow DEF Moved
  <2>4. x \in Duties /\ x.at = "driving" /\ x.gauntlet = n
    BY <2>3 DEF Duties
  <2>5. DutyFits(x)' /\ PlanHolds(x)' /\ Hand(x) = {}
    BY <2>3, <2>4 DEF DutyFits, PlanHolds, Hand
  <2>. QED  BY <1>1, <2>1, <2>2, <2>4, <2>5, DutyNow, StepKeeps
<1>. QED  BY <1>2, <1>3 DEF ClaimNextPending

\* The games of a claimed gauntlet, and its end
LEMMA DriveKeeps ==
    ASSUME TournamentInv, NEW w \in Fleet, NEW n \in DOMAIN gauntlets,
           EndDrive(w, n) \/ \E i \in GamesIn(n) : DriveGame(w, n, i)
    PROVE  TournamentInv'
<1>. PICK t : t = duty[w]
  OBVIOUS
<1>1. t.at = "driving" /\ t \in Duties /\ DutyFits(t) /\ PlanHolds(t)
  BY DutyNow DEF EndDrive, DriveGame, Driving
<1>2. CASE EndDrive(w, n)
  <2>1. Moved /\ breaks' \in 0..MaxBreaks /\ Does(w, Idle)
        /\ UNCHANGED <<hour, schedules, aired, abandoned, disturbed>>
    BY <1>2, FinalizeMoves DEF EndDrive
  <2>2. Idle \in [at : {"idle", "admitted", "claiming"}]
    BY DEF Idle
  <2>. QED  BY <1>1, <2>1, <2>2, DutyNow, ErrandKeeps
<1>3. ASSUME NEW i \in GamesIn(n), DriveGame(w, n, i) PROVE TournamentInv'
  <2>1. /\ gauntlets[n].games[i] # "COMPLETED" /\ breaks' \in 0..MaxBreaks
        /\ UNCHANGED <<hour, schedules, duty, aired, abandoned, disturbed>>
    BY <1>3, DutyNow DEF DriveGame, Over
  <2>2. Moved
    <3>1. CASE gauntlets' = WithGame(n, i, "COMPLETED")
      BY <2>1, <3>1, DutyNow, GameMoves DEF Statuses
    <3>2. CASE gauntlets' = WithGame(n, i, "FAILED")
      BY <2>1, <3>2, DutyNow, GameMoves DEF Statuses
    <3>. QED  BY <1>3, <3>1, <3>2 DEF DriveGame
  <2>3. Does(w, t)
    BY <2>1, DutyNow DEF Does
  <2>4. DutyFits(t)' /\ PlanHolds(t)'
    BY <1>1, <2>1, <2>2, DutyNow, OthersFit, PlanKept DEF Moved
  <2>. QED  BY <1>1, <2>1, <2>2, <2>3, <2>4, DutyNow, StepKeeps
<1>. QED  BY <1>2, <1>3

\* A process is killed.
LEMMA KillKeeps ==
    ASSUME TournamentInv, NEW w \in Fleet, Kill(w)
    PROVE  TournamentInv'
<1>. PICK t : t = duty[w]
  OBVIOUS
<1>1. /\ Does(w, Idle) /\ Idle \in [at : {"idle", "admitted", "claiming"}]
      /\ UNCHANGED <<hour, schedules, aired, disturbed>> /\ breaks' \in 0..MaxBreaks
      /\ abandoned' = abandoned \cup IF t.at \in {"run", "marking"} THEN {t.gauntlet} ELSE {}
  <2>1. breaks' \in 0..MaxBreaks
    BY DutyNow DEF Kill
  <2>. QED  BY <2>1 DEF Kill, Idle
<1>2. /\ t.at \in {"run", "marking", "driving"} => t.gauntlet \in DOMAIN gauntlets
  BY DutyNow DEF DutyFits, RunFits
<1>3. Moved
  <2>1. CASE gauntlets' = gauntlets
    BY <2>1, DutyNow, NothingMoves
  <2>2. CASE t.at = "driving" /\ gauntlets' = [gauntlets EXCEPT ![t.gauntlet].status = "PENDING"]
    BY <1>2, <2>2, DutyNow, StatusMoves
  <2>. QED  BY <2>1, <2>2 DEF Kill
<1>. QED  BY <1>1, <1>2, <1>3, DutyNow, ErrandKeeps

\* Time passes, or not even that.
LEMMA WaitKeeps ==
    ASSUME TournamentInv, hour' \in 1..MaxTime, hour =< hour',
           UNCHANGED <<schedules, gauntlets, duty, breaks, aired, abandoned, disturbed>>
    PROVE  TournamentInv'
<1>1. Moved /\ UNCHANGED <<schedules, gauntlets, duty, breaks, aired, abandoned, disturbed>>
  BY NothingMoves DEF TournamentInv, TournamentTables
<1>2. TournamentTables'
  BY <1>1 DEF TournamentInv, TournamentTables
<1>3. Quiet
  <2>1. \A v \in Fleet : InHand(v)' = InHand(v)
    BY <1>1 DEF InHand
  <2>2. \A v \in Fleet : \A m : Runs(v, m)' <=> Runs(v, m)
    BY <1>1 DEF Runs
  <2>. QED  BY <1>1, <2>1, <2>2 DEF Quiet
<1>4. AiredWerePlayed'
  BY <1>1 DEF TournamentInv, AiredWerePlayed, StatusOf
<1>. QED  BY <1>1, <1>2, <1>3, <1>4, CalmKeeps DEF Moved

\* An occurrence in hand is in the past.
LEMMA HandShape ==
    ASSUME TournamentInv, NEW w \in Fleet, NEW o \in InHand(w)
    PROVE  /\ o \in Occasions /\ duty[w].at \in {"firing", "run", "marking"} /\ duty[w].now \in Nat
           /\ o.schedule # Match => /\ o.schedule \in Schedules /\ o.at \in 1..duty[w].now
                                    /\ o.at \in 1..hour
<1>. PICK t : t = duty[w]
  OBVIOUS
<1>1. t \in Duties /\ DutyFits(t) /\ hour \in Nat /\ t.at \in {"firing", "run", "marking"}
  BY DutyNow DEF InHand
<1>2. /\ t.now \in Nat /\ t.due \in Seq(Occasions) /\ t.now =< hour /\ Listed(t.due, t.now)
      /\ t.at # "firing" => RunFits(t) /\ t.origin \in Occasions
  BY <1>1, DutyShape DEF DutyFits, Firing, Playing, Marking
<1>3. CASE o \in {t.due[n] : n \in DOMAIN t.due}
  <2>. PICK n \in DOMAIN t.due : o = t.due[n]
    BY <1>3
  <2>1. o \in Occasions
    BY <1>2
  <2>2. o.schedule \in Schedules /\ o.at \in 1..t.now
    BY <1>2 DEF Listed
  <2>. QED  BY <1>1, <1>2, <2>1, <2>2
<1>4. CASE t.at # "firing" /\ o = t.origin
  <2>1. o \in Occasions /\ (o.schedule # Match => o.at \in 1..t.now)
    BY <1>2, <1>4 DEF RunFits
  <2>2. o.schedule # Match => o.schedule \in Schedules
    BY <2>1 DEF Occasions
  <2>. QED  BY <1>1, <1>2, <2>1, <2>2
<1>. QED  BY <1>1, <1>3, <1>4 DEF InHand

\* A run has the occurrence of its gauntlet in hand.
LEMMA RunsInHand ==
    ASSUME TournamentInv, NEW w \in Fleet, NEW m \in DOMAIN gauntlets, Runs(w, m)
    PROVE  gauntlets[m].origin \in InHand(w) /\ duty[w].origin = gauntlets[m].origin
<1>1. duty[w].at \in {"run", "marking"} /\ duty[w].gauntlet = m /\ duty[w].origin = gauntlets[m].origin
  BY DutyNow DEF Runs, DutyFits, RunFits
<1>. QED  BY <1>1 DEF InHand

\* The schedule of an operator
LEMMA PatchKeeps ==
    ASSUME TournamentInv, NEW s \in Schedules, PatchSchedule(s)
    PROVE  TournamentInv'
<1>1. /\ UNCHANGED <<hour, gauntlets, duty, breaks, aired, abandoned, disturbed>>
      /\ schedules'[s].next \in {0, hour + 1} /\ \A z \in Schedules \ {s} : schedules'[z] = schedules[z]
      /\ schedules' \in [Schedules -> ScheduledGauntlet]
      /\ \A z \in Schedules : schedules'[z].enabled => schedules'[z].next >= 1
  <2>1. /\ schedules \in [Schedules -> ScheduledGauntlet] /\ hour \in 1..MaxTime /\ MaxTime \in Nat
        /\ \A z \in Schedules : schedules[z].enabled => schedules[z].next >= 1
    BY TournamentsAssumption DEF TournamentInv, TournamentTables
  <2>2. hour + 1 \in 0..MaxTime + 1 /\ 0 \in 0..MaxTime + 1 /\ hour + 1 >= 1
    BY <2>1
  <2>3. schedules[s] \in ScheduledGauntlet
    BY <2>1
  <2>4. CASE \E on \in BOOLEAN :
               schedules' = [schedules EXCEPT ![s].enabled = on,
                                              ![s].next = IF on THEN hour + 1 ELSE 0]
    <3>. PICK on \in BOOLEAN : schedules' = [schedules EXCEPT ![s].enabled = on,
                                                             ![s].next = IF on THEN hour + 1 ELSE 0]
      BY <2>4
    <3>. PICK next : next = IF on THEN hour + 1 ELSE 0
      OBVIOUS
    <3>. PICK row : row = [schedules[s] EXCEPT !.enabled = on, !.next = next]
      OBVIOUS
    <3>1. next \in 0..MaxTime + 1 /\ next \in {0, hour + 1} /\ (on => next >= 1)
      BY <2>2
    <3>2. row \in ScheduledGauntlet /\ row.next = next /\ row.enabled = on
      BY <2>3, <3>1 DEF ScheduledGauntlet
    <3>3. schedules' = [schedules EXCEPT ![s] = row]
      BY <2>1, <2>3 DEF ScheduledGauntlet
    <3>4. \A z \in Schedules : schedules'[z] = IF z = s THEN row ELSE schedules[z]
      BY <2>1, <3>3
    <3>5. schedules' \in [Schedules -> ScheduledGauntlet]
      BY <2>1, <3>2, <3>3
    <3>6. UNCHANGED <<hour, gauntlets, duty, breaks, aired, abandoned, disturbed>>
      BY DEF PatchSchedule
    <3>. QED  BY <2>1, <3>1, <3>2, <3>4, <3>5, <3>6
  <2>5. CASE schedules' = [schedules EXCEPT ![s].next = hour + 1]
    <3>. PICK row : row = [schedules[s] EXCEPT !.next = hour + 1]
      OBVIOUS
    <3>2. row \in ScheduledGauntlet /\ row.next = hour + 1
      BY <2>2, <2>3 DEF ScheduledGauntlet
    <3>3. schedules' = [schedules EXCEPT ![s] = row]
      BY <2>1, <2>3, <2>5 DEF ScheduledGauntlet
    <3>. QED  BY <2>1, <2>2, <3>2, <3>3 DEF PatchSchedule
  <2>. QED  BY <2>4, <2>5 DEF PatchSchedule
<1>2. Moved /\ hour \in Nat /\ hour' \in Nat
  BY <1>1, NothingMoves DEF TournamentInv, TournamentTables
<1>3. TournamentTables'
  BY <1>1 DEF TournamentInv, TournamentTables
<1>4. /\ \A v : InHand(v)' = InHand(v)
      /\ \A v, m : Runs(v, m)' <=> Runs(v, m)
      /\ \A z : \A o \in Known(z)' : o \in Known(z)
  <2>1. \A v : InHand(v)' = InHand(v)
    BY <1>1 DEF InHand
  <2>2. ASSUME NEW z, NEW o \in Known(z)' PROVE o \in Known(z)
    BY <1>1, <2>1, <2>2, KnownLess
  <2>. QED  BY <1>1, <2>1, <2>2 DEF Runs
<1>5. /\ OneHand /\ (\A w \in Fleet : NothingLater(w)) /\ InThePast
      /\ (\A m \in DOMAIN gauntlets : Spent(m)) /\ FiredOnce
  BY DEF TournamentInv, Occurrences
<1>6. OneHand' /\ InThePast' /\ FiredOnce'
  <2>1. OneHand'
    BY <1>1, <1>4, <1>5 DEF OneHand
  <2>2. InThePast' /\ FiredOnce'
    BY <1>1, <1>5 DEF InThePast, FiredOnce
  <2>. QED  BY <2>1, <2>2
<1>7. ASSUME NEW w \in Fleet PROVE NothingLater(w)'
  <2>. SUFFICES ASSUME NEW q \in InHand(w), q.schedule # Match, q \notin disturbed,
                       schedules'[q.schedule].next = q.at
                PROVE  \A o \in Known(q.schedule) : o.at =< duty[w].now
    <3>1. InHand(w)' = InHand(w) /\ \A z : \A o \in Known(z)' : o \in Known(z)
      BY <1>4
    <3>2. duty' = duty /\ disturbed' = disturbed
      BY <1>1
    <3>. QED  BY <3>1, <3>2 DEF NothingLater
  <2>1. q.schedule \in Schedules /\ q.at \in 1..hour
    BY HandShape
  <2>2. q.schedule # s
    BY <1>1, <1>2, <2>1
  <2>. QED  BY <1>1, <1>5, <2>1, <2>2 DEF NothingLater
<1>8. ASSUME NEW m \in DOMAIN gauntlets PROVE Spent(m)'
  <2>. PICK o : o = gauntlets[m].origin
    OBVIOUS
  <2>1. o \in Occasions /\ gauntlets'[m].origin = o
    BY <1>1, TourneyRow DEF TournamentInv, TournamentTables
  <2>2. o.schedule # Match => o.schedule \in Schedules /\ o.at \in 1..hour
    BY <1>5, <2>1 DEF InThePast, Occasions
  <2>3. Spent(m)
    BY <1>5
  <2>4. o.schedule # Match /\ schedules[o.schedule].next # o.at => schedules'[o.schedule].next # o.at
    BY <1>1, <1>2, <2>2
  <2>. QED  BY <1>1, <1>4, <2>1, <2>3, <2>4 DEF Spent
<1>9. Occurrences' /\ AiredWerePlayed'
  BY <1>1, <1>6, <1>7, <1>8 DEF Occurrences, AiredWerePlayed, StatusOf, TournamentInv
<1>10. hour =< hour'
  BY <1>1, <1>2
<1>. QED  BY <1>1, <1>2, <1>3, <1>9, <1>10, RestKeeps DEF Moved

\* The due schedules are listed.
LEMMA ListKeeps ==
    ASSUME TournamentInv, NEW w \in Fleet, ListDue(w)
    PROVE  TournamentInv'
<1>. DEFINE S == {s \in Schedules : schedules[s].enabled /\ schedules[s].next <= hour}
<1>. PICK order \in Ascend(S) :
        LET due == [n \in DOMAIN order |-> Origin(order[n], schedules[order[n]].next)]
        IN  /\ Does(w, [at |-> "firing", now |-> hour, due |-> due])
            /\ disturbed' = disturbed \cup
                  ({due[n] : n \in DOMAIN due} \cap UNION {InHand(v) : v \in Fleet})
  BY DEF ListDue
<1>. PICK due : due = [n \in DOMAIN order |-> Origin(order[n], schedules[order[n]].next)]
  OBVIOUS
<1>. PICK x : x = [at |-> "firing", now |-> hour, due |-> due]
  OBVIOUS
<1>. PICK listed : listed = {due[n] : n \in DOMAIN due}
  OBVIOUS
<1>1. /\ Does(w, x) /\ disturbed' = disturbed \cup (listed \cap UNION {InHand(v) : v \in Fleet})
      /\ duty[w] = Idle /\ UNCHANGED <<hour, schedules, gauntlets, breaks, aired, abandoned>>
  BY DEF ListDue
<1>2. /\ hour \in 1..MaxTime /\ hour \in Nat /\ gauntlets \in Seq(Tourneys) /\ duty \in [Fleet -> Duties]
      /\ \A z \in Schedules : schedules[z] \in ScheduledGauntlet
      /\ \A z \in Schedules : schedules[z].enabled => schedules[z].next >= 1
      /\ Schedules \subseteq Nat \ {0} /\ IsFiniteSet(Schedules)
  BY TournamentsAssumption DEF TournamentInv, TournamentTables
<1>0. S \in SUBSET Schedules /\ \A z \in S : schedules[z].enabled /\ schedules[z].next <= hour
  OBVIOUS
<1>. HIDE DEF S
<1>. PICK size \in Nat : size = Cardinality(S)
  <2>1. IsFiniteSet(S)
    BY <1>0, <1>2, FS_Subset
  <2>. QED  BY <2>1, FS_CardinalityType
<1>3. order \in [1..size -> S] /\ \A i, j \in 1..size : i < j => order[i] < order[j]
  BY DEF Ascend
<1>4. \A n \in DOMAIN due :
          /\ due[n] \in Occasions /\ due[n].schedule \in Schedules /\ due[n].at \in 1..hour
          /\ due[n].at = schedules[due[n].schedule].next /\ due[n].schedule = order[n]
  <2>. SUFFICES ASSUME NEW n \in DOMAIN due
                PROVE  /\ due[n] \in Occasions /\ due[n].schedule \in Schedules /\ due[n].at \in 1..hour
                       /\ due[n].at = schedules[due[n].schedule].next /\ due[n].schedule = order[n]
    OBVIOUS
  <2>1. order[n] \in S /\ due[n] = [schedule |-> order[n], at |-> schedules[order[n]].next]
    BY <1>3 DEF Origin
  <2>. PICK z \in Schedules : z = order[n] /\ schedules[z].enabled /\ schedules[z].next <= hour
    BY <1>0, <2>1
  <2>2. schedules[z] \in ScheduledGauntlet /\ schedules[z].next >= 1
    BY <1>2
  <2>4. schedules[z].next \in Nat
    BY <2>2 DEF ScheduledGauntlet
  <2>5. schedules[z].next \in 1..hour
    BY <1>2, <2>2, <2>4
  <2>3. schedules[order[n]].next \in 1..hour /\ order[n] \in Schedules /\ schedules[order[n]].next \in Nat
    BY <2>4, <2>5
  <2>6. due[n].schedule = order[n] /\ due[n].at = schedules[order[n]].next
    BY <2>1
  <2>7. due[n] \in Occasions
    BY <2>1, <2>3 DEF Occasions
  <2>8. due[n].at = schedules[due[n].schedule].next
    BY <2>6
  <2>. QED  BY <2>3, <2>6, <2>7, <2>8
<1>5. due \in Seq(Occasions) /\ DOMAIN due = 1..size
  <2>1. DOMAIN due = 1..size
    BY <1>3
  <2>2. \A n \in 1..size : due[n] \in Occasions
    BY <1>4, <2>1
  <2>3. due = [n \in 1..size |-> due[n]]
    BY <2>1
  <2>4. [n \in 1..size |-> due[n]] \in Seq(Occasions)
    BY ONLY <2>2, size \in Nat
  <2>. QED  BY <2>1, <2>3, <2>4
<1>6. Listed(due, hour)
  <2>1. ASSUME NEW i \in DOMAIN due, NEW j \in DOMAIN due, i # j PROVE order[i] # order[j]
    <3>0. i \in 1..size /\ j \in 1..size
      BY <1>5
    <3>1. order[i] \in Nat /\ order[j] \in Nat /\ i \in Nat /\ j \in Nat
      <4>1. order[i] \in S /\ order[j] \in S
        BY <1>3, <3>0
      <4>2. order[i] \in Schedules /\ order[j] \in Schedules
        BY <1>0, <4>1
      <4>3. order[i] \in Nat /\ order[j] \in Nat
        BY <1>2, <4>2
      <4>. QED  BY <3>0, <4>3
    <3>2. i < j \/ j < i
      BY <2>1, <3>1
    <3>3. i < j => order[i] < order[j]
      BY <1>3, <1>5
    <3>4. j < i => order[j] < order[i]
      BY <1>3, <1>5
    <3>. QED  BY <3>1, <3>2, <3>3, <3>4
  <2>. QED  BY <1>4, <2>1 DEF Listed
<1>7. x \in Duties /\ x.at = "firing" /\ x.now = hour /\ x.due = due
  <2>1. x \in Firing /\ x.at = "firing" /\ x.now = hour /\ x.due = due
    BY <1>2, <1>5 DEF Firing
  <2>. QED  BY <2>1 DEF Duties
<1>8. /\ duty' \in [Fleet -> Duties] /\ duty'[w] = x
      /\ \A v \in Fleet : v # w => duty'[v] = duty[v]
  BY <1>1, <1>2, <1>7, DutyTaken
<1>9. /\ InHand(w) = {} /\ InHand(w)' = listed
      /\ \A v \in Fleet : v # w => InHand(v)' = InHand(v)
  <2>1. InHand(w) = {}
    BY <1>1 DEF InHand, Idle
  <2>2. InHand(w)' = listed
    BY <1>7, <1>8 DEF InHand
  <2>3. \A v \in Fleet : v # w => InHand(v)' = InHand(v)
    BY <1>8 DEF InHand
  <2>. QED  BY <2>1, <2>2, <2>3
<1>10. \A m : ~Runs(w, m) /\ ~Runs(w, m)' /\ \A v \in Fleet : v # w => (Runs(v, m)' <=> Runs(v, m))
  BY <1>1, <1>7, <1>8 DEF Runs, Idle
<1>11. \A o \in listed : o \in Occasions /\ o.schedule \in Schedules /\ o.at \in 1..hour
                         /\ o.at = schedules[o.schedule].next
  BY <1>4
<1>12. \A z : \A o \in Known(z)' : o.schedule = z /\ (o \in Known(z) \/ o \in listed)
  <2>. SUFFICES ASSUME NEW z, NEW o \in Known(z)'
                PROVE  o.schedule = z /\ (o \in Known(z) \/ o \in listed)
    OBVIOUS
  <2>1. o.schedule = z /\ (\/ \E v \in Fleet : o \in InHand(v)'
                           \/ \E n \in DOMAIN gauntlets : o = gauntlets[n].origin)
    BY <1>1, KnownOf
  <2>2. (\E v \in Fleet : o \in InHand(v)') => o \in listed \/ \E v \in Fleet : o \in InHand(v)
    BY <1>9
  <2>. QED  BY <2>1, <2>2, KnownOf
<1>13. /\ OneHand /\ (\A v \in Fleet : NothingLater(v)) /\ InThePast
       /\ (\A m \in DOMAIN gauntlets : Spent(m)) /\ FiredOnce
  BY DEF TournamentInv, Occurrences
<1>14. OneHand'
  <2>. SUFFICES ASSUME NEW u \in Fleet, NEW v \in Fleet, u # v, NEW o \in InHand(u)' \cap InHand(v)',
                       o.schedule # Match
                PROVE  o \in disturbed'
    BY DEF OneHand
  <2>1. CASE u # w /\ v # w
    BY <1>1, <1>9, <1>13, <2>1 DEF OneHand
  <2>2. CASE u = w
    <3>1. o \in listed /\ o \in InHand(v)
      BY <1>9, <2>2
    <3>. QED  BY <1>1, <3>1
  <2>3. CASE v = w
    <3>1. o \in listed /\ o \in InHand(u)
      BY <1>9, <2>3
    <3>. QED  BY <1>1, <3>1
  <2>. QED  BY <2>1, <2>2, <2>3
<1>15. ASSUME NEW v \in Fleet PROVE NothingLater(v)'
  <2>. SUFFICES ASSUME NEW q \in InHand(v)', q.schedule # Match, q \notin disturbed',
                       schedules[q.schedule].next = q.at, NEW o \in Known(q.schedule)'
                PROVE  o.at =< duty'[v].now
    BY <1>1 DEF NothingLater
  <2>1. CASE v = w
    <3>1. q.schedule \in Schedules /\ duty'[v].now = hour
      BY <1>7, <1>8, <1>9, <1>11, <2>1
    <3>2. o.schedule # Match
      BY <1>12
    <3>3. CASE o \in listed
      BY <1>2, <1>11, <3>1, <3>3
    <3>4. CASE \E u \in Fleet : o \in InHand(u)
      BY <1>2, <3>1, <3>2, <3>4, HandShape
    <3>5. CASE \E n \in DOMAIN gauntlets : o = gauntlets[n].origin
      BY <1>2, <1>13, <3>1, <3>2, <3>5 DEF InThePast
    <3>6. o \in listed \/ (\E u \in Fleet : o \in InHand(u))
          \/ \E n \in DOMAIN gauntlets : o = gauntlets[n].origin
      <4>1. o \in listed \/ o \in Known(q.schedule)
        BY <1>12
      <4>. QED  BY <4>1, KnownOf
    <3>. QED  BY <3>3, <3>4, <3>5, <3>6
  <2>2. CASE v # w
    <3>1. q \in InHand(v) /\ q \notin disturbed /\ duty'[v] = duty[v]
      BY <1>1, <1>8, <1>9, <2>2
    <3>2. CASE o \in Known(q.schedule)
      BY <1>13, <3>1, <3>2 DEF NothingLater
    <3>3. CASE o \in listed
      <4>1. o.at = q.at
        BY <1>11, <1>12, <3>3
      <4>2. q.at \in 1..duty[v].now /\ duty[v].now \in Nat
        BY <3>1, HandShape
      <4>. QED  BY <3>1, <4>1, <4>2
    <3>. QED  BY <1>12, <3>2, <3>3
  <2>. QED  BY <2>1, <2>2
<1>16. ASSUME NEW m \in DOMAIN gauntlets PROVE Spent(m)'
  <2>. PICK o : o = gauntlets[m].origin
    OBVIOUS
  <2>1. Spent(m) /\ gauntlets'[m].origin = o
    BY <1>1, <1>13
  <2>2. (\E v \in Fleet : Runs(v, m)) => \E v \in Fleet : Runs(v, m)'
    BY <1>10
  <2>3. /\ schedules[o.schedule].next # o.at /\ (\A v \in Fleet : o \notin InHand(v))
        => \A v \in Fleet : o \notin InHand(v)'
    BY <1>9, <1>11
  <2>. QED  BY <1>1, <2>1, <2>2, <2>3 DEF Spent
<1>17. InThePast' /\ FiredOnce' /\ AiredWerePlayed'
  BY <1>1, <1>13 DEF InThePast, FiredOnce, AiredWerePlayed, StatusOf, TournamentInv
<1>18. Moved /\ hour =< hour'
  BY <1>1, <1>2, NothingMoves
<1>19. TournamentTables'
  BY <1>1, <1>8 DEF TournamentInv, TournamentTables
<1>20. DutyFits(x)' /\ PlanHolds(x)'
  BY <1>1, <1>2, <1>6, <1>7 DEF DutyFits, PlanHolds
<1>21. Occurrences'
  BY <1>1, <1>14, <1>15, <1>16, <1>17 DEF Occurrences
<1>. QED  BY <1>8, <1>17, <1>18, <1>19, <1>20, <1>21, RestKeeps DEF Moved

\* mark_run
LEMMA MarkKeeps ==
    ASSUME TournamentInv, NEW w \in Fleet, MarkRun(w)
    PROVE  TournamentInv'
<1>. PICK t : t = duty[w]
  OBVIOUS
<1>. PICK x : x = [at |-> "firing", now |-> t.now, due |-> t.due]
  OBVIOUS
<1>. PICK s : s = t.origin.schedule
  OBVIOUS
<1>1. /\ t.at = "marking" /\ Does(w, x)
      /\ schedules' = [schedules EXCEPT ![s].next = t.now + 1, ![s].last = t.gauntlet]
      /\ disturbed' = disturbed \cup IF Outdated(t) THEN {Origin(s, t.now + 1)} ELSE {}
      /\ UNCHANGED <<hour, gauntlets, breaks, aired, abandoned>>
  BY DEF MarkRun
<1>2. /\ hour \in 1..MaxTime /\ hour \in Nat /\ gauntlets \in Seq(Tourneys) /\ duty \in [Fleet -> Duties]
      /\ schedules \in [Schedules -> ScheduledGauntlet] /\ Len(gauntlets) <= MaxGauntlets
      /\ \A z \in Schedules : schedules[z].enabled => schedules[z].next >= 1
      /\ MaxTime \in Nat /\ MaxGauntlets \in Nat
  BY TournamentsAssumption DEF TournamentInv, TournamentTables
<1>3. /\ t \in Marking /\ t.now \in Nat /\ t.due \in Seq(Occasions) /\ t.origin \in Occasions
      /\ t.now <= hour /\ Listed(t.due, t.now) /\ RunFits(t) /\ s # Match /\ s \in Schedules
      /\ t.origin.at \in 1..t.now /\ t.gauntlet \in DOMAIN gauntlets
      /\ t.origin = gauntlets[t.gauntlet].origin
  <2>1. t \in Marking /\ DutyFits(t) /\ t.at = "marking"
    BY <1>1, DutyNow, DutyShape
  <2>2. t.now \in Nat /\ t.due \in Seq(Occasions) /\ t.origin \in Occasions
    BY <2>1 DEF Marking
  <2>3. t.now <= hour /\ Listed(t.due, t.now) /\ RunFits(t) /\ t.origin.schedule # Match
    BY <2>1 DEF DutyFits
  <2>. QED  BY <2>1, <2>2, <2>3 DEF RunFits, Occasions
<1>4. /\ \A z \in Schedules : z # s => schedules'[z] = schedules[z]
      /\ schedules'[s].next = t.now + 1
      /\ schedules' \in [Schedules -> ScheduledGauntlet]
      /\ \A z \in Schedules : schedules'[z].enabled => schedules'[z].next >= 1
  <2>. PICK next \in 0..MaxTime + 1 : next = t.now + 1 /\ next >= 1
    BY <1>2, <1>3
  <2>. PICK last \in 0..MaxGauntlets : last = t.gauntlet
    BY <1>2, <1>3
  <2>. PICK row : row = [schedules[s] EXCEPT !.next = next, !.last = last]
    OBVIOUS
  <2>1. schedules[s] \in ScheduledGauntlet
    BY <1>2, <1>3
  <2>2. row \in ScheduledGauntlet /\ row.next = next
    BY <2>1 DEF ScheduledGauntlet
  <2>3. schedules' = [schedules EXCEPT ![s].next = next, ![s].last = last]
    BY <1>1
  <2>4. schedules' = [schedules EXCEPT ![s] = row]
    BY <1>2, <1>3, <2>1, <2>3 DEF ScheduledGauntlet
  <2>5. \A z \in Schedules : schedules'[z] = IF z = s THEN row ELSE schedules[z]
    BY <1>2, <2>4
  <2>6. schedules' \in [Schedules -> ScheduledGauntlet]
    BY <1>2, <2>2, <2>4
  <2>. QED  BY <1>2, <1>3, <2>2, <2>5, <2>6
<1>5. x \in Duties /\ x.at = "firing" /\ x.now = t.now /\ x.due = t.due
  <2>1. x \in Firing /\ x.at = "firing" /\ x.now = t.now /\ x.due = t.due
    BY <1>3 DEF Firing
  <2>. QED  BY <2>1 DEF Duties
<1>6. /\ duty' \in [Fleet -> Duties] /\ duty'[w] = x
      /\ \A v \in Fleet : v # w => duty'[v] = duty[v]
  BY <1>1, <1>2, <1>5, DutyTaken
<1>7. /\ InHand(w)' \subseteq InHand(w) /\ t.origin \in InHand(w) /\ t.origin \notin InHand(w)'
      /\ \A v \in Fleet : v # w => InHand(v)' = InHand(v)
      /\ \A v \in Fleet : InHand(v)' \subseteq InHand(v) /\ duty'[v].now = duty[v].now
  <2>1. InHand(w) = {t.due[n] : n \in DOMAIN t.due} \cup {t.origin}
    BY <1>1 DEF InHand
  <2>2. InHand(w)' = {t.due[n] : n \in DOMAIN t.due}
    BY <1>5, <1>6 DEF InHand
  <2>3. \A n \in DOMAIN t.due : t.due[n] # t.origin
    BY <1>3 DEF RunFits
  <2>4. \A v \in Fleet : v # w => InHand(v)' = InHand(v) /\ duty'[v].now = duty[v].now
    BY <1>6 DEF InHand
  <2>5. duty'[w].now = duty[w].now
    BY <1>5, <1>6
  <2>. QED  BY <2>1, <2>2, <2>3, <2>4, <2>5
<1>8. \A m : \A v \in Fleet : v # w => (Runs(v, m)' <=> Runs(v, m))
  BY <1>6 DEF Runs
<1>9. ASSUME NEW z, NEW o \in Known(z)' PROVE o \in Known(z)
  BY <1>1, <1>7, <1>9, KnownLess
<1>10. /\ OneHand /\ (\A v \in Fleet : NothingLater(v)) /\ InThePast
       /\ (\A m \in DOMAIN gauntlets : Spent(m)) /\ FiredOnce
  BY DEF TournamentInv, Occurrences
<1>11. disturbed \subseteq disturbed' /\ (Outdated(t) => Origin(s, t.now + 1) \in disturbed')
  BY <1>1
<1>12. ~Outdated(t) => \A o \in Known(s) : o.at =< t.now
  BY <1>3, <1>7, <1>10 DEF Outdated, NothingLater
<1>13. \A o \in Occasions : o.schedule = s /\ o.at = t.now + 1 => o = Origin(s, t.now + 1)
  BY DEF Occasions, Origin
<1>14. OneHand'
  BY <1>7, <1>10, <1>11 DEF OneHand
<1>15. ASSUME NEW v \in Fleet PROVE NothingLater(v)'
  <2>. SUFFICES ASSUME NEW q \in InHand(v)', q.schedule # Match, q \notin disturbed',
                       schedules'[q.schedule].next = q.at, NEW o \in Known(q.schedule)'
                PROVE  o.at =< duty'[v].now
    BY DEF NothingLater
  <2>1. q \in InHand(v) /\ q \notin disturbed /\ duty'[v].now = duty[v].now
        /\ o \in Known(q.schedule) /\ q.schedule \in Schedules /\ q \in Occasions
    BY <1>7, <1>9, <1>11, HandShape
  <2>2. CASE q.schedule # s
    BY <1>4, <1>10, <2>1, <2>2 DEF NothingLater
  <2>3. CASE q.schedule = s
    <3>1. q.at = t.now + 1
      BY <1>4, <2>3
    <3>2. ~Outdated(t)
      BY <1>11, <1>13, <2>1, <2>3, <3>1
    <3>3. q \in Known(s)
      BY <2>1, <2>3, KnownOf
    <3>4. q.at =< t.now
      BY <1>12, <3>2, <3>3
    <3>. QED  BY <1>3, <3>1, <3>4
  <2>. QED  BY <2>2, <2>3
<1>16. ASSUME NEW m \in DOMAIN gauntlets PROVE Spent(m)'
  <2>. PICK o : o = gauntlets[m].origin
    OBVIOUS
  <2>1. o \in Occasions /\ Spent(m) /\ gauntlets'[m].origin = o
    BY <1>1, <1>2, <1>10, TourneyRow
  <2>. SUFFICES ASSUME o.schedule # Match, m \notin abandoned, o \notin disturbed', Spent(m)
                PROVE  \/ \E v \in Fleet : Runs(v, m)'
                       \/ schedules'[o.schedule].next # o.at /\ \A v \in Fleet : o \notin InHand(v)'
    BY <1>1, <2>1 DEF Spent
  <2>2. o.schedule \in Schedules /\ o \notin disturbed
    BY <1>11, <2>1 DEF Occasions
  <2>3. CASE Runs(w, m)
    <3>1. o = t.origin
      BY <2>3, RunsInHand
    <3>2. t.now + 1 # o.at
      BY <1>3, <3>1
    <3>3. schedules'[o.schedule].next # o.at
      BY <1>4, <3>1, <3>2
    <3>4. \A v \in Fleet : v # w => o \notin InHand(v)
      BY <1>7, <1>10, <2>2, <3>1 DEF OneHand
    <3>. QED  BY <1>7, <3>1, <3>3, <3>4
  <2>4. CASE \E v \in Fleet : v # w /\ Runs(v, m)
    BY <1>8, <2>4
  <2>5. CASE schedules[o.schedule].next # o.at /\ \A v \in Fleet : o \notin InHand(v)
    <3>1. \A v \in Fleet : o \notin InHand(v)'
      BY <1>7, <2>5
    <3>2. schedules'[o.schedule].next # o.at
      <4>1. CASE o.schedule # s
        BY <1>4, <2>2, <2>5, <4>1
      <4>2. CASE o.schedule = s /\ o.at = t.now + 1
        <5>1. ~Outdated(t)
          BY <1>11, <1>13, <2>1, <4>2
        <5>2. o \in Known(s)
          BY <4>2, KnownOf
        <5>. QED  BY <1>3, <1>12, <4>2, <5>1, <5>2
      <4>3. CASE o.schedule = s /\ o.at # t.now + 1
        BY <1>4, <4>3
      <4>. QED  BY <4>1, <4>2, <4>3
    <3>. QED  BY <3>1, <3>2
  <2>. QED  BY <2>2, <2>3, <2>4, <2>5 DEF Spent
<1>17. InThePast' /\ FiredOnce' /\ AiredWerePlayed'
  BY <1>1, <1>10, <1>11 DEF InThePast, FiredOnce, AiredWerePlayed, StatusOf, TournamentInv
<1>18. Moved /\ hour =< hour'
  BY <1>1, <1>2, NothingMoves
<1>19. TournamentTables'
  BY <1>1, <1>4, <1>6 DEF TournamentInv, TournamentTables
<1>20. DutyFits(x)' /\ PlanHolds(x)'
  BY <1>1, <1>3, <1>5 DEF DutyFits, PlanHolds
<1>21. Occurrences'
  BY <1>1, <1>14, <1>15, <1>16, <1>17 DEF Occurrences
<1>. QED  BY <1>6, <1>17, <1>18, <1>19, <1>20, <1>21, RestKeeps DEF Moved

\* What a new gauntlet changes: nothing of what there is, and no score.
GauntletAdded(o, size, builds, w, x) ==
    /\ Grows /\ SameScores /\ TournamentTables' /\ MatchesHaveOneGame' /\ AiredWerePlayed'
    /\ gauntlets' \in Seq(Tourneys) /\ Len(gauntlets') = Len(gauntlets) + 1
    /\ DOMAIN gauntlets' = DOMAIN gauntlets \cup {Len(gauntlets) + 1}
    /\ \A m \in DOMAIN gauntlets : gauntlets'[m] = gauntlets[m]
    /\ gauntlets'[Len(gauntlets) + 1].origin = o
    /\ gauntlets'[Len(gauntlets) + 1].builds = builds
    /\ DOMAIN gauntlets'[Len(gauntlets) + 1].games = 1..size
    /\ duty'[w] = x /\ \A v \in Fleet : v # w => duty'[v] = duty[v]
    /\ \A v \in Fleet : v # w => DutyFits(duty[v])' /\ PlanHolds(duty[v])'

\* A gauntlet is made, and its run begins.
LEMMA MadeKeeps ==
    ASSUME TournamentInv, NEW o \in Occasions, NEW size \in Nat \ {0}, NEW builds \in SUBSET Seatable,
           CreateGauntlet(o, size, builds), o.schedule = Match => size = 1,
           UNCHANGED <<hour, schedules, breaks, aired, abandoned, disturbed>>,
           NEW w \in Fleet, NEW x \in Duties, Does(w, x)
    PROVE  GauntletAdded(o, size, builds, w, x)
<1>1. /\ gauntlets \in Seq(Tourneys) /\ Len(gauntlets) \in Nat /\ duty \in [Fleet -> Duties] /\ hour \in Nat
      /\ aired \subseteq DOMAIN gauntlets /\ MaxGauntlets \in Nat
  BY TournamentsAssumption DEF TournamentInv, TournamentTables
<1>. PICK n : n = Len(gauntlets) + 1
  OBVIOUS
<1>2. /\ gauntlets' \in Seq(Tourneys) /\ Len(gauntlets') = n /\ Len(gauntlets) < MaxGauntlets
      /\ DOMAIN gauntlets' = DOMAIN gauntlets \cup {n}
      /\ \A m \in DOMAIN gauntlets : gauntlets'[m] = gauntlets[m]
      /\ gauntlets'[n].origin = o /\ gauntlets'[n].builds = builds /\ Len(gauntlets'[n].games) = size
      /\ DOMAIN gauntlets'[n].games = 1..size
      /\ \A i \in 1..size : gauntlets'[n].games[i] = "PENDING"
  BY <1>1, TourneyMade
<1>3. Grows
  BY <1>2 DEF Grows
<1>4. SameScores
  <2>1. ASSUME NEW g PROVE g \in Completed' <=> g \in Completed
    <3>1. g \in Completed => g \in Completed'
      BY <1>2, CompletedGame
    <3>2. g \in Completed' => g \in Completed
      <4>. SUFFICES ASSUME NEW m \in DOMAIN gauntlets', NEW i \in DOMAIN gauntlets'[m].games,
                           g = <<m, i>>, gauntlets'[m].games[i] = "COMPLETED"
                    PROVE  g \in Completed
        BY CompletedGame
      <4>1. m # n
        BY <1>2
      <4>. QED  BY <1>2, <4>1, CompletedGame
    <3>. QED  BY <3>1, <3>2
  <2>2. Completed' = Completed
    BY <2>1
  <2>. QED  BY <1>1, <1>3, <2>2, NothingCompleted
<1>5. /\ duty' \in [Fleet -> Duties] /\ duty'[w] = x
      /\ \A v \in Fleet : v # w => duty'[v] = duty[v]
  BY <1>1, DutyTaken
<1>6. TournamentTables'
  <2>1. Len(gauntlets') <= MaxGauntlets
    BY <1>1, <1>2
  <2>. QED  BY <1>2, <1>5, <2>1 DEF TournamentInv, TournamentTables
<1>7. MatchesHaveOneGame'
  BY <1>2 DEF TournamentInv, MatchesHaveOneGame
<1>8. AiredWerePlayed'
  BY <1>1, <1>2 DEF TournamentInv, AiredWerePlayed, StatusOf
<1>9. ASSUME NEW v \in Fleet, v # w PROVE DutyFits(duty[v])' /\ PlanHolds(duty[v])'
  <2>. PICK t : t = duty[v]
    OBVIOUS
  <2>1. t \in Duties /\ DutyFits(t) /\ PlanHolds(t) /\ duty'[v] = t
    BY <1>5, <1>9, DutyNow
  <2>2. DutyFits(t)' /\ PlanHolds(t)'
    BY <1>1, <1>3, <1>4, <2>1, OthersFit, PlanKept
  <2>. QED  BY <2>1, <2>2
<1>11. \A v \in Fleet : v # w => DutyFits(duty[v])' /\ PlanHolds(duty[v])'
  BY <1>9
<1>. QED  BY ONLY <1>2, <1>3, <1>4, <1>5, <1>6, <1>7, <1>8, <1>11, n = Len(gauntlets) + 1 DEF GauntletAdded

\* The first of a list, and the rest
LEMMA TailOfList ==
    ASSUME NEW D, NEW s \in Seq(D), s # <<>>
    PROVE  /\ 1 \in DOMAIN s /\ Head(s) = s[1] /\ Tail(s) \in Seq(D)
           /\ \A i \in DOMAIN Tail(s) : i \in Nat /\ i + 1 \in DOMAIN s /\ Tail(s)[i] = s[i + 1]
           /\ \A i \in DOMAIN s : i # 1 => i - 1 \in DOMAIN Tail(s) /\ Tail(s)[i - 1] = s[i]
<1>. PICK rest : rest = Tail(s)
  OBVIOUS
<1>. PICK n \in Nat : n = Len(s)
  OBVIOUS
<1>1. /\ rest \in Seq(D) /\ Len(rest) = n - 1 /\ n >= 1
      /\ DOMAIN s = 1..n /\ DOMAIN rest = 1..n - 1 /\ Head(s) = s[1]
      /\ \A i \in 1..n - 1 : rest[i] = s[i + 1]
  OBVIOUS
<1>2. \A i \in 1..n - 1 : i \in Nat /\ i + 1 \in 1..n
  OBVIOUS
<1>3. \A i \in 1..n : i # 1 => i - 1 \in 1..n - 1 /\ (i - 1) + 1 = i
  OBVIOUS
<1>4. 1 \in 1..n
  BY <1>1
<1>. QED  BY ONLY <1>1, <1>2, <1>3, <1>4, rest = Tail(s)

\* run_tournament_from_roster
LEMMA FireKeeps ==
    ASSUME TournamentInv, NEW w \in Fleet, Fire(w)
    PROVE  TournamentInv'
<1>. PICK t : t = duty[w]
  OBVIOUS
<1>. PICK o : o = Head(t.due)
  OBVIOUS
<1>. PICK n : n = Len(gauntlets) + 1
  OBVIOUS
<1>. PICK x : x = [at |-> "run", now |-> t.now, due |-> Tail(t.due), origin |-> o,
                   gauntlet |-> n, game |-> 1, capped |-> FALSE, ended |-> FALSE]
  OBVIOUS
<1>1. /\ t.at = "firing" /\ t.due # <<>> /\ Does(w, x)
      /\ CreateGauntlet(o, GamesOf[o.schedule], Rosters[o.schedule])
      /\ UNCHANGED <<hour, schedules, breaks, aired, abandoned, disturbed>>
  BY DEF Fire
<1>2. /\ t \in Firing /\ t.now \in Nat /\ t.due \in Seq(Occasions) /\ t.now <= hour
      /\ Listed(t.due, t.now) /\ hour \in Nat /\ gauntlets \in Seq(Tourneys) /\ Len(gauntlets) \in Nat
  <2>1. t \in Firing /\ DutyFits(t)
    BY <1>1, DutyNow, DutyShape
  <2>2. t.now \in Nat /\ t.due \in Seq(Occasions)
    BY <2>1 DEF Firing
  <2>3. t.now <= hour /\ Listed(t.due, t.now)
    BY <1>1, <2>1 DEF DutyFits
  <2>4. gauntlets \in Seq(Tourneys) /\ hour \in Nat
    BY DutyNow
  <2>5. Len(gauntlets) \in Nat
    BY <2>4
  <2>. QED  BY <2>1, <2>2, <2>3, <2>4, <2>5
<1>. PICK due : due = Tail(t.due)
  OBVIOUS
<1>. PICK old : old = t.due
  OBVIOUS
<1>3. /\ old \in Seq(Occasions) /\ Listed(old, t.now)
      /\ 1 \in DOMAIN old /\ o = old[1] /\ due \in Seq(Occasions)
      /\ \A i \in DOMAIN due : i \in Nat /\ i + 1 \in DOMAIN old /\ due[i] = old[i + 1]
      /\ \A i \in DOMAIN old : i # 1 => i - 1 \in DOMAIN due /\ due[i - 1] = old[i]
  <2>1. old \in Seq(Occasions) /\ old # <<>> /\ o = Head(old) /\ due = Tail(old) /\ Listed(old, t.now)
    BY <1>1, <1>2
  <2>2. /\ 1 \in DOMAIN old /\ Head(old) = old[1] /\ Tail(old) \in Seq(Occasions)
        /\ \A i \in DOMAIN Tail(old) : i \in Nat /\ i + 1 \in DOMAIN old /\ Tail(old)[i] = old[i + 1]
        /\ \A i \in DOMAIN old : i # 1 => i - 1 \in DOMAIN Tail(old) /\ Tail(old)[i - 1] = old[i]
    BY ONLY <2>1, TailOfList
  <2>. QED  BY ONLY <2>1, <2>2
<1>4. o \in Occasions /\ o.schedule \in Schedules /\ o.at \in 1..t.now /\ o.schedule # Match
  <2>1. o \in Occasions
    BY <1>3
  <2>2. o.schedule \in Schedules /\ o.at \in 1..t.now
    BY <1>3 DEF Listed
  <2>. QED  BY <2>1, <2>2, TournamentsAssumption DEF Match
<1>5. Listed(due, t.now) /\ \A i \in DOMAIN due : due[i].schedule # o.schedule
  <2>1. ASSUME NEW i \in DOMAIN due, NEW j \in DOMAIN due, i # j
        PROVE  due[i].schedule # due[j].schedule
    <3>1. i + 1 # j + 1 /\ i + 1 \in DOMAIN old /\ j + 1 \in DOMAIN old
      BY <1>3, <2>1
    <3>2. old[i + 1].schedule # old[j + 1].schedule
      BY <1>3, <3>1 DEF Listed
    <3>. QED  BY <1>3, <3>2
  <2>2. ASSUME NEW i \in DOMAIN due
        PROVE  /\ due[i].schedule \in Schedules /\ due[i].at \in 1..t.now
               /\ due[i].schedule # o.schedule
    <3>1. i + 1 # 1 /\ i + 1 \in DOMAIN old
      BY <1>3
    <3>2. /\ old[i + 1].schedule \in Schedules /\ old[i + 1].at \in 1..t.now
          /\ old[i + 1].schedule # old[1].schedule
      BY <1>3, <3>1 DEF Listed
    <3>. QED  BY <1>3, <3>2
  <2>. QED  BY <2>1, <2>2 DEF Listed
<1>6. GamesOf[o.schedule] \in Nat \ {0} /\ Rosters[o.schedule] \in SUBSET Seatable
  BY <1>4, TournamentsAssumption DEF Seatable
<1>7. /\ x \in Duties /\ x.at = "run" /\ x.now = t.now /\ x.due = due /\ x.origin = o
      /\ x.gauntlet = n /\ x.game = 1 /\ x.ended = FALSE
  <2>1. /\ x \in Playing /\ x.at = "run" /\ x.now = t.now /\ x.due = due /\ x.origin = o
        /\ x.gauntlet = n /\ x.game = 1 /\ x.ended = FALSE
    BY <1>2, <1>3, <1>4 DEF Playing
  <2>. QED  BY <2>1 DEF Duties
<1>8. /\ Grows /\ SameScores /\ TournamentTables' /\ MatchesHaveOneGame' /\ AiredWerePlayed'
      /\ DOMAIN gauntlets' = DOMAIN gauntlets \cup {n}
      /\ \A m \in DOMAIN gauntlets : gauntlets'[m] = gauntlets[m]
      /\ gauntlets'[n].origin = o /\ GamesIn(n)' = 1..GamesOf[o.schedule]
      /\ duty'[w] = x /\ \A v \in Fleet : v # w => duty'[v] = duty[v]
      /\ \A v \in Fleet : v # w => DutyFits(duty[v])' /\ PlanHolds(duty[v])'
  <2>. PICK size \in Nat \ {0} : size = GamesOf[o.schedule]
    BY <1>6
  <2>. PICK builds \in SUBSET Seatable : builds = Rosters[o.schedule]
    BY <1>6
  <2>1. CreateGauntlet(o, size, builds) /\ (o.schedule = Match => size = 1) /\ x \in Duties /\ Does(w, x)
        /\ o \in Occasions /\ UNCHANGED <<hour, schedules, breaks, aired, abandoned, disturbed>>
    BY <1>1, <1>4, <1>7
  <2>2. /\ Grows /\ SameScores /\ TournamentTables' /\ MatchesHaveOneGame' /\ AiredWerePlayed'
        /\ DOMAIN gauntlets' = DOMAIN gauntlets \cup {n}
        /\ \A m \in DOMAIN gauntlets : gauntlets'[m] = gauntlets[m]
        /\ gauntlets'[n].origin = o /\ DOMAIN gauntlets'[n].games = 1..size
        /\ duty'[w] = x /\ \A v \in Fleet : v # w => duty'[v] = duty[v]
        /\ \A v \in Fleet : v # w => DutyFits(duty[v])' /\ PlanHolds(duty[v])'
    <3>1. GauntletAdded(o, size, builds, w, x)
      BY <2>1, MadeKeeps
    <3>. QED  BY <3>1 DEF GauntletAdded
  <2>3. GamesIn(n)' = 1..size
    BY <2>2 DEF GamesIn
  <2>. QED  BY <2>2, <2>3
<1>9. /\ o \in InHand(w)
      /\ \A v \in Fleet : InHand(v)' = InHand(v) /\ duty'[v].now = duty[v].now
  <2>1. InHand(w) = {t.due[i] : i \in DOMAIN t.due}
    BY <1>1 DEF InHand
  <2>2. InHand(w)' = {due[i] : i \in DOMAIN due} \cup {o}
    BY <1>7, <1>8 DEF InHand
  <2>3. InHand(w)' = InHand(w)
    <3>. SUFFICES ASSUME NEW q PROVE q \in InHand(w)' <=> q \in InHand(w)
      OBVIOUS
    <3>1. q \in InHand(w)' <=> (\E i \in DOMAIN due : q = due[i]) \/ q = o
      BY <2>2
    <3>2. q \in InHand(w) <=> \E i \in DOMAIN old : q = old[i]
      BY <2>1
    <3>3. (\E i \in DOMAIN old : q = old[i]) => (\E i \in DOMAIN due : q = due[i]) \/ q = o
      <4>. SUFFICES ASSUME NEW i \in DOMAIN old, q = old[i], q # o
                    PROVE  \E j \in DOMAIN due : q = due[j]
        OBVIOUS
      <4>1. i # 1
        BY <1>3
      <4>2. i - 1 \in DOMAIN due /\ due[i - 1] = old[i]
        BY <1>3, <4>1
      <4>. QED  BY <4>2
    <3>4. (\E i \in DOMAIN due : q = due[i]) \/ q = o => \E i \in DOMAIN old : q = old[i]
      <4>1. ASSUME NEW i \in DOMAIN due, q = due[i] PROVE \E j \in DOMAIN old : q = old[j]
        <5>1. i + 1 \in DOMAIN old /\ due[i] = old[i + 1]
          BY <1>3
        <5>. QED  BY <4>1, <5>1
      <4>2. q = o => \E j \in DOMAIN old : q = old[j]
        BY <1>3
      <4>. QED  BY <4>1, <4>2
    <3>. QED  BY <3>1, <3>2, <3>3, <3>4
  <2>4. ASSUME NEW v \in Fleet, v # w PROVE InHand(v)' = InHand(v) /\ duty'[v].now = duty[v].now
    <3>1. duty'[v] = duty[v]
      BY <1>8, <2>4
    <3>. QED  BY <3>1 DEF InHand
  <2>5. duty'[w].now = duty[w].now
    BY <1>7, <1>8
  <2>6. o \in InHand(w)
    BY <1>3, <2>1
  <2>. QED  BY <2>3, <2>4, <2>5, <2>6
<1>10. /\ \A m : \A v \in Fleet : Runs(v, m) => Runs(v, m)'
       /\ Runs(w, n)' /\ \A m : ~Runs(w, m)
  BY <1>1, <1>7, <1>8 DEF Runs
<1>11. ASSUME NEW z, NEW q \in Known(z)' PROVE q \in Known(z)
  <2>1. q.schedule = z /\ (\/ \E v \in Fleet : q \in InHand(v)'
                           \/ \E m \in DOMAIN gauntlets' : q = gauntlets'[m].origin)
    BY KnownOf
  <2>2. (\E v \in Fleet : q \in InHand(v)) \/ (\E m \in DOMAIN gauntlets : q = gauntlets[m].origin)
    BY <1>8, <1>9, <2>1
  <2>. QED  BY <2>1, <2>2, KnownOf
<1>12. /\ OneHand /\ (\A v \in Fleet : NothingLater(v)) /\ InThePast
       /\ (\A m \in DOMAIN gauntlets : Spent(m)) /\ FiredOnce
  BY DEF TournamentInv, Occurrences
<1>13. OneHand'
  BY <1>1, <1>9, <1>12 DEF OneHand
<1>14. ASSUME NEW v \in Fleet PROVE NothingLater(v)'
  <2>1. InHand(v)' = InHand(v) /\ duty'[v].now = duty[v].now /\ NothingLater(v)
        /\ schedules' = schedules /\ disturbed' = disturbed
    BY <1>1, <1>9, <1>12
  <2>. QED  BY <1>11, <2>1 DEF NothingLater
<1>15. InThePast'
  <2>1. o.at \in 1..hour
    BY <1>2, <1>4
  <2>. QED  BY <1>1, <1>8, <1>12, <2>1 DEF InThePast
<1>16. ASSUME NEW m \in DOMAIN gauntlets' PROVE Spent(m)'
  <2>1. CASE m = n
    BY <1>10, <2>1 DEF Spent
  <2>2. CASE m \in DOMAIN gauntlets
    <3>1. Spent(m) /\ gauntlets'[m].origin = gauntlets[m].origin
      BY <1>8, <1>12, <2>2
    <3>. QED  BY <1>1, <1>9, <1>10, <3>1 DEF Spent
  <2>. QED  BY <1>8, <2>1, <2>2
<1>17. ASSUME NEW m \in DOMAIN gauntlets, gauntlets[m].origin = o PROVE m \in abandoned \/ o \in disturbed
  <2>. SUFFICES ASSUME m \notin abandoned, o \notin disturbed PROVE FALSE
    OBVIOUS
  <2>1. Spent(m)
    BY <1>12
  <2>2. CASE \E v \in Fleet : Runs(v, m)
    <3>. PICK v \in Fleet : Runs(v, m)
      BY <2>2
    <3>1. v # w /\ o \in InHand(v)
      BY <1>10, <1>17, RunsInHand
    <3>. QED  BY <1>4, <1>9, <1>12, <3>1 DEF OneHand
  <2>. QED  BY <1>4, <1>9, <1>17, <2>1, <2>2 DEF Spent
<1>18. FiredOnce'
  <2>. SUFFICES ASSUME NEW i \in DOMAIN gauntlets', NEW j \in DOMAIN gauntlets', i < j,
                       gauntlets'[i].origin = gauntlets'[j].origin,
                       gauntlets'[i].origin.schedule # Match
                PROVE  i \in abandoned \/ gauntlets'[i].origin \in disturbed
    BY <1>1 DEF FiredOnce
  <2>1. i \in DOMAIN gauntlets /\ DOMAIN gauntlets = 1..Len(gauntlets)
    BY <1>2, <1>8
  <2>2. CASE j \in DOMAIN gauntlets
    BY <1>8, <1>12, <2>1, <2>2 DEF FiredOnce
  <2>3. CASE j = n
    BY <1>8, <1>17, <2>1, <2>3
  <2>. QED  BY <1>8, <2>2, <2>3
<1>19. DutyFits(x)' /\ PlanHolds(x)'
  <2>1. RunFits(x)'
    BY <1>4, <1>5, <1>7, <1>8 DEF RunFits
  <2>2. 1 \in GamesIn(n)'
    BY <1>6, <1>8
  <2>. QED  BY <1>1, <1>2, <1>5, <1>7, <2>1, <2>2 DEF DutyFits, PlanHolds
<1>20. InTurn'
  BY <1>4, <1>8 DEF InTurn, OnlyMatches
<1>21. \A v \in Fleet : DutyFits(duty[v])' /\ PlanHolds(duty[v])'
  BY <1>8, <1>19
<1>. QED  BY <1>8, <1>13, <1>14, <1>15, <1>16, <1>18, <1>20, <1>21 DEF TournamentInv, Occurrences, Shares

\* The match that follows from all games there are
LEMMA NextInTurn ==
    ASSUME TournamentInv, OnlyMatches, NEW history \in Nat, history =< HistoryLength,
           \A m \in DOMAIN gauntlets : gauntlets[m].origin # Origin(Match, history)
    PROVE  /\ history = Len(gauntlets) /\ history = HistoryLength
           /\ \A m \in DOMAIN gauntlets : StatusOf(<<m, 1>>) = "COMPLETED"
<1>1. /\ gauntlets \in Seq(Tourneys) /\ Len(gauntlets) \in Nat /\ DOMAIN gauntlets = 1..Len(gauntlets)
      /\ \A m \in DOMAIN gauntlets : gauntlets[m].origin.at = m - 1 /\ gauntlets[m].origin.schedule = Match
                                     /\ gauntlets[m].origin \in Occasions
  <2>1. gauntlets \in Seq(Tourneys)
    BY DEF TournamentInv, TournamentTables
  <2>2. \A m \in DOMAIN gauntlets : gauntlets[m].origin \in Occasions
    BY <2>1, TourneyRow
  <2>3. /\ \A m \in DOMAIN gauntlets : gauntlets[m].origin.at = m - 1
        /\ \A m \in DOMAIN gauntlets : gauntlets[m].origin.schedule = Match
    BY DEF TournamentInv, Shares, InTurn, OnlyMatches
  <2>4. Len(gauntlets) \in Nat /\ DOMAIN gauntlets = 1..Len(gauntlets)
    BY <2>1
  <2>. QED  BY <2>1, <2>2, <2>3, <2>4
<1>2. history >= Len(gauntlets)
  <2>. SUFFICES ASSUME history < Len(gauntlets) PROVE FALSE
    BY <1>1
  <2>. PICK m : m = history + 1
    OBVIOUS
  <2>1. m \in DOMAIN gauntlets /\ m - 1 = history
    BY <1>1
  <2>2. gauntlets[m].origin = Origin(Match, history)
    BY <1>1, <2>1 DEF Occasions, Origin
  <2>. QED  BY <2>1, <2>2
<1>. DEFINE all == (1..Len(gauntlets)) \X {1}
<1>3. IsFiniteSet(all) /\ Cardinality(all) = Len(gauntlets)
  <2>1. IsFiniteSet(1..Len(gauntlets)) /\ Cardinality(1..Len(gauntlets)) = Len(gauntlets)
    <3>. PICK n \in Nat : n = Len(gauntlets)
      BY <1>1
    <3>1. 1 \in Int /\ n \in Int
      OBVIOUS
    <3>2. IsFiniteSet(1..n) /\ Cardinality(1..n) = IF 1 > n THEN 0 ELSE n - 1 + 1
      BY ONLY <3>1, FS_Interval
    <3>3. (IF 1 > n THEN 0 ELSE n - 1 + 1) = n
      OBVIOUS
    <3>. QED  BY <3>2, <3>3
  <2>2. IsFiniteSet({1}) /\ Cardinality({1}) = 1
    BY FS_Singleton
  <2>3. IsFiniteSet(all) /\ Cardinality(all) = Cardinality(1..Len(gauntlets)) * Cardinality({1})
    BY <2>1, <2>2, FS_Product
  <2>. QED  BY <1>1, <2>1, <2>2, <2>3
<1>4. Completed \subseteq all
  <2>. SUFFICES ASSUME NEW g \in Completed PROVE g \in all
    OBVIOUS
  <2>. PICK m \in DOMAIN gauntlets : \E i \in DOMAIN gauntlets[m].games : g = <<m, i>>
    BY CompletedGame
  <2>. PICK i \in DOMAIN gauntlets[m].games : g = <<m, i>>
    OBVIOUS
  <2>1. gauntlets[m].games \in Seq(Statuses) /\ Len(gauntlets[m].games) = 1
    BY <1>1, TourneyRow DEF TournamentInv, MatchesHaveOneGame
  <2>2. i = 1
    BY <2>1
  <2>. QED  BY <1>1, <2>2
<1>. HIDE DEF all
<1>5. /\ Cardinality(Completed) <= Cardinality(all)
      /\ Cardinality(all) = Cardinality(Completed) => all = Completed
  BY <1>3, <1>4, FS_Subset
<1>6. HistoryLength = Cardinality(Completed) /\ HistoryLength \in Nat
  BY <1>1, CompletedFinite
<1>7. history = Len(gauntlets) /\ history = HistoryLength
  <2>. PICK n \in Nat : n = Len(gauntlets)
    BY <1>1
  <2>. PICK played \in Nat : played = HistoryLength
    BY <1>6
  <2>1. history >= n /\ history =< played /\ played =< n
    BY <1>2, <1>3, <1>5, <1>6
  <2>2. history = n /\ history = played
    BY ONLY <2>1, history \in Nat, n \in Nat, played \in Nat
  <2>. QED  BY <2>2
<1>8. all = Completed
  BY <1>3, <1>5, <1>6, <1>7
<1>9. ASSUME NEW m \in DOMAIN gauntlets PROVE StatusOf(<<m, 1>>) = "COMPLETED"
  <2>1. <<m, 1>> \in all
    BY <1>1 DEF all
  <2>. QED  BY <1>8, <2>1 DEF Completed
<1>. QED  BY <1>7, <1>9

\* The matchmaker makes its match.
LEMMA MatchKeeps ==
    ASSUME TournamentInv, NEW w \in Fleet, StartMatch(w)
    PROVE  TournamentInv'
<1>. PICK t : t = duty[w]
  OBVIOUS
<1>. PICK n : n = Len(gauntlets) + 1
  OBVIOUS
<1>. PICK o : o = Origin(Match, t.history)
  OBVIOUS
<1>. PICK team : team = t.team
  OBVIOUS
<1>. PICK now : now = hour
  OBVIOUS
<1>. PICK x : x = [at |-> "run", now |-> now, due |-> <<>>, origin |-> o, gauntlet |-> n,
                   game |-> 1, capped |-> FALSE, ended |-> FALSE]
  OBVIOUS
<1>1. /\ t.at = "planned" /\ Does(w, x) /\ CreateGauntlet(o, 1, team)
      /\ UNCHANGED <<hour, schedules, breaks, aired, abandoned, disturbed>>
  BY DEF StartMatch
<1>2. /\ team \in SUBSET Roster /\ t.history \in Nat /\ PlanHolds(t) /\ hour \in Nat
      /\ gauntlets \in Seq(Tourneys) /\ Len(gauntlets) \in Nat
  <2>1. t \in [at : {"planned"}, team : SUBSET Roster, history : Nat]
    BY <1>1, DutyNow, DutyShape
  <2>2. gauntlets \in Seq(Tourneys) /\ PlanHolds(t) /\ hour \in Nat
    BY DutyNow
  <2>. QED  BY <2>1, <2>2
<1>3. o \in Occasions /\ o.schedule = Match /\ o.at = t.history
  BY <1>2 DEF Occasions, Origin
<1>4. /\ x \in Duties /\ x.at = "run" /\ x.now = now /\ x.due = <<>> /\ x.origin = o
      /\ x.gauntlet = n /\ x.game = 1 /\ x.ended = FALSE
  <2>1. /\ x \in Playing /\ x.at = "run" /\ x.now = now /\ x.due = <<>> /\ x.origin = o
        /\ x.gauntlet = n /\ x.game = 1 /\ x.ended = FALSE
    BY <1>2, <1>3 DEF Playing
  <2>. QED  BY <2>1 DEF Duties
<1>5. /\ Grows /\ SameScores /\ TournamentTables' /\ MatchesHaveOneGame' /\ AiredWerePlayed'
      /\ Len(gauntlets') = n /\ DOMAIN gauntlets' = DOMAIN gauntlets \cup {n}
      /\ \A m \in DOMAIN gauntlets : gauntlets'[m] = gauntlets[m]
      /\ gauntlets'[n].origin = o /\ gauntlets'[n].builds = team /\ DOMAIN gauntlets'[n].games = 1..1
      /\ duty'[w] = x /\ \A v \in Fleet : v # w => duty'[v] = duty[v]
      /\ \A v \in Fleet : v # w => DutyFits(duty[v])' /\ PlanHolds(duty[v])'
  <2>1. team \in SUBSET Seatable /\ 1 \in Nat \ {0}
    BY <1>2 DEF Seatable
  <2>2. GauntletAdded(o, 1, team, w, x)
    BY <1>1, <1>3, <1>4, <2>1, MadeKeeps
  <2>. QED  BY <2>2 DEF GauntletAdded
<1>6. /\ InHand(w) = {} /\ InHand(w)' = {o}
      /\ \A v \in Fleet : v # w => InHand(v)' = InHand(v) /\ duty'[v].now = duty[v].now
  <2>1. InHand(w) = {}
    BY <1>1 DEF InHand
  <2>2. InHand(w)' = {o}
    BY <1>4, <1>5 DEF InHand
  <2>3. ASSUME NEW v \in Fleet, v # w PROVE InHand(v)' = InHand(v) /\ duty'[v].now = duty[v].now
    <3>1. duty'[v] = duty[v]
      BY <1>5, <2>3
    <3>. QED  BY <3>1 DEF InHand
  <2>. QED  BY <2>1, <2>2, <2>3
<1>7. \A q : q.schedule # Match => \A v \in Fleet : q \in InHand(v)' => q \in InHand(v) /\ v # w
  BY <1>3, <1>6
<1>8. \A m : \A v \in Fleet : Runs(v, m) => Runs(v, m)'
  BY <1>1, <1>5 DEF Runs
<1>9. ASSUME NEW z, z # Match, NEW q \in Known(z)' PROVE q \in Known(z)
  <2>1. q.schedule = z /\ (\/ \E v \in Fleet : q \in InHand(v)'
                           \/ \E m \in DOMAIN gauntlets' : q = gauntlets'[m].origin)
    BY KnownOf
  <2>2. (\E v \in Fleet : q \in InHand(v)') => \E v \in Fleet : q \in InHand(v)
    BY <1>7, <1>9, <2>1
  <2>3. (\E m \in DOMAIN gauntlets' : q = gauntlets'[m].origin) => \E m \in DOMAIN gauntlets : q = gauntlets[m].origin
    BY <1>3, <1>5, <1>9, <2>1
  <2>. QED  BY <2>1, <2>2, <2>3, KnownOf
<1>10. /\ OneHand /\ (\A v \in Fleet : NothingLater(v)) /\ InThePast
       /\ (\A m \in DOMAIN gauntlets : Spent(m)) /\ FiredOnce
  BY DEF TournamentInv, Occurrences
<1>11. OneHand'
  BY <1>1, <1>7, <1>10 DEF OneHand
<1>12. ASSUME NEW v \in Fleet PROVE NothingLater(v)'
  <2>. SUFFICES ASSUME NEW q \in InHand(v)', q.schedule # Match, q \notin disturbed,
                       schedules[q.schedule].next = q.at, NEW y \in Known(q.schedule)'
                PROVE  y.at =< duty'[v].now
    BY <1>1 DEF NothingLater
  <2>1. q \in InHand(v) /\ duty'[v].now = duty[v].now
    BY <1>6, <1>7
  <2>2. y \in Known(q.schedule)
    BY <1>9
  <2>. QED  BY <1>10, <2>1, <2>2 DEF NothingLater
<1>13. InThePast'
  BY <1>1, <1>3, <1>5, <1>10 DEF InThePast
<1>14. ASSUME NEW m \in DOMAIN gauntlets' PROVE Spent(m)'
  <2>1. CASE m = n
    BY <1>3, <1>5, <2>1 DEF Spent
  <2>2. CASE m \in DOMAIN gauntlets
    <3>1. Spent(m) /\ gauntlets'[m].origin = gauntlets[m].origin
      BY <1>5, <1>10, <2>2
    <3>2. CASE gauntlets[m].origin.schedule = Match
      BY <3>1, <3>2 DEF Spent
    <3>3. CASE gauntlets[m].origin.schedule # Match
      <4>1. \A v \in Fleet : gauntlets[m].origin \in InHand(v)' => gauntlets[m].origin \in InHand(v)
        BY <1>7, <3>3
      <4>. QED  BY <1>1, <1>8, <3>1, <4>1 DEF Spent
    <3>. QED  BY <3>2, <3>3
  <2>. QED  BY <1>5, <2>1, <2>2
<1>15. FiredOnce'
  <2>. SUFFICES ASSUME NEW i \in DOMAIN gauntlets', NEW j \in DOMAIN gauntlets', i < j,
                       gauntlets'[i].origin = gauntlets'[j].origin,
                       gauntlets'[i].origin.schedule # Match
                PROVE  i \in abandoned \/ gauntlets'[i].origin \in disturbed
    BY <1>1 DEF FiredOnce
  <2>1. i \in DOMAIN gauntlets /\ j \in DOMAIN gauntlets
    BY <1>3, <1>5
  <2>. QED  BY <1>5, <1>10, <2>1 DEF FiredOnce
<1>16. DutyFits(x)' /\ PlanHolds(x)'
  <2>1. RunFits(x)'
    BY <1>3, <1>4, <1>5 DEF RunFits
  <2>2. 1 \in GamesIn(n)'
    BY <1>5 DEF GamesIn
  <2>3. Listed(x.due, x.now)
    BY <1>4 DEF Listed
  <2>4. x.now =< hour'
    BY <1>1, <1>2, <1>4
  <2>. QED  BY <1>4, <2>1, <2>2, <2>3, <2>4 DEF DutyFits, PlanHolds
<1>17. ASSUME OnlyMatches' PROVE InTurn'
  <2>1. OnlyMatches
    BY <1>5, <1>17 DEF OnlyMatches
  <2>2. \A m \in DOMAIN gauntlets : gauntlets[m].origin # Origin(Match, t.history)
    <3>1. \A m \in DOMAIN gauntlets : m # n
      BY <1>2
    <3>. QED  BY <1>5, <1>17, <3>1 DEF OnlyMatches
  <2>3. t.history =< HistoryLength /\ (t.history = HistoryLength => LeastPlayed(team))
    BY <1>1, <1>2 DEF PlanHolds
  <2>4. /\ t.history = Len(gauntlets) /\ t.history = HistoryLength
        /\ \A m \in DOMAIN gauntlets : StatusOf(<<m, 1>>) = "COMPLETED"
    BY <1>2, <2>1, <2>2, <2>3, NextInTurn
  <2>5. LeastPlayed(team)'
    BY <1>5, <2>3, <2>4 DEF SameScores, LeastPlayed
  <2>6. \A b, c \in Roster : PlayCount(b)' =< PlayCount(c)' + 1
    BY <1>5, <2>1 DEF TournamentInv, Shares, InTurn, SameScores
  <2>7. ASSUME NEW m \in DOMAIN gauntlets'
        PROVE  /\ gauntlets'[m].origin.at = m - 1
               /\ \/ StatusOf(<<m, 1>>)' = "COMPLETED"
                  \/ m = Len(gauntlets') /\ LeastPlayed(gauntlets[m].builds)'
    <3>1. CASE m = n
      <4>1. n - 1 = Len(gauntlets)
        BY <1>2
      <4>2. LeastPlayed(gauntlets[m].builds)'
        BY <1>5, <2>5, <3>1 DEF LeastPlayed
      <4>. QED  BY <1>3, <1>5, <2>4, <3>1, <4>1, <4>2
    <3>2. CASE m \in DOMAIN gauntlets
      <4>1. gauntlets[m].origin.at = m - 1
        BY <2>1, <3>2 DEF TournamentInv, Shares, InTurn
      <4>. QED  BY <1>5, <2>4, <3>2, <4>1 DEF StatusOf
    <3>. QED  BY <1>5, <3>1, <3>2
  <2>. QED  BY <2>6, <2>7 DEF InTurn
<1>18. InTurn'
  BY <1>17 DEF InTurn
<1>19. \A v \in Fleet : DutyFits(duty[v])' /\ PlanHolds(duty[v])'
  BY <1>5, <1>16
<1>. QED  BY <1>5, <1>11, <1>12, <1>13, <1>14, <1>15, <1>18, <1>19 DEF TournamentInv, Occurrences, Shares

\* Nothing has been made, and nobody plays.
LEMMA TournamentsBegin ==
    ASSUME TournamentsInit
    PROVE  TournamentInv
<1>1. /\ hour = 1 /\ gauntlets = <<>> /\ DOMAIN gauntlets = {} /\ breaks = 0
      /\ aired = {} /\ abandoned = {} /\ disturbed = {}
      /\ schedules = [s \in Schedules |-> [enabled |-> TRUE, next |-> 1, last |-> 0]]
      /\ duty = [w \in Fleet |-> Idle]
  BY DEF TournamentsInit
<1>2. /\ MaxTime \in Nat /\ MaxTime > 0 /\ MaxGauntlets \in Nat /\ MaxBreaks \in Nat
  BY TournamentsAssumption
<1>3. Idle \in [at : {"idle", "admitted", "claiming"}] /\ Idle \in Duties /\ Idle.at = "idle"
  BY DEF Idle, Duties
<1>4. TournamentTables
  <2>1. [enabled |-> TRUE, next |-> 1, last |-> 0] \in ScheduledGauntlet
    BY <1>2 DEF ScheduledGauntlet
  <2>2. gauntlets \in Seq(Tourneys) /\ Len(gauntlets) <= MaxGauntlets
    BY <1>1, <1>2
  <2>. QED  BY <1>1, <1>2, <1>3, <2>1, <2>2 DEF TournamentTables
<1>5. \A w \in Fleet : DutyFits(duty[w]) /\ PlanHolds(duty[w]) /\ InHand(w) = {}
  BY <1>1, <1>3 DEF DutyFits, PlanHolds, InHand
<1>6. MatchesHaveOneGame /\ AiredWerePlayed
  BY <1>1 DEF MatchesHaveOneGame, AiredWerePlayed
<1>7. Occurrences
  BY <1>1, <1>5 DEF Occurrences, OneHand, NothingLater, InThePast, FiredOnce
<1>8. \A b \in Roster : PlayCount(b) = 0
  <2>1. Completed = {}
    BY <1>1, CompletedGame
  <2>2. gauntlets \in Seq(Tourneys)
    BY <1>4 DEF TournamentTables
  <2>3. \A b : PlayCount(b) = Cardinality({g \in Completed : b \in gauntlets[g[1]].builds})
    BY <2>2, CompletedFinite
  <2>4. \A b : {g \in Completed : b \in gauntlets[g[1]].builds} = {}
    BY <2>1
  <2>5. Cardinality({}) = 0
    BY FS_EmptySet
  <2>. QED  BY <2>3, <2>4, <2>5
<1>9. InTurn
  BY <1>1, <1>8 DEF InTurn
<1>. QED  BY <1>4, <1>5, <1>6, <1>7, <1>9 DEF TournamentInv, Shares

\* Every step keeps the invariant.
LEMMA TournamentStep ==
    ASSUME TournamentInv, [TournamentsNext]_tournamentVars
    PROVE  TournamentInv'
<1>. hour \in 1..MaxTime /\ MaxTime \in Nat
  BY TournamentsAssumption DEF TournamentInv, TournamentTables
<1>1. CASE Wait
  <2>1. /\ hour' \in 1..MaxTime /\ hour =< hour'
        /\ UNCHANGED <<schedules, gauntlets, duty, breaks, aired, abandoned, disturbed>>
    BY <1>1 DEF Wait
  <2>. QED  BY <2>1, WaitKeeps
<1>2. ASSUME NEW s \in Schedules, PatchSchedule(s) PROVE TournamentInv'
  BY <1>2, PatchKeeps
<1>3. ASSUME NEW w \in Fleet PROVE /\ ListDue(w) => TournamentInv'
                                   /\ Fire(w) => TournamentInv'
                                   /\ StartTournamentGame(w) => TournamentInv'
                                   /\ EndTournamentGame(w) => TournamentInv'
                                   /\ BreakTournamentGame(w) => TournamentInv'
                                   /\ SettleRun(w) => TournamentInv'
                                   /\ MarkRun(w) => TournamentInv'
                                   /\ Admit(w) \/ PromoteMatch(w) => TournamentInv'
                                   /\ PlanMatch(w) => TournamentInv'
                                   /\ StartMatch(w) => TournamentInv'
                                   /\ ClaimNextPending(w) => TournamentInv'
                                   /\ Kill(w) => TournamentInv'
  <2>1. BreakTournamentGame(w) => TournamentInv'
    <3>. SUFFICES ASSUME BreakTournamentGame(w) PROVE TournamentInv'
      OBVIOUS
    <3>1. /\ AtPlay(w) /\ Abandon(w) /\ breaks' \in 0..MaxBreaks
          /\ UNCHANGED <<hour, schedules, disturbed, gauntlets, aired>>
      BY DutyNow DEF BreakTournamentGame
    <3>. QED  BY <3>1, AbandonKeeps
  <2>2. ListDue(w) => TournamentInv'
    BY ListKeeps
  <2>3. Fire(w) => TournamentInv'
    BY FireKeeps
  <2>4. MarkRun(w) => TournamentInv'
    BY MarkKeeps
  <2>5. StartMatch(w) => TournamentInv'
    BY MatchKeeps
  <2>. QED  BY <2>1, <2>2, <2>3, <2>4, <2>5, StartGameKeeps, EndGameKeeps, SettleKeeps, AdmitKeeps,
               PlanKeeps, ClaimKeeps, KillKeeps
<1>4. ASSUME NEW w \in Fleet, NEW n \in DOMAIN gauntlets,
             EndDrive(w, n) \/ \E i \in GamesIn(n) : DriveGame(w, n, i)
      PROVE  TournamentInv'
  BY <1>4, DriveKeeps
<1>5. CASE UNCHANGED tournamentVars
  <2>1. UNCHANGED <<hour, schedules, gauntlets, duty, breaks, aired, abandoned, disturbed>>
    BY <1>5 DEF tournamentVars
  <2>2. hour' \in 1..MaxTime /\ hour =< hour'
    BY <2>1
  <2>. QED  BY <2>1, <2>2, WaitKeeps
<1>. QED  BY <1>1, <1>2, <1>3, <1>4, <1>5 DEF TournamentsNext

\* TournamentInv: the tables, the ticks of the processes, who has which occurrence in hand and
\* what has become of it, and the share of every build, for any fleet, schedules and roster.
THEOREM TournamentsKeepTheirInvariant == TournamentsSpec => []TournamentInv
<1>1. TournamentsInit => TournamentInv
  BY TournamentsBegin
<1>2. TournamentInv /\ [TournamentsNext]_tournamentVars => TournamentInv'
  BY TournamentStep
<1>. QED  BY <1>1, <1>2, PTL DEF TournamentsSpec

\* The type of the tables
THEOREM TournamentsTyped == TournamentsSpec => []TournamentsTypeOK
<1>1. TournamentInv => TournamentsTypeOK
  <2>. SUFFICES ASSUME TournamentInv PROVE TournamentsTypeOK
    OBVIOUS
  <2>1. \A n \in DOMAIN gauntlets :
            gauntlets[n].status \in {"PENDING", "RUNNING", "COMPLETED", "cost_capped"}
    BY TourneyRow DEF TournamentInv, TournamentTables, Tourneys
  <2>2. \A w \in Fleet : duty[w].at \in {"idle", "firing", "run", "marking", "admitted", "planned",
                                         "claiming", "driving"}
    BY DutyNow, DutyShape
  <2>. QED  BY <2>1, <2>2 DEF TournamentInv, TournamentTables, TournamentsTypeOK
<1>. QED  BY <1>1, TournamentsKeepTheirInvariant, PTL

\* An occurrence of a schedule has one gauntlet unless a run of it broke down or two ticks had a
\* hand in it; the builds take turns while only matches are played, one after the other; and
\* what goes on air has been played.
THEOREM ProgrammeAlwaysFair == TournamentsSpec => []ProgrammeIsFair
<1>1. TournamentInv => ProgrammeIsFair
  BY DEF TournamentInv, Occurrences, Shares, FiredOnce, InTurn, OnlyMatches, AiredWerePlayed,
         ProgrammeIsFair
<1>. QED  BY <1>1, TournamentsKeepTheirInvariant, PTL

-----------------------------------------------------------------------------
\* The gate: what a pair of games says of its cell

CellStatus == {"PENDING", "MATERIALIZED", "COMPLETED", "DEAD_LETTER"}

LegStatus == {"RUNNING", "COMPLETED", "FAILED"}

CellRows == [status : CellStatus, attempts : 0..CellMaxAttempts, gauntlet : Nat]

PairRows == [cell : CampaignCells, games : [Leg -> LegStatus], again : BOOLEAN]

RatingRows == [game : CampaignGames \cup {Elsewhere}, build : RatedBuilds, by : {-1, 1}]

GateTables ==
    /\ pairings \in [CampaignCells -> CellRows] /\ pairs \in Seq(PairRows)
    /\ updates \in Seq(RatingRows)
    /\ blemished \subseteq CampaignGames \X Blemishes /\ lostFailures \subseteq CampaignCells

\* A cell has a gauntlet of its own unless it waits for one, and an attempt left for it.
CellsHold ==
    \A c \in CampaignCells :
        LET row == pairings[c] IN
        /\ row.gauntlet # 0 => row.gauntlet \in DOMAIN pairs /\ pairs[row.gauntlet].cell = c
        /\ row.gauntlet = 0 <=> row.status = "PENDING"
        /\ row.status \in {"PENDING", "MATERIALIZED"} => row.attempts < CellMaxAttempts

\* A pair that is played, and one that did not fail, is the current one of its cell.
PairHolds(n) ==
    LET row == pairings[pairs[n].cell]
        games == pairs[n].games
    IN  /\ (\E l \in Leg : games[l] = "RUNNING") => row.status = "MATERIALIZED" /\ row.gauntlet = n
        /\ (\A l \in Leg : games[l] # "FAILED") => row.gauntlet = n
        /\ (\E l \in Leg : games[l] = "FAILED") /\ row.gauntlet = n /\ row.status = "COMPLETED"
              => pairs[n].cell \in lostFailures

\* What moves a rating are pairs that were played to their end.
PairsRated ==
    \A i \in DOMAIN updates : updates[i].game # Elsewhere =>
        \A l \in Leg : pairs[updates[i].game[1]].games[l] = "COMPLETED"

GateInv == GateTables /\ CellsHold /\ (\A n \in DOMAIN pairs : PairHolds(n)) /\ PairsRated

\* The list of a set has its elements.
LEMMA ListOfSet ==
    ASSUME NEW S, IsFiniteSet(S)
    PROVE  SetToSeq(S) \in [1..Cardinality(S) -> S] /\ Cardinality(S) \in Nat
<1>. PICK n : n = Cardinality(S)
  OBVIOUS
<1>1. n \in Nat /\ ExistsBijection(1..n, S)
  BY FS_CountingElements, FS_CardinalityType
<1>2. \E f \in [1..n -> S] : IsInjective(f)
  BY <1>1 DEF ExistsBijection, Bijection, Injection, IsInjective
<1>. QED  BY <1>1, <1>2 DEF SetToSeq

\* What rating a game of a cell adds to the log of the league
LEMMA MovesShape ==
    ASSUME NEW c \in CampaignCells, NEW g \in CampaignGames, NEW m \in Moves(g, c)
    PROVE  m \in Seq(RatingRows) /\ \A i \in DOMAIN m : m[i].game = g
<1>1. IsFiniteSet(RosterBuilds[c]) /\ RosterBuilds[c] \subseteq RatedBuilds
  BY GateAssumption DEF RatedBuilds
<1>. PICK seats : seats = SetToSeq(RosterBuilds[c])
  OBVIOUS
<1>. PICK k : k = Cardinality(RosterBuilds[c])
  OBVIOUS
<1>2. seats \in [1..k -> RosterBuilds[c]] /\ k \in Nat
  BY <1>1, ListOfSet
<1>3. PICK by \in [RosterBuilds[c] -> {-1, 1}] :
         m = [i \in DOMAIN seats |-> RatingUpdate(g, seats[i], by[seats[i]])]
  BY DEF Moves
<1>4. DOMAIN m = 1..k /\ \A i \in 1..k : m[i] = RatingUpdate(g, seats[i], by[seats[i]])
  BY <1>2, <1>3
<1>5. \A i \in 1..k : m[i] \in RatingRows /\ m[i].game = g
  BY <1>1, <1>2, <1>3, <1>4 DEF RatingUpdate, RatingRows
<1>6. m \in [1..k -> RatingRows]
  BY <1>3, <1>2, <1>5
<1>. QED  BY <1>2, <1>4, <1>5, <1>6

\* Longer lists of rating events
LEMMA UpdatesJoined ==
    ASSUME NEW T, NEW one \in Seq(T), NEW two \in Seq(T)
    PROVE  /\ one \o two \in Seq(T)
           /\ \A i \in DOMAIN (one \o two) :
                 \/ i \in DOMAIN one /\ (one \o two)[i] = one[i]
                 \/ \E j \in DOMAIN two : (one \o two)[i] = two[j]
<1>1. one \o two \in Seq(T) /\ Len(one \o two) = Len(one) + Len(two)
  OBVIOUS
<1>2. \A i \in 1..Len(one) + Len(two) :
         (one \o two)[i] = IF i <= Len(one) THEN one[i] ELSE two[i - Len(one)]
  OBVIOUS
<1>3. ASSUME NEW i \in 1..Len(one) + Len(two), ~(i <= Len(one))
      PROVE  i - Len(one) \in 1..Len(two)
  BY <1>3
<1>4. DOMAIN (one \o two) = 1..Len(one) + Len(two) /\ DOMAIN one = 1..Len(one) /\ DOMAIN two = 1..Len(two)
  BY <1>1
<1>. QED  BY <1>1, <1>2, <1>3, <1>4

\* A cell is given a gauntlet.
LEMMA MaterializeKeeps ==
    ASSUME GateInv, NEW c \in CampaignCells, MaterializePairing(c)
    PROVE  GateInv'
<1>. USE DEF GateInv
<1>. PICK k : k = Len(pairs) + 1
  OBVIOUS
<1>. PICK row : row = [cell |-> c, games |-> [l \in Leg |-> "RUNNING"], again |-> pairings[c].attempts > 0]
  OBVIOUS
<1>1. /\ pairings[c].status = "PENDING" /\ pairs' = Append(pairs, row)
      /\ pairings' = [pairings EXCEPT ![c].status = "MATERIALIZED", ![c].gauntlet = k]
      /\ UNCHANGED <<updates, blemished, lostFailures>>
  BY DEF MaterializePairing
<1>2. pairings \in [CampaignCells -> CellRows] /\ pairs \in Seq(PairRows)
  BY DEF GateTables
<1>3. row \in PairRows
  BY DEF PairRows, LegStatus
<1>4. /\ pairs' \in Seq(PairRows) /\ DOMAIN pairs = 1..k - 1 /\ k \in Nat \ {0} /\ DOMAIN pairs' = 1..k
      /\ pairs'[k] = row /\ \A n \in DOMAIN pairs : n # k /\ n \in DOMAIN pairs' /\ pairs'[n] = pairs[n]
  BY <1>1, <1>2, <1>3
<1>5. /\ pairings' \in [CampaignCells -> CellRows]
      /\ pairings'[c].status = "MATERIALIZED" /\ pairings'[c].gauntlet = k
      /\ pairings'[c].attempts = pairings[c].attempts
      /\ \A d \in CampaignCells : d # c => pairings'[d] = pairings[d]
  BY <1>1, <1>2, <1>4 DEF CellRows, CellStatus
<1>6. GateTables'
  <2>1. CampaignGames \subseteq CampaignGames'
    BY <1>4 DEF CampaignGames
  <2>2. RatingRows \subseteq RatingRows'
    BY <2>1 DEF RatingRows, Elsewhere
  <2>. QED  BY <1>1, <1>4, <1>5, <2>1, <2>2 DEF GateTables
<1>7. CellsHold'
  BY <1>3, <1>4, <1>5, <1>1 DEF CellsHold
<1>8. ASSUME NEW n \in DOMAIN pairs PROVE PairHolds(n)'
  <2>0. pairs[n] \in PairRows
    BY <1>2
  <2>1. pairs'[n] = pairs[n] /\ pairs[n].cell \in CampaignCells /\ n # k /\ n # 0
    BY <2>0, <1>4 DEF PairRows
  <2>2. PairHolds(n)
    OBVIOUS
  <2>3. CASE pairs[n].cell # c
    BY <2>1, <2>2, <2>3, <1>1, <1>5 DEF PairHolds
  <2>4. CASE pairs[n].cell = c
    <3>1. pairings[c].gauntlet = 0
      BY <1>1 DEF CellsHold
    <3>2. ~ (\E l \in Leg : pairs[n].games[l] = "RUNNING") /\ ~(\A l \in Leg : pairs[n].games[l] # "FAILED")
      BY <2>1, <2>2, <2>4, <3>1, <1>1 DEF PairHolds
    <3>. QED  BY <2>1, <2>4, <3>2, <1>5 DEF PairHolds
  <2>. QED  BY <2>3, <2>4
<1>9. PairHolds(k)'
  <2>1. pairs'[k] = row /\ row.cell = c /\ \A l \in Leg : row.games[l] = "RUNNING"
    BY <1>4
  <2>. QED  BY <2>1, <1>5 DEF PairHolds, Leg
<1>10. PairsRated'
  <2>1. ASSUME NEW i \in DOMAIN updates, updates[i].game # Elsewhere
        PROVE  updates[i].game[1] \in DOMAIN pairs
    <3>1. updates[i] \in RatingRows
      BY DEF GateTables
    <3>2. updates[i].game \in CampaignGames
      BY <2>1, <3>1 DEF RatingRows
    <3>. QED  BY <3>2 DEF CampaignGames
  <2>. QED  BY <2>1, <1>1, <1>4 DEF PairsRated, Elsewhere
<1>. QED  BY <1>4, <1>6, <1>7, <1>8, <1>9, <1>10

\* What became of a cell is recorded.
LEMMA SettlePairingKeeps ==
    ASSUME GateInv, NEW c \in CampaignCells, SettlePairing(c)
    PROVE  GateInv'
<1>. USE DEF GateInv
<1>. PICK n : n = pairings[c].gauntlet
  OBVIOUS
<1>. DEFINE failed == \E l \in Leg : pairs[n].games[l] = "FAILED"
            row == pairings'[c]
<1>1. /\ pairings[c].status = "MATERIALIZED" /\ (\A l \in Leg : pairs[n].games[l] # "RUNNING")
      /\ UNCHANGED <<pairs, updates, blemished>>
  BY DEF SettlePairing
<1>2. pairings \in [CampaignCells -> CellRows] /\ pairs \in Seq(PairRows) /\ lostFailures \subseteq CampaignCells
  BY DEF GateTables
<1>3. n # 0 /\ n \in DOMAIN pairs /\ pairs[n].cell = c
  BY <1>1 DEF CellsHold
<1>4. pairings[c].attempts \in Nat /\ pairings[c].attempts < CellMaxAttempts /\ CellMaxAttempts \in Nat
  BY <1>1, <1>2, GateAssumption DEF CellsHold, CellRows
<1>5. /\ pairings' \in [CampaignCells -> CellRows]
      /\ \A d \in CampaignCells : d # c => pairings'[d] = pairings[d]
      /\ \/ failed /\ row.status = "DEAD_LETTER" /\ row.gauntlet = n /\ lostFailures' = lostFailures
         \/ /\ failed /\ row.status = "PENDING" /\ row.gauntlet = 0 /\ row.attempts < CellMaxAttempts
            /\ lostFailures' = lostFailures
         \/ /\ row.status = "COMPLETED" /\ row.gauntlet = n
            /\ lostFailures' = IF failed THEN lostFailures \cup {c} ELSE lostFailures
  <2>. PICK a : a = pairings[c].attempts + 1
    OBVIOUS
  <2>0. a \in 0..CellMaxAttempts
    BY <1>4
  <2>1. CASE /\ failed /\ a >= CellMaxAttempts /\ UNCHANGED lostFailures
             /\ pairings' = [pairings EXCEPT ![c] = [@ EXCEPT !.status = "DEAD_LETTER", !.attempts = a]]
    BY <2>0, <2>1, <1>2 DEF CellRows, CellStatus
  <2>2. CASE /\ failed /\ ~(a >= CellMaxAttempts) /\ UNCHANGED lostFailures
             /\ pairings' = [pairings EXCEPT ![c] = [@ EXCEPT !.status = "PENDING", !.attempts = a,
                                                             !.gauntlet = 0]]
    <3>1. a < CellMaxAttempts /\ a \in 0..CellMaxAttempts
      BY <2>0, <2>2, <1>4
    <3>2. row.status = "PENDING" /\ row.gauntlet = 0 /\ row.attempts = a /\ row \in CellRows
      BY <2>0, <2>2, <1>2 DEF CellRows, CellStatus
    <3>. QED  BY <3>1, <3>2, <2>2, <1>2
  <2>3. CASE /\ pairings' = [pairings EXCEPT ![c].status = "COMPLETED"]
             /\ lostFailures' = IF failed THEN lostFailures \cup {c} ELSE lostFailures
    BY <2>3, <1>2 DEF CellRows, CellStatus
  <2>. QED  BY <2>1, <2>2, <2>3 DEF SettlePairing
<1>6. lostFailures \subseteq lostFailures' /\ lostFailures' \subseteq CampaignCells
  BY <1>5, <1>2
<1>7. GateTables'
  BY <1>1, <1>5, <1>6 DEF GateTables, CampaignGames, RatingRows, Elsewhere
<1>8. CellsHold'
  BY <1>1, <1>3, <1>5 DEF CellsHold
<1>9. ASSUME NEW m \in DOMAIN pairs PROVE PairHolds(m)'
  <2>. pairs[m] \in PairRows
    BY <1>2
  <2>0. PairHolds(m) /\ pairs'[m] = pairs[m] /\ pairs[m].cell \in CampaignCells
    BY <1>1 DEF PairRows
  <2>1. CASE pairs[m].cell # c
    BY <2>0, <2>1, <1>5, <1>6 DEF PairHolds
  <2>2. CASE pairs[m].cell = c /\ m # n
    <3>1. ~ (\E l \in Leg : pairs[m].games[l] = "RUNNING") /\ ~(\A l \in Leg : pairs[m].games[l] # "FAILED")
      BY <2>0, <2>2 DEF PairHolds
    <3>2. m # 0 /\ row.gauntlet # m
      BY <2>2, <1>2, <1>5
    <3>. QED  BY <2>0, <2>2, <3>1, <3>2 DEF PairHolds
  <2>3. CASE m = n
    <3>1. ~ \E l \in Leg : pairs[n].games[l] = "RUNNING"
      BY <1>1
    <3>2. ~failed => row.gauntlet = n
      BY <1>5
    <3>3. failed /\ row.status = "COMPLETED" => c \in lostFailures'
      BY <1>5
    <3>. QED  BY <2>0, <2>3, <3>1, <3>2, <3>3, <1>3 DEF PairHolds
  <2>. QED  BY <2>1, <2>2, <2>3
<1>10. PairsRated'
  BY <1>1 DEF PairsRated, Elsewhere
<1>. QED  BY <1>1, <1>7, <1>8, <1>9, <1>10

\* A game of a pair ends, and the pair may be rated.
LEMMA EndLegKeeps ==
    ASSUME GateInv, NEW n \in DOMAIN pairs, NEW l \in Leg, NEW status \in {"COMPLETED", "FAILED"},
           EndLeg(n, l, status)
    PROVE  GateInv'
<1>. USE DEF GateInv
<1>. PICK games : games = [pairs[n].games EXCEPT ![l] = status]
  OBVIOUS
<1>1. /\ pairs[n].games[l] = "RUNNING" /\ pairs' = [pairs EXCEPT ![n].games = games]
      /\ UNCHANGED <<pairings, lostFailures>>
  BY DEF EndLeg
<1>2. pairings \in [CampaignCells -> CellRows] /\ pairs \in Seq(PairRows) /\ pairs[n] \in PairRows
  BY DEF GateTables
<1>3. games \in [Leg -> LegStatus] /\ games[l] = status
  BY <1>2 DEF PairRows, LegStatus
<1>4. /\ pairs' \in Seq(PairRows) /\ DOMAIN pairs' = DOMAIN pairs
      /\ \A m \in DOMAIN pairs : m # n => pairs'[m] = pairs[m]
      /\ pairs'[n].games = games /\ \A m \in DOMAIN pairs : pairs'[m].cell = pairs[m].cell
  <2>. PICK row : row = [pairs[n] EXCEPT !.games = games]
    OBVIOUS
  <2>1. row \in PairRows /\ row.games = games /\ row.cell = pairs[n].cell
    BY <1>2, <1>3 DEF PairRows
  <2>2. pairs' = [pairs EXCEPT ![n] = row]
    BY <1>1, <1>2 DEF PairRows
  <2>3. pairs' \in Seq(PairRows) /\ DOMAIN pairs' = DOMAIN pairs
    BY <2>1, <2>2, <1>2
  <2>4. pairs'[n] = row /\ \A m \in DOMAIN pairs : m # n => pairs'[m] = pairs[m]
    BY <2>2, <1>2
  <2>5. \A m \in DOMAIN pairs : pairs'[m].cell = pairs[m].cell
    BY <2>1, <2>4
  <2>. QED  BY <2>1, <2>3, <2>4, <2>5
<1>. PICK c : c = pairs[n].cell
  OBVIOUS
<1>5. c \in CampaignCells /\ pairings[c].status = "MATERIALIZED" /\ pairings[c].gauntlet = n
  BY <1>1, <1>2 DEF PairRows, PairHolds
<1>6. CampaignGames' = CampaignGames /\ RatingRows' = RatingRows
  BY <1>4 DEF CampaignGames, RatingRows, Elsewhere
<1>7. /\ updates' \in Seq(RatingRows)
      /\ \A i \in DOMAIN updates' :
            \/ i \in DOMAIN updates /\ updates'[i] = updates[i]
            \/ (\A k \in Leg : games[k] = "COMPLETED") /\ updates'[i].game[1] = n
  <2>1. updates \in Seq(RatingRows)
    BY DEF GateTables
  <2>2. CASE UNCHANGED updates
    BY <2>1, <2>2
  <2>3. CASE /\ \A k \in Leg : games[k] = "COMPLETED"
             /\ \E first \in Moves(<<n, 1>>, c), second \in Moves(<<n, 2>>, c) :
                  updates' = updates \o first \o second
    <3>1. PICK first \in Moves(<<n, 1>>, c), second \in Moves(<<n, 2>>, c) :
             updates' = updates \o first \o second
      BY <2>3
    <3>2. <<n, 1>> \in CampaignGames /\ <<n, 2>> \in CampaignGames
      BY DEF CampaignGames, Leg
    <3>3. first \in Seq(RatingRows) /\ \A i \in DOMAIN first : first[i].game = <<n, 1>>
      BY <3>2, <1>5, MovesShape
    <3>4. second \in Seq(RatingRows) /\ \A i \in DOMAIN second : second[i].game = <<n, 2>>
      BY <3>2, <1>5, MovesShape
    <3>. PICK both : both = updates \o first
      OBVIOUS
    <3>5. /\ both \in Seq(RatingRows)
          /\ \A i \in DOMAIN both : \/ i \in DOMAIN updates /\ both[i] = updates[i]
                                   \/ \E j \in DOMAIN first : both[i] = first[j]
      BY <2>1, <3>3, UpdatesJoined
    <3>6. /\ updates' \in Seq(RatingRows)
          /\ \A i \in DOMAIN updates' : \/ i \in DOMAIN both /\ updates'[i] = both[i]
                                       \/ \E j \in DOMAIN second : updates'[i] = second[j]
      BY <3>1, <3>4, <3>5, UpdatesJoined
    <3>7. ASSUME NEW i \in DOMAIN updates'
          PROVE  \/ i \in DOMAIN updates /\ updates'[i] = updates[i]
                 \/ updates'[i].game[1] = n
      <4>1. CASE i \in DOMAIN both /\ updates'[i] = both[i]
        <5>1. CASE \E j \in DOMAIN first : both[i] = first[j]
          BY <4>1, <5>1, <3>3
        <5>. QED  BY <4>1, <5>1, <3>5
      <4>2. CASE \E j \in DOMAIN second : updates'[i] = second[j]
        BY <4>2, <3>4
      <4>. QED  BY <4>1, <4>2, <3>6
    <3>. QED  BY <2>3, <3>6, <3>7
  <2>. QED  BY <2>2, <2>3 DEF EndLeg
<1>8. GateTables'
  <2>1. blemished' \subseteq CampaignGames \X Blemishes
    <3>1. <<n, l>> \in CampaignGames /\ blemished \subseteq CampaignGames \X Blemishes
      BY DEF CampaignGames, GateTables
    <3>. QED  BY <3>1 DEF EndLeg
  <2>. QED  BY <2>1, <1>1, <1>2, <1>4, <1>6, <1>7 DEF GateTables
<1>9. CellsHold'
  BY <1>1, <1>4 DEF CellsHold
<1>10. ASSUME NEW m \in DOMAIN pairs PROVE PairHolds(m)'
  <2>1. PairHolds(m) /\ pairs'[m].cell = pairs[m].cell
    BY <1>4
  <2>2. CASE m # n
    BY <2>1, <2>2, <1>1, <1>4 DEF PairHolds
  <2>3. CASE m = n
    BY <2>3, <1>1, <1>4, <1>5 DEF PairHolds
  <2>. QED  BY <2>2, <2>3
<1>11. ASSUME NEW i \in DOMAIN updates', updates'[i].game # Elsewhere, NEW k \in Leg
       PROVE  pairs'[updates'[i].game[1]].games[k] = "COMPLETED"
  <2>1. CASE i \in DOMAIN updates /\ updates'[i] = updates[i]
    <3>. PICK m : m = updates[i].game[1]
      OBVIOUS
    <3>1. \A j \in Leg : pairs[m].games[j] = "COMPLETED"
      BY <2>1, <1>11 DEF PairsRated
    <3>2. m # n /\ m \in DOMAIN pairs
      <4>1. updates[i] \in RatingRows
        BY <2>1 DEF GateTables
      <4>2. updates[i].game \in CampaignGames
        BY <2>1, <1>11, <4>1 DEF RatingRows
      <4>. QED  BY <4>2, <3>1, <1>1 DEF CampaignGames
    <3>. QED  BY <2>1, <3>1, <3>2, <1>4
  <2>2. CASE (\A j \in Leg : games[j] = "COMPLETED") /\ updates'[i].game[1] = n
    BY <2>2, <1>4
  <2>. QED  BY <2>1, <2>2, <1>7
<1>12. PairsRated'
  BY <1>11 DEF PairsRated, Elsewhere
<1>. QED  BY <1>4, <1>8, <1>9, <1>10, <1>12

\* A game elsewhere moves a rating and nothing else.
LEMMA ElsewhereKeeps ==
    ASSUME GateInv, PlayElsewhere
    PROVE  GateInv'
<1>. USE DEF GateInv
<1>1. UNCHANGED <<pairings, pairs, blemished, lostFailures>>
  BY DEF PlayElsewhere
<1>2. PICK b \in RatedBuilds : updates' = Append(updates, RatingUpdate(Elsewhere, b, 1))
  BY DEF PlayElsewhere
<1>3. updates \in Seq(RatingRows) /\ RatingUpdate(Elsewhere, b, 1) \in RatingRows
  BY DEF GateTables, RatingRows, RatingUpdate
<1>4. /\ updates' \in Seq(RatingRows)
      /\ \A i \in DOMAIN updates' : \/ i \in DOMAIN updates /\ updates'[i] = updates[i]
                                   \/ updates'[i] = RatingUpdate(Elsewhere, b, 1)
  <2>. PICK e : e = RatingUpdate(Elsewhere, b, 1)
    OBVIOUS
  <2>. QED  BY <1>2, <1>3
<1>5. RatingRows' = RatingRows
  BY <1>1 DEF RatingRows, CampaignGames, Elsewhere
<1>6. GateTables'
  BY <1>1, <1>4, <1>5 DEF GateTables, CampaignGames
<1>7. CellsHold' /\ \A n \in DOMAIN pairs : PairHolds(n)'
  BY <1>1 DEF CellsHold, PairHolds
<1>8. PairsRated'
  BY <1>1, <1>4 DEF PairsRated, RatingUpdate, Elsewhere
<1>. QED  BY <1>1, <1>6, <1>7, <1>8

\* Nothing has been played, and every step keeps what the tables say.
LEMMA GateStep == GateInv /\ [GateNext]_gateVars => GateInv'
<1>. SUFFICES ASSUME GateInv, [GateNext]_gateVars PROVE GateInv'
  OBVIOUS
<1>1. CASE UNCHANGED gateVars
  BY <1>1 DEF gateVars, GateInv, GateTables, CellsHold, PairHolds, PairsRated, CampaignGames,
              RatingRows, Elsewhere
<1>2. CASE GateNext
  BY <1>2, MaterializeKeeps, SettlePairingKeeps, EndLegKeeps, ElsewhereKeeps DEF GateNext
<1>. QED  BY <1>1, <1>2

LEMMA GateBegins == GateInit => GateInv
<1>. SUFFICES ASSUME GateInit PROVE GateInv
  OBVIOUS
<1>1. CellMaxAttempts \in Nat \ {0}
  BY GateAssumption
<1>2. GateTables
  BY <1>1 DEF GateInit, GateTables, CellRows, CellStatus
<1>. QED  BY <1>1, <1>2 DEF GateInit, GateInv, CellsHold, PairsRated

\* Whatever is played, tried again, lost or rated elsewhere, the cells and the pairs of their
\* games agree, and only pairs that were played to their end move a rating
\* (gauntlets/publish_gate.py reads all of these).
THEOREM GateKeepsItsInvariant == GateSpec => []GateInv
BY GateBegins, GateStep, PTL DEF GateSpec

-----------------------------------------------------------------------------
\* The gate: what it looks at

\* Min picks a least element of a set of numbers.
LEMMA MinOfPositions ==
    ASSUME NEW S, S \subseteq Nat, S # {}
    PROVE  Min(S) \in S /\ \A y \in S : Min(S) =< y
<1>. DEFINE Less == {p \in Nat \X Nat : p[1] < p[2]}
<1>1. IsWellFoundedOn(Less, Nat)
  BY NatLessThanWellFounded DEF OpToRel
<1>2. PICK x \in S : \A y \in S : ~ (<<y, x>> \in Less)
  <2>. HIDE DEF Less
  <2>. QED  BY <1>1, WFMin
<1>3. ASSUME NEW y \in S PROVE x =< y
  <2>1. <<y, x>> \in Nat \X Nat /\ <<y, x>> \notin Less /\ x \in Nat /\ y \in Nat
    BY <1>2
  <2>. QED  BY <2>1
<1>. QED  BY <1>3 DEF Min

\* A build's score is that of an earlier moment if it has no update since.
LEMMA ScoreSince ==
    ASSUME GateTables, NEW b, NEW m \in Nat, NEW n \in Nat, m =< n,
           \A i \in m + 1..n : updates[i].build # b
    PROVE  ScoreOf(b, n) = ScoreOf(b, m)
<1>1. ASSUME NEW by
      PROVE  {i \in 1..n : updates[i].build = b /\ updates[i].by = by}
             = {i \in 1..m : updates[i].build = b /\ updates[i].by = by}
  OBVIOUS
<1>. QED  BY <1>1 DEF ScoreOf

\* The window of updates begins after this many.
Before == Max({0, Len(updates) - StabilityWindow})

LEMMA WindowBegins ==
    ASSUME GateTables
    PROVE  /\ Before \in Nat /\ Len(updates) \in Nat /\ Before =< Len(updates)
           /\ RecentUpdates = Before + 1..Len(updates)
<1>1. Len(updates) \in Nat /\ StabilityWindow \in Nat /\ DOMAIN updates = 1..Len(updates)
  BY GateAssumption DEF GateTables
<1>2. Before = IF Len(updates) >= StabilityWindow THEN Len(updates) - StabilityWindow ELSE 0
  <2>. PICK d : d = Len(updates) - StabilityWindow
    OBVIOUS
  <2>1. d \in Int
    BY <1>1
  <2>2. \E x \in {0, d} : \A y \in {0, d} : x >= y
    BY <2>1
  <2>3. Before \in {0, d} /\ \A y \in {0, d} : Before >= y
    BY <2>2 DEF Before, Max
  <2>. QED  BY <1>1, <2>1, <2>3
<1>. PICK b : b = Before
  OBVIOUS
<1>. PICK n : n = Len(updates)
  OBVIOUS
<1>. PICK k : k = StabilityWindow
  OBVIOUS
<1>3. b \in Nat /\ b =< n /\ n \in Nat /\ k \in Nat
  <2>. HIDE DEF Before
  <2>. QED  BY <1>1, <1>2
<1>4. \A i \in 1..n : i > n - k <=> i \in b + 1..n
  <2>1. b = IF n >= k THEN n - k ELSE 0
    BY <1>2
  <2>. QED  BY <1>3, <2>1
<1>5. b + 1..n \subseteq 1..n
  BY <1>1, <1>3
<1>6. RecentUpdates = {i \in 1..n : i > n - k}
  BY <1>1 DEF RecentUpdates
<1>. QED  BY <1>1, <1>3, <1>4, <1>5, <1>6

\* Where a build starts the window, by the code's reckoning
Baseline(x) ==
    IF {n \in RecentUpdates : updates[n].build = x} = {} THEN ScoreOf(x, Len(updates))
    ELSE ScoreOf(x, Min({n \in RecentUpdates : updates[n].build = x}) - 1)

LEMMA BaselineIsBefore ==
    ASSUME GateTables, NEW x
    PROVE  Baseline(x) = ScoreOf(x, Before)
<1>. DEFINE oldest == {n \in RecentUpdates : updates[n].build = x}
<1>1. /\ Before \in Nat /\ Len(updates) \in Nat /\ Before =< Len(updates)
      /\ RecentUpdates = Before + 1..Len(updates)
  BY WindowBegins
<1>2. CASE oldest = {}
  <2>1. \A i \in Before + 1..Len(updates) : updates[i].build # x
    BY <1>1, <1>2
  <2>2. ScoreOf(x, Len(updates)) = ScoreOf(x, Before)
    BY <1>1, <2>1, ScoreSince
  <2>. QED  BY <1>2, <2>2 DEF Baseline
<1>3. CASE oldest # {}
  <2>. PICK k : k = Min(oldest)
    OBVIOUS
  <2>1. k \in oldest /\ \A y \in oldest : k =< y
    <3>1. oldest \subseteq Nat
      BY <1>1
    <3>. HIDE DEF oldest
    <3>. QED  BY <3>1, <1>3, MinOfPositions
  <2>2. k \in Nat /\ k - 1 \in Nat /\ Before =< k - 1 /\ k =< Len(updates)
    BY <1>1, <2>1
  <2>3. \A i \in Before + 1..k - 1 : updates[i].build # x
    BY <1>1, <2>1, <2>2
  <2>4. ScoreOf(x, k - 1) = ScoreOf(x, Before)
    BY <1>1, <2>2, <2>3, ScoreSince
  <2>. QED  BY <1>3, <2>4 DEF Baseline
<1>. QED  BY <1>2, <1>3

\* Stable ranks of all builds are the ranks before the window.
LEMMA StableRanks ==
    ASSUME GateTables, \A b \in RatedNow : AgentRankStable(b)
    PROVE  Ranks(RatedNow, LAMBDA b : ScoreOf(b, Before)) = Ranks(RatedNow, LAMBDA b : ScoreOf(b, Len(updates)))
<1>. PICK who : who = RatedNow
  OBVIOUS
<1>. DEFINE now(x) == ScoreOf(x, Len(updates))
            before(x) == ScoreOf(x, Before)
            above(x) == {y \in who : now(y) > now(x) \/ (now(y) = now(x) /\ y < x)}
            once(x) == {y \in who : Baseline(y) > Baseline(x) \/ (Baseline(y) = Baseline(x) /\ y < x)}
            early(x) == {y \in who : before(y) > before(x) \/ (before(y) = before(x) /\ y < x)}
<1>1. ASSUME NEW b \in who PROVE 1 + Cardinality(above(b)) = 1 + Cardinality(once(b))
  <2>1. AgentRankStable(b)
    OBVIOUS
  <2>. QED  BY <2>1 DEF AgentRankStable, Ranks, Baseline
<1>2. ASSUME NEW b \in who PROVE once(b) = early(b)
  BY BaselineIsBefore
<1>3. [x \in who |-> 1 + Cardinality(early(x))] = [x \in who |-> 1 + Cardinality(above(x))]
  <2>. HIDE DEF above, once, early
  <2>. QED  BY <1>1, <1>2
<1>. QED  BY <1>3 DEF Ranks

\* A campaign that is ready rests on games that count: what moved a rating is published, a
\* failed pair of a cell that is not tried again is documented, and the ranks are those of
\* before the window of updates (evaluate_publish_gate).
LEMMA ReadyWhenItHolds == GateInv => ReadyMeansEvidence
<1>. SUFFICES ASSUME GateInv, ReadyToPublish PROVE ReadyMeansEvidence
  BY DEF ReadyMeansEvidence
<1>. USE DEF GateInv
<1>1. ASSUME NEW i \in DOMAIN updates, updates[i].game # Elsewhere
      PROVE  updates[i].game \in PublishedGames
  <2>. PICK g : g = updates[i].game
    OBVIOUS
  <2>0. updates[i] \in RatingRows
    BY DEF GateTables
  <2>1. g \in CampaignGames
    BY <1>1, <2>0 DEF RatingRows
  <2>2. g[1] \in DOMAIN pairs /\ pairs[g[1]] \in PairRows
    BY <2>1 DEF CampaignGames, GateTables
  <2>3. \A l \in Leg : pairs[g[1]].games[l] = "COMPLETED"
    BY <1>1 DEF PairsRated
  <2>4. pairs[g[1]].cell \in CampaignCells /\ pairings[pairs[g[1]].cell].gauntlet = g[1]
    BY <2>2, <2>3 DEF PairHolds, PairRows
  <2>5. CellOf(g) # {}
    BY <2>4 DEF CellOf
  <2>. QED  BY <2>1, <2>5 DEF ReadyToPublish, ExcludedRatingBlockers
<1>2. \A g \in CampaignGames : <<g, "chain">> \notin blemished
  BY DEF ReadyToPublish, ReplayHashBlockers
<1>3. ASSUME NEW n \in DOMAIN pairs, "FAILED" \in {pairs[n].games[l] : l \in Leg}
      PROVE  \/ pairs[n].cell \in DocumentedHoles \cup lostFailures
             \/ pairings[pairs[n].cell].gauntlet # n
             \/ pairings[pairs[n].cell].status = "MATERIALIZED"
  <2>. PICK c : c = pairs[n].cell
    OBVIOUS
  <2>0. pairs[n] \in PairRows
    BY DEF GateTables
  <2>1. c \in CampaignCells /\ pairings[c].status \in CellStatus /\ n # 0
    BY <2>0 DEF PairRows, CellRows, GateTables
  <2>2. PairHolds(n)
    OBVIOUS
  <2>3. pairings[c].status = "PENDING" => pairings[c].gauntlet # n
    BY <2>1 DEF CellsHold
  <2>4. pairings[c].status = "COMPLETED" /\ pairings[c].gauntlet = n => c \in lostFailures
    BY <1>3, <2>2 DEF PairHolds
  <2>. QED  BY <2>1, <2>3, <2>4 DEF CellStatus, DocumentedHoles
<1>4. \A b \in RatedNow : AgentRankStable(b)
  BY DEF ReadyToPublish, ReportedScopeBlockers
<1>5. Ranks(RatedNow, LAMBDA b : ScoreOf(b, Before)) = Ranks(RatedNow, LAMBDA b : ScoreOf(b, Len(updates)))
  BY <1>4, StableRanks
<1>. QED  BY <1>1, <1>2, <1>3, <1>5 DEF ReadyMeansEvidence, Before

\* The tables of the gate keep their types.
THEOREM GateTyped == GateSpec => []GateTypeOK
<1>1. GateInv => GateTypeOK
  <2>. SUFFICES ASSUME GateInv PROVE GateTypeOK
    OBVIOUS
  <2>1. ASSUME NEW c \in CampaignCells
        PROVE  /\ pairings[c].status \in CellStatus /\ pairings[c].attempts \in 0..CellMaxAttempts
               /\ pairings[c].gauntlet \in 0..Len(pairs)
    <3>1. pairings[c] \in CellRows /\ DOMAIN pairs = 1..Len(pairs) /\ Len(pairs) \in Nat
      BY DEF GateInv, GateTables
    <3>. QED  BY <3>1 DEF GateInv, CellsHold, CellRows
  <2>2. ASSUME NEW g \in CampaignGames PROVE GameStatus(g) \in LegStatus
    <3>1. g[1] \in DOMAIN pairs /\ g[2] \in Leg /\ pairs \in Seq(PairRows)
      BY DEF CampaignGames, GateInv, GateTables
    <3>2. pairs[g[1]] \in PairRows
      BY <3>1
    <3>. QED  BY <3>1, <3>2 DEF PairRows, GameStatus
  <2>3. ASSUME NEW n \in DOMAIN updates PROVE updates[n].game \in CampaignGames \cup {Elsewhere}
    <3>1. updates[n] \in RatingRows
      BY DEF GateInv, GateTables
    <3>. QED  BY <3>1 DEF RatingRows
  <2>. QED  BY <2>1, <2>2, <2>3 DEF GateTypeOK, GateInv, GateTables, CellStatus, LegStatus
<1>. QED  BY <1>1, GateKeepsItsInvariant, PTL

\* The gate opens only over evidence, at any moment of the campaign.
THEOREM ReadyAlwaysMeansEvidence == GateSpec => []ReadyMeansEvidence
BY ReadyWhenItHolds, GateKeepsItsInvariant, PTL

-----------------------------------------------------------------------------
\* The ratings: lists of seats

\* Every nonempty set of numbers has a least element,
LEMMA LeastNumber ==
    ASSUME NEW S, S \subseteq Nat, S # {}
    PROVE  \E m \in S : \A i \in S : m =< i
BY MinOfPositions

\* and one that is bounded a last one.
LEMMA LastNumber ==
    ASSUME NEW S, S \subseteq Nat, S # {}, NEW n \in Nat, \A i \in S : i =< n
    PROVE  LastOf(S) \in S /\ \A i \in S : i =< LastOf(S)
<1>. PICK bounds : bounds = {m \in Nat : \A i \in S : i =< m}
  OBVIOUS
<1>1. n \in bounds /\ bounds \subseteq Nat
  OBVIOUS
<1>2. PICK m \in bounds : \A i \in bounds : m =< i
  BY <1>1, LeastNumber
<1>3. m \in S
  <2>. SUFFICES ASSUME m \notin S PROVE FALSE
    OBVIOUS
  <2>1. \A i \in S : i < m
    BY <1>2
  <2>2. m \in Nat /\ m # 0
    <3>1. PICK i \in S : TRUE
      OBVIOUS
    <3>2. i \in Nat /\ m \in Nat /\ i < m
      BY <1>1, <2>1
    <3>. QED  BY <3>2
  <2>3. m - 1 \in bounds
    BY <2>1, <2>2
  <2>. QED  BY <1>2, <2>2, <2>3
<1>4. \A i \in S : i =< m
  BY <1>2
<1>. QED  BY <1>3, <1>4 DEF LastOf

\* In a finite set of numbers, for each n there is one with n - 1 numbers below it.
LEMMA NthOf ==
    ASSUME NEW S, S \subseteq Nat, IsFiniteSet(S), NEW n \in 1..Cardinality(S)
    PROVE  \E i \in S : Cardinality({j \in S : j < i}) = n - 1
<1>. DEFINE below(i) == {j \in S : j < i}
<1>. PICK bad : bad = {k \in 1..Cardinality(S) : \A i \in S : Cardinality(below(i)) # k - 1}
  OBVIOUS
<1>1. Cardinality(S) \in Nat /\ \A i : IsFiniteSet(below(i)) /\ Cardinality(below(i)) \in Nat
  <2>1. ASSUME NEW i PROVE IsFiniteSet(below(i)) /\ Cardinality(below(i)) \in Nat
    <3>1. below(i) \in SUBSET S
      OBVIOUS
    <3>. HIDE DEF below
    <3>. QED  BY <3>1, FS_Subset, FS_CardinalityType
  <2>. QED  BY <2>1, FS_CardinalityType
<1>2. SUFFICES ASSUME bad # {} PROVE FALSE
  OBVIOUS
<1>3. PICK k \in bad : \A i \in bad : k =< i
  <2>1. bad \subseteq Nat
    BY <1>1
  <2>. QED  BY <1>2, <2>1, LeastNumber
<1>4. k \in 1..Cardinality(S) /\ \A i \in S : Cardinality(below(i)) # k - 1
  OBVIOUS
<1>5. CASE k = 1
  <2>1. S # {}
    <3>1. S = {} => Cardinality(S) = 0
      BY FS_EmptySet
    <3>. QED  BY <1>1, <1>4, <3>1
  <2>2. PICK i \in S : \A j \in S : i =< j
    BY <2>1, LeastNumber
  <2>3. below(i) = {}
    <3>1. ASSUME NEW j \in S PROVE ~(j < i)
      <4>1. i \in Nat /\ j \in Nat /\ i =< j
        BY <2>2
      <4>. QED  BY <4>1
    <3>. QED  BY <3>1
  <2>. QED  BY <1>4, <1>5, <2>3, FS_EmptySet
<1>6. CASE k # 1
  <2>1. k - 1 \in 1..Cardinality(S) /\ k - 1 < k
    BY <1>1, <1>4, <1>6
  <2>2. k - 1 \notin bad
    BY <1>3, <1>4, <1>1, <2>1
  <2>3. PICK i \in S : Cardinality(below(i)) = k - 2
    <3>1. \E i \in S : Cardinality(below(i)) = (k - 1) - 1
      BY <2>1, <2>2
    <3>2. (k - 1) - 1 = k - 2
      BY <1>1, <1>4
    <3>. QED  BY <3>1, <3>2
  <2>4. IsFiniteSet(below(i) \cup {i}) /\ Cardinality(below(i) \cup {i}) = k - 1
    <3>1. i \notin below(i) /\ IsFiniteSet(below(i))
      BY <1>1
    <3>2. Cardinality(below(i) \cup {i}) = Cardinality(below(i)) + 1 /\ IsFiniteSet(below(i) \cup {i})
      <4>. HIDE DEF below
      <4>. QED  BY <3>1, FS_AddElement
    <3>. QED  BY <1>1, <1>4, <2>3, <3>2
  <2>. PICK above : above = {j \in S : i < j}
    OBVIOUS
  <2>5. above # {}
    <3>. SUFFICES ASSUME above = {} PROVE FALSE
      OBVIOUS
    <3>1. S = below(i) \cup {i}
      <4>1. \A j \in S : j < i \/ j = i \/ i < j
        OBVIOUS
      <4>. QED  BY <4>1
    <3>2. Cardinality(S) = k - 1
      BY <2>4, <3>1
    <3>. QED  BY <1>1, <1>4, <3>2
  <2>6. PICK l \in above : \A j \in above : l =< j
    BY <2>5, LeastNumber
  <2>7. below(l) = below(i) \cup {i}
    <3>1. \A j \in S : j < l <=> j < i \/ j = i
      BY <2>6
    <3>2. i \in S
      OBVIOUS
    <3>. QED  BY <3>1, <3>2
  <2>. QED  BY <1>4, <2>4, <2>6, <2>7
<1>. QED  BY <1>5, <1>6

\* A list in ascending order has the elements of its set.
LEMMA AscendingList ==
    ASSUME NEW S, S \subseteq Nat, IsFiniteSet(S)
    PROVE  Ascending(S) \in Seq(S) /\ Len(Ascending(S)) = Cardinality(S) /\ Cardinality(S) \in Nat
<1>1. Cardinality(S) \in Nat
  BY FS_CardinalityType
<1>2. Ascending(S) = [n \in 1..Cardinality(S) |-> CHOOSE i \in S : Cardinality({j \in S : j < i}) = n - 1]
  BY DEF Ascending
<1>3. \A n \in 1..Cardinality(S) : Ascending(S)[n] \in S
  <2>. SUFFICES ASSUME NEW n \in 1..Cardinality(S) PROVE Ascending(S)[n] \in S
    OBVIOUS
  <2>1. \E i \in S : Cardinality({j \in S : j < i}) = n - 1
    BY NthOf
  <2>2. Ascending(S)[n] = CHOOSE i \in S : Cardinality({j \in S : j < i}) = n - 1
    BY <1>2
  <2>. QED  BY <2>1, <2>2
<1>4. Ascending(S) \in [1..Cardinality(S) -> S]
  BY <1>2, <1>3
<1>. QED  BY <1>1, <1>4

\* Two games in ascending order
LEMMA AscendingPair ==
    ASSUME NEW g \in Nat, NEW h \in Nat, g < h
    PROVE  Ascending({g, h}) = <<g, h>>
<1>1. IsFiniteSet({g, h}) /\ Cardinality({g, h}) = 2
  <2>1. IsFiniteSet({g}) /\ Cardinality({g}) = 1
    BY FS_Singleton
  <2>2. {g, h} = {g} \cup {h} /\ h \notin {g}
    OBVIOUS
  <2>. QED  BY <2>1, <2>2, FS_AddElement
<1>2. {j \in {g, h} : j < g} = {} /\ {j \in {g, h} : j < h} = {g}
  OBVIOUS
<1>3. Cardinality({j \in {g, h} : j < g}) = 0 /\ Cardinality({j \in {g, h} : j < h}) = 1
  BY <1>2, FS_EmptySet, FS_Singleton
<1>4. (CHOOSE i \in {g, h} : Cardinality({j \in {g, h} : j < i}) = 1 - 1) = g
  BY <1>3
<1>5. (CHOOSE i \in {g, h} : Cardinality({j \in {g, h} : j < i}) = 2 - 1) = h
  BY <1>3
<1>6. Ascending({g, h}) =
        [n \in 1..2 |-> CHOOSE i \in {g, h} : Cardinality({j \in {g, h} : j < i}) = n - 1]
  BY <1>1 DEF Ascending
<1>. DEFINE at(n) == CHOOSE i \in {g, h} : Cardinality({j \in {g, h} : j < i}) = n - 1
<1>. PICK nth : nth = [n \in 1..2 |-> at(n)]
  OBVIOUS
<1>7. at(1) = g /\ at(2) = h
  BY <1>4, <1>5
<1>8. nth[1] = g /\ nth[2] = h
  <2>. HIDE DEF at
  <2>. QED  BY <1>7
<1>9. nth = <<g, h>>
  <2>. HIDE DEF at
  <2>1. nth = [n \in 1..2 |-> nth[n]]
    OBVIOUS
  <2>2. nth \in Seq({g, h}) /\ Len(nth) = 2
    <3>1. \A n \in 1..2 : nth[n] \in {g, h}
      BY <1>8
    <3>. QED  BY <2>1, <3>1
  <2>. QED  BY <1>8, <2>2
<1>. QED  BY <1>6, <1>9

-----------------------------------------------------------------------------
\* What the end of a game writes

\* What a seat can come to
Outcome == {"won", "lost", "drawn"}

\* The entries an update of one game is made of
EntriesOf(g) == [key : Keys, game : {g}, seat : Nat, result : Outcome]

\* The seats of a game are numbered, and every occupant is known.
LEMMA SeatsOfGame ==
    ASSUME NEW g \in Contests
    PROVE  /\ IsFiniteSet(DOMAIN Seating[g]) /\ DOMAIN Seating[g] \subseteq Nat
           /\ Cardinality(DOMAIN Seating[g]) = Len(Seating[g])
           /\ \A i \in DOMAIN Seating[g] : Seating[g][i].who \in Occupants
<1>1. Len(Seating[g]) \in Nat /\ DOMAIN Seating[g] = 1..Len(Seating[g])
  BY RatingsAssumption
<1>2. IsFiniteSet(1..Len(Seating[g])) /\ Cardinality(1..Len(Seating[g])) = Len(Seating[g])
  BY <1>1, FS_Interval
<1>. QED  BY <1>1, <1>2 DEF Occupants

\* The order of the teams lists the seats, each once.
LEMMA OrderOfTeams ==
    ASSUME NEW g \in Contests, NEW seats \in SUBSET DOMAIN Seating[g]
    PROVE  /\ TeamOrder(g, seats) \in Seq(seats)
           /\ Len(TeamOrder(g, seats)) = Cardinality(seats)
<1>. PICK town : town = seats \cap SeatsOn(g, {"TOWN"})
  OBVIOUS
<1>. PICK rest : rest = seats \ SeatsOn(g, {"TOWN"})
  OBVIOUS
<1>1. IsFiniteSet(seats) /\ seats \subseteq Nat
  BY SeatsOfGame, FS_Subset
<1>2. town \in SUBSET seats /\ rest \in SUBSET seats /\ town \cup rest = seats /\ town \cap rest = {}
  OBVIOUS
<1>3. IsFiniteSet(town) /\ IsFiniteSet(rest)
  BY <1>1, <1>2, FS_Subset
<1>4. /\ Ascending(town) \in Seq(town) /\ Len(Ascending(town)) = Cardinality(town) /\ Cardinality(town) \in Nat
      /\ Ascending(rest) \in Seq(rest) /\ Len(Ascending(rest)) = Cardinality(rest) /\ Cardinality(rest) \in Nat
  BY <1>1, <1>2, <1>3, AscendingList
<1>5. Cardinality(seats) = Cardinality(town) + Cardinality(rest)
  <2>1. Cardinality(town \cup rest) = Cardinality(town) + Cardinality(rest) - Cardinality(town \cap rest)
    BY <1>3, FS_Union
  <2>2. Cardinality(town \cap rest) = 0
    BY <1>2, FS_EmptySet
  <2>3. Cardinality(town) \in Nat /\ Cardinality(rest) \in Nat
    BY <1>4
  <2>4. Cardinality(town \cup rest) = Cardinality(town) + Cardinality(rest)
    BY <2>1, <2>2, <2>3
  <2>. QED  BY <1>2, <2>4
<1>6. Ascending(town) \in Seq(seats) /\ Ascending(rest) \in Seq(seats)
  BY <1>2, <1>4
<1>7. TeamOrder(g, seats) = Ascending(town) \o Ascending(rest)
  BY DEF TeamOrder
<1>. QED  BY <1>4, <1>5, <1>6, <1>7

\* An update is a list of entries about its game, as long as it should be, drawn if that is how
\* the game ended.
Fits(E, g, winner) ==
    /\ E \in Seq(EntriesOf(g)) /\ Len(E) = Due[g]
    /\ \A n \in 1..Len(E) : E[n].result = "drawn" <=> winner = "DRAW" /\ Ladder[g] # "solo"

\* A side wins, loses or draws, and draws exactly if the game is a draw.
LEMMA StandingType ==
    ASSUME NEW side, NEW winner
    PROVE  Standing(side, winner) \in Outcome /\ (Standing(side, winner) = "drawn" <=> winner = "DRAW")
BY DEF Standing, Outcome

\* update_ratings_for_game, one scope: an entry for each seat
LEMMA TeamEntriesFit ==
    ASSUME NEW g \in Contests, Ladder[g] = "team", NEW winner, NEW scopes,
           scopes = GlobalScope \/ scopes = FactionScope
    PROVE  LET E == TeamEntries(g, winner, scopes)
           IN  /\ E \in Seq(EntriesOf(g)) /\ Len(E) = Len(Seating[g])
               /\ \A n \in 1..Len(E) : E[n].result = "drawn" <=> winner = "DRAW"
<1>. PICK order : order = TeamOrder(g, DOMAIN Seating[g])
  OBVIOUS
<1>. PICK E : E = TeamEntries(g, winner, scopes)
  OBVIOUS
<1>1. order \in Seq(DOMAIN Seating[g]) /\ Len(order) = Len(Seating[g])
  BY OrderOfTeams, SeatsOfGame
<1>2. Len(order) \in Nat /\ DOMAIN order = 1..Len(order) /\ \A n \in 1..Len(order) : order[n] \in DOMAIN Seating[g]
  BY <1>1
<1>3. E = [n \in 1..Len(order) |->
              Entry(RatingKey("team", Seating[g][order[n]].who, scopes[Side(Seating[g][order[n]])]),
                    g, order[n], Standing(Side(Seating[g][order[n]]), winner))]
  BY <1>2 DEF TeamEntries
<1>4. ASSUME NEW n \in 1..Len(order)
      PROVE  E[n] \in EntriesOf(g) /\ (E[n].result = "drawn" <=> winner = "DRAW")
  <2>. PICK seat : seat = Seating[g][order[n]]
    OBVIOUS
  <2>1. seat.who \in Builds /\ order[n] \in Nat
    BY <1>2, SeatsOfGame, RatingsAssumption DEF Builds
  <2>2. Side(seat) \in {"TOWN", "MAFIA"}
    BY DEF Side
  <2>3. scopes[Side(seat)] \in {"GLOBAL", "TOWN", "MAFIA"}
    BY <2>2 DEF GlobalScope, FactionScope
  <2>. PICK k : k = RatingKey("team", seat.who, scopes[Side(seat)])
    OBVIOUS
  <2>4. k \in Keys
    BY <2>1, <2>3 DEF RatingKey, Keys, Rating
  <2>5. E[n] = Entry(k, g, order[n], Standing(Side(seat), winner))
    BY <1>3
  <2>6. E[n] = [key |-> k, game |-> g, seat |-> order[n], result |-> Standing(Side(seat), winner)]
    BY <2>5 DEF Entry
  <2>. QED  BY <2>1, <2>4, <2>6, StandingType DEF EntriesOf
<1>5. E \in [1..Len(order) -> EntriesOf(g)]
  BY <1>3, <1>4
<1>6. E \in Seq(EntriesOf(g)) /\ Len(E) = Len(Seating[g])
  <2>1. Len(order) \in Nat /\ Len(order) = Len(Seating[g])
    BY <1>1, <1>2
  <2>2. \A T, n, f : n \in Nat /\ f \in [1..n -> T] => f \in Seq(T) /\ Len(f) = n
    OBVIOUS
  <2>. QED  BY <2>1, <2>2, <1>5
<1>7. \A n \in 1..Len(E) : E[n].result = "drawn" <=> winner = "DRAW"
  BY <1>1, <1>4, <1>6
<1>. QED  BY <1>6, <1>7

\* update_ratings_for_game: the entries of both scopes
LEMMA TeamUpdateFits ==
    ASSUME NEW g \in Contests, Ladder[g] = "team", NEW winner
    PROVE  Fits(TeamUpdate(g, winner), g, winner)
<1>. PICK one : one = TeamEntries(g, winner, GlobalScope)
  OBVIOUS
<1>. PICK two : two = TeamEntries(g, winner, FactionScope)
  OBVIOUS
<1>1. /\ one \in Seq(EntriesOf(g)) /\ Len(one) = Len(Seating[g])
      /\ \A n \in 1..Len(one) : one[n].result = "drawn" <=> winner = "DRAW"
  BY TeamEntriesFit
<1>2. /\ two \in Seq(EntriesOf(g)) /\ Len(two) = Len(Seating[g])
      /\ \A n \in 1..Len(two) : two[n].result = "drawn" <=> winner = "DRAW"
  BY TeamEntriesFit
<1>. PICK E : E = one \o two
  OBVIOUS
<1>3. /\ E \in Seq(EntriesOf(g)) /\ Len(E) = Len(one) + Len(two)
      /\ \A n \in 1..Len(E) : E[n] = IF n =< Len(one) THEN one[n] ELSE two[n - Len(one)]
  BY <1>1, <1>2
<1>4. Len(Seating[g]) \in Nat
  BY RatingsAssumption
<1>5. ASSUME NEW n \in 1..Len(E) PROVE E[n].result = "drawn" <=> winner = "DRAW"
  <2>1. CASE n =< Len(one)
    BY <1>1, <1>3, <1>4, <2>1
  <2>2. CASE ~(n =< Len(one))
    <3>1. n - Len(one) \in 1..Len(two)
      BY <1>1, <1>2, <1>3, <1>4, <2>2
    <3>. QED  BY <1>2, <1>3, <2>2, <3>1
  <2>. QED  BY <2>1, <2>2
<1>6. Len(E) = Due[g]
  BY <1>1, <1>2, <1>3, <1>4 DEF Due
<1>. QED  BY <1>3, <1>5, <1>6 DEF Fits, TeamUpdate

\* update_human_ratings_for_game: an entry for each seat of a human
LEMMA HumanUpdateFits ==
    ASSUME NEW g \in Contests, Ladder[g] = "human", NEW winner
    PROVE  Fits(HumanUpdate(g, winner), g, winner)
<1>. PICK order : order = TeamOrder(g, HumanSeats(g))
  OBVIOUS
<1>. PICK E : E = HumanUpdate(g, winner)
  OBVIOUS
<1>1. HumanSeats(g) \in SUBSET DOMAIN Seating[g] /\ \A i \in HumanSeats(g) : Seating[g][i].who \in HumanPlayers
  BY DEF HumanSeats
<1>2. order \in Seq(HumanSeats(g)) /\ Len(order) = Cardinality(HumanSeats(g))
  BY <1>1, OrderOfTeams
<1>3. Len(order) \in Nat /\ DOMAIN order = 1..Len(order) /\ \A n \in 1..Len(order) : order[n] \in HumanSeats(g)
  BY <1>2
<1>4. E = [n \in 1..Len(order) |->
              Entry(RatingKey("human", Seating[g][order[n]].who, "GLOBAL"), g, order[n],
                    Standing(Seating[g][order[n]].side, winner))]
  BY <1>3 DEF HumanUpdate
<1>5. ASSUME NEW n \in 1..Len(order)
      PROVE  E[n] \in EntriesOf(g) /\ (E[n].result = "drawn" <=> winner = "DRAW")
  <2>. PICK seat : seat = Seating[g][order[n]]
    OBVIOUS
  <2>1. seat.who \in HumanPlayers /\ order[n] \in Nat
    BY <1>1, <1>3, SeatsOfGame
  <2>. PICK k : k = RatingKey("human", seat.who, "GLOBAL")
    OBVIOUS
  <2>4. k \in Keys
    BY <2>1 DEF RatingKey, Keys, HumanRating
  <2>5. E[n] = Entry(k, g, order[n], Standing(seat.side, winner))
    BY <1>4
  <2>6. E[n] = [key |-> k, game |-> g, seat |-> order[n], result |-> Standing(seat.side, winner)]
    BY <2>5 DEF Entry
  <2>. QED  BY <2>1, <2>4, <2>6, StandingType DEF EntriesOf
<1>6. E \in [1..Len(order) -> EntriesOf(g)]
  BY <1>4, <1>5
<1>7. E \in Seq(EntriesOf(g)) /\ Len(E) = Len(order)
  BY <1>3, <1>6
<1>8. Due[g] = Cardinality(HumanSeats(g))
  BY DEF Due
<1>. QED  BY <1>2, <1>5, <1>7, <1>8 DEF Fits

\* _ordered_attempts: an entry for each Jester, and no draws
LEMMA SoloUpdateFits ==
    ASSUME NEW g \in Contests, Ladder[g] = "solo", NEW winner
    PROVE  Fits(SoloUpdate(g, winner), g, winner)
<1>. PICK order : order = SoloAttempts(g)
  OBVIOUS
<1>. PICK E : E = SoloUpdate(g, winner)
  OBVIOUS
<1>1. SeatsOn(g, {"JESTER"}) \in SUBSET DOMAIN Seating[g]
  BY DEF SeatsOn
<1>2. IsFiniteSet(SeatsOn(g, {"JESTER"})) /\ SeatsOn(g, {"JESTER"}) \subseteq Nat
  BY <1>1, SeatsOfGame, FS_Subset
<1>3. order \in Seq(SeatsOn(g, {"JESTER"})) /\ Len(order) = Cardinality(SeatsOn(g, {"JESTER"}))
  BY <1>2, AscendingList DEF SoloAttempts
<1>4. /\ Len(order) \in Nat /\ DOMAIN order = 1..Len(order)
      /\ \A n \in 1..Len(order) : order[n] \in DOMAIN Seating[g] /\ order[n] \in Nat
  BY <1>1, <1>2, <1>3
<1>5. E = [n \in 1..Len(order) |->
              Entry(RatingKey("solo", Seating[g][order[n]].who, "JESTER"), g, order[n],
                    IF winner = "JESTER" THEN "won" ELSE "lost")]
  BY <1>4 DEF SoloUpdate
<1>6. ASSUME NEW n \in 1..Len(order)
      PROVE  E[n] \in EntriesOf(g) /\ E[n].result # "drawn"
  <2>. PICK seat : seat = Seating[g][order[n]]
    OBVIOUS
  <2>1. seat.who \in Builds /\ order[n] \in Nat
    BY <1>4, SeatsOfGame, RatingsAssumption DEF Builds
  <2>. PICK k : k = RatingKey("solo", seat.who, "JESTER")
    OBVIOUS
  <2>. PICK result : result = IF winner = "JESTER" THEN "won" ELSE "lost"
    OBVIOUS
  <2>4. k \in Keys
    BY <2>1 DEF RatingKey, Keys, SoloRateRating
  <2>5. E[n] = Entry(k, g, order[n], result)
    BY <1>5
  <2>6. E[n] = [key |-> k, game |-> g, seat |-> order[n], result |-> result]
    BY <2>5 DEF Entry
  <2>. QED  BY <2>1, <2>4, <2>6 DEF EntriesOf, Outcome
<1>7. E \in [1..Len(order) -> EntriesOf(g)]
  BY <1>5, <1>6
<1>8. E \in Seq(EntriesOf(g)) /\ Len(E) = Len(order)
  BY <1>4, <1>7
<1>9. Due[g] = Cardinality(SeatsOn(g, {"JESTER"}))
  BY DEF Due
<1>. QED  BY <1>3, <1>6, <1>8, <1>9 DEF Fits

\* _apply_placement_scope_update: an entry for each build
LEMMA PlacementUpdateFits ==
    ASSUME NEW g \in Contests, Ladder[g] = "placement", NEW winner
    PROVE  Fits(PlacementUpdate(g, winner), g, winner)
<1>. PICK order : order = Ascending(FirstSeats(g))
  OBVIOUS
<1>. PICK E : E = PlacementUpdate(g, winner)
  OBVIOUS
<1>1. FirstSeats(g) \in SUBSET DOMAIN Seating[g]
  BY DEF FirstSeats
<1>2. IsFiniteSet(FirstSeats(g)) /\ FirstSeats(g) \subseteq Nat
  BY <1>1, SeatsOfGame, FS_Subset
<1>3. order \in Seq(FirstSeats(g)) /\ Len(order) = Cardinality(FirstSeats(g))
  BY <1>2, AscendingList
<1>4. /\ Len(order) \in Nat /\ DOMAIN order = 1..Len(order)
      /\ \A n \in 1..Len(order) : order[n] \in DOMAIN Seating[g] /\ order[n] \in Nat
  BY <1>1, <1>2, <1>3
<1>5. E = [n \in 1..Len(order) |->
              Entry(RatingKey("placement", Seating[g][order[n]].who, "GLOBAL"), g, order[n],
                    Standing(Seating[g][order[n]].side, winner))]
  BY <1>4 DEF PlacementUpdate
<1>6. ASSUME NEW n \in 1..Len(order)
      PROVE  E[n] \in EntriesOf(g) /\ (E[n].result = "drawn" <=> winner = "DRAW")
  <2>. PICK seat : seat = Seating[g][order[n]]
    OBVIOUS
  <2>1. seat.who \in Builds /\ order[n] \in Nat
    BY <1>4, SeatsOfGame, RatingsAssumption DEF Builds
  <2>. PICK k : k = RatingKey("placement", seat.who, "GLOBAL")
    OBVIOUS
  <2>4. k \in Keys
    BY <2>1 DEF RatingKey, Keys, PlacementRating
  <2>5. E[n] = Entry(k, g, order[n], Standing(seat.side, winner))
    BY <1>5
  <2>6. E[n] = [key |-> k, game |-> g, seat |-> order[n], result |-> Standing(seat.side, winner)]
    BY <2>5 DEF Entry
  <2>. QED  BY <2>1, <2>4, <2>6, StandingType DEF EntriesOf
<1>7. E \in [1..Len(order) -> EntriesOf(g)]
  BY <1>5, <1>6
<1>8. E \in Seq(EntriesOf(g)) /\ Len(E) = Len(order)
  BY <1>4, <1>7
<1>9. Due[g] = Cardinality(FirstSeats(g))
  BY DEF Due
<1>. QED  BY <1>3, <1>6, <1>8, <1>9 DEF Fits

\* Whatever the ladder, what the end of a game writes fits the game.
LEMMA EntriesFit ==
    ASSUME NEW g \in Contests, NEW winner \in TerminalResults[g]
    PROVE  Fits(Entries[g][winner], g, winner)
<1>1. Ladder[g] \in {"team", "placement", "solo", "human"}
  BY RatingsAssumption DEF RatingContext
<1>. PICK E : E = Entries[g][winner]
  OBVIOUS
<1>2. /\ Ladder[g] = "team" => E = TeamUpdate(g, winner)
      /\ Ladder[g] = "human" => E = HumanUpdate(g, winner)
      /\ Ladder[g] = "solo" => E = SoloUpdate(g, winner)
      /\ Ladder[g] = "placement" => E = PlacementUpdate(g, winner)
  BY DEF Entries
<1>. QED  BY <1>1, <1>2, TeamUpdateFits, HumanUpdateFits, SoloUpdateFits, PlacementUpdateFits

-----------------------------------------------------------------------------
\* The audit rows of an update

\* Rows of the ladders and of the audit tables
RatingRow == [value : AuditTrail, games : Nat, at : Nat]

LedgerRow ==
    [key : Keys, game : Contests, seat : Nat, result : Outcome,
     before : AuditTrail, after : AuditTrail]

\* A session holds a row for every key, read or new, and the audit rows it will insert.
SessionOK(S) == S.rows \in [Keys -> RatingRow] /\ S.events \in Seq(LedgerRow)

\* The audit rows that one update adds
AuditOfUpdate(S, E) == [n \in 1..Len(E) |-> AuditRow(S, E, n)]

\* An audit row tells of the seat and the result of its entry.
SameSeat(row, e) ==
    row.key = e.key /\ row.game = e.game /\ row.seat = e.seat /\ row.result = e.result

\* The entries of an update on one row, and the last of some of them
LEMMA EntriesOnAKey ==
    ASSUME NEW g \in Contests, NEW E \in Seq(EntriesOf(g)), NEW k
    PROVE  /\ EntriesOn(k, E) = {n \in 1..Len(E) : E[n].key = k}
           /\ IsFiniteSet(EntriesOn(k, E)) /\ Cardinality(EntriesOn(k, E)) \in Nat
           /\ \A s \in SUBSET EntriesOn(k, E) :
                 s # {} => LastOf(s) \in s /\ \A m \in s : m =< LastOf(s)
<1>1. Len(E) \in Nat /\ DOMAIN E = 1..Len(E)
  OBVIOUS
<1>2. EntriesOn(k, E) = {n \in 1..Len(E) : E[n].key = k}
  BY <1>1 DEF EntriesOn
<1>3. EntriesOn(k, E) \in SUBSET (1..Len(E))
  BY <1>2
<1>4. IsFiniteSet(EntriesOn(k, E)) /\ Cardinality(EntriesOn(k, E)) \in Nat
  <2>1. IsFiniteSet(1..Len(E))
    BY <1>1, FS_Interval
  <2>. QED  BY <1>3, <2>1, FS_Subset, FS_CardinalityType
<1>5. ASSUME NEW s \in SUBSET EntriesOn(k, E), s # {}
      PROVE  LastOf(s) \in s /\ \A m \in s : m =< LastOf(s)
  <2>1. s \subseteq Nat /\ \A m \in s : m =< Len(E)
    BY <1>1, <1>3
  <2>. QED  BY <1>1, <1>5, <2>1, LastNumber
<1>. QED  BY <1>2, <1>4, <1>5

\* What a row is after an entry
LEMMA EntryAppended ==
    ASSUME NEW g \in Contests, NEW e \in EntriesOf(g), NEW S, SessionOK(S)
    PROVE  WithEntry(S, e) \in AuditTrail /\ S.rows[e.key].value \in AuditTrail
<1>1. e.key \in Keys /\ [game |-> e.game, result |-> e.result] \in [game : Contests, result : {"won", "lost", "drawn"}]
  BY DEF EntriesOf, Outcome
<1>2. S.rows[e.key] \in RatingRow
  BY <1>1 DEF SessionOK
<1>3. S.rows[e.key].value \in AuditTrail
  BY <1>2 DEF RatingRow
<1>4. Append(S.rows[e.key].value, [game |-> e.game, result |-> e.result]) \in AuditTrail
  BY <1>1, <1>3 DEF AuditTrail
<1>. QED  BY <1>3, <1>4 DEF WithEntry

\* An audit row is about the seat of its entry.
LEMMA AuditRowShape ==
    ASSUME NEW g \in Contests, NEW E \in Seq(EntriesOf(g)), NEW S, SessionOK(S), NEW n \in 1..Len(E)
    PROVE  AuditRow(S, E, n) \in LedgerRow /\ SameSeat(AuditRow(S, E, n), E[n])
<1>. PICK e : e = E[n]
  OBVIOUS
<1>1. e \in EntriesOf(g)
  OBVIOUS
<1>. PICK earlier : earlier = {m \in EntriesOn(e.key, E) : m < n}
  OBVIOUS
<1>. PICK before :
        before = IF earlier = {} THEN S.rows[e.key].value ELSE WithEntry(S, E[LastOf(earlier)])
  OBVIOUS
<1>2. before \in AuditTrail
  <2>1. CASE earlier = {}
    BY <1>1, <2>1, EntryAppended
  <2>2. CASE earlier # {}
    <3>1. earlier \in SUBSET EntriesOn(e.key, E)
      OBVIOUS
    <3>2. LastOf(earlier) \in EntriesOn(e.key, E)
      BY <2>2, <3>1, EntriesOnAKey
    <3>3. LastOf(earlier) \in 1..Len(E)
      BY <3>2, EntriesOnAKey
    <3>4. E[LastOf(earlier)] \in EntriesOf(g)
      BY <3>3
    <3>. QED  BY <2>2, <3>4, EntryAppended
  <2>. QED  BY <2>1, <2>2
<1>3. AuditRow(S, E, n) =
        [key |-> e.key, game |-> e.game, seat |-> e.seat, result |-> e.result,
         after |-> WithEntry(S, e), before |-> before]
  BY DEF AuditRow
<1>4. WithEntry(S, e) \in AuditTrail
  BY <1>1, EntryAppended
<1>5. e.key \in Keys /\ e.game \in Contests /\ e.seat \in Nat /\ e.result \in Outcome
  BY <1>1 DEF EntriesOf
<1>. QED  BY <1>2, <1>3, <1>4, <1>5 DEF LedgerRow, SameSeat

\* A row stays a row.
LEMMA UpdatedRowShape ==
    ASSUME NEW g \in Contests, NEW E \in Seq(EntriesOf(g)), NEW S, SessionOK(S), NEW k \in Keys,
           ledger \in Seq(LedgerRow)
    PROVE  UpdatedRow(S, E, k) \in RatingRow
<1>. PICK row : row = S.rows[k]
  OBVIOUS
<1>. PICK mine : mine = EntriesOn(k, E)
  OBVIOUS
<1>1. row \in RatingRow /\ row.games \in Nat /\ row.at \in Nat
  BY DEF SessionOK, RatingRow
<1>2. CASE mine = {}
  BY <1>1, <1>2 DEF UpdatedRow
<1>3. CASE mine # {}
  <2>1. LastOf(mine) \in mine /\ Cardinality(mine) \in Nat
    BY <1>3, EntriesOnAKey
  <2>2. E[LastOf(mine)] \in EntriesOf(g)
    <3>1. LastOf(mine) \in 1..Len(E)
      BY <2>1, EntriesOnAKey
    <3>. QED  BY <3>1
  <2>. PICK value : value = WithEntry(S, E[LastOf(mine)])
    OBVIOUS
  <2>3. value \in AuditTrail
    BY <2>2, EntryAppended
  <2>. PICK at : at = IF row.games = 0 \/ k.ladder = "solo" THEN Len(ledger) + 1 ELSE row.at
    OBVIOUS
  <2>4. at \in Nat
    BY <1>1
  <2>5. UpdatedRow(S, E, k) = [value |-> value, games |-> row.games + Cardinality(mine), at |-> at]
    BY <1>3 DEF UpdatedRow
  <2>6. row.games + Cardinality(mine) \in Nat
    BY <1>1, <2>1
  <2>. QED  BY <2>3, <2>4, <2>5, <2>6 DEF RatingRow
<1>. QED  BY <1>2, <1>3

\* _persist_one leaves a session that is well formed, with an audit row for each entry.
LEMMA WrittenShape ==
    ASSUME NEW g \in Contests, NEW E \in Seq(EntriesOf(g)), NEW S, SessionOK(S),
           ledger \in Seq(LedgerRow)
    PROVE  /\ AuditOfUpdate(S, E) \in Seq(LedgerRow) /\ Len(AuditOfUpdate(S, E)) = Len(E)
           /\ \A n \in 1..Len(E) :
                 /\ AuditOfUpdate(S, E)[n] = AuditRow(S, E, n)
                 /\ SameSeat(AuditOfUpdate(S, E)[n], E[n])
           /\ Written(S, E).events = S.events \o AuditOfUpdate(S, E)
           /\ \A k \in Keys : Written(S, E).rows[k] = UpdatedRow(S, E, k)
           /\ SessionOK(Written(S, E))
<1>1. Len(E) \in Nat /\ DOMAIN E = 1..Len(E)
  OBVIOUS
<1>2. \A n \in 1..Len(E) : AuditRow(S, E, n) \in LedgerRow /\ SameSeat(AuditRow(S, E, n), E[n])
  BY AuditRowShape
<1>. PICK A : A = AuditOfUpdate(S, E)
  OBVIOUS
<1>3. A = [n \in 1..Len(E) |-> AuditRow(S, E, n)]
  BY DEF AuditOfUpdate
<1>4. A \in [1..Len(E) -> LedgerRow]
  BY <1>2, <1>3
<1>5. A \in Seq(LedgerRow) /\ Len(A) = Len(E)
  BY <1>1, <1>4
<1>6. DOMAIN S.rows = Keys
  BY DEF SessionOK
<1>7. Written(S, E) = [rows |-> [k \in Keys |-> UpdatedRow(S, E, k)], events |-> S.events \o A]
  BY <1>1, <1>3, <1>6 DEF Written
<1>8. [k \in Keys |-> UpdatedRow(S, E, k)] \in [Keys -> RatingRow]
  BY UpdatedRowShape
<1>9. S.events \o A \in Seq(LedgerRow)
  BY <1>5 DEF SessionOK
<1>10. SessionOK(Written(S, E))
  BY <1>7, <1>8, <1>9 DEF SessionOK
<1>11. \A k \in Keys : Written(S, E).rows[k] = UpdatedRow(S, E, k)
  BY <1>7
<1>12. \A n \in 1..Len(E) : A[n] = AuditRow(S, E, n) /\ SameSeat(A[n], E[n])
  BY <1>2, <1>3
<1>. QED  BY <1>5, <1>7, <1>10, <1>11, <1>12

-----------------------------------------------------------------------------
\* A row that its audit rows explain is still explained after an update

\* The positions that are about a row
ByKey(k, log) == {n \in DOMAIN log : log[n].key = k}

\* What it is for a row to be explained, by the positions of its audit rows
LEMMA ExplainedBy ==
    ASSUME NEW k, NEW row, NEW log
    PROVE  Explained(k, row, log) <=>
              /\ row.games = Cardinality(ByKey(k, log))
              /\ ByKey(k, log) = {} => row.value = <<>>
              /\ \A n \in ByKey(k, log) :
                    /\ (\A m \in ByKey(k, log) : m =< n) => row.value = log[n].after
                    /\ (\A m \in ByKey(k, log) : n =< m) => log[n].before = <<>>
                    /\ \A m \in ByKey(k, log) : m < n /\ (\A l \in ByKey(k, log) : l =< m \/ n =< l) =>
                          log[n].before = log[m].after
BY DEF Explained, ByKey

\* The positions of an appended list follow those of the log.
LEMMA ByKeyAppended ==
    ASSUME NEW M \in Seq(LedgerRow), NEW A \in Seq(LedgerRow), NEW k
    PROVE  /\ \A n : n \in ByKey(k, M \o A) <=>
                     n \in ByKey(k, M) \/ \E i \in ByKey(k, A) : n = Len(M) + i
           /\ \A n \in ByKey(k, M) : n \in 1..Len(M) /\ (M \o A)[n] = M[n]
           /\ \A n \in ByKey(k, A) : n \in 1..Len(A) /\ (M \o A)[Len(M) + n] = A[n]
           /\ IsFiniteSet(ByKey(k, M)) /\ IsFiniteSet(ByKey(k, A))
           /\ Cardinality(ByKey(k, M)) \in Nat /\ Cardinality(ByKey(k, A)) \in Nat
           /\ Cardinality(ByKey(k, M \o A)) = Cardinality(ByKey(k, M)) + Cardinality(ByKey(k, A))
<1>. PICK log : log = M \o A
  OBVIOUS
<1>. PICK a : a = Len(M)
  OBVIOUS
<1>. PICK b : b = Len(A)
  OBVIOUS
<1>1. /\ a \in Nat /\ b \in Nat /\ DOMAIN M = 1..a /\ DOMAIN A = 1..b /\ DOMAIN log = 1..(a + b)
      /\ \A n \in 1..(a + b) : log[n] = IF n =< a THEN M[n] ELSE A[n - a]
  OBVIOUS
<1>. PICK old : old = ByKey(k, M)
  OBVIOUS
<1>. PICK new : new = ByKey(k, A)
  OBVIOUS
<1>2. old = {n \in 1..a : M[n].key = k} /\ new = {n \in 1..b : A[n].key = k}
  BY <1>1 DEF ByKey
<1>. PICK shifted : shifted = {a + n : n \in new}
  OBVIOUS
<1>3. \A n \in old : n \in 1..a /\ log[n] = M[n]
  BY <1>1, <1>2
<1>4. \A n \in new : n \in 1..b /\ log[a + n] = A[n]
  <2>. SUFFICES ASSUME NEW n \in new PROVE n \in 1..b /\ log[a + n] = A[n]
    OBVIOUS
  <2>1. n \in 1..b
    BY <1>2
  <2>2. a + n \in 1..(a + b) /\ ~(a + n =< a) /\ (a + n) - a = n
    BY <1>1, <2>1
  <2>3. log[a + n] = A[(a + n) - a]
    BY <1>1, <2>2
  <2>. QED  BY <2>1, <2>2, <2>3
<1>5. ByKey(k, log) = old \cup shifted
  <2>1. ASSUME NEW n \in ByKey(k, log) PROVE n \in old \cup shifted
    <3>1. n \in 1..(a + b) /\ log[n].key = k
      BY <1>1 DEF ByKey
    <3>2. CASE n =< a
      <4>1. n \in 1..a /\ log[n] = M[n]
        BY <1>1, <3>1, <3>2
      <4>. QED  BY <1>2, <3>1, <4>1
    <3>3. CASE ~(n =< a)
      <4>1. n - a \in 1..b /\ log[n] = A[n - a] /\ n = a + (n - a)
        BY <1>1, <3>1, <3>3
      <4>2. n - a \in new
        BY <1>2, <3>1, <4>1
      <4>. QED  BY <4>1, <4>2
    <3>. QED  BY <3>2, <3>3
  <2>2. ASSUME NEW n \in old PROVE n \in ByKey(k, log)
    <3>1. n \in 1..a /\ M[n].key = k /\ log[n] = M[n]
      BY <1>2, <1>3
    <3>2. n \in 1..(a + b)
      BY <1>1, <3>1
    <3>. QED  BY <1>1, <3>1, <3>2 DEF ByKey
  <2>3. ASSUME NEW n \in new PROVE a + n \in ByKey(k, log)
    <3>1. n \in 1..b /\ A[n].key = k /\ log[a + n] = A[n]
      BY <1>2, <1>4
    <3>2. a + n \in 1..(a + b)
      BY <1>1, <3>1
    <3>. QED  BY <1>1, <3>1, <3>2 DEF ByKey
  <2>. QED  BY <2>1, <2>2, <2>3
<1>6. IsFiniteSet(old) /\ IsFiniteSet(new) /\ Cardinality(old) \in Nat /\ Cardinality(new) \in Nat
  <2>1. old \in SUBSET (1..a) /\ new \in SUBSET (1..b)
    BY <1>2
  <2>2. IsFiniteSet(1..a) /\ IsFiniteSet(1..b)
    BY <1>1, FS_Interval
  <2>3. IsFiniteSet(old) /\ IsFiniteSet(new)
    BY <2>1, <2>2, FS_Subset
  <2>. QED  BY <2>3, FS_CardinalityType
<1>7. IsFiniteSet(shifted) /\ Cardinality(shifted) = Cardinality(new)
  <2>. PICK f : f = [n \in new |-> a + n]
    OBVIOUS
  <2>1. f \in Bijection(new, shifted)
    <3>1. \A n \in new : n \in Nat
      BY <1>1, <1>2
    <3>2. f \in [new -> shifted]
      OBVIOUS
    <3>3. \A m, n \in new : f[m] = f[n] => m = n
      BY <1>1, <3>1
    <3>4. \A t \in shifted : \E n \in new : f[n] = t
      OBVIOUS
    <3>5. f \in Injection(new, shifted)
      BY <3>2, <3>3 DEF Injection, IsInjective
    <3>6. f \in Surjection(new, shifted)
      BY <3>2, <3>4 DEF Surjection
    <3>. QED  BY <3>5, <3>6 DEF Bijection
  <2>. QED  BY <1>6, <2>1, FS_Bijection DEF ExistsBijection
<1>8. Cardinality(old \cup shifted) = Cardinality(old) + Cardinality(new)
  <2>1. old \cap shifted = {}
    BY <1>1, <1>2
  <2>2. Cardinality(old \cap shifted) = 0
    BY <2>1, FS_EmptySet
  <2>3. Cardinality(old \cup shifted) = Cardinality(old) + Cardinality(shifted) - Cardinality(old \cap shifted)
    <3>1. IsFiniteSet(old) /\ IsFiniteSet(shifted)
      BY <1>6, <1>7
    <3>. QED  BY <3>1, FS_Union
  <2>. QED  BY <1>6, <1>7, <2>2, <2>3
<1>9. \A n : n \in ByKey(k, log) <=> n \in old \/ \E i \in new : n = a + i
  BY <1>5
<1>10. Cardinality(ByKey(k, log)) = Cardinality(old) + Cardinality(new)
  BY <1>5, <1>8
<1>. QED  BY <1>3, <1>4, <1>6, <1>9, <1>10

\* Audit rows of other keys explain nothing away.
LEMMA ExplainedGrows ==
    ASSUME NEW M \in Seq(LedgerRow), NEW A \in Seq(LedgerRow), NEW k, NEW row,
           Explained(k, row, M), ByKey(k, A) = {}
    PROVE  Explained(k, row, M \o A)
<1>. DEFINE log == M \o A
<1>. DEFINE mine == ByKey(k, M)
<1>1. /\ \A n : n \in ByKey(k, M \o A) <=>
                n \in ByKey(k, M) \/ \E i \in ByKey(k, A) : n = Len(M) + i
      /\ \A n \in ByKey(k, M) : (M \o A)[n] = M[n]
  BY ByKeyAppended
<1>2. ByKey(k, log) = mine /\ \A n \in mine : log[n] = M[n]
  BY <1>1
<1>3. /\ row.games = Cardinality(mine)
      /\ mine = {} => row.value = <<>>
      /\ \A n \in mine :
            /\ (\A m \in mine : m =< n) => row.value = M[n].after
            /\ (\A m \in mine : n =< m) => M[n].before = <<>>
            /\ \A m \in mine : m < n /\ (\A l \in mine : l =< m \/ n =< l) =>
                  M[n].before = M[m].after
  BY ExplainedBy
<1>4. ByKey(k, log) = mine /\ \A n \in mine : log[n] = M[n]
  BY <1>2
<1>. HIDE DEF log, mine
<1>5. /\ row.games = Cardinality(mine)
      /\ mine = {} => row.value = <<>>
      /\ \A n \in mine :
            /\ (\A m \in mine : m =< n) => row.value = log[n].after
            /\ (\A m \in mine : n =< m) => log[n].before = <<>>
            /\ \A m \in mine : m < n /\ (\A l \in mine : l =< m \/ n =< l) =>
                  log[n].before = log[m].after
  BY <1>3, <1>4
<1>6. Explained(k, row, log)
  BY <1>4, <1>5, ExplainedBy
<1>. QED  BY <1>6 DEF log

\* What an update adds to a row of the session: the rows of its list are numbered from zero.
LEMMA UpdateOfARow ==
    ASSUME NEW g \in Contests, NEW E \in Seq(EntriesOf(g)), NEW S, SessionOK(S), NEW k \in Keys,
           ledger \in Seq(LedgerRow), NEW A, A = AuditOfUpdate(S, E), NEW row, row = UpdatedRow(S, E, k)
    PROVE  /\ ByKey(k, A) = EntriesOn(k, E)
           /\ ByKey(k, A) = {} => row = S.rows[k]
           /\ row.games = S.rows[k].games + Cardinality(ByKey(k, A))
           /\ \A n \in ByKey(k, A) :
                 /\ (\A m \in ByKey(k, A) : m =< n) => row.value = A[n].after
                 /\ (\A m \in ByKey(k, A) : n =< m) => A[n].before = S.rows[k].value
                 /\ \A m \in ByKey(k, A) : m < n /\ (\A l \in ByKey(k, A) : l =< m \/ n =< l) =>
                       A[n].before = A[m].after
<1>. PICK mine : mine = EntriesOn(k, E)
  OBVIOUS
<1>1. /\ mine = {n \in 1..Len(E) : E[n].key = k} /\ IsFiniteSet(mine) /\ Cardinality(mine) \in Nat
      /\ \A s \in SUBSET mine : s # {} => LastOf(s) \in s /\ \A m \in s : m =< LastOf(s)
  BY EntriesOnAKey
<1>2. Len(E) \in Nat /\ Len(A) = Len(E) /\ A \in Seq(LedgerRow) /\ DOMAIN A = 1..Len(E)
  BY WrittenShape
<1>3. \A n \in 1..Len(E) : A[n] = AuditRow(S, E, n) /\ SameSeat(A[n], E[n])
  BY WrittenShape
<1>4. ByKey(k, A) = mine
  BY <1>1, <1>2, <1>3 DEF ByKey, SameSeat
<1>5. ASSUME NEW n \in mine
      PROVE  LET earlier == {m \in mine : m < n}
             IN  /\ A[n].after = WithEntry(S, E[n])
                 /\ A[n].before = IF earlier = {} THEN S.rows[k].value ELSE WithEntry(S, E[LastOf(earlier)])
  <2>1. n \in 1..Len(E) /\ E[n].key = k
    BY <1>1
  <2>2. A[n] = AuditRow(S, E, n)
    BY <1>3, <2>1
  <2>. PICK earlier : earlier = {m \in mine : m < n}
    OBVIOUS
  <2>. PICK before :
          before = IF earlier = {} THEN S.rows[k].value ELSE WithEntry(S, E[LastOf(earlier)])
    OBVIOUS
  <2>3. AuditRow(S, E, n) =
          [key |-> E[n].key, game |-> E[n].game, seat |-> E[n].seat, result |-> E[n].result,
           after |-> WithEntry(S, E[n]), before |-> before]
    BY <2>1 DEF AuditRow
  <2>. QED  BY <2>2, <2>3
<1>6. S.rows[k] \in RatingRow /\ S.rows[k].games \in Nat
  BY DEF SessionOK, RatingRow
<1>7. CASE mine = {}
  <2>1. row = S.rows[k]
    BY <1>7 DEF UpdatedRow
  <2>2. Cardinality(mine) = 0
    BY <1>7, FS_EmptySet
  <2>. QED  BY <1>4, <1>6, <1>7, <2>1, <2>2
<1>8. CASE mine # {}
  <2>1. row = [value |-> WithEntry(S, E[LastOf(mine)]),
               games |-> S.rows[k].games + Cardinality(mine),
               at |-> IF S.rows[k].games = 0 \/ k.ladder = "solo" THEN Len(ledger) + 1 ELSE S.rows[k].at]
    BY <1>8 DEF UpdatedRow
  <2>2. row.games = S.rows[k].games + Cardinality(mine) /\ row.value = WithEntry(S, E[LastOf(mine)])
    BY <2>1
  <2>3. \A n \in mine : n \in Nat
    BY <1>1
  <2>4. ASSUME NEW n \in mine, \A m \in mine : m =< n PROVE row.value = A[n].after
    <3>1. LastOf(mine) \in mine /\ \A m \in mine : m =< LastOf(mine)
      BY <1>1, <1>8
    <3>2. LastOf(mine) = n
      BY <2>3, <2>4, <3>1
    <3>. QED  BY <1>5, <2>2, <3>2
  <2>5. ASSUME NEW n \in mine, \A m \in mine : n =< m PROVE A[n].before = S.rows[k].value
    <3>1. {m \in mine : m < n} = {}
      BY <2>3, <2>5
    <3>. QED  BY <1>5, <3>1
  <2>6. ASSUME NEW n \in mine, NEW m \in mine, m < n, \A l \in mine : l =< m \/ n =< l
        PROVE  A[n].before = A[m].after
    <3>. PICK earlier : earlier = {l \in mine : l < n}
      OBVIOUS
    <3>1. m \in earlier /\ earlier \in SUBSET mine
      BY <2>6
    <3>2. LastOf(earlier) \in earlier /\ \A l \in earlier : l =< LastOf(earlier)
      BY <1>1, <3>1
    <3>3. LastOf(earlier) = m
      BY <2>3, <2>6, <3>1, <3>2
    <3>4. A[n].before = WithEntry(S, E[LastOf(earlier)])
      BY <1>5, <3>1
    <3>. QED  BY <1>5, <3>3, <3>4
  <2>. QED  BY <1>4, <1>8, <2>2, <2>4, <2>5, <2>6
<1>. QED  BY <1>7, <1>8

\* Appending is associative.
LEMMA Appended ==
    ASSUME NEW s \in Seq(LedgerRow), NEW t \in Seq(LedgerRow), NEW u \in Seq(LedgerRow)
    PROVE  s \o (t \o u) = (s \o t) \o u
<1>1. /\ Len(s) \in Nat /\ Len(t) \in Nat /\ Len(u) \in Nat
      /\ s \o t \in Seq(LedgerRow) /\ Len(s \o t) = Len(s) + Len(t)
      /\ t \o u \in Seq(LedgerRow) /\ Len(t \o u) = Len(t) + Len(u)
  OBVIOUS
<1>. PICK x : x = s \o (t \o u)
  OBVIOUS
<1>. PICK y : y = (s \o t) \o u
  OBVIOUS
<1>. PICK n : n = Len(s) + Len(t) + Len(u)
  OBVIOUS
<1>2. x = [i \in 1..n |-> x[i]] /\ y = [i \in 1..n |-> y[i]]
  <2>1. x \in Seq(LedgerRow) /\ Len(x) = n /\ y \in Seq(LedgerRow) /\ Len(y) = n
    BY <1>1
  <2>2. \A z \in Seq(LedgerRow) : z = [i \in 1..Len(z) |-> z[i]]
    OBVIOUS
  <2>. QED  BY <2>1, <2>2
<1>3. ASSUME NEW i \in 1..n PROVE x[i] = y[i]
  BY <1>1
<1>. QED  BY <1>2, <1>3

\* An update that starts from an explained row leaves an explained row.
LEMMA WrittenExplains ==
    ASSUME NEW g \in Contests, NEW E \in Seq(EntriesOf(g)), NEW S, SessionOK(S), NEW k \in Keys,
           ledger \in Seq(LedgerRow), NEW L \in Seq(LedgerRow),
           Explained(k, S.rows[k], L \o S.events)
    PROVE  Explained(k, Written(S, E).rows[k], L \o Written(S, E).events)
<1>. DEFINE A == AuditOfUpdate(S, E)
<1>. DEFINE M == L \o S.events
<1>. DEFINE row == UpdatedRow(S, E, k)
<1>. DEFINE log == M \o A
<1>1. M \in Seq(LedgerRow) /\ A \in Seq(LedgerRow)
  <2>1. S.events \in Seq(LedgerRow)
    BY DEF SessionOK
  <2>. QED  BY <2>1, WrittenShape
<1>2. Written(S, E).rows[k] = row /\ L \o Written(S, E).events = log
  <2>1. Written(S, E).events = S.events \o A /\ Written(S, E).rows[k] = row
    BY WrittenShape
  <2>2. S.events \in Seq(LedgerRow)
    BY DEF SessionOK
  <2>3. L \o (S.events \o A) = (L \o S.events) \o A
    <3>1. A \in Seq(LedgerRow)
      BY <1>1
    <3>. QED  BY <2>2, <3>1, Appended
  <2>. QED  BY <2>1, <2>3
<1>. HIDE DEF A, M
<1>. DEFINE old == ByKey(k, M)
<1>. DEFINE new == ByKey(k, A)
<1>. DEFINE all == ByKey(k, log)
<1>. DEFINE a == Len(M)
<1>3. /\ \A n : n \in all <=> n \in old \/ \E i \in new : n = a + i
      /\ a \in Nat
      /\ \A n \in old : n \in 1..a /\ log[n] = M[n]
      /\ \A n \in new : n \in 1..Len(A) /\ log[a + n] = A[n]
      /\ Cardinality(all) = Cardinality(old) + Cardinality(new)
  <2>1. \A n : n \in ByKey(k, M \o A) <=>
               n \in ByKey(k, M) \/ \E i \in ByKey(k, A) : n = Len(M) + i
    BY <1>1, ByKeyAppended
  <2>4. \A n \in ByKey(k, M) : n \in 1..Len(M) /\ (M \o A)[n] = M[n]
    BY <1>1, ByKeyAppended
  <2>5. ASSUME NEW n \in ByKey(k, A) PROVE n \in 1..Len(A) /\ (M \o A)[Len(M) + n] = A[n]
    <3>1. n \in 1..Len(A)
      BY <1>1 DEF ByKey
    <3>. QED  BY <1>1, <3>1
  <2>2. Cardinality(ByKey(k, M \o A)) = Cardinality(ByKey(k, M)) + Cardinality(ByKey(k, A))
    BY <1>1, ByKeyAppended
  <2>3. a \in Nat
    BY <1>1
  <2>. QED  BY <2>1, <2>2, <2>3, <2>4, <2>5
<1>4. /\ S.rows[k].games = Cardinality(old)
      /\ old = {} => S.rows[k].value = <<>>
      /\ \A n \in old :
            /\ (\A m \in old : m =< n) => S.rows[k].value = M[n].after
            /\ (\A m \in old : n =< m) => M[n].before = <<>>
            /\ \A m \in old : m < n /\ (\A l \in old : l =< m \/ n =< l) =>
                  M[n].before = M[m].after
  <2>1. Explained(k, S.rows[k], M)
    BY DEF M
  <2>. QED  BY <2>1, ExplainedBy
<1>5. /\ new = {} => row = S.rows[k]
      /\ row.games = S.rows[k].games + Cardinality(new)
      /\ \A n \in new :
            /\ (\A m \in new : m =< n) => row.value = A[n].after
            /\ (\A m \in new : n =< m) => A[n].before = S.rows[k].value
            /\ \A m \in new : m < n /\ (\A l \in new : l =< m \/ n =< l) =>
                  A[n].before = A[m].after
  BY UpdateOfARow DEF A
<1>. HIDE DEF row, log, old, new, all, a
<1>6. row.games = Cardinality(all)
  BY <1>3, <1>4, <1>5
<1>7. all = {} => row.value = <<>>
  BY <1>3, <1>4, <1>5
<1>8. ASSUME NEW n \in all
      PROVE  n \in old \/ \E i \in new : i \in Nat \ {0} /\ n = a + i
  BY <1>3
<1>9. ASSUME NEW n \in all, \A m \in all : m =< n PROVE row.value = log[n].after
  <2>1. CASE n \in old
    <3>1. ASSUME NEW i \in new PROVE FALSE
      <4>1. a + i \in all /\ i \in Nat \ {0}
        BY <1>3
      <4>2. a + i =< n /\ n \in 1..a
        BY <1>3, <1>9, <2>1, <4>1
      <4>. QED  BY <1>3, <4>1, <4>2
    <3>2. \A m \in old : m =< n
      BY <1>3, <1>9
    <3>. QED  BY <1>3, <1>4, <1>5, <2>1, <3>1, <3>2
  <2>2. CASE n \notin old
    <3>1. PICK i \in new : i \in Nat /\ n = a + i
      BY <1>8, <2>2
    <3>2. \A m \in new : m =< i
      <4>1. \A m \in new : a + m \in all /\ m \in Nat
        BY <1>3
      <4>. QED  BY <1>3, <1>9, <3>1, <4>1
    <3>. QED  BY <1>3, <1>5, <3>1, <3>2
  <2>. QED  BY <2>1, <2>2
<1>10. ASSUME NEW n \in all, \A m \in all : n =< m PROVE log[n].before = <<>>
  <2>1. CASE n \in old
    <3>1. \A m \in old : n =< m
      BY <1>3, <1>10
    <3>. QED  BY <1>3, <1>4, <2>1, <3>1
  <2>2. CASE n \notin old
    <3>1. PICK i \in new : i \in Nat \ {0} /\ n = a + i
      BY <1>8, <2>2
    <3>2. old = {}
      BY <1>3, <1>10, <3>1
    <3>3. \A m \in new : i =< m
      <4>1. \A m \in new : a + m \in all /\ m \in Nat
        BY <1>3
      <4>. QED  BY <1>3, <1>10, <3>1, <4>1
    <3>. QED  BY <1>3, <1>4, <1>5, <3>1, <3>2, <3>3
  <2>. QED  BY <2>1, <2>2
<1>11. ASSUME NEW n \in all, NEW m \in all, m < n, \A l \in all : l =< m \/ n =< l
       PROVE  log[n].before = log[m].after
  <2>1. CASE n \in old
    <3>1. m \in old
      BY <1>3, <1>8, <1>11, <2>1
    <3>2. \A l \in old : l =< m \/ n =< l
      BY <1>3, <1>11
    <3>. QED  BY <1>3, <1>4, <1>11, <2>1, <3>1, <3>2
  <2>2. CASE n \notin old
    <3>1. PICK i \in new : i \in Nat \ {0} /\ n = a + i
      BY <1>8, <2>2
    <3>2. \A l \in new : a + l \in all /\ l \in Nat \ {0}
      BY <1>3
    <3>3. CASE m \in old
      <4>1. \A l \in new : i =< l
        BY <1>3, <1>11, <3>1, <3>2, <3>3
      <4>2. \A l \in old : l =< m
        BY <1>3, <1>11, <3>1
      <4>3. A[i].before = S.rows[k].value
        BY <1>5, <3>1, <4>1
      <4>4. S.rows[k].value = M[m].after
        BY <1>4, <3>3, <4>2
      <4>. QED  BY <1>3, <3>1, <3>3, <4>3, <4>4
    <3>4. CASE m \notin old
      <4>1. PICK j \in new : j \in Nat \ {0} /\ m = a + j
        BY <1>8, <3>4
      <4>2. j < i /\ \A l \in new : l =< j \/ i =< l
        BY <1>3, <1>11, <3>1, <3>2, <4>1
      <4>3. A[i].before = A[j].after
        BY <1>5, <3>1, <4>1, <4>2
      <4>. QED  BY <1>3, <3>1, <4>1, <4>3
    <3>. QED  BY <3>3, <3>4
  <2>. QED  BY <2>1, <2>2
<1>12. Explained(k, row, log)
  BY <1>6, <1>7, <1>9, <1>10, <1>11, ExplainedBy DEF all
<1>. QED  BY <1>2, <1>12 DEF A, M, row, log

-----------------------------------------------------------------------------
\* What a transaction adds to the ledger

\* Audit rows that repeat an update, entry by entry
CopyOf(A, E) == Len(A) = Len(E) /\ \A n \in 1..Len(E) : SameSeat(A[n], E[n])

\* What a transaction has read are rows.
ReadOK(t) ==
    /\ DOMAIN t.read \subseteq Keys
    /\ \A k \in DOMAIN t.read : t.read[k] \in RatingRow

\* The tables hold what may be stored in them.
TablesOK ==
    /\ \A g \in Contests : winners[g] \in {Unplayed} \cup TerminalResults[g]
    /\ winners \in [Contests -> {Unplayed} \cup UNION {TerminalResults[g] : g \in Contests}]
    /\ DOMAIN ratings \subseteq Keys
    /\ \A k \in DOMAIN ratings : ratings[k] \in RatingRow
    /\ ledger \in Seq(LedgerRow)
    /\ lost \subseteq Keys
    /\ settled \subseteq {PairOf[g] : g \in Contests} \ {0}

\* A row that is not there yet is a new one.
LEMMA RowType ==
    ASSUME TablesOK, NEW k \in Keys
    PROVE  Row(k) \in RatingRow
<1>1. NewRow \in RatingRow
  BY DEF NewRow, RatingRow, AuditTrail
<1>. QED  BY <1>1 DEF Row, TablesOK

\* A session starts with the rows of its transaction, and no audit row.
LEMMA Session0OK ==
    ASSUME TablesOK, NEW t, ReadOK(t)
    PROVE  /\ SessionOK(Session0(t)) /\ Session0(t).events = <<>>
           /\ \A k \in Keys : Session0(t).rows[k] = IF k \in DOMAIN t.read THEN t.read[k] ELSE Row(k)
<1>. DEFINE rows == [k \in Keys |-> IF k \in DOMAIN t.read THEN t.read[k] ELSE Row(k)]
<1>1. rows \in [Keys -> RatingRow]
  BY RowType DEF ReadOK
<1>2. Session0(t) = [rows |-> rows, events |-> <<>>]
  BY DEF Session0
<1>3. SessionOK(Session0(t))
  <2>. HIDE DEF rows
  <2>. QED  BY <1>1, <1>2 DEF SessionOK
<1>. QED  BY <1>2, <1>3

\* Rating one game
LEMMA RatedShape ==
    ASSUME NEW g \in Contests, NEW r \in TerminalResults[g], NEW S, SessionOK(S), ledger \in Seq(LedgerRow)
    PROVE  /\ SessionOK(Rated(S, g, r))
           /\ \E A \in Seq(LedgerRow) :
                 Rated(S, g, r).events = S.events \o A /\ CopyOf(A, Entries[g][r])
           /\ \A k \in Keys :
                 Explained(k, S.rows[k], ledger \o S.events) =>
                    Explained(k, Rated(S, g, r).rows[k], ledger \o Rated(S, g, r).events)
<1>. PICK E : E = Entries[g][r]
  OBVIOUS
<1>1. E \in Seq(EntriesOf(g))
  BY EntriesFit DEF Fits
<1>2. Rated(S, g, r) = Written(S, E)
  BY DEF Rated
<1>3. /\ AuditOfUpdate(S, E) \in Seq(LedgerRow) /\ Len(AuditOfUpdate(S, E)) = Len(E)
      /\ \A n \in 1..Len(E) : SameSeat(AuditOfUpdate(S, E)[n], E[n])
      /\ Written(S, E).events = S.events \o AuditOfUpdate(S, E)
      /\ SessionOK(Written(S, E))
  BY <1>1, WrittenShape
<1>4. ASSUME NEW k \in Keys, Explained(k, S.rows[k], ledger \o S.events)
      PROVE  Explained(k, Written(S, E).rows[k], ledger \o Written(S, E).events)
  BY <1>1, <1>4, WrittenExplains
<1>5. CopyOf(AuditOfUpdate(S, E), E)
  BY <1>3 DEF CopyOf
<1>. QED  BY <1>2, <1>3, <1>4, <1>5

\* The positions that are about a game
About(g, log) == {n \in DOMAIN log : log[n].game = g}

\* The events of a game are one stretch of the ledger, which repeats an update.
CopiedIn(E, g, log) ==
    \E a \in Nat :
        /\ a + Len(E) =< Len(log) /\ About(g, log) = a + 1..a + Len(E)
        /\ \A n \in 1..Len(E) : SameSeat(log[a + n], E[n])

\* Audit rows of other games leave the events of a game where they are.
LEMMA AboutOthers ==
    ASSUME NEW M \in Seq(LedgerRow), NEW A \in Seq(LedgerRow), NEW g,
           \A n \in 1..Len(A) : A[n].game # g
    PROVE  About(g, M \o A) = About(g, M) /\ \A E : CopiedIn(E, g, M) /\ Len(E) \in Nat => CopiedIn(E, g, M \o A)
<1>. PICK a : a = Len(M)
  OBVIOUS
<1>. PICK b : b = Len(A)
  OBVIOUS
<1>. PICK log : log = M \o A
  OBVIOUS
<1>1. /\ a \in Nat /\ b \in Nat /\ DOMAIN M = 1..a /\ DOMAIN log = 1..(a + b) /\ Len(log) = a + b
      /\ \A n \in 1..(a + b) : log[n] = IF n =< a THEN M[n] ELSE A[n - a]
  OBVIOUS
<1>2. ASSUME NEW n \in About(g, log) PROVE n \in About(g, M)
  <2>1. n \in 1..(a + b) /\ log[n].game = g
    BY <1>1 DEF About
  <2>2. n =< a
    <3>. SUFFICES ASSUME ~(n =< a) PROVE FALSE
      OBVIOUS
    <3>1. n - a \in 1..b /\ log[n] = A[n - a]
      BY <1>1, <2>1
    <3>. QED  BY <2>1, <3>1
  <2>. QED  BY <1>1, <2>1, <2>2 DEF About
<1>3. \A n \in About(g, M) : n \in About(g, log)
  BY <1>1 DEF About
<1>4. About(g, log) = About(g, M)
  BY <1>2, <1>3
<1>5. ASSUME NEW E, CopiedIn(E, g, M), Len(E) \in Nat PROVE CopiedIn(E, g, log)
  <2>1. PICK i \in Nat : /\ i + Len(E) =< a /\ About(g, M) = i + 1..i + Len(E)
                         /\ \A n \in 1..Len(E) : SameSeat(M[i + n], E[n])
    BY <1>5 DEF CopiedIn
  <2>2. ASSUME NEW n \in 1..Len(E) PROVE SameSeat(log[i + n], E[n])
    <3>1. i + n \in 1..a
      BY <1>1, <1>5, <2>1
    <3>2. log[i + n] = M[i + n]
      BY <1>1, <3>1
    <3>. QED  BY <2>1, <3>2
  <2>3. i + Len(E) =< Len(log) /\ About(g, log) = i + 1..i + Len(E)
    BY <1>1, <1>4, <1>5, <2>1
  <2>. QED  BY <2>2, <2>3 DEF CopiedIn
<1>. QED  BY <1>4, <1>5

\* The first audit rows of a game are its entries, one after the other.
LEMMA AboutFresh ==
    ASSUME NEW M \in Seq(LedgerRow), NEW A \in Seq(LedgerRow), NEW g \in Contests, About(g, M) = {},
           NEW E \in Seq(EntriesOf(g)), CopyOf(A, E)
    PROVE  /\ About(g, M \o A) = Len(M) + 1..Len(M) + Len(A)
           /\ CopiedIn(E, g, M \o A)
<1>. PICK a : a = Len(M)
  OBVIOUS
<1>. PICK b : b = Len(A)
  OBVIOUS
<1>. PICK log : log = M \o A
  OBVIOUS
<1>1. /\ a \in Nat /\ b \in Nat /\ DOMAIN M = 1..a /\ DOMAIN log = 1..(a + b) /\ Len(log) = a + b
      /\ \A n \in 1..(a + b) : log[n] = IF n =< a THEN M[n] ELSE A[n - a]
  OBVIOUS
<1>2. Len(E) = b /\ \A n \in 1..b : SameSeat(A[n], E[n]) /\ E[n].game = g
  <2>1. Len(E) = b /\ \A n \in 1..b : SameSeat(A[n], E[n])
    BY DEF CopyOf
  <2>2. \A n \in 1..Len(E) : E[n] \in EntriesOf(g)
    OBVIOUS
  <2>. QED  BY <2>1, <2>2 DEF EntriesOf
<1>3. \A n \in 1..b : A[n].game = g
  BY <1>2 DEF SameSeat
<1>4. \A n \in 1..a : log[n].game # g
  BY <1>1 DEF About
<1>5. ASSUME NEW n \in 1..b PROVE a + n \in 1..(a + b) /\ log[a + n] = A[n]
  <2>1. a + n \in 1..(a + b) /\ ~(a + n =< a) /\ (a + n) - a = n
    BY <1>1
  <2>2. log[a + n] = A[(a + n) - a]
    BY <1>1, <2>1
  <2>. QED  BY <2>1, <2>2
<1>6. ASSUME NEW n \in About(g, log) PROVE n \in a + 1..a + b
  BY <1>1, <1>4 DEF About
<1>7. ASSUME NEW n \in a + 1..a + b PROVE n \in About(g, log)
  <2>1. n - a \in 1..b /\ n = a + (n - a)
    BY <1>1
  <2>2. n \in 1..(a + b) /\ log[n] = A[n - a]
    BY <1>5, <2>1
  <2>. QED  BY <1>1, <1>3, <2>1, <2>2 DEF About
<1>8. About(g, log) = a + 1..a + b
  <2>1. \A n : n \in About(g, log) <=> n \in a + 1..a + b
    BY <1>6, <1>7
  <2>. QED  BY <2>1
<1>9. CopiedIn(E, g, log)
  <2>1. \A n \in 1..b : SameSeat(log[a + n], E[n])
    BY <1>2, <1>5
  <2>2. a + Len(E) =< Len(log)
    BY <1>1, <1>2
  <2>. QED  BY <1>1, <1>2, <1>8, <2>1, <2>2 DEF CopiedIn
<1>. QED  BY <1>8, <1>9

-----------------------------------------------------------------------------
\* Transactions

\* Two legs of a pair that are rated together
LegsInOrder(g, h) ==
    /\ g < h /\ PairOf[g] # 0 /\ PairOf[h] = PairOf[g]
    /\ Ladder[g] = "team" /\ Ladder[h] = "team"
    /\ \A x \in Contests : PairOf[x] = PairOf[g] => x \in {g, h}

\* A game that is not the leg of a pair of teams
Single(g) == ~(Ladder[g] = "team" /\ PairOf[g] # 0)

\* What the end of a game is to rate with itself
RatedWith(g, winner) ==
    \/ Ladder[g] = "team" /\ PairOf[g] = 0
    \/ Ladder[g] = "solo"
    \/ Ladder[g] = "human" /\ winner \in {"TOWN", "MAFIA", "DRAW"}

\* A transaction that rates both legs of a pair, each with the end it has or is about to have
RatesPair(t) ==
    \E g, h \in Contests :
        /\ t.rates = <<g, h>> /\ LegsInOrder(g, h)
        /\ WinnerOf(t, g) \in TerminalResults[g] /\ WinnerOf(t, h) \in TerminalResults[h]
        /\ t.kind = "end" => t.game \in {g, h}

\* A transaction that rates its own game
RatesItself(t) == t.rates = <<t.game>> /\ Single(t.game)

\* The end of a game has in hand what it has to rate; nobody has ended the game since.
EndOK(t) ==
    /\ t.game \in Contests /\ t.winner \in TerminalResults[t.game] /\ winners[t.game] = Unplayed
    /\ \/ t.rates = <<>> /\ ~RatedWith(t.game, t.winner)
       \/ RatesItself(t) /\ Ladder[t.game] # "placement"
       \/ RatesPair(t)

\* A placement that is owed: the game is stored with its winner, and has no event yet.
OwedOK(t) ==
    /\ t.game \in Contests /\ Ladder[t.game] = "placement"
    /\ t.winner \in TerminalResults[t.game] /\ winners[t.game] = t.winner
    /\ EventsAbout(t.game) = {}

\* What a process has open
WritingOK(t) ==
    \/ t = NoWriting
    \/ t.kind = "end" /\ EndOK(t) /\ ReadOK(t)
    \/ t.kind = "settle" /\ t.game = 0 /\ RatesPair(t) /\ ReadOK(t)
    \/ t.kind = "owed" /\ OwedOK(t)
    \/ t.kind = "placement" /\ OwedOK(t) /\ t.rates = <<t.game>> /\ ReadOK(t)

\* Transactions that concern one game
OfAGame(t) == t.kind \in {"end", "owed", "placement"}

\* No two processes are at the end of one game.
WritersOK ==
    /\ DOMAIN writing = Processes /\ writing = [w \in Processes |-> writing[w]]
    /\ \A w \in Processes : WritingOK(writing[w])
    /\ \A v, w \in Processes :
          v # w /\ OfAGame(writing[v]) /\ OfAGame(writing[w]) => writing[v].game # writing[w].game

\* A game that has events was rated once, with the winner it is stored with.
CopiedOnce(g) ==
    EventsAbout(g) # {} => winners[g] # Unplayed /\ CopiedIn(Entries[g][winners[g]], g, ledger)

\* The legs of a pair are rated both or not at all, the first leg first.
PairTogether(g, h) ==
    /\ EventsAbout(g) = {} <=> EventsAbout(h) = {}
    /\ \A n \in EventsAbout(g), m \in EventsAbout(h) : n < m

PairedGames(g, h) ==
    PairOf[g] = PairOf[h] /\ PairOf[g] # 0 /\ Ladder[g] = "team" /\ Ladder[h] = "team" /\ g < h

\* The ledger explains the rows, game by game and pair by pair.
LedgerOK ==
    /\ \A k \in Keys \ lost : Explained(k, Row(k), ledger)
    /\ \A g \in Contests : CopiedOnce(g)
    /\ \A g \in Contests : RatedAtTheEnd(g) /\ Due[g] # 0 => EventsAbout(g) # {}
    /\ \A g, h \in Contests : PairedGames(g, h) => PairTogether(g, h)

RatingsInv == TablesOK /\ WritersOK /\ LedgerOK

\* A pair of games has a first and a second leg.
LEMMA TwoElements ==
    ASSUME NEW S, S \subseteq Nat, IsFiniteSet(S), Cardinality(S) = 2
    PROVE  \E g, h \in S : g < h /\ S = {g, h}
<1>1. S # {}
  BY FS_EmptySet
<1>2. PICK g \in S : \A i \in S : g =< i
  BY <1>1, LeastNumber
<1>3. IsFiniteSet(S \ {g}) /\ Cardinality(S \ {g}) = 1
  BY FS_RemoveElement
<1>4. PICK h : S \ {g} = {h}
  BY <1>3, FS_Singleton
<1>5. h \in S /\ h # g /\ S = {g, h}
  BY <1>4
<1>6. g \in Nat /\ h \in Nat /\ g =< h
  BY <1>2, <1>5
<1>. QED  BY <1>5, <1>6

\* update_ratings_for_completed_pair finds the two legs of the pair, in order, both played.
LEMMA LegsOfPair ==
    ASSUME NEW p \in Nat \ {0}, NEW table, PairToRate(p, table) # <<>>
    PROVE  \E g, h \in Contests :
              /\ PairToRate(p, table) = <<g, h>> /\ LegsInOrder(g, h) /\ PairOf[g] = p
              /\ table[g] # Unplayed /\ table[h] # Unplayed
<1>. PICK S : S = {g \in Contests : PairOf[g] = p}
  OBVIOUS
<1>. PICK legs : legs = LegsOf(p)
  OBVIOUS
<1>1. S \subseteq Nat /\ IsFiniteSet(S)
  <2>1. S \in SUBSET Contests /\ IsFiniteSet(Contests) /\ Contests \subseteq Nat
    BY RatingsAssumption
  <2>. QED  BY <2>1, FS_Subset
<1>2. legs = Ascending(S)
  BY DEF LegsOf
<1>3. /\ PairToRate(p, table) = legs /\ Len(legs) = 2
      /\ \A n \in DOMAIN legs : table[legs[n]] # Unplayed /\ Ladder[legs[n]] = "team"
  BY DEF PairToRate
<1>4. Cardinality(S) = 2
  BY <1>1, <1>2, <1>3, AscendingList
<1>5. PICK g \in S, h \in S : g < h /\ S = {g, h}
  BY <1>1, <1>4, TwoElements
<1>6. legs = <<g, h>>
  <2>1. g \in Nat /\ h \in Nat
    BY <1>1
  <2>2. Ascending({g, h}) = <<g, h>>
    BY <1>5, <2>1, AscendingPair
  <2>. QED  BY <1>2, <1>5, <2>2
<1>7. /\ table[g] # Unplayed /\ Ladder[g] = "team"
      /\ table[h] # Unplayed /\ Ladder[h] = "team"
  <2>1. 1 \in DOMAIN legs /\ 2 \in DOMAIN legs /\ legs[1] = g /\ legs[2] = h
    BY <1>6
  <2>. QED  BY <1>3, <2>1
<1>8. /\ g \in Contests /\ h \in Contests /\ PairOf[g] = p /\ PairOf[h] = p
      /\ \A x \in Contests : PairOf[x] = p => x \in {g, h}
  BY <1>5
<1>9. LegsInOrder(g, h)
  BY <1>5, <1>7, <1>8 DEF LegsInOrder
<1>. QED  BY <1>3, <1>6, <1>7, <1>8, <1>9

\* What a transaction reads
LEMMA ReadTyped ==
    ASSUME TablesOK, NEW games, \A n \in DOMAIN games : games[n] \in Contests, NEW t,
           t.read = [k \in UNION {ReadsOf[games[n]] : n \in DOMAIN games} |-> Row(k)]
    PROVE  ReadOK(t)
<1>1. \A g \in Contests : ReadsOf[g] \subseteq Keys
  BY DEF ReadsOf
<1>. PICK keys : keys = UNION {ReadsOf[games[n]] : n \in DOMAIN games}
  OBVIOUS
<1>2. keys \subseteq Keys
  BY <1>1
<1>3. t.read = [k \in keys |-> Row(k)]
  OBVIOUS
<1>. QED  BY <1>2, <1>3, RowType DEF ReadOK

\* What a transaction that is opened rates
LEMMA ToRateShape ==
    ASSUME TablesOK, NEW g \in Contests, NEW r \in TerminalResults[g], winners[g] = Unplayed,
           NEW t, t.kind = "end", t.game = g, t.winner = r, t.rates = ToRate(g, r)
    PROVE  /\ \/ t.rates = <<>> /\ ~RatedWith(g, r)
              \/ RatesItself(t) /\ Ladder[g] # "placement"
              \/ RatesPair(t)
<1>0. /\ Ladder[g] \in {"team", "placement", "solo", "human"} /\ PairOf[g] \in Nat
      /\ Ladder[g] = "team" => r \in {"TOWN", "MAFIA", "DRAW"}
  BY RatingsAssumption DEF RatingContext
<1>1. CASE Ladder[g] = "placement"
  BY <1>1 DEF ToRate, RatedWith
<1>2. CASE Ladder[g] = "human" /\ r \notin {"TOWN", "MAFIA", "DRAW"}
  BY <1>2 DEF ToRate, RatedWith
<1>3. CASE Ladder[g] = "team" /\ PairOf[g] # 0
  <2>4. PICK table : table = [winners EXCEPT ![g] = r]
    OBVIOUS
  <2>. PICK p : p = PairOf[g]
    OBVIOUS
  <2>1. t.rates = PairToRate(p, table)
    BY <1>0, <1>3, <2>4 DEF ToRate
  <2>2. CASE PairToRate(p, table) = <<>>
    BY <1>3, <2>1, <2>2 DEF RatedWith
  <2>3. CASE PairToRate(p, table) # <<>>
    <3>0. p \in Nat \ {0}
      BY <1>0, <1>3
    <3>1. PICK a \in Contests, b \in Contests :
              /\ PairToRate(p, table) = <<a, b>> /\ LegsInOrder(a, b) /\ PairOf[a] = p
              /\ table[a] # Unplayed /\ table[b] # Unplayed
      BY <3>0, <2>3, LegsOfPair
    <3>2. g \in {a, b}
      BY <3>1 DEF LegsInOrder
    <3>3. \A x \in Contests : table[x] = IF x = g THEN r ELSE winners[x]
      BY <2>4 DEF TablesOK
    <3>4. \A x \in {a, b} : WinnerOf(t, x) \in TerminalResults[x]
      BY <3>1, <3>3 DEF WinnerOf, TablesOK
    <3>. QED  BY <2>1, <3>1, <3>2, <3>4 DEF RatesPair
  <2>. QED  BY <2>2, <2>3
<1>4. CASE /\ Ladder[g] # "placement"
           /\ ~(Ladder[g] = "human" /\ r \notin {"TOWN", "MAFIA", "DRAW"})
           /\ ~(Ladder[g] = "team" /\ PairOf[g] # 0)
  BY <1>0, <1>4 DEF ToRate, RatesItself, Single
<1>. QED  BY <1>1, <1>2, <1>3, <1>4

-----------------------------------------------------------------------------
\* The steps

\* Whoever opens a transaction leaves the tables alone.
LEMMA OpenedWriters ==
    ASSUME WritersOK, NEW w \in Processes, NEW t, WritingOK(t),
           OfAGame(t) => \A v \in Processes : v # w /\ OfAGame(writing[v]) => writing[v].game # t.game,
           writing' = [writing EXCEPT ![w] = t], UNCHANGED <<winners, ratings, ledger, lost, settled>>
    PROVE  WritersOK'
<1>1. DOMAIN writing' = Processes /\ writing' = [v \in Processes |-> writing'[v]]
  BY DEF WritersOK
<1>2. \A v \in Processes : writing'[v] = IF v = w THEN t ELSE writing[v]
  BY DEF WritersOK
<1>3. \A u : WritingOK(u)' <=> WritingOK(u)
  <2>1. \A u : EndOK(u)' <=> EndOK(u)
    BY DEF EndOK, RatesPair, WinnerOf
  <2>2. \A u : OwedOK(u)' <=> OwedOK(u)
    BY DEF OwedOK, EventsAbout
  <2>3. \A u : RatesPair(u)' <=> RatesPair(u)
    BY DEF RatesPair, WinnerOf
  <2>. QED  BY <2>1, <2>2, <2>3 DEF WritingOK
<1>4. \A v \in Processes : WritingOK(writing[v])'
  <2>1. \A v \in Processes : WritingOK(writing'[v])
    BY <1>2 DEF WritersOK
  <2>. QED  BY <1>3, <2>1
<1>5. ASSUME NEW u \in Processes, NEW v \in Processes, u # v, OfAGame(writing'[u]), OfAGame(writing'[v])
      PROVE  writing'[u].game # writing'[v].game
  BY <1>2, <1>5 DEF WritersOK
<1>. QED  BY <1>1, <1>4, <1>5 DEF WritersOK, OfAGame

\* A step that changes no table keeps what is said of the tables.
LEMMA TablesUntouched ==
    ASSUME TablesOK, LedgerOK, UNCHANGED <<winners, ratings, ledger, lost, settled>>
    PROVE  TablesOK' /\ LedgerOK'
<1>1. TablesOK'
  BY DEF TablesOK
<1>2. \A k : Row(k)' = Row(k)
  BY DEF Row
<1>3. \A g : EventsAbout(g)' = EventsAbout(g)
  BY DEF EventsAbout
<1>4. \A k \in Keys \ lost' : Explained(k, Row(k)', ledger')
  BY <1>2 DEF LedgerOK
<1>5. \A g \in Contests : CopiedOnce(g)'
  BY <1>3 DEF LedgerOK, CopiedOnce
<1>6. \A g \in Contests : (RatedAtTheEnd(g) /\ Due[g] # 0 => EventsAbout(g) # {})'
  BY <1>3 DEF LedgerOK, RatedAtTheEnd
<1>7. \A g, h \in Contests : PairedGames(g, h) => PairTogether(g, h)'
  BY <1>3 DEF LedgerOK, PairTogether
<1>. QED  BY <1>1, <1>4, <1>5, <1>6, <1>7 DEF LedgerOK

\* _persist_terminated_event, as far as it reads
LEMMA EndOpens ==
    ASSUME RatingsInv, NEW w \in Processes, NEW g \in Contests, NEW r \in TerminalResults[g],
           EndContest(w, g, r)
    PROVE  RatingsInv'
<1>. DEFINE games == ToRate(g, r)
<1>. DEFINE read == [k \in UNION {ReadsOf[games[n]] : n \in DOMAIN games} |-> Row(k)]
<1>. PICK t : t = [kind |-> "end", game |-> g, winner |-> r, rates |-> games, read |-> read]
  OBVIOUS
<1>1. /\ winners[g] = Unplayed /\ writing' = [writing EXCEPT ![w] = t]
      /\ \A v \in Processes : writing[v] # NoWriting => writing[v].game # g
      /\ UNCHANGED <<winners, ratings, ledger, lost, settled>>
  BY DEF EndContest, Opens
<1>2. TablesOK /\ WritersOK /\ LedgerOK
  BY DEF RatingsInv
<1>3. t.kind = "end" /\ t.game = g /\ t.winner = r /\ t.rates = games /\ t.read = read
  OBVIOUS
<1>. HIDE DEF games, read
<1>4. \/ t.rates = <<>> /\ ~RatedWith(g, r)
      \/ RatesItself(t) /\ Ladder[g] # "placement"
      \/ RatesPair(t)
  BY <1>1, <1>2, <1>3, ToRateShape DEF games
<1>5. \A n \in DOMAIN games : games[n] \in Contests
  <2>1. games = <<>> \/ games = <<g>> \/ \E a, b \in Contests : games = <<a, b>>
    BY <1>3, <1>4 DEF RatesItself, RatesPair
  <2>. QED  BY <2>1
<1>6. ReadOK(t)
  BY <1>2, <1>3, <1>5, ReadTyped DEF read
<1>7. WritingOK(t)
  BY <1>1, <1>3, <1>4, <1>6 DEF WritingOK, EndOK
<1>8. \A v \in Processes : v # w /\ OfAGame(writing[v]) => writing[v].game # t.game
  BY <1>1, <1>3 DEF OfAGame, NoWriting
<1>9. WritersOK'
  BY <1>1, <1>2, <1>7, <1>8, OpenedWriters
<1>. QED  BY <1>1, <1>2, <1>9, TablesUntouched DEF RatingsInv

\* _rate_completed_pairs_for_gauntlet
LEMMA SettlingOpens ==
    ASSUME RatingsInv, NEW w \in Processes, NEW p \in {PairOf[g] : g \in Contests} \ {0}, SettlePair(w, p)
    PROVE  RatingsInv'
<1>. DEFINE games == PairToRate(p, winners)
<1>. DEFINE read == [k \in UNION {ReadsOf[games[n]] : n \in DOMAIN games} |-> Row(k)]
<1>. PICK t : t = [kind |-> "settle", game |-> 0, winner |-> Unplayed, rates |-> games, read |-> read]
  OBVIOUS
<1>1. /\ games # <<>> /\ writing' = [writing EXCEPT ![w] = t]
      /\ UNCHANGED <<winners, ratings, ledger, lost, settled>>
  BY DEF SettlePair, Opens
<1>2. TablesOK /\ WritersOK /\ LedgerOK
  BY DEF RatingsInv
<1>3. t.kind = "settle" /\ t.game = 0 /\ t.rates = games /\ t.read = read
  OBVIOUS
<1>. HIDE DEF games, read
<1>4. p \in Nat \ {0}
  BY RatingsAssumption
<1>5. PICK a \in Contests, b \in Contests :
          /\ games = <<a, b>> /\ LegsInOrder(a, b) /\ winners[a] # Unplayed /\ winners[b] # Unplayed
  BY <1>1, <1>4, LegsOfPair DEF games
<1>6. WinnerOf(t, a) \in TerminalResults[a] /\ WinnerOf(t, b) \in TerminalResults[b]
  <2>1. a # 0 /\ b # 0
    BY RatingsAssumption
  <2>. QED  BY <1>2, <1>3, <1>5, <2>1 DEF WinnerOf, TablesOK
<1>7. RatesPair(t)
  BY <1>3, <1>5, <1>6 DEF RatesPair
<1>8. \A n \in DOMAIN games : games[n] \in Contests
  BY <1>5
<1>9. ReadOK(t)
  BY <1>2, <1>3, <1>8, ReadTyped DEF read
<1>10. WritingOK(t) /\ ~OfAGame(t)
  BY <1>3, <1>7, <1>9 DEF WritingOK, OfAGame
<1>11. WritersOK'
  BY <1>1, <1>2, <1>10, OpenedWriters
<1>. QED  BY <1>1, <1>2, <1>11, TablesUntouched DEF RatingsInv

\* _apply_placement_after_finalization
LEMMA PlacementOpens ==
    ASSUME RatingsInv, NEW w \in Processes, OpenPlacement(w)
    PROVE  RatingsInv'
<1>. PICK old : old = writing[w]
  OBVIOUS
<1>. DEFINE games == <<old.game>>
<1>. DEFINE read == [k \in UNION {ReadsOf[games[n]] : n \in DOMAIN games} |-> Row(k)]
<1>. PICK t : t = [kind |-> "placement", game |-> old.game, winner |-> old.winner,
                   rates |-> games, read |-> read]
  OBVIOUS
<1>1. /\ old.kind = "owed" /\ writing' = [writing EXCEPT ![w] = t]
      /\ UNCHANGED <<winners, ratings, ledger, lost, settled>>
  BY DEF OpenPlacement, Opens
<1>2. TablesOK /\ WritersOK /\ LedgerOK
  BY DEF RatingsInv
<1>3. /\ t.kind = "placement" /\ t.game = old.game /\ t.winner = old.winner
      /\ t.rates = <<old.game>> /\ t.read = read
  OBVIOUS
<1>4. WritingOK(old)
  BY <1>2 DEF WritersOK
<1>5. OwedOK(old)
  BY <1>1, <1>4 DEF WritingOK, NoWriting
<1>6. \A n \in DOMAIN games : games[n] \in Contests
  BY <1>5 DEF OwedOK
<1>. HIDE DEF games, read
<1>7. ReadOK(t)
  BY <1>2, <1>3, <1>6, ReadTyped DEF read
<1>8. OwedOK(t)
  BY <1>3, <1>5 DEF OwedOK
<1>9. WritingOK(t)
  BY <1>3, <1>7, <1>8 DEF WritingOK
<1>10. \A v \in Processes : v # w /\ OfAGame(writing[v]) => writing[v].game # t.game
  BY <1>1, <1>2, <1>3 DEF WritersOK, OfAGame
<1>11. WritersOK'
  BY <1>1, <1>2, <1>9, <1>10, OpenedWriters
<1>. QED  BY <1>1, <1>2, <1>11, TablesUntouched DEF RatingsInv

\* A transaction that fails leaves no trace.
LEMMA RollsBack ==
    ASSUME RatingsInv, NEW w \in Processes, RollBack(w)
    PROVE  RatingsInv'
<1>1. /\ writing' = [writing EXCEPT ![w] = NoWriting]
      /\ UNCHANGED <<winners, ratings, ledger, lost, settled>>
  BY DEF RollBack
<1>2. TablesOK /\ WritersOK /\ LedgerOK
  BY DEF RatingsInv
<1>3. WritingOK(NoWriting) /\ ~OfAGame(NoWriting)
  BY DEF WritingOK, OfAGame, NoWriting
<1>4. WritersOK'
  BY <1>1, <1>2, <1>3, OpenedWriters
<1>. QED  BY <1>1, <1>2, <1>4, TablesUntouched DEF RatingsInv

\* Before the first game nothing is rated.
LEMMA RatingsStart ==
    ASSUME RatingsInit
    PROVE  RatingsInv
<1>1. ledger = <<>> /\ DOMAIN ledger = {} /\ ledger \in Seq(LedgerRow) /\ DOMAIN ratings = {}
  BY DEF RatingsInit
<1>2. \A g : EventsAbout(g) = {}
  BY <1>1 DEF EventsAbout
<1>3. TablesOK
  BY <1>1 DEF RatingsInit, TablesOK
<1>4. WritersOK
  <2>1. writing = [w \in Processes |-> NoWriting]
    BY DEF RatingsInit
  <2>2. ~OfAGame(NoWriting)
    BY DEF OfAGame, NoWriting
  <2>. QED  BY <2>1, <2>2 DEF WritersOK, WritingOK
<1>5. ASSUME NEW k \in Keys PROVE Explained(k, Row(k), ledger)
  <2>1. Row(k) = NewRow
    BY <1>1 DEF Row
  <2>2. ByKey(k, ledger) = {}
    BY <1>1 DEF ByKey
  <2>3. NewRow.games = Cardinality({}) /\ NewRow.value = <<>>
    BY FS_EmptySet DEF NewRow
  <2>. QED  BY <2>1, <2>2, <2>3, ExplainedBy
<1>6. \A g \in Contests : ~RatedAtTheEnd(g)
  <2>1. \A g \in Contests : winners[g] = Unplayed
    BY DEF RatingsInit
  <2>. QED  BY <2>1 DEF RatedAtTheEnd, Unplayed
<1>7. LedgerOK
  BY <1>2, <1>5, <1>6 DEF LedgerOK, CopiedOnce, PairTogether
<1>. QED  BY <1>3, <1>4, <1>7 DEF RatingsInv

-----------------------------------------------------------------------------
\* What a transaction commits

\* A session goes on explaining the rows that were explained.
Explains(t, S) ==
    \A k \in Keys :
        Explained(k, Session0(t).rows[k], ledger) => Explained(k, S.rows[k], ledger \o S.events)

\* The three lengths a transaction can have: no game, one game, or the two legs of a pair
NoneRated(t) == t.rates = <<>> /\ AllRated(t).events = <<>>

OneRated(t, g) ==
    /\ t.rates = <<g>> /\ WinnerOf(t, g) \in TerminalResults[g]
    /\ CopyOf(AllRated(t).events, Entries[g][WinnerOf(t, g)])

TwoRated(t, g, h) ==
    /\ t.rates = <<g, h>> /\ LegsInOrder(g, h)
    /\ WinnerOf(t, g) \in TerminalResults[g] /\ WinnerOf(t, h) \in TerminalResults[h]
    /\ \E A, B \in Seq(LedgerRow) :
          /\ AllRated(t).events = A \o B
          /\ CopyOf(A, Entries[g][WinnerOf(t, g)]) /\ CopyOf(B, Entries[h][WinnerOf(t, h)])

\* Nothing appended changes nothing.
LEMMA EmptyAppended ==
    ASSUME NEW M \in Seq(LedgerRow)
    PROVE  M \o <<>> = M /\ <<>> \o M = M
<1>1. \A z \in Seq(LedgerRow) : z = [i \in 1..Len(z) |-> z[i]]
  OBVIOUS
<1>. PICK x : x = M \o <<>>
  OBVIOUS
<1>. PICK y : y = <<>> \o M
  OBVIOUS
<1>2. /\ x \in Seq(LedgerRow) /\ Len(x) = Len(M) /\ Len(M) \in Nat /\ y \in Seq(LedgerRow) /\ Len(y) = Len(M)
  <2>1. <<>> \in Seq(LedgerRow) /\ Len(<<>>) = 0
    OBVIOUS
  <2>. QED  BY <2>1
<1>3. \A i \in 1..Len(M) : x[i] = M[i] /\ y[i] = M[i]
  OBVIOUS
<1>. QED  BY <1>1, <1>2, <1>3

\* The three things a transaction may rate: no game,
LEMMA RatesNothing ==
    ASSUME TablesOK, NEW t, ReadOK(t), t.rates = <<>>
    PROVE  SessionOK(AllRated(t)) /\ Explains(t, AllRated(t)) /\ NoneRated(t)
<1>1. AllRated(t) = Session0(t)
  BY DEF AllRated
<1>2. SessionOK(Session0(t)) /\ Session0(t).events = <<>>
  BY Session0OK
<1>3. ledger \o <<>> = ledger
  BY EmptyAppended DEF TablesOK
<1>. QED  BY <1>1, <1>2, <1>3 DEF Explains, NoneRated

\* (the first game that a session rates)
LEMMA FirstRated ==
    ASSUME TablesOK, NEW t, ReadOK(t), NEW g \in Contests, NEW r \in TerminalResults[g],
           NEW S, S = Rated(Session0(t), g, r)
    PROVE  SessionOK(S) /\ Explains(t, S) /\ CopyOf(S.events, Entries[g][r])
<1>1. SessionOK(Session0(t)) /\ Session0(t).events = <<>> /\ ledger \in Seq(LedgerRow)
  BY Session0OK DEF TablesOK
<1>2. /\ SessionOK(S)
      /\ \A k \in Keys : Explained(k, Session0(t).rows[k], ledger \o Session0(t).events) =>
                            Explained(k, S.rows[k], ledger \o S.events)
  BY <1>1, RatedShape
<1>3. PICK A \in Seq(LedgerRow) : S.events = Session0(t).events \o A /\ CopyOf(A, Entries[g][r])
  BY <1>1, RatedShape
<1>4. ledger \o Session0(t).events = ledger
  BY <1>1, EmptyAppended
<1>5. S.events = A
  BY <1>1, <1>3, EmptyAppended
<1>6. Explains(t, S)
  BY <1>2, <1>4 DEF Explains
<1>. QED  BY <1>2, <1>3, <1>5, <1>6

\* one game,
LEMMA RatesOne ==
    ASSUME TablesOK, NEW t, ReadOK(t), NEW g \in Contests, t.rates = <<g>>,
           WinnerOf(t, g) \in TerminalResults[g]
    PROVE  SessionOK(AllRated(t)) /\ Explains(t, AllRated(t)) /\ OneRated(t, g)
<1>1. t.rates # <<>> /\ Len(t.rates) = 1 /\ t.rates[1] = g
  OBVIOUS
<1>2. AllRated(t) = Rated(Session0(t), g, WinnerOf(t, g))
  BY <1>1 DEF AllRated
<1>3. /\ SessionOK(AllRated(t)) /\ Explains(t, AllRated(t))
      /\ CopyOf(AllRated(t).events, Entries[g][WinnerOf(t, g)])
  BY <1>2, FirstRated
<1>. QED  BY <1>3 DEF OneRated

\* or the two legs of a pair.
LEMMA RatesTwo ==
    ASSUME TablesOK, NEW t, ReadOK(t), NEW g \in Contests, NEW h \in Contests, t.rates = <<g, h>>,
           LegsInOrder(g, h),
           WinnerOf(t, g) \in TerminalResults[g], WinnerOf(t, h) \in TerminalResults[h]
    PROVE  SessionOK(AllRated(t)) /\ Explains(t, AllRated(t)) /\ TwoRated(t, g, h)
<1>1. t.rates # <<>> /\ Len(t.rates) = 2 /\ t.rates[1] = g /\ t.rates[2] = h
  OBVIOUS
<1>. PICK S : S = Rated(Session0(t), g, WinnerOf(t, g))
  OBVIOUS
<1>2. AllRated(t) = Rated(S, h, WinnerOf(t, h))
  BY <1>1 DEF AllRated
<1>3. SessionOK(S) /\ Explains(t, S) /\ CopyOf(S.events, Entries[g][WinnerOf(t, g)])
  BY FirstRated
<1>4. ledger \in Seq(LedgerRow) /\ S.events \in Seq(LedgerRow)
  BY <1>3 DEF TablesOK, SessionOK
<1>5. /\ SessionOK(AllRated(t))
      /\ \A k \in Keys : Explained(k, S.rows[k], ledger \o S.events) =>
                            Explained(k, AllRated(t).rows[k], ledger \o AllRated(t).events)
  BY <1>2, <1>3, <1>4, RatedShape
<1>6. PICK B \in Seq(LedgerRow) :
          AllRated(t).events = S.events \o B /\ CopyOf(B, Entries[h][WinnerOf(t, h)])
  BY <1>2, <1>3, <1>4, RatedShape
<1>7. Explains(t, AllRated(t))
  BY <1>3, <1>5 DEF Explains
<1>8. TwoRated(t, g, h)
  BY <1>3, <1>4, <1>6 DEF TwoRated
<1>. QED  BY <1>5, <1>7, <1>8

\* The transactions that may rate a pair: one of its ends, or the settlement
OfThePair(t, g, h) == (t.kind = "settle" /\ t.game = 0) \/ (t.kind = "end" /\ t.game \in {g, h})

\* What a transaction may commit is not in the ledger yet.
Fresh(t) ==
    \/ NoneRated(t) /\ t.kind = "end" /\ ~RatedWith(t.game, t.winner)
    \/ \E g \in Contests :
          OneRated(t, g) /\ t.game = g /\ OfAGame(t) /\ Single(g) /\ EventsAbout(g) = {}
    \/ \E g, h \in Contests :
          /\ TwoRated(t, g, h) /\ EventsAbout(g) = {} /\ EventsAbout(h) = {}
          /\ OfThePair(t, g, h)

\* A game of two teams writes something.
LEMMA EntriesOfTeams ==
    ASSUME NEW g \in Contests, Ladder[g] = "team", NEW r \in TerminalResults[g]
    PROVE  Len(Entries[g][r]) \in Nat \ {0} /\ Entries[g][r] \in Seq(EntriesOf(g))
<1>1. Entries[g][r] \in Seq(EntriesOf(g)) /\ Len(Entries[g][r]) = Due[g]
  BY EntriesFit DEF Fits
<1>2. Due[g] = 2 * Len(Seating[g])
  BY DEF Due
<1>3. Len(Seating[g]) \in Nat \ {0}
  BY RatingsAssumption
<1>. QED  BY <1>1, <1>2, <1>3

\* A pair that has been rated is not rated again: the first event would be there twice.
LEMMA RatedPairCollides ==
    ASSUME TablesOK, LedgerOK, NEW t, NEW g \in Contests, NEW h \in Contests, TwoRated(t, g, h),
           WinnerOf(t, g) = winners[g], ~Collides(t, AllRated(t).events)
    PROVE  EventsAbout(g) = {}
<1>. SUFFICES ASSUME EventsAbout(g) # {} PROVE FALSE
  OBVIOUS
<1>. PICK E : E = Entries[g][winners[g]]
  OBVIOUS
<1>1. CopiedIn(E, g, ledger)
  BY DEF LedgerOK, CopiedOnce
<1>2. Len(E) \in Nat \ {0} /\ E \in Seq(EntriesOf(g))
  BY EntriesOfTeams DEF TwoRated, LegsInOrder
<1>3. PICK a \in Nat : a + Len(E) =< Len(ledger) /\ \A n \in 1..Len(E) : SameSeat(ledger[a + n], E[n])
  BY <1>1 DEF CopiedIn
<1>4. PICK A \in Seq(LedgerRow), B \in Seq(LedgerRow) : AllRated(t).events = A \o B /\ CopyOf(A, E)
  BY DEF TwoRated
<1>. PICK events : events = AllRated(t).events
  OBVIOUS
<1>5. 1 \in DOMAIN events /\ events[1] = A[1] /\ SameSeat(A[1], E[1])
  <2>1. Len(A) \in Nat \ {0} /\ SameSeat(A[1], E[1])
    BY <1>2, <1>4 DEF CopyOf
  <2>. QED  BY <1>4, <2>1
<1>6. a + 1 \in DOMAIN ledger /\ SameSeat(ledger[a + 1], E[1])
  <2>1. a + 1 \in 1..Len(ledger) /\ 1 \in 1..Len(E)
    BY <1>2, <1>3 DEF TablesOK
  <2>2. DOMAIN ledger = 1..Len(ledger)
    BY DEF TablesOK
  <2>. QED  BY <1>3, <2>1, <2>2
<1>7. /\ events[1].key = ledger[a + 1].key /\ events[1].game = ledger[a + 1].game
      /\ events[1].seat = ledger[a + 1].seat
  BY <1>5, <1>6 DEF SameSeat
<1>. QED  BY <1>5, <1>6, <1>7 DEF Collides

\* Legs in order are paired games.
LEMMA LegsArePaired ==
    ASSUME NEW g \in Contests, NEW h \in Contests, LegsInOrder(g, h)
    PROVE  PairedGames(g, h)
BY DEF LegsInOrder, PairedGames

\* What may be committed is well formed, explains its rows and repeats nothing.
LEMMA CommitsFresh ==
    ASSUME RatingsInv, NEW w \in Processes, NEW t, t = writing[w],
           t.kind \in {"end", "settle", "placement"}, ~Collides(t, AllRated(t).events)
    PROVE  ReadOK(t) /\ SessionOK(AllRated(t)) /\ Explains(t, AllRated(t)) /\ Fresh(t)
<1>1. TablesOK /\ WritersOK /\ LedgerOK
  BY DEF RatingsInv
<1>2. WritingOK(t)
  BY <1>1 DEF WritersOK
<1>3. ReadOK(t)
  BY <1>2 DEF WritingOK, NoWriting
<1>4. ASSUME NEW g \in Contests, NEW h \in Contests, t.rates = <<g, h>>, LegsInOrder(g, h),
             WinnerOf(t, g) \in TerminalResults[g], WinnerOf(t, h) \in TerminalResults[h],
             OfThePair(t, g, h), t.kind = "end" => EndOK(t)
      PROVE  SessionOK(AllRated(t)) /\ Explains(t, AllRated(t)) /\ Fresh(t)
  <2>1. SessionOK(AllRated(t)) /\ Explains(t, AllRated(t)) /\ TwoRated(t, g, h)
    BY <1>1, <1>3, <1>4, RatesTwo
  <2>2. PairTogether(g, h)
    BY <1>1, <1>4, LegsArePaired DEF LedgerOK
  <2>3. EventsAbout(g) = {} \/ EventsAbout(h) = {}
    <3>1. CASE t.kind = "settle" /\ t.game = 0
      <4>1. WinnerOf(t, g) = winners[g]
        BY <3>1, RatingsAssumption DEF WinnerOf
      <4>. QED  BY <1>1, <2>1, <4>1, RatedPairCollides
    <3>2. CASE EndOK(t) /\ t.game \in {g, h}
      BY <1>1, <3>2 DEF EndOK, LedgerOK, CopiedOnce
    <3>. QED  BY <1>4, <3>1, <3>2 DEF OfThePair
  <2>4. EventsAbout(g) = {} /\ EventsAbout(h) = {}
    BY <2>2, <2>3 DEF PairTogether
  <2>. QED  BY <1>4, <2>1, <2>4 DEF Fresh
<1>5. CASE t.kind = "end" /\ EndOK(t)
  <2>1. CASE t.rates = <<>> /\ ~RatedWith(t.game, t.winner)
    BY <1>1, <1>3, <1>5, <2>1, RatesNothing DEF Fresh
  <2>2. CASE RatesItself(t)
    <3>1. t.game \in Contests /\ t.rates = <<t.game>> /\ Single(t.game) /\ WinnerOf(t, t.game) \in TerminalResults[t.game]
      BY <1>5, <2>2 DEF RatesItself, EndOK, WinnerOf
    <3>2. SessionOK(AllRated(t)) /\ Explains(t, AllRated(t)) /\ OneRated(t, t.game)
      BY <1>1, <1>3, <3>1, RatesOne
    <3>3. EventsAbout(t.game) = {}
      BY <1>1, <1>5, <3>1 DEF EndOK, LedgerOK, CopiedOnce
    <3>4. OfAGame(t)
      BY <1>5 DEF OfAGame
    <3>5. Fresh(t)
      BY <3>1, <3>2, <3>3, <3>4 DEF Fresh
    <3>. QED  BY <1>3, <3>2, <3>5
  <2>3. CASE RatesPair(t)
    <3>1. PICK g \in Contests, h \in Contests :
            /\ t.rates = <<g, h>> /\ LegsInOrder(g, h)
            /\ WinnerOf(t, g) \in TerminalResults[g] /\ WinnerOf(t, h) \in TerminalResults[h]
            /\ t.kind = "end" => t.game \in {g, h}
      BY <2>3 DEF RatesPair
    <3>2. SessionOK(AllRated(t)) /\ Explains(t, AllRated(t)) /\ Fresh(t)
      <4>1. OfThePair(t, g, h)
        BY <1>5, <3>1 DEF OfThePair
      <4>. QED  BY <1>4, <1>5, <3>1, <4>1
    <3>. QED  BY <1>3, <3>2
  <2>. QED  BY <1>5, <2>1, <2>2, <2>3 DEF EndOK
<1>6. CASE t.kind = "settle" /\ t.game = 0 /\ RatesPair(t)
  <2>1. PICK g \in Contests, h \in Contests :
          /\ t.rates = <<g, h>> /\ LegsInOrder(g, h)
          /\ WinnerOf(t, g) \in TerminalResults[g] /\ WinnerOf(t, h) \in TerminalResults[h]
          /\ t.kind = "end" => t.game \in {g, h}
    BY <1>6 DEF RatesPair
  <2>2. SessionOK(AllRated(t)) /\ Explains(t, AllRated(t)) /\ Fresh(t)
    <3>1. OfThePair(t, g, h)
      BY <1>6 DEF OfThePair
    <3>2. t.kind # "end"
      BY <1>6
    <3>. QED  BY <1>4, <2>1, <3>1, <3>2
  <2>. QED  BY <1>3, <2>2
<1>7. CASE t.kind = "placement" /\ OwedOK(t) /\ t.rates = <<t.game>>
  <2>1. t.game \in Contests /\ Single(t.game) /\ WinnerOf(t, t.game) \in TerminalResults[t.game]
    BY <1>7 DEF OwedOK, WinnerOf, Single
  <2>2. SessionOK(AllRated(t)) /\ Explains(t, AllRated(t)) /\ OneRated(t, t.game)
    BY <1>1, <1>3, <1>7, <2>1, RatesOne
  <2>3. EventsAbout(t.game) = {}
    BY <1>7 DEF OwedOK
  <2>4. OfAGame(t)
    BY <1>7 DEF OfAGame
  <2>5. Fresh(t)
    BY <2>1, <2>2, <2>3, <2>4 DEF Fresh
  <2>. QED  BY <1>3, <2>2, <2>5
<1>8. t = NoWriting => t.kind = "none"
  BY DEF NoWriting
<1>. QED  BY <1>2, <1>3, <1>5, <1>6, <1>7, <1>8 DEF WritingOK

-----------------------------------------------------------------------------
\* The commit

\* What a process has open after its commit
Owed(t) == t.kind = "end" /\ Ladder[t.game] = "placement" /\ Placeable(t.game, t.winner)

NextOf(t) ==
    IF Owed(t) THEN [kind |-> "owed", game |-> t.game, winner |-> t.winner] ELSE NoWriting

\* A commit, conjunct by conjunct
Committed(w, t, end, touched) ==
    /\ t.kind \in {"end", "settle", "placement"} /\ ~Collides(t, end.events)
    /\ DOMAIN ratings' = touched \cup DOMAIN ratings
    /\ \A k \in touched \cup DOMAIN ratings :
          ratings'[k] = IF k \in touched THEN end.rows[k] ELSE ratings[k]
    /\ ledger' = ledger \o end.events
    /\ \A k : k \in lost' <=> k \in lost \/ (k \in touched /\ k \in DOMAIN t.read /\ t.read[k] # Row(k))
    /\ t.kind = "end" => winners' = [winners EXCEPT ![t.game] = t.winner]
    /\ t.kind # "end" => winners' = winners
    /\ t.kind = "settle" => settled' = settled \cup {PairOf[t.rates[1]]}
    /\ t.kind # "settle" => settled' = settled
    /\ writing' = [writing EXCEPT ![w] = NextOf(t)]

\* The conjuncts of a commit
LEMMA CommitShape ==
    ASSUME NEW w \in Processes, CommitRatings(w), NEW t, t = writing[w],
           NEW end, end = AllRated(t), NEW touched, touched = Touched(end.events)
    PROVE  Committed(w, t, end, touched)
<1>1. t.kind \in {"end", "settle", "placement"} /\ Commits(w, t, end)
  BY DEF CommitRatings
<1>2. ~Collides(t, end.events) /\ ledger' = ledger \o end.events
  BY <1>1 DEF Commits
<1>3. ratings' = [k \in touched \cup DOMAIN ratings |-> IF k \in touched THEN end.rows[k] ELSE ratings[k]]
  BY <1>1 DEF Commits
<1>4. lost' = lost \cup {k \in touched \cap DOMAIN t.read : t.read[k] # Row(k)}
  BY <1>1 DEF Commits
<1>5. winners' = IF t.kind = "end" THEN [winners EXCEPT ![t.game] = t.winner] ELSE winners
  BY <1>1 DEF Commits
<1>6. settled' = IF t.kind = "settle" THEN settled \cup {PairOf[t.rates[1]]} ELSE settled
  BY <1>1 DEF Commits
<1>7. writing' = [writing EXCEPT ![w] = NextOf(t)]
  BY <1>1 DEF Commits, NextOf, Owed
<1>8. /\ DOMAIN ratings' = touched \cup DOMAIN ratings
      /\ \A k \in touched \cup DOMAIN ratings :
            ratings'[k] = IF k \in touched THEN end.rows[k] ELSE ratings[k]
  BY <1>3
<1>9. \A k : k \in lost' <=> k \in lost \/ (k \in touched /\ k \in DOMAIN t.read /\ t.read[k] # Row(k))
  BY <1>4
<1>10. /\ t.kind = "end" => winners' = [winners EXCEPT ![t.game] = t.winner]
       /\ t.kind # "end" => winners' = winners
       /\ t.kind = "settle" => settled' = settled \cup {PairOf[t.rates[1]]}
       /\ t.kind # "settle" => settled' = settled
  BY <1>5, <1>6
<1>. QED  BY <1>1, <1>2, <1>7, <1>8, <1>9, <1>10 DEF Committed

\* The rows a commit touches are those with an audit row in it.
LEMMA TouchedKeys ==
    ASSUME NEW events \in Seq(LedgerRow)
    PROVE  Touched(events) \subseteq Keys /\ \A k : k \in Touched(events) <=> ByKey(k, events) # {}
<1>1. \A n \in DOMAIN events : events[n] \in LedgerRow
  OBVIOUS
<1>2. Touched(events) \subseteq Keys
  BY <1>1 DEF LedgerRow, Touched
<1>. QED  BY <1>2 DEF ByKey, Touched

\* A commit keeps the tables well formed.
LEMMA CommitTables ==
    ASSUME RatingsInv, NEW w \in Processes, CommitRatings(w)
    PROVE  TablesOK'
<1>. PICK t : t = writing[w]
  OBVIOUS
<1>. PICK end : end = AllRated(t)
  OBVIOUS
<1>. PICK touched : touched = Touched(end.events)
  OBVIOUS
<1>1. /\ t.kind \in {"end", "settle", "placement"} /\ ~Collides(t, end.events)
      /\ DOMAIN ratings' = touched \cup DOMAIN ratings
      /\ \A i \in touched \cup DOMAIN ratings :
            ratings'[i] = IF i \in touched THEN end.rows[i] ELSE ratings[i]
      /\ ledger' = ledger \o end.events
      /\ \A i : i \in lost' <=> i \in lost \/ (i \in touched /\ i \in DOMAIN t.read /\ t.read[i] # Row(i))
      /\ t.kind = "end" => winners' = [winners EXCEPT ![t.game] = t.winner]
      /\ t.kind # "end" => winners' = winners
      /\ t.kind = "settle" => settled' = settled \cup {PairOf[t.rates[1]]}
      /\ t.kind # "settle" => settled' = settled
  <2>1. Committed(w, t, end, touched)
    BY CommitShape
  <2>. QED  BY <2>1 DEF Committed
<1>2. TablesOK /\ WritersOK
  BY DEF RatingsInv
<1>3. ReadOK(t) /\ SessionOK(end)
  BY <1>1, CommitsFresh
<1>4. WritingOK(t)
  BY <1>2 DEF WritersOK
<1>5. end.events \in Seq(LedgerRow) /\ end.rows \in [Keys -> RatingRow]
  BY <1>3 DEF SessionOK
<1>6. touched \subseteq Keys
  BY <1>5, TouchedKeys
<1>7. ledger' \in Seq(LedgerRow)
  BY <1>1, <1>2, <1>5 DEF TablesOK
<1>8. DOMAIN ratings' \subseteq Keys /\ \A k \in DOMAIN ratings' : ratings'[k] \in RatingRow
  <2>1. DOMAIN ratings' = touched \cup DOMAIN ratings
    BY <1>1
  <2>2. \A k \in DOMAIN ratings' : ratings'[k] = IF k \in touched THEN end.rows[k] ELSE ratings[k]
    BY <1>1, <2>1
  <2>. QED  BY <1>2, <1>5, <1>6, <2>1, <2>2 DEF TablesOK
<1>9. lost' \subseteq Keys
  BY <1>1, <1>2, <1>6 DEF TablesOK
<1>10. /\ \A g \in Contests : winners'[g] \in {Unplayed} \cup TerminalResults[g]
       /\ winners' \in [Contests -> {Unplayed} \cup UNION {TerminalResults[g] : g \in Contests}]
  <2>1. CASE t.kind = "end"
    <3>1. t.game \in Contests /\ t.winner \in TerminalResults[t.game]
      BY <1>4, <2>1 DEF WritingOK, EndOK, NoWriting
    <3>2. winners' = [winners EXCEPT ![t.game] = t.winner]
      BY <1>1, <2>1
    <3>. QED  BY <1>2, <3>1, <3>2 DEF TablesOK
  <2>2. CASE t.kind # "end"
    BY <1>1, <1>2, <2>2 DEF TablesOK
  <2>. QED  BY <2>1, <2>2
<1>11. settled' \subseteq {PairOf[g] : g \in Contests} \ {0}
  <2>1. CASE t.kind = "settle"
    <3>1. RatesPair(t)
      BY <1>4, <2>1 DEF WritingOK, NoWriting
    <3>2. PICK g \in Contests, h \in Contests : t.rates = <<g, h>> /\ LegsInOrder(g, h)
      BY <3>1 DEF RatesPair
    <3>3. t.rates[1] = g /\ PairOf[g] # 0
      BY <3>2 DEF LegsInOrder
    <3>4. settled' = settled \cup {PairOf[g]}
      BY <1>1, <2>1, <3>3
    <3>. QED  BY <1>2, <3>3, <3>4 DEF TablesOK
  <2>2. CASE t.kind # "settle"
    BY <1>1, <1>2, <2>2 DEF TablesOK
  <2>. QED  BY <2>1, <2>2
<1>. QED  BY <1>7, <1>8, <1>9, <1>10, <1>11 DEF TablesOK

\* A commit keeps the rows explained, but for those it overwrote with outdated values.
LEMMA CommitExplains ==
    ASSUME RatingsInv, NEW w \in Processes, CommitRatings(w), NEW k \in Keys \ lost'
    PROVE  Explained(k, Row(k), ledger)'
<1>. PICK t : t = writing[w]
  OBVIOUS
<1>. PICK end : end = AllRated(t)
  OBVIOUS
<1>. PICK touched : touched = Touched(end.events)
  OBVIOUS
<1>1. /\ t.kind \in {"end", "settle", "placement"} /\ ~Collides(t, end.events)
      /\ DOMAIN ratings' = touched \cup DOMAIN ratings
      /\ \A i \in touched \cup DOMAIN ratings :
            ratings'[i] = IF i \in touched THEN end.rows[i] ELSE ratings[i]
      /\ ledger' = ledger \o end.events
      /\ \A i : i \in lost' <=> i \in lost \/ (i \in touched /\ i \in DOMAIN t.read /\ t.read[i] # Row(i))
  <2>1. Committed(w, t, end, touched)
    BY CommitShape
  <2>. QED  BY <2>1 DEF Committed
<1>2. TablesOK /\ LedgerOK
  BY DEF RatingsInv
<1>3. ReadOK(t) /\ SessionOK(end) /\ Explains(t, end)
  BY <1>1, CommitsFresh
<1>4. end.events \in Seq(LedgerRow) /\ ledger \in Seq(LedgerRow)
  BY <1>2, <1>3 DEF SessionOK, TablesOK
<1>5. k \in touched <=> ByKey(k, end.events) # {}
  BY <1>4, TouchedKeys
<1>6. Explained(k, Row(k), ledger)
  BY <1>1, <1>2 DEF LedgerOK
<1>7. CASE k \in touched
  <2>1. Session0(t).rows[k] = Row(k)
    <3>1. Session0(t).rows[k] = IF k \in DOMAIN t.read THEN t.read[k] ELSE Row(k)
      BY <1>2, <1>3, Session0OK
    <3>2. k \in DOMAIN t.read => t.read[k] = Row(k)
      BY <1>1, <1>7
    <3>. QED  BY <3>1, <3>2
  <2>2. Explained(k, end.rows[k], ledger \o end.events)
    BY <1>3, <1>6, <2>1 DEF Explains
  <2>3. Row(k)' = end.rows[k]
    BY <1>1, <1>7 DEF Row
  <2>. QED  BY <1>1, <2>2, <2>3
<1>8. CASE k \notin touched
  <2>1. Explained(k, Row(k), ledger \o end.events)
    BY <1>4, <1>5, <1>6, <1>8, ExplainedGrows
  <2>2. Row(k)' = Row(k)
    BY <1>1, <1>8 DEF Row
  <2>. QED  BY <1>1, <2>1, <2>2
<1>. QED  BY <1>7, <1>8

\* The games that a transaction writes about, and what becomes of the others' events
Rates(t, g) == \E n \in DOMAIN t.rates : t.rates[n] = g

\* The events about a game, in the ledger of now
LEMMA AboutTheLedger == \A g : EventsAbout(g) = About(g, ledger)
BY DEF EventsAbout, About

\* The audit rows of a game are about that game.
LEMMA GameOfCopy ==
    ASSUME NEW g \in Contests, NEW r \in TerminalResults[g], NEW A \in Seq(LedgerRow), CopyOf(A, Entries[g][r])
    PROVE  \A n \in 1..Len(A) : A[n].game = g
<1>1. Entries[g][r] \in Seq(EntriesOf(g))
  BY EntriesFit DEF Fits
<1>2. \A n \in 1..Len(Entries[g][r]) : Entries[g][r][n] \in EntriesOf(g)
  BY <1>1
<1>. QED  BY <1>2 DEF CopyOf, SameSeat, EntriesOf

\* What a commit does to the events of each game
LEMMA CommitsAbout ==
    ASSUME RatingsInv, NEW t, Fresh(t), SessionOK(AllRated(t)), NEW log, log = ledger \o AllRated(t).events,
           NEW x \in Contests
    PROVE  /\ ~Rates(t, x) => /\ About(x, log) = EventsAbout(x)
                              /\ \A E : CopiedIn(E, x, ledger) /\ Len(E) \in Nat => CopiedIn(E, x, log)
           /\ Rates(t, x) => /\ WinnerOf(t, x) \in TerminalResults[x] /\ EventsAbout(x) = {}
                             /\ CopiedIn(Entries[x][WinnerOf(t, x)], x, log)
<1>1. ledger \in Seq(LedgerRow) /\ AllRated(t).events \in Seq(LedgerRow)
  BY DEF RatingsInv, TablesOK, SessionOK
<1>2. CASE NoneRated(t)
  <2>1. log = ledger
    BY <1>1, <1>2, EmptyAppended DEF NoneRated
  <2>2. ~Rates(t, x)
    BY <1>2 DEF NoneRated, Rates
  <2>. QED  BY <2>1, <2>2, AboutTheLedger
<1>3. CASE \E g \in Contests : OneRated(t, g) /\ EventsAbout(g) = {}
  <2>1. PICK g \in Contests : OneRated(t, g) /\ EventsAbout(g) = {}
    BY <1>3
  <2>. PICK r : r = WinnerOf(t, g)
    OBVIOUS
  <2>. PICK A : A = AllRated(t).events
    OBVIOUS
  <2>2. A \in Seq(LedgerRow) /\ CopyOf(A, Entries[g][r]) /\ r \in TerminalResults[g] /\ t.rates = <<g>>
    BY <1>1, <2>1 DEF OneRated
  <2>3. Rates(t, x) <=> x = g
    BY <2>2 DEF Rates
  <2>4. \A n \in 1..Len(A) : A[n].game = g
    BY <2>2, GameOfCopy
  <2>5. CASE x # g
    <3>1. \A n \in 1..Len(A) : A[n].game # x
      BY <2>4, <2>5
    <3>2. About(x, log) = About(x, ledger) /\ \A E : CopiedIn(E, x, ledger) /\ Len(E) \in Nat => CopiedIn(E, x, log)
      BY <1>1, <2>2, <3>1, AboutOthers
    <3>. QED  BY <2>3, <2>5, <3>2, AboutTheLedger
  <2>6. CASE x = g
    <3>1. Entries[g][r] \in Seq(EntriesOf(g))
      BY <2>2, EntriesFit DEF Fits
    <3>2. About(g, ledger) = {}
      BY <2>1, AboutTheLedger
    <3>3. CopiedIn(Entries[g][r], g, log)
      BY <1>1, <2>2, <3>1, <3>2, AboutFresh
    <3>. QED  BY <2>1, <2>2, <2>3, <2>6, <3>3
  <2>. QED  BY <2>5, <2>6
<1>4. CASE \E g, h \in Contests : TwoRated(t, g, h) /\ EventsAbout(g) = {} /\ EventsAbout(h) = {}
  <2>1. PICK g \in Contests, h \in Contests :
            TwoRated(t, g, h) /\ EventsAbout(g) = {} /\ EventsAbout(h) = {}
    BY <1>4
  <2>. PICK r : r = WinnerOf(t, g)
    OBVIOUS
  <2>. PICK s : s = WinnerOf(t, h)
    OBVIOUS
  <2>2. PICK A \in Seq(LedgerRow), B \in Seq(LedgerRow) :
            /\ AllRated(t).events = A \o B
            /\ CopyOf(A, Entries[g][r]) /\ CopyOf(B, Entries[h][s])
    BY <2>1 DEF TwoRated
  <2>3. r \in TerminalResults[g] /\ s \in TerminalResults[h] /\ t.rates = <<g, h>> /\ g < h
    BY <2>1 DEF TwoRated, LegsInOrder
  <2>4. Rates(t, x) <=> x \in {g, h}
    <3>1. DOMAIN t.rates = {1, 2} /\ t.rates[1] = g /\ t.rates[2] = h
      BY <2>3
    <3>. QED  BY <3>1 DEF Rates
  <2>5. g # h
    BY <2>3, RatingsAssumption
  <2>6. (\A n \in 1..Len(A) : A[n].game = g) /\ (\A n \in 1..Len(B) : B[n].game = h)
    BY <2>2, <2>3, GameOfCopy
  <2>7. PICK M : M = ledger \o A
    OBVIOUS
  <2>8. M \in Seq(LedgerRow)
    BY <1>1, <2>7
  <2>13. log = M \o B
    <3>2. ledger \o (A \o B) = (ledger \o A) \o B
      BY <1>1, Appended
    <3>. QED  BY <2>2, <2>7, <3>2
  <2>9. Entries[g][r] \in Seq(EntriesOf(g)) /\ Entries[h][s] \in Seq(EntriesOf(h))
    BY <2>3, EntriesFit DEF Fits
  <2>10. CASE x \notin {g, h}
    <3>1. (\A n \in 1..Len(A) : A[n].game # x) /\ (\A n \in 1..Len(B) : B[n].game # x)
      BY <2>6, <2>10
    <3>2. About(x, M) = About(x, ledger) /\ \A E : CopiedIn(E, x, ledger) /\ Len(E) \in Nat => CopiedIn(E, x, M)
      BY <1>1, <2>7, <3>1, AboutOthers
    <3>3. About(x, M \o B) = About(x, M) /\ \A E : CopiedIn(E, x, M) /\ Len(E) \in Nat => CopiedIn(E, x, M \o B)
      BY <2>8, <3>1, AboutOthers
    <3>. QED  BY <2>4, <2>10, <2>13, <3>2, <3>3, AboutTheLedger
  <2>11. CASE x = g
    <3>1. About(g, ledger) = {}
      BY <2>1, AboutTheLedger
    <3>2. CopiedIn(Entries[g][r], g, M)
      BY <1>1, <2>2, <2>7, <2>9, <3>1, AboutFresh
    <3>3. \A n \in 1..Len(B) : B[n].game # g
      BY <2>5, <2>6
    <3>4. Len(Entries[g][r]) \in Nat
      BY <2>9
    <3>5. CopiedIn(Entries[g][r], g, M \o B)
      BY <2>8, <3>2, <3>3, <3>4, AboutOthers
    <3>. QED  BY <2>1, <2>3, <2>4, <2>11, <2>13, <3>5
  <2>12. CASE x = h
    <3>1. \A n \in 1..Len(A) : A[n].game # h
      BY <2>5, <2>6
    <3>2. About(h, M) = {}
      BY <1>1, <2>1, <2>7, <3>1, AboutOthers, AboutTheLedger
    <3>3. CopiedIn(Entries[h][s], h, M \o B)
      BY <2>2, <2>8, <2>9, <3>2, AboutFresh
    <3>. QED  BY <2>1, <2>3, <2>4, <2>12, <2>13, <3>3
  <2>. QED  BY <2>10, <2>11, <2>12
<1>. QED  BY <1>2, <1>3, <1>4 DEF Fresh

\* A commit ends the game of its transaction, and no other.
LEMMA CommitWinners ==
    ASSUME RatingsInv, NEW w \in Processes, CommitRatings(w), NEW t, t = writing[w], NEW x \in Contests
    PROVE  /\ winners'[x] = WinnerOf(t, x)
           /\ t.kind = "end" \/ winners'[x] = winners[x]
           /\ winners[x] # Unplayed => winners'[x] = winners[x]
<1>1. /\ t.kind \in {"end", "settle", "placement"}
      /\ t.kind = "end" => winners' = [winners EXCEPT ![t.game] = t.winner]
      /\ t.kind # "end" => winners' = winners
  <2>1. Committed(w, t, AllRated(t), Touched(AllRated(t).events))
    BY CommitShape
  <2>. QED  BY <2>1 DEF Committed
<1>2. TablesOK /\ WritingOK(t)
  BY DEF RatingsInv, WritersOK
<1>3. winners \in [Contests -> {Unplayed} \cup UNION {TerminalResults[g] : g \in Contests}]
  BY <1>2 DEF TablesOK
<1>4. CASE t.kind = "end"
  <2>1. EndOK(t)
    BY <1>2, <1>4 DEF WritingOK, NoWriting
  <2>2. winners'[x] = IF x = t.game THEN t.winner ELSE winners[x]
    BY <1>1, <1>3, <1>4
  <2>. QED  BY <1>4, <2>1, <2>2 DEF WinnerOf, EndOK
<1>5. CASE t.kind = "settle"
  <2>1. t.game = 0
    BY <1>2, <1>5 DEF WritingOK, NoWriting
  <2>. QED  BY <1>1, <1>5, <2>1, RatingsAssumption DEF WinnerOf
<1>6. CASE t.kind = "placement"
  <2>1. OwedOK(t)
    BY <1>2, <1>6 DEF WritingOK, NoWriting
  <2>. QED  BY <1>1, <1>6, <2>1 DEF WinnerOf, OwedOK
<1>. QED  BY <1>1, <1>4, <1>5, <1>6

\* The legs of a pair have their events in order.
LEMMA PairInOrder ==
    ASSUME RatingsInv, NEW t, SessionOK(AllRated(t)), NEW g \in Contests, NEW h \in Contests, TwoRated(t, g, h),
           EventsAbout(g) = {}, EventsAbout(h) = {}
    PROVE  LET log == ledger \o AllRated(t).events
           IN  /\ About(g, log) # {} /\ About(h, log) # {}
               /\ \A n \in About(g, log), m \in About(h, log) : n < m
<1>1. ledger \in Seq(LedgerRow)
  BY DEF RatingsInv, TablesOK
<1>. PICK r : r = WinnerOf(t, g)
  OBVIOUS
<1>. PICK s : s = WinnerOf(t, h)
  OBVIOUS
<1>2. PICK A \in Seq(LedgerRow), B \in Seq(LedgerRow) :
          /\ AllRated(t).events = A \o B
          /\ CopyOf(A, Entries[g][r]) /\ CopyOf(B, Entries[h][s])
  BY DEF TwoRated
<1>3. /\ r \in TerminalResults[g] /\ s \in TerminalResults[h] /\ g # h
      /\ Ladder[g] = "team" /\ Ladder[h] = "team"
  BY RatingsAssumption DEF TwoRated, LegsInOrder
<1>4. /\ Len(Entries[g][r]) \in Nat \ {0} /\ Entries[g][r] \in Seq(EntriesOf(g))
      /\ Len(Entries[h][s]) \in Nat \ {0} /\ Entries[h][s] \in Seq(EntriesOf(h))
  BY <1>3, EntriesOfTeams
<1>5. Len(A) \in Nat \ {0} /\ Len(B) \in Nat \ {0}
  BY <1>2, <1>4 DEF CopyOf
<1>6. (\A n \in 1..Len(A) : A[n].game = g) /\ (\A n \in 1..Len(B) : B[n].game = h)
  BY <1>2, <1>3, GameOfCopy
<1>7. PICK M : M = ledger \o A
  OBVIOUS
<1>8. M \in Seq(LedgerRow) /\ Len(M) = Len(ledger) + Len(A) /\ Len(ledger) \in Nat
  BY <1>1, <1>7
<1>9. ledger \o AllRated(t).events = M \o B
  <2>1. ledger \o (A \o B) = (ledger \o A) \o B
    BY <1>1, Appended
  <2>. QED  BY <1>2, <1>7, <2>1
<1>10. About(g, ledger) = {} /\ About(h, ledger) = {}
  BY AboutTheLedger
<1>11. About(g, M) = Len(ledger) + 1..Len(ledger) + Len(A)
  BY <1>1, <1>2, <1>4, <1>7, <1>10, AboutFresh
<1>12. About(h, M) = {}
  <2>1. \A n \in 1..Len(A) : A[n].game # h
    BY <1>3, <1>6
  <2>. QED  BY <1>1, <1>7, <1>10, <2>1, AboutOthers
<1>13. About(g, M \o B) = About(g, M)
  <2>1. \A n \in 1..Len(B) : B[n].game # g
    BY <1>3, <1>6
  <2>. QED  BY <1>8, <2>1, AboutOthers
<1>14. About(h, M \o B) = Len(M) + 1..Len(M) + Len(B)
  BY <1>2, <1>4, <1>8, <1>12, AboutFresh
<1>. PICK ag : ag = About(g, M \o B)
  OBVIOUS
<1>. PICK ah : ah = About(h, M \o B)
  OBVIOUS
<1>15. ag = Len(ledger) + 1..Len(ledger) + Len(A) /\ ah = Len(M) + 1..Len(M) + Len(B)
  BY <1>11, <1>13, <1>14
<1>16. ag # {} /\ ah # {} /\ \A n \in ag, m \in ah : n < m
  <2>1. Len(ledger) + 1 \in ag /\ Len(M) + 1 \in ah
    BY <1>5, <1>8, <1>15
  <2>2. \A n \in ag, m \in ah : n < m
    BY <1>5, <1>8, <1>15
  <2>. QED  BY <2>1, <2>2
<1>. QED  BY <1>9, <1>16

\* What a transaction rates, by its kind
LEMMA RatesOfFresh ==
    ASSUME NEW t, Fresh(t)
    PROVE  \/ t.kind = "end" /\ ~RatedWith(t.game, t.winner) /\ \A x : ~Rates(t, x)
           \/ /\ t.game \in Contests /\ OfAGame(t) /\ Single(t.game)
              /\ \A x : Rates(t, x) <=> x = t.game
           \/ \E g, h \in Contests :
                 /\ TwoRated(t, g, h) /\ EventsAbout(g) = {} /\ EventsAbout(h) = {} /\ OfThePair(t, g, h)
                 /\ LegsInOrder(g, h) /\ \A x : Rates(t, x) <=> x \in {g, h}
<1>1. CASE NoneRated(t) /\ t.kind = "end" /\ ~RatedWith(t.game, t.winner)
  BY <1>1 DEF NoneRated, Rates
<1>2. CASE \E g \in Contests : OneRated(t, g) /\ t.game = g /\ OfAGame(t) /\ Single(g) /\ EventsAbout(g) = {}
  <2>1. PICK g \in Contests : OneRated(t, g) /\ t.game = g /\ OfAGame(t) /\ Single(g)
    BY <1>2
  <2>2. \A x : Rates(t, x) <=> x = g
    <3>1. t.rates = <<g>>
      BY <2>1 DEF OneRated
    <3>2. DOMAIN t.rates = {1} /\ t.rates[1] = g
      BY <3>1
    <3>. QED  BY <3>2 DEF Rates
  <2>. QED  BY <2>1, <2>2
<1>3. CASE \E g, h \in Contests :
              TwoRated(t, g, h) /\ EventsAbout(g) = {} /\ EventsAbout(h) = {} /\ OfThePair(t, g, h)
  <2>1. PICK g \in Contests, h \in Contests :
            TwoRated(t, g, h) /\ EventsAbout(g) = {} /\ EventsAbout(h) = {} /\ OfThePair(t, g, h)
    BY <1>3
  <2>2. t.rates = <<g, h>> /\ LegsInOrder(g, h)
    BY <2>1 DEF TwoRated
  <2>3. DOMAIN t.rates = {1, 2} /\ t.rates[1] = g /\ t.rates[2] = h
    BY <2>2
  <2>4. \A x : Rates(t, x) <=> x \in {g, h}
    BY <2>3 DEF Rates
  <2>. QED  BY <2>1, <2>2, <2>4
<1>. QED  BY <1>1, <1>2, <1>3 DEF Fresh

\* A commit keeps the ledger in order.
LEMMA CommitLedger ==
    ASSUME RatingsInv, NEW w \in Processes, CommitRatings(w)
    PROVE  LedgerOK'
<1>. PICK t : t = writing[w]
  OBVIOUS
<1>1. /\ t.kind \in {"end", "settle", "placement"} /\ ~Collides(t, AllRated(t).events)
      /\ ledger' = ledger \o AllRated(t).events
  <2>1. Committed(w, t, AllRated(t), Touched(AllRated(t).events))
    BY CommitShape
  <2>. QED  BY <2>1 DEF Committed
<1>2. SessionOK(AllRated(t)) /\ Fresh(t)
  BY <1>1, CommitsFresh
<1>3. TablesOK /\ LedgerOK /\ WritingOK(t)
  BY DEF RatingsInv, WritersOK
<1>. PICK log : log = ledger \o AllRated(t).events
  OBVIOUS
<1>4. \A x : EventsAbout(x)' = About(x, log)
  BY <1>1 DEF EventsAbout, About
<1>5. ASSUME NEW x \in Contests
      PROVE  /\ ~Rates(t, x) => /\ About(x, log) = EventsAbout(x)
                                /\ \A E : CopiedIn(E, x, ledger) /\ Len(E) \in Nat => CopiedIn(E, x, log)
             /\ Rates(t, x) => /\ WinnerOf(t, x) \in TerminalResults[x] /\ EventsAbout(x) = {}
                               /\ CopiedIn(Entries[x][WinnerOf(t, x)], x, log)
  BY <1>2, CommitsAbout
<1>6. \A x \in Contests : /\ winners'[x] = WinnerOf(t, x)
                          /\ winners[x] # Unplayed => winners'[x] = winners[x]
                          /\ t.kind = "end" \/ winners'[x] = winners[x]
  BY CommitWinners
<1>7. \A x \in Contests : Unplayed \notin TerminalResults[x]
  BY RatingsAssumption
<1>8. \A x \in Contests : \A r \in TerminalResults[x] : Len(Entries[x][r]) \in Nat /\ Len(Entries[x][r]) = Due[x]
  BY EntriesFit DEF Fits
<1>9. ASSUME NEW x \in Contests PROVE CopiedOnce(x)'
  <2>1. CASE Rates(t, x)
    <3>1. winners'[x] \in TerminalResults[x] /\ CopiedIn(Entries[x][winners'[x]], x, log)
      BY <1>5, <1>6, <2>1
    <3>2. CopiedIn(Entries[x][winners'[x]], x, ledger')
      BY <1>1, <3>1
    <3>. QED  BY <1>7, <3>1, <3>2 DEF CopiedOnce
  <2>2. CASE ~Rates(t, x)
    <3>. SUFFICES ASSUME EventsAbout(x)' # {}
                  PROVE  winners'[x] # Unplayed /\ CopiedIn(Entries[x][winners'[x]], x, ledger')
      BY DEF CopiedOnce
    <3>1. EventsAbout(x) # {}
      BY <1>4, <1>5, <2>2
    <3>2. winners[x] # Unplayed /\ CopiedIn(Entries[x][winners[x]], x, ledger)
      BY <1>3, <3>1 DEF LedgerOK, CopiedOnce
    <3>3. winners[x] \in TerminalResults[x]
      BY <1>3, <3>2 DEF TablesOK
    <3>4. CopiedIn(Entries[x][winners[x]], x, log)
      BY <1>5, <1>8, <2>2, <3>2, <3>3
    <3>. QED  BY <1>1, <1>6, <3>2, <3>4
  <2>. QED  BY <2>1, <2>2
<1>10. ASSUME NEW x \in Contests, Rates(t, x), Due[x] # 0 PROVE EventsAbout(x)' # {}
  <2>1. CopiedIn(Entries[x][WinnerOf(t, x)], x, log) /\ WinnerOf(t, x) \in TerminalResults[x]
    BY <1>5, <1>10
  <2>. PICK E : E = Entries[x][WinnerOf(t, x)]
    OBVIOUS
  <2>2. Len(E) \in Nat \ {0}
    BY <1>8, <1>10, <2>1
  <2>3. PICK a \in Nat : About(x, log) = a + 1..a + Len(E)
    BY <2>1 DEF CopiedIn
  <2>4. a + 1 \in About(x, log)
    BY <2>2, <2>3
  <2>. QED  BY <1>4, <2>4
<1>11. ASSUME NEW x \in Contests, RatedAtTheEnd(x)', Due[x] # 0 PROVE EventsAbout(x)' # {}
  <2>1. CASE Rates(t, x)
    BY <1>10, <1>11, <2>1
  <2>2. CASE ~Rates(t, x)
    <3>1. EventsAbout(x)' = EventsAbout(x)
      BY <1>4, <1>5, <2>2
    <3>2. CASE winners'[x] = winners[x]
      <4>1. RatedAtTheEnd(x)
        BY <1>11, <3>2 DEF RatedAtTheEnd
      <4>. QED  BY <1>3, <1>11, <3>1, <4>1 DEF LedgerOK
    <3>3. CASE winners'[x] # winners[x]
      <4>1. t.kind = "end" /\ t.game = x /\ winners'[x] = t.winner
        BY <1>6, <3>3 DEF WinnerOf
      <4>2. RatedWith(x, t.winner) /\ Single(x)
        BY <1>11, <4>1 DEF RatedAtTheEnd, RatedWith, Single
      <4>3. PICK g \in Contests, h \in Contests : LegsInOrder(g, h) /\ x \in {g, h}
        <5>1. ~(t.kind = "end" /\ ~RatedWith(t.game, t.winner))
          BY <4>1, <4>2
        <5>2. ~(\A y : Rates(t, y) <=> y = t.game)
          BY <2>2, <4>1
        <5>3. PICK g \in Contests, h \in Contests : LegsInOrder(g, h) /\ OfThePair(t, g, h)
          BY <1>2, <5>1, <5>2, RatesOfFresh
        <5>4. t.game \in {g, h}
          BY <4>1, <5>3 DEF OfThePair
        <5>. QED  BY <4>1, <5>3, <5>4
      <4>4. Ladder[x] = "team" /\ PairOf[x] # 0
        BY <4>3 DEF LegsInOrder
      <4>. QED  BY <4>2, <4>4 DEF Single
    <3>. QED  BY <3>2, <3>3
  <2>. QED  BY <2>1, <2>2
<1>12. ASSUME NEW x \in Contests, NEW y \in Contests, PairedGames(x, y) PROVE PairTogether(x, y)'
  <2>1. PairTogether(x, y)
    BY <1>3, <1>12 DEF LedgerOK
  <2>2. CASE ~Rates(t, x) /\ ~Rates(t, y)
    <3>1. EventsAbout(x)' = EventsAbout(x) /\ EventsAbout(y)' = EventsAbout(y)
      BY <1>4, <1>5, <2>2
    <3>. QED  BY <2>1, <3>1 DEF PairTogether
  <2>3. CASE Rates(t, x) \/ Rates(t, y)
    <3>0. x \in Nat /\ y \in Nat /\ x < y /\ ~Single(x) /\ ~Single(y)
      BY <1>12, RatingsAssumption DEF PairedGames, Single
    <3>1. PICK g \in Contests, h \in Contests :
              /\ TwoRated(t, g, h) /\ EventsAbout(g) = {} /\ EventsAbout(h) = {}
              /\ LegsInOrder(g, h) /\ \A z : Rates(t, z) <=> z \in {g, h}
      <4>1. ~(\A z : ~Rates(t, z))
        BY <2>3
      <4>2. ~(Single(t.game) /\ \A z : Rates(t, z) <=> z = t.game)
        BY <2>3, <3>0
      <4>. QED  BY <1>2, <4>1, <4>2, RatesOfFresh
    <3>2. x \in {g, h} \/ y \in {g, h}
      BY <2>3, <3>1
    <3>3. x \in {g, h} /\ y \in {g, h}
      BY <1>12, <3>1, <3>2 DEF LegsInOrder, PairedGames
    <3>4. x = g /\ y = h
      <4>1. g \in Nat /\ h \in Nat /\ g < h
        BY <3>1, RatingsAssumption DEF LegsInOrder
      <4>. QED  BY <3>0, <3>3, <4>1
    <3>5. /\ About(g, log) # {} /\ About(h, log) # {}
          /\ \A n \in About(g, log), m \in About(h, log) : n < m
      BY <1>2, <3>1, PairInOrder
    <3>. QED  BY <1>4, <3>4, <3>5 DEF PairTogether
  <2>. QED  BY <2>2, <2>3
<1>13. \A k \in Keys \ lost' : Explained(k, Row(k), ledger)'
  BY CommitExplains
<1>. QED  BY <1>9, <1>11, <1>12, <1>13 DEF LedgerOK

\* A commit leaves what the other transactions rely on.
LEMMA CommitWriters ==
    ASSUME RatingsInv, NEW w \in Processes, CommitRatings(w)
    PROVE  WritersOK'
<1>. PICK t : t = writing[w]
  OBVIOUS
<1>1. /\ t.kind \in {"end", "settle", "placement"} /\ ~Collides(t, AllRated(t).events)
      /\ ledger' = ledger \o AllRated(t).events
      /\ writing' = [writing EXCEPT ![w] = NextOf(t)]
  <2>1. Committed(w, t, AllRated(t), Touched(AllRated(t).events))
    BY CommitShape
  <2>. QED  BY <2>1 DEF Committed
<1>2. SessionOK(AllRated(t)) /\ Fresh(t)
  BY <1>1, CommitsFresh
<1>3. TablesOK /\ LedgerOK /\ WritersOK /\ WritingOK(t)
  BY DEF RatingsInv, WritersOK
<1>4. DOMAIN writing' = Processes /\ writing' = [v \in Processes |-> writing'[v]]
  BY <1>1, <1>3 DEF WritersOK
<1>5. \A v \in Processes : writing'[v] = IF v = w THEN NextOf(t) ELSE writing[v]
  BY <1>1, <1>3 DEF WritersOK
<1>6. \A x \in Contests : /\ winners'[x] = WinnerOf(t, x)
                          /\ winners[x] # Unplayed => winners'[x] = winners[x]
                          /\ t.kind = "end" \/ winners'[x] = winners[x]
  BY CommitWinners
<1>7. \A x \in Contests : ~Rates(t, x) => EventsAbout(x)' = EventsAbout(x)
  <2>. PICK log : log = ledger \o AllRated(t).events
    OBVIOUS
  <2>1. \A x \in Contests : ~Rates(t, x) => About(x, log) = EventsAbout(x)
    BY <1>2, CommitsAbout
  <2>2. \A x : EventsAbout(x)' = About(x, log)
    BY <1>1 DEF EventsAbout, About
  <2>. QED  BY <2>1, <2>2
<1>8. \A x \in Contests : Unplayed \notin TerminalResults[x]
  BY RatingsAssumption
\* Placements of other games
<1>9. ASSUME NEW x \in Contests, Ladder[x] = "placement", ~(OfAGame(t) /\ x = t.game)
      PROVE  EventsAbout(x)' = EventsAbout(x)
  <2>1. ~Rates(t, x)
    <3>1. \A g, h \in Contests : LegsInOrder(g, h) => x \notin {g, h}
      BY <1>9 DEF LegsInOrder
    <3>. QED  BY <1>2, <1>9, <3>1, RatesOfFresh
  <2>. QED  BY <1>7, <2>1
<1>10. \A u : RatesPair(u) => RatesPair(u)'
  <2>1. \A u, g : g \in Contests /\ WinnerOf(u, g) \in TerminalResults[g] => WinnerOf(u, g)' = WinnerOf(u, g)
    BY <1>6, <1>8 DEF WinnerOf
  <2>. QED  BY <2>1 DEF RatesPair
<1>11. ASSUME NEW v \in Processes, v # w PROVE WritingOK(writing[v])'
  <2>. PICK u : u = writing[v]
    OBVIOUS
  <2>1. WritingOK(u) /\ (OfAGame(t) /\ OfAGame(u) => u.game # t.game)
    BY <1>3, <1>11 DEF WritersOK
  <2>2. CASE u.kind = "end" /\ EndOK(u) /\ ReadOK(u)
    <3>1. winners'[u.game] = Unplayed
      <4>1. CASE t.kind = "end"
        <5>1. u.game # t.game
          BY <2>1, <2>2, <4>1 DEF OfAGame
        <5>. QED  BY <1>6, <2>2, <5>1 DEF EndOK, WinnerOf
      <4>2. CASE t.kind # "end"
        BY <1>6, <2>2, <4>2 DEF EndOK
      <4>. QED  BY <4>1, <4>2
    <3>2. EndOK(u)'
      BY <1>10, <2>2, <3>1 DEF EndOK
    <3>. QED  BY <1>5, <1>11, <2>2, <3>2 DEF WritingOK
  <2>3. CASE OwedOK(u) /\ u.kind \in {"owed", "placement"}
    <3>1. u.game \in Contests /\ winners'[u.game] = winners[u.game]
      BY <1>6, <1>8, <2>3 DEF OwedOK
    <3>2. ~(OfAGame(t) /\ u.game = t.game)
      BY <2>1, <2>3 DEF OfAGame
    <3>3. EventsAbout(u.game)' = {}
      BY <1>9, <2>3, <3>2 DEF OwedOK
    <3>4. OwedOK(u)'
      BY <2>3, <3>1, <3>3 DEF OwedOK
    <3>5. WritingOK(u)'
      BY <2>1, <2>3, <3>4 DEF WritingOK, NoWriting
    <3>. QED  BY <1>5, <1>11, <3>5
  <2>4. CASE u.kind = "settle" /\ u.game = 0 /\ RatesPair(u) /\ ReadOK(u)
    <3>1. WritingOK(u)'
      BY <1>10, <2>4 DEF WritingOK
    <3>. QED  BY <1>5, <1>11, <3>1
  <2>5. CASE u = NoWriting
    <3>1. WritingOK(u)'
      BY <2>5 DEF WritingOK
    <3>. QED  BY <1>5, <1>11, <3>1
  <2>. QED  BY <2>1, <2>2, <2>3, <2>4, <2>5 DEF WritingOK
<1>12. WritingOK(NextOf(t))' /\ (OfAGame(NextOf(t)) => OfAGame(t) /\ NextOf(t).game = t.game)
  <2>1. CASE ~Owed(t)
    BY <2>1 DEF NextOf, WritingOK, OfAGame, NoWriting
  <2>2. CASE Owed(t)
    <3>. PICK u : u = [kind |-> "owed", game |-> t.game, winner |-> t.winner]
      OBVIOUS
    <3>1. NextOf(t) = u /\ t.kind = "end" /\ Ladder[t.game] = "placement"
      BY <2>2 DEF NextOf, Owed
    <3>2. EndOK(t)
      BY <1>3, <3>1 DEF WritingOK, NoWriting
    <3>3. t.game \in Contests /\ t.winner \in TerminalResults[t.game] /\ winners'[t.game] = t.winner
      BY <1>6, <3>2 DEF EndOK, WinnerOf
    <3>4. EventsAbout(t.game) = {}
      BY <1>3, <3>2 DEF EndOK, LedgerOK, CopiedOnce
    <3>5. ~Rates(t, t.game)
      <4>1. t.rates = <<>>
        <5>1. ~(RatesItself(t) /\ Ladder[t.game] # "placement")
          BY <3>1
        <5>2. ~RatesPair(t)
          BY <3>1 DEF RatesPair, LegsInOrder
        <5>. QED  BY <3>2, <5>1, <5>2 DEF EndOK
      <4>. QED  BY <4>1 DEF Rates
    <3>6. EventsAbout(t.game)' = {}
      BY <1>7, <3>3, <3>4, <3>5
    <3>7. u.kind = "owed" /\ u.game = t.game /\ u.winner = t.winner
      OBVIOUS
    <3>8. OwedOK(u)'
      BY <3>1, <3>3, <3>6, <3>7 DEF OwedOK
    <3>9. WritingOK(u)'
      BY <3>7, <3>8 DEF WritingOK
    <3>. QED  BY <3>1, <3>7, <3>9 DEF OfAGame
  <2>. QED  BY <2>1, <2>2
<1>13. ASSUME NEW v \in Processes PROVE WritingOK(writing[v])'
  BY <1>5, <1>11, <1>12
<1>14. ASSUME NEW u \in Processes, NEW v \in Processes, u # v, OfAGame(writing'[u]), OfAGame(writing'[v])
       PROVE  writing'[u].game # writing'[v].game
  BY <1>3, <1>5, <1>12, <1>14 DEF WritersOK
<1>. QED  BY <1>4, <1>13, <1>14 DEF WritersOK, OfAGame

\* CommitRatings
LEMMA CommitKeepsRatings ==
    ASSUME RatingsInv, NEW w \in Processes, CommitRatings(w)
    PROVE  RatingsInv'
BY CommitTables, CommitLedger, CommitWriters DEF RatingsInv

\* A step keeps the invariant, and so does one that changes none of the tables.
LEMMA RatingsStepKeeps ==
    ASSUME RatingsInv, [RatingsNext]_ratingVars
    PROVE  RatingsInv'
<1>1. CASE RatingsNext
  <2>1. PICK w \in Processes : RatingsStep(w)
    BY <1>1 DEF RatingsNext
  <2>2. CASE \E g \in Contests : \E r \in TerminalResults[g] : EndContest(w, g, r)
    BY <2>2, EndOpens
  <2>3. CASE \E p \in {PairOf[g] : g \in Contests} \ {0} : SettlePair(w, p)
    BY <2>3, SettlingOpens
  <2>4. CASE OpenPlacement(w)
    BY <2>4, PlacementOpens
  <2>5. CASE CommitRatings(w)
    BY <2>5, CommitKeepsRatings
  <2>6. CASE RollBack(w)
    BY <2>6, RollsBack
  <2>. QED  BY <2>1, <2>2, <2>3, <2>4, <2>5, <2>6 DEF RatingsStep
<1>2. CASE UNCHANGED ratingVars
  <2>1. UNCHANGED <<winners, ratings, ledger, lost, settled>> /\ UNCHANGED writing
    BY <1>2 DEF ratingVars
  <2>2. TablesOK' /\ LedgerOK'
    BY <2>1, TablesUntouched DEF RatingsInv
  <2>3. \A u : WritingOK(u)' <=> WritingOK(u)
    <3>1. \A u : RatesPair(u)' <=> RatesPair(u)
      BY <2>1 DEF RatesPair, WinnerOf
    <3>2. \A u : EndOK(u)' <=> EndOK(u)
      BY <2>1, <3>1 DEF EndOK
    <3>3. \A u : OwedOK(u)' <=> OwedOK(u)
      BY <2>1 DEF OwedOK, EventsAbout
    <3>. QED  BY <3>1, <3>2, <3>3 DEF WritingOK
  <2>4. WritersOK'
    BY <2>1, <2>3 DEF RatingsInv, WritersOK
  <2>. QED  BY <2>2, <2>4 DEF RatingsInv
<1>. QED  BY <1>1, <1>2

\* The invariant has the types of the tables in it.
LEMMA InvariantTypesRatings ==
    ASSUME RatingsInv
    PROVE  RatingsTypeOK
<1>1. TablesOK /\ WritersOK
  BY DEF RatingsInv
<1>2. \A k \in DOMAIN ratings : ratings[k] \in [value : AuditTrail, games : Nat, at : Nat]
  BY <1>1 DEF TablesOK, RatingRow
<1>3. ASSUME NEW n \in DOMAIN ledger
      PROVE  ledger[n] \in RatingEvent \cup PlacementRatingEvent
                           \cup SoloRateRatingEvent \cup HumanRatingEvent
  <2>1. ledger[n] \in LedgerRow
    BY <1>1 DEF TablesOK
  <2>. PICK row : row = ledger[n]
    OBVIOUS
  <2>2. \A table : row.key \in table => row \in AuditOf(table)
    BY <2>1 DEF LedgerRow, AuditOf, Outcome
  <2>3. row.key \in Rating \cup PlacementRating \cup SoloRateRating \cup HumanRating
    BY <2>1 DEF LedgerRow, Keys
  <2>. QED  BY <2>2, <2>3 DEF RatingEvent, PlacementRatingEvent, SoloRateRatingEvent, HumanRatingEvent
<1>4. \A w \in Processes : writing[w].kind \in {"none", "end", "settle", "owed", "placement"}
  BY <1>1 DEF WritersOK, WritingOK, NoWriting
<1>. QED  BY <1>1, <1>2, <1>3, <1>4 DEF RatingsTypeOK, TablesOK

\* The invariant says that the ledger explains the ratings.
LEMMA InvariantExplainsRatings ==
    ASSUME RatingsInv
    PROVE  LedgerExplainsRatings
<1>1. TablesOK /\ LedgerOK
  BY DEF RatingsInv
<1>2. ASSUME NEW g \in Contests, EventsAbout(g) # {}
      PROVE  /\ Cardinality(EventsAbout(g)) = Due[g] /\ winners[g] # Unplayed
             /\ \A n \in EventsAbout(g) :
                   ledger[n].result = "drawn" <=> winners[g] = "DRAW" /\ Ladder[g] # "solo"
  <2>1. winners[g] # Unplayed /\ CopiedIn(Entries[g][winners[g]], g, ledger)
    BY <1>1, <1>2 DEF LedgerOK, CopiedOnce
  <2>2. winners[g] \in TerminalResults[g]
    BY <1>1, <2>1 DEF TablesOK
  <2>. PICK E : E = Entries[g][winners[g]]
    OBVIOUS
  <2>3. /\ E \in Seq(EntriesOf(g)) /\ Len(E) = Due[g]
        /\ \A n \in 1..Len(E) : E[n].result = "drawn" <=> winners[g] = "DRAW" /\ Ladder[g] # "solo"
    BY <2>2, EntriesFit DEF Fits
  <2>4. Len(E) \in Nat
    BY <2>3
  <2>5. PICK a \in Nat : /\ About(g, ledger) = a + 1..a + Len(E)
                         /\ \A n \in 1..Len(E) : SameSeat(ledger[a + n], E[n])
    BY <2>1 DEF CopiedIn
  <2>6. EventsAbout(g) = a + 1..a + Len(E)
    BY <2>5, AboutTheLedger
  <2>7. Cardinality(EventsAbout(g)) = Len(E)
    <3>1. a + 1 \in Int /\ a + Len(E) \in Int
      BY <2>4
    <3>2. Cardinality(a + 1..a + Len(E)) =
            IF a + 1 > a + Len(E) THEN 0 ELSE (a + Len(E)) - (a + 1) + 1
      BY <3>1, FS_Interval
    <3>. QED  BY <2>4, <2>6, <3>2
  <2>8. ASSUME NEW n \in EventsAbout(g)
        PROVE  ledger[n].result = "drawn" <=> winners[g] = "DRAW" /\ Ladder[g] # "solo"
    <3>1. n - a \in 1..Len(E) /\ n = a + (n - a)
      BY <2>4, <2>6
    <3>2. ledger[n].result = E[n - a].result
      BY <2>5, <3>1 DEF SameSeat
    <3>. QED  BY <2>3, <3>1, <3>2
  <2>. QED  BY <2>1, <2>3, <2>7, <2>8
<1>3. ASSUME NEW g \in Contests
      PROVE  /\ Cardinality(EventsAbout(g)) \in {0, Due[g]}
             /\ EventsAbout(g) # {} => winners[g] # Unplayed
             /\ \A n \in EventsAbout(g) :
                   ledger[n].result = "drawn" <=> winners[g] = "DRAW" /\ Ladder[g] # "solo"
  BY <1>2, FS_EmptySet
<1>4. \A g, h \in Contests :
          PairOf[g] = PairOf[h] /\ PairOf[g] # 0 /\ Ladder[g] = "team" /\ Ladder[h] = "team" /\ g < h =>
              /\ EventsAbout(g) = {} <=> EventsAbout(h) = {}
              /\ \A n \in EventsAbout(g), m \in EventsAbout(h) : n < m
  BY <1>1 DEF LedgerOK, PairedGames, PairTogether
<1>5. /\ \A k \in Keys \ lost : Explained(k, Row(k), ledger)
      /\ \A g \in Contests : RatedAtTheEnd(g) /\ Due[g] # 0 => EventsAbout(g) # {}
  BY <1>1 DEF LedgerOK
<1>. QED  BY <1>3, <1>4, <1>5 DEF LedgerExplainsRatings

\* The inductive invariant of the ratings: the tables are well formed, a transaction holds what
\* the end of its game needs, and the ledger accounts for the rows.
THEOREM RatingsKeepTheirInvariant == RatingsSpec => []RatingsInv
<1>1. RatingsInit => RatingsInv
  BY RatingsStart
<1>2. RatingsInv /\ [RatingsNext]_ratingVars => RatingsInv'
  BY RatingsStepKeeps
<1>. QED  BY <1>1, <1>2, PTL DEF RatingsSpec

\* The four tables of ratings and their audit rows are well formed, whatever games are played.
THEOREM RatingsTyped == RatingsSpec => []RatingsTypeOK
<1>1. RatingsInv => RatingsTypeOK
  BY InvariantTypesRatings
<1>. QED  BY <1>1, RatingsKeepTheirInvariant, PTL

\* The audit rows account for every rating: a row is what its events made of it unless two
\* transactions overlapped on it, a game has all its events or none and with the result it
\* ended with, and the legs of a pair are rated together, the first leg first.
THEOREM LedgerAlwaysExplains == RatingsSpec => []LedgerExplainsRatings
<1>1. RatingsInv => LedgerExplainsRatings
  BY InvariantExplainsRatings
<1>. QED  BY <1>1, RatingsKeepTheirInvariant, PTL
=============================================================================
