----------------------------- MODULE Tournaments -----------------------------
(***************************************************************************)
(* The gauntlets that nobody asks for: those of a cron schedule, and those *)
(* of the matchmaker.  A tick of a scheduler process fires the schedules   *)
(* that are due, then plays one match if it is admitted, and then claims   *)
(* the oldest PENDING gauntlet, which may be one that a tick, its own or   *)
(* another's, has just made: a tournament plays its games without claiming *)
(* the gauntlet and without a lease on the games.                          *)
(***************************************************************************)
EXTENDS Integers, Sequences, FiniteSets

CONSTANTS
    Fleet,          \* scheduler processes
    Schedules,      \* rows of scheduled_gauntlets, in the order of their creation
    GamesOf,        \* schedule -> n_games
    Rosters,        \* schedule -> the builds its roster seats
    Roster,         \* the active builds
    TableSize,      \* ruleset.PLAYER_COUNT
    PerDay,         \* padrino_max_games_per_day, within the one day that is modelled
    AtOnce,         \* padrino_max_concurrent_games
    MaxTime,        \* bound: the ticks of the clock
    MaxGauntlets,   \* bound: gauntlets
    MaxBreaks       \* bound: games that raise or fail, caps that are crossed, balance gates that
                    \* refuse and processes that are killed

ASSUME TournamentsAssumption ==
    /\ Schedules \subseteq Nat \ {0} /\ IsFiniteSet(Schedules)
    /\ GamesOf \in [Schedules -> Nat \ {0}]
    /\ {MaxTime, MaxGauntlets, MaxBreaks} \subseteq Nat /\ MaxTime > 0
    /\ TableSize \in 1..Cardinality(Roster)

VARIABLES
    hour,           \* the clock
    schedules,      \* schedule -> enabled, next_run_at (0 = NULL) and what ran last
    gauntlets,      \* the gauntlets, in the order of their creation
    duty,           \* process -> where it is in its tick
    breaks,         \* how much went wrong
    aired,          \* gauntlets whose game was promoted to LIVE
    abandoned,      \* history: gauntlets whose run was not marked
    disturbed       \* history: occurrences that two ticks had in hand at once, or that a run made
                    \* due by writing over a schedule which was changed under it

tournamentVars == <<hour, schedules, gauntlets, duty, breaks, aired, abandoned, disturbed>>

ScheduledGauntlet == [enabled : BOOLEAN, next : 0..MaxTime + 1, last : 0..MaxGauntlets]

\* A scheduled gauntlet is its schedule's at a fire time; a match is the next one after so
\* many games of history.  The seed of the gauntlet is derived from no more than that.
Origin(schedule, at) == [schedule |-> schedule, at |-> at]

Match == 0

-----------------------------------------------------------------------------
\* What the database holds

GamesIn(n) == DOMAIN gauntlets[n].games

AllGames == UNION {{n} \X GamesIn(n) : n \in DOMAIN gauntlets}

StatusOf(g) == gauntlets[g[1]].games[g[2]]

Over == {"COMPLETED", "FAILED"}

\* admit: the daily and the concurrency cap.  A game is active until it is terminal, also
\* one that a capped tournament has left behind.
Admitted ==
    /\ Cardinality(AllGames) < PerDay
    /\ Cardinality({g \in AllGames : StatusOf(g) \notin Over}) < AtOnce

\* _load_history, and next_match's play_counts
HistoryLength == Cardinality({g \in AllGames : StatusOf(g) = "COMPLETED"})

PlayCount(b) ==
    Cardinality({g \in AllGames : StatusOf(g) = "COMPLETED" /\ b \in gauntlets[g[1]].builds})

\* next_match: the least played of the roster; the shuffle decides between equals.
NextMatch ==
    {team \in SUBSET Roster :
        /\ Cardinality(team) = TableSize
        /\ \A b \in team, c \in Roster \ team : PlayCount(b) <= PlayCount(c)}

\* create_gauntlet: with all its games, in one transaction
CreateGauntlet(origin, n, builds) ==
    /\ Len(gauntlets) < MaxGauntlets
    /\ gauntlets' = Append(gauntlets,
         [origin |-> origin, status |-> "PENDING", builds |-> builds,
          games |-> [i \in 1..n |-> "PENDING"]])

WithGame(n, i, status) == [gauntlets EXCEPT ![n].games[i] = status]

-----------------------------------------------------------------------------
\* A tick

Idle == [at |-> "idle"]

Does(w, state) == duty' = [duty EXCEPT ![w] = state]

\* A set of numbers as a list
Ascend(s) == {f \in [1..Cardinality(s) -> s] : \A i, j \in 1..Cardinality(s) : i < j => f[i] < f[j]}

TournamentsInit ==
    /\ hour = 1
    /\ schedules = [s \in Schedules |-> [enabled |-> TRUE, next |-> 1, last |-> 0]]
    /\ gauntlets = <<>>
    /\ duty = [w \in Fleet |-> Idle]
    /\ breaks = 0
    /\ aired = {} /\ abandoned = {} /\ disturbed = {}

\* The occurrences that a process has on its list or at work
InHand(w) ==
    LET t == duty[w]
    IN  IF t.at \notin {"firing", "run", "marking"} THEN {}
        ELSE {t.due[n] : n \in DOMAIN t.due} \cup IF t.at = "firing" THEN {} ELSE {t.origin}

\* list_due: the enabled schedules whose next_run_at has come, or is NULL
ListDue(w) ==
    /\ duty[w] = Idle
    /\ \E order \in Ascend({s \in Schedules : schedules[s].enabled /\ schedules[s].next <= hour}) :
          LET due == [n \in DOMAIN order |-> Origin(order[n], schedules[order[n]].next)]
          IN  /\ Does(w, [at |-> "firing", now |-> hour, due |-> due])
              /\ disturbed' = disturbed \cup
                    ({due[n] : n \in DOMAIN due} \cap UNION {InHand(v) : v \in Fleet})
    /\ UNCHANGED <<hour, schedules, gauntlets, breaks, aired, abandoned>>

\* run_tournament_from_roster for the first of them
Fire(w) ==
    LET t == duty[w] IN
    /\ t.at = "firing" /\ t.due # <<>>
    /\ LET o == Head(t.due) IN
       /\ CreateGauntlet(o, GamesOf[o.schedule], Rosters[o.schedule])
       /\ Does(w, [at |-> "run", now |-> t.now, due |-> Tail(t.due), origin |-> o,
                   gauntlet |-> Len(gauntlets) + 1, game |-> 1, capped |-> FALSE, ended |-> FALSE])
    /\ UNCHANGED <<hour, schedules, breaks, aired, abandoned, disturbed>>

\* Where an exception in a run takes the tick: the schedules' loop logs it and goes on, the
\* matchmaker's ends the process.
Abandon(w) ==
    LET t == duty[w] IN
    /\ Does(w, IF t.origin.schedule = Match THEN Idle
               ELSE [at |-> "firing", now |-> t.now, due |-> t.due])
    /\ abandoned' = abandoned \cup {t.gauntlet}

AtPlay(w) == duty[w].at = "run" /\ ~duty[w].ended

\* run_game of the next game: its first row collides with those of a process that has played
\* the game.
StartTournamentGame(w) ==
    LET t == duty[w] IN
    /\ AtPlay(w)
    /\ LET status == StatusOf(<<t.gauntlet, t.game>>) IN
       \/ /\ status = "PENDING"
          /\ gauntlets' = WithGame(t.gauntlet, t.game, "RUNNING")
          /\ UNCHANGED <<duty, abandoned>>
       \/ /\ status \in Over
          /\ Abandon(w)
          /\ UNCHANGED gauntlets
    /\ UNCHANGED <<hour, schedules, breaks, aired, disturbed>>

\* run_heterogeneous_tournament: the next game, unless the cost cap has been crossed
EndTournamentGame(w) ==
    LET t == duty[w] IN
    /\ AtPlay(w)
    /\ gauntlets[t.gauntlet].games[t.game] = "RUNNING"
    /\ gauntlets' = WithGame(t.gauntlet, t.game, "COMPLETED")
    /\ \E capped \in IF breaks < MaxBreaks /\ t.origin.schedule # Match THEN BOOLEAN ELSE {FALSE} :
          /\ breaks' = IF capped THEN breaks + 1 ELSE breaks
          /\ Does(w, [t EXCEPT !.capped = capped, !.game = @ + 1,
                               !.ended = capped \/ t.game = Len(gauntlets[t.gauntlet].games)])
    /\ UNCHANGED <<hour, schedules, aired, abandoned, disturbed>>

\* A game raises: an adapter, or a row of another process that drives it too
BreakTournamentGame(w) ==
    /\ AtPlay(w) /\ breaks < MaxBreaks
    /\ breaks' = breaks + 1
    /\ Abandon(w)
    /\ UNCHANGED <<hour, schedules, gauntlets, aired, disturbed>>

\* finalize_gauntlet_if_done: when every game is over, and unless the balance gate, which asks
\* how often each model sat on each side of the completed games, refuses
FinalizeIfDone(n) ==
    LET statuses == {StatusOf(<<n, i>>) : i \in GamesIn(n)} IN
    \/ /\ statuses \subseteq Over
       /\ gauntlets' = [gauntlets EXCEPT ![n].status = "COMPLETED"]
       /\ UNCHANGED breaks
    \/ /\ ~(statuses \subseteq Over)
       /\ UNCHANGED <<gauntlets, breaks>>
    \/ /\ statuses = {"COMPLETED"} /\ gauntlets[n].status # "COMPLETED" /\ breaks < MaxBreaks
       /\ breaks' = breaks + 1
       /\ UNCHANGED gauntlets

\* run_due_scheduled_gauntlets, after the games: the status, whatever it has become
SettleRun(w) ==
    LET t == duty[w] IN
    /\ t.at = "run" /\ t.ended /\ t.origin.schedule # Match
    /\ IF t.capped THEN /\ gauntlets' = [gauntlets EXCEPT ![t.gauntlet].status = "cost_capped"]
                        /\ UNCHANGED breaks
       ELSE FinalizeIfDone(t.gauntlet)
    /\ Does(w, [at |-> "marking", now |-> t.now, due |-> t.due, origin |-> t.origin,
                gauntlet |-> t.gauntlet])
    /\ UNCHANGED <<hour, schedules, aired, abandoned, disturbed>>

\* Had mark_run written what ran and left the next time alone:
MarkRun_Slip(w) ==
    LET t == duty[w] IN
    /\ t.at = "marking"
    /\ schedules' = [schedules EXCEPT ![t.origin.schedule].last = t.gauntlet]
    /\ Does(w, [at |-> "firing", now |-> t.now, due |-> t.due])
    /\ UNCHANGED <<hour, gauntlets, breaks, aired, abandoned, disturbed>>

\* The row is not the one that the tick has listed.
Outdated(t) == t.origin \in disturbed \/ schedules[t.origin.schedule].next # t.origin.at

\* mark_run: next_run_at after the time the tick began at, written over whatever is there
MarkRun(w) ==
    LET t == duty[w] IN
    /\ t.at = "marking"
    /\ schedules' = [schedules EXCEPT ![t.origin.schedule].next = t.now + 1,
                                      ![t.origin.schedule].last = t.gauntlet]
    /\ Does(w, [at |-> "firing", now |-> t.now, due |-> t.due])
    /\ disturbed' = disturbed \cup IF Outdated(t) THEN {Origin(t.origin.schedule, t.now + 1)} ELSE {}
    /\ UNCHANGED <<hour, gauntlets, breaks, aired, abandoned>>

\* run_continuous_matchmaking_tick: admitted or not
Admit(w) ==
    LET t == duty[w] IN
    /\ t.at = "firing" /\ t.due = <<>>
    /\ Does(w, [at |-> IF Admitted THEN "admitted" ELSE "claiming"])
    /\ UNCHANGED <<hour, schedules, gauntlets, breaks, aired, abandoned, disturbed>>

\* The roster and the history are read, and the match is planned.
PlanMatch(w) ==
    /\ duty[w].at = "admitted"
    /\ \E team \in NextMatch :
          Does(w, [at |-> "planned", team |-> team, history |-> HistoryLength])
    /\ UNCHANGED <<hour, schedules, gauntlets, breaks, aired, abandoned, disturbed>>

StartMatch(w) ==
    LET t == duty[w] IN
    /\ t.at = "planned"
    /\ CreateGauntlet(Origin(Match, t.history), 1, t.team)
    /\ Does(w, [at |-> "run", now |-> hour, due |-> <<>>, origin |-> Origin(Match, t.history),
                gauntlet |-> Len(gauntlets) + 1, game |-> 1, capped |-> FALSE, ended |-> FALSE])
    /\ UNCHANGED <<hour, schedules, breaks, aired, abandoned, disturbed>>

\* The moderation gate, which may refuse: without a guard it always does.
PromoteMatch(w) ==
    LET t == duty[w] IN
    /\ t.at = "run" /\ t.ended /\ t.origin.schedule = Match
    /\ aired' \in {aired, aired \cup {t.gauntlet}}
    /\ Does(w, [at |-> "claiming"])
    /\ UNCHANGED <<hour, schedules, gauntlets, breaks, abandoned, disturbed>>

-----------------------------------------------------------------------------
\* The rest of the loop of run_scheduler

Pending == {n \in DOMAIN gauntlets : gauntlets[n].status = "PENDING"}

ClaimNextPending(w) ==
    /\ duty[w].at = "claiming"
    /\ IF Pending = {} THEN Does(w, Idle) /\ UNCHANGED gauntlets
       ELSE \E n \in Pending :
              /\ \A m \in Pending : n <= m
              /\ gauntlets' = [gauntlets EXCEPT ![n].status = "RUNNING"]
              /\ Does(w, [at |-> "driving", gauntlet |-> n])
    /\ UNCHANGED <<hour, schedules, breaks, aired, abandoned, disturbed>>

Driving(w, n) == duty[w].at = "driving" /\ duty[w].gauntlet = n

\* A child game that is not over is played on, also from the hands of a tournament, which
\* holds no lease; a game that fails for good is dead-lettered.
DriveGame(w, n, i) ==
    /\ Driving(w, n)
    /\ gauntlets[n].games[i] \notin Over
    /\ \/ gauntlets' = WithGame(n, i, "COMPLETED") /\ UNCHANGED breaks
       \/ /\ breaks < MaxBreaks /\ breaks' = breaks + 1
          /\ gauntlets' = WithGame(n, i, "FAILED")
    /\ UNCHANGED <<hour, schedules, duty, aired, abandoned, disturbed>>

\* _drive_gauntlet's end
EndDrive(w, n) ==
    /\ Driving(w, n)
    /\ \A i \in GamesIn(n) : gauntlets[n].games[i] \in Over
    /\ FinalizeIfDone(n)
    /\ Does(w, Idle)
    /\ UNCHANGED <<hour, schedules, aired, abandoned, disturbed>>

\* A process is killed.  The one that comes up in its place puts stale gauntlets back.
Kill(w) ==
    /\ duty[w].at # "idle" /\ breaks < MaxBreaks
    /\ breaks' = breaks + 1
    /\ Does(w, Idle)
    /\ abandoned' = abandoned \cup IF duty[w].at \in {"run", "marking"} THEN {duty[w].gauntlet} ELSE {}
    /\ gauntlets' = IF duty[w].at = "driving" /\ gauntlets[duty[w].gauntlet].status = "RUNNING"
                    THEN [gauntlets EXCEPT ![duty[w].gauntlet].status = "PENDING"] ELSE gauntlets
    /\ UNCHANGED <<hour, schedules, aired, disturbed>>

-----------------------------------------------------------------------------
\* The operator's routes

\* patch_scheduled_gauntlet and delete_scheduled_gauntlet: the enabled flag, or the cron
\* expression alone
PatchSchedule(s) ==
    /\ \/ \E on \in BOOLEAN :
             schedules' = [schedules EXCEPT ![s].enabled = on,
                                            ![s].next = IF on THEN hour + 1 ELSE 0]
       \/ schedules' = [schedules EXCEPT ![s].next = hour + 1]
    /\ schedules' # schedules
    /\ UNCHANGED <<hour, gauntlets, duty, breaks, aired, abandoned, disturbed>>

Wait ==
    /\ hour < MaxTime
    /\ hour' = hour + 1
    /\ UNCHANGED <<schedules, gauntlets, duty, breaks, aired, abandoned, disturbed>>

TournamentsNext ==
    \/ Wait
    \/ \E s \in Schedules : PatchSchedule(s)
    \/ \E w \in Fleet :
          \/ ListDue(w) \/ Fire(w) \/ StartTournamentGame(w) \/ EndTournamentGame(w)
          \/ BreakTournamentGame(w) \/ SettleRun(w) \/ MarkRun(w)
          \/ Admit(w) \/ PlanMatch(w) \/ StartMatch(w) \/ PromoteMatch(w)
          \/ ClaimNextPending(w) \/ Kill(w)
          \/ \E n \in DOMAIN gauntlets :
                EndDrive(w, n) \/ \E i \in GamesIn(n) : DriveGame(w, n, i)

TournamentsSpec == TournamentsInit /\ [][TournamentsNext]_tournamentVars

-----------------------------------------------------------------------------
TournamentsTypeOK ==
    /\ hour \in 1..MaxTime
    /\ schedules \in [Schedules -> ScheduledGauntlet]
    /\ \A n \in DOMAIN gauntlets :
          gauntlets[n].status \in {"PENDING", "RUNNING", "COMPLETED", "cost_capped"}
    /\ \A w \in Fleet : duty[w].at \in {"idle", "firing", "run", "marking", "admitted", "planned",
                                        "claiming", "driving"}
    /\ breaks \in 0..MaxBreaks
    /\ aired \cup abandoned \subseteq DOMAIN gauntlets

\* An occurrence of a schedule has one gauntlet, unless a run of it broke down, two ticks had
\* it in hand at once, or a run that was not alone made it due again; an operator's change of
\* the schedule never does.
\* As long as every game is a match, and they are played one after the other, no build gets
\* ahead of another by more than one game; and what goes on air is a match that was played.
ProgrammeIsFair ==
    /\ \A m, n \in DOMAIN gauntlets :
          m < n /\ gauntlets[m].origin = gauntlets[n].origin /\ gauntlets[m].origin.schedule # Match
              => m \in abandoned \/ gauntlets[m].origin \in disturbed
    /\ (\A m, n \in DOMAIN gauntlets :
            gauntlets[n].origin.schedule = Match /\ (m # n => gauntlets[m].origin # gauntlets[n].origin))
        => \A b, c \in Roster : PlayCount(b) <= PlayCount(c) + 1
    /\ \A n \in aired : gauntlets[n].origin.schedule = Match /\ StatusOf(<<n, 1>>) = "COMPLETED"
=============================================================================
