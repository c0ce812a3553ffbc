# Padrino in TLA+

Padrino runs games of Mafia between language models, and people: a pure engine
decides what is legal, who dies and who wins; an asynchronous runner plays a game phase
by phase and journals every event; a scheduler drives tournaments ("gauntlets") of such
games under leases, retries and a budget; around them are a lane for games with human
seats, lobbies, sign-in, campaigns, ratings, boards and public pages. This directory
holds the formal models of that machinery, the TLC configurations that check them and
TLAPS proofs about them. Paths below are relative to `src/src/padrino/` unless they start
with `docs/`, `tests/` or `prd.md`.

## 1. Inventory

| part | state it keeps | operations | what makes it correct |
|---|---|---|---|
| Game rules: `core/engine/{phases,legal_actions,win_conditions,state}.py`, `resolvers/day_vote.py`, `core/agents/coercion.py`, `core/rulesets/` | none (functions of `GameState`) | next phase, legal actions, safe coercion, day vote, win check | the schedule is finite; a vote takes one living seat at most; the winner is the one the board earns |
| Night matrix: `core/engine/resolvers/nar.py` | none | validate, block, redirect, visit, kill, protect, frame, investigate, clean | tiers do not undo one another; what players are told fits together |
| Game loop and reducer: `runner/{game_runner,tick}.py`, `core/engine/reducer.py` | the folded `GameState`, `current_phase` | start a phase, ask all seats, submit, resolve, check, terminate | stops when decided, always stops |
| Event journal: `core/engine/{event_log,replay}.py`, `runner/benchmark_durability.py`, `db/repositories/{events,games}.py` | `game_events`, the `games` row, each process's log | append, mirror, rehydrate, truncate, lease, fence, rate, dead-letter | the history reads as one game whatever crashes; rated exactly with its end |
| Gauntlet scheduler: `runner/scheduler.py`, `db/repositories/gauntlets.py`, `gauntlets/completion.py` | `gauntlets` rows, per process a loop and its children | recover, claim, drive, retry, settle, finalize | every gauntlet gets done; nothing is played twice or finished early |
| Benchmark budget: `economics/{budget_reservations,benchmark_admission}.py` | reservation slots | claim, rebind, release, reap | the cap holds; slots come back |
| Human lane: `runner/human_*.py`, `runner/disconnect_takeover.py`, `core/disconnect.py` | presence, actions, held chat, seats, snapshot | heartbeat, act, say, take over, release, resume | one answer to who plays a seat; chat is journaled once |
| Campaigns: `db/repositories/campaigns.py`, `scheduler/campaign_tick.py`, `core/scheduling/pairing.py` | cells, campaign lease, the matrix | tick, report, finalize; build the matrix | no cell is bought twice, none completes unplayed; every model meets its share |
| Lobbies: `api/routes/lobbies.py`, `api/lobby_launch.py`, `core/lobby/` | lobbies, members, seats | create, join, leave, kick, transfer, lock, launch, reconcile | one game per lobby |
| Human cost governance: `economics/human_cost_governance.py` | count and dollar slots of a day | admit, bind, release | slots follow what they were claimed for |
| Scheduled gauntlets and matchmaking: `scheduler/{gauntlet_job,continuous_matchmaking}.py`, `matchmaking/` | schedules, play counts | fire, match, play | an occurrence fires once; nobody gets ahead |
| Ratings: `ratings/{openskill_service,human_openskill_service,solo_rate_service}.py` | ladders and audit rows | rate at the end of a game, a pair, a human | the audit rows explain the ratings |
| Leaderboards: `ratings/{model_rollup,public_leaderboard}.py` | boards cached under a tag | read, ingest | a cached board is a current one |
| Publish gate: `gauntlets/publish_gate.py` | none (reads campaign, games, ratings) | evaluate | what is published rests on games that count |
| HTTP API and sign-in: `api/routes/human.py`, `api/{auth,rate_limit_store}.py` | sessions, flows, identities, buckets | guest, start, callback, count | a flow signs in once; ceilings hold |
| Language-model adapters: `llm/`, `runner/tick.py` | `llm_calls` rows | call, retry, fall back | a tick's rows account for its calls |
| Observations and privacy: `core/{observations,observation_privacy}.py` | none | build an observation | nobody sees what is not theirs |
| Public surfaces: `public/`, `api/routes/public.py` | connections, live status | stream, resume, page | streams follow the log; the pages of a game agree |
| Operations and support code | - | migrations, metrics, export, command line | not modelled |

How they interact. `run_scheduler` claims a gauntlet row and starts one coroutine per child
game (`_run_with_retry`); each rehydrates its game from the journal, asks for the lease and
a budget slot in one transaction (`_run_one_game`), and calls the game loop, which calls the
reducer for every event and inserts one row per event. The terminal write, the status and
the ratings share one transaction that is fenced by the lease. When a child of a campaign's
gauntlet is back, the driver reports to the campaign's cell. A game with human seats has no
lease but a claim, and its worker shares rows with the requests of the humans. Streams and
pages read the log, boards and the gate read the ladders. Processes share nothing but the
database.

What is hard: two processes on the same rows; a crash between any two commits; leases that
are never renewed; retries of half-done attempts; rows read without a lock and written
later; the interplay of eleven kinds of night action; the ends of the schedule. `PROJECT.json`
lists these hazards at their lines, with the properties that would catch each.

## 2. Modules and how they correspond to the code

    GameRules <- NightMatrix <- NightCases ------.
                     |`- GameLoop -----------------> MCEngine
                 GameRules <- Observations ------'
    GameHistory <= GameJournal, PublicViews        -> MCRecords        (<= : is implemented by)
                   GameJournal                     -> MCGameJournal
                   GauntletScheduler               -> MCGauntletScheduler
    GameJournal, Ratings <- Leaderboards,
      Tournaments, Pairing, PublishGate            -> MCReplicas
    HumanLane, Lobbies, SignIn, Campaigns,
      AgentCalls, RateLimits                       -> MCPlatform

The engine:

* **GameRules** - `NextPhase`, `LegalActions` (what the tick accepts), `SafeAction` (what a
  bad or missing answer is turned into), `DayVoteEliminated`, `CheckWin` (the first condition
  of the ruleset that matches). A ruleset is data: its cast and its list of conditions.
* **NightMatrix** - `ResolveNight(s, intents)`, one operator per tier of
  `resolve_night_actions`. Feedback is a set of records with the code's message codes.
  Where the code walks intents in order only to build ordered lists, the model has sets.
* **GameLoop** - `drive_game_loop` in one uninterrupted process. `stage` is its program
  counter, `st` the folded `GameState`, `cur` the loop's `current_phase`. `SeatAnswers` is a
  seat's answer whatever it is: any legal action, or the safe one that an illegal answer,
  invalid output or timeout is turned into. The seats answer concurrently in the code, but
  only to outcomes of their own that are put in seat order before they are used.
* **NightCases** - the resolver on its own: a board is put up, each seat submits any intent,
  legal or not, and the night is resolved. It covers redirects, which no live role can
  submit yet but the matrix resolves, and protection, which the live loop always refuses
  (finding 1).
* **Observations** - two worlds side by side that differ in what a viewer may not know;
  `Observation` is `build_observation`, `SpectatorView` the projection for spectators.

The records:

* **GameHistory** - the abstract promise about a durable game: phases resolved one after the
  other, each for ever; closed by the last verdict, a draw, or FAILED, and for ever unless an
  exception comes after the end, which may turn the verdict into FAILED.
* **GameJournal** - the journal of one game and the processes that write it. A row carries a
  hash chained over everything before it; with an ideal hash it *is* the log up to that
  row, so `rows` is a set of logs, and the UNIQUE constraint and the replay check are
  statements about that set (`Taken`, `Intact`). A phase is reduced to the verdict after it; its
  submission and resolution rows are one row (`effect`), since a crash between two of them
  is cut back to the same place. An exception may come out of any stage of an attempt, of the
  kind that is retried or poison (`Fault`), also when the game is over and the `finally` has
  the slot still to release (`closed`). The mapping `History` shows that it implements
  GameHistory.
* **PublicViews** - connections that tail a growing log or pace over a stored one, their
  resumption, the address cap, and what the pages of a game tell, and out of which log: a stored
  recap is the log it was computed from. Operators put the game on the air and take it off
  at any time (`GoLive`, `GoRecent`, `Hide`).
* **GauntletScheduler** - `run_scheduler` in several processes over gauntlet, game and slot
  rows. `child[w][x]` is where `_run_with_retry` of process `w` for game `x` is. What
  happens inside a game is one step (`Finish`, or `Fault` when it raises): GameJournal has
  the inside. `Stray` is an exception that does not come out of the game: in rehydration,
  admission, or the release of the slot. `Spend` uses a slot of the budget up for good. The
  semaphore only delays children, and every delay is a behaviour here.

What is computed from them:

* **Ratings** - a rating is the sequence of contributions that made it; rows are read when a
  transaction begins to rate and written when it commits, so transactions overlap.
* **Leaderboards** - the boards kept under a tag that is read before the rows are.
* **Tournaments** - cron occurrences and matches beside the scheduler's own claim.
* **Pairing** - the matrix of a campaign, with everything the code draws from hashes free.
* **PublishGate** - every blocker of `evaluate_publish_gate`, asked while cells are played.

The platform:

* **HumanLane** - one game with human seats: the worker, the requests, the rows they share.
  A phase is a DAY_VOTE; what a worker knows (`log`, `mux`, its stage) dies with it. A request
  takes its time stamp and reads the phase when it begins, and commits later.
* **Lobbies** - one transaction per request; a launch, a reconciliation and a join may load
  the lobby row, and commit with that row later (`begun`, `raced`).
* **SignIn** - the callback's flow is claimed and released in transactions of their own; the
  provider is external and may fail for a while, for good, or redeem a code again. A browser
  may keep and submit a flow's cookies for as long as it likes: the server does not know
  how old a flow is (`Valid`).
* **Campaigns** - cells, tick, drive and its reports, one after the other, with halts and
  deaths in between.
* **AgentCalls** - the barrier over one call per seat; hosts, tries, fallback, timeout, the
  row before the answer.
* **RateLimits** - fixed windows in a store whose every write evicts what is old by its own
  clock.

Names of types, roles and actions are the code's; actions are named for the function or for
the step of it that they model. `PROJECT.json` maps each definition to its lines. Operators
named `..._Slip` are the plausible bugs that show that each property can fail; nothing
refers to them.

## 3. Runs

Modules that share no modelled state are explored by one run, each in a *scene* of its own
with the others at rest; a run asks one question of one part of the system, and a
behaviour never leaves its scene. MCEngine has the scenes games, nights and views,
MCRecords journal and views, MCReplicas journal, ladders, boards, tournaments, pairing and
gate, MCPlatform game, lobbies, sign-in, campaigns, calls and ceilings.

| run | module, cfg | distinct states | properties |
|---|---|---|---|
| `engine` | MCEngine | 404,503 | `TypeOK`, `NoPlayPastDecision`, `WinnerIsEarned`, `DeathsAreLegal`, `GamesTerminate` (games); `AgreesWithPrd`, `FeedbackAgrees`, `EffectsStayLegal`, `HiddenRevealsArePaidFor` (nights); `SecretsStayHidden` (views) |
| `journal` | MCRecords | 944,040 | one process that is killed and restarted: `HistoryReadsOnce`, `RatedWithTheEnd`, `FailuresAreEarned`, `Lockstep`, the refinement `ResolvedForEver`; `StreamsFollowTheLog`, `PagesAgreeOnTheEnd`; `RecordsTypeOK` |
| `journal_replicas` | MCReplicas, JournalReplicas | 1,093,437 | several processes on the same rows: `RatedOnce`, `LedgerExplainsRatings`, `BoardsKeepUp`, `ProgrammeIsFair`, `MatricesAreFair`, `ReadyMeansEvidence`, `ReplicasTypeOK` |
| `scheduler` | MCGauntletScheduler | 751,126 | `SlotsComeBack`, `PlayIsPaidFor`, `CompletedIsOver`, `CompletedGamesStay`, `DoneUnlessInterrupted` |
| `platform` | MCPlatform | 1,318,774 | `HumanHistoryHolds`, `ChatReleasedOnce`, `LiveHumansKeepTheirSeats`, `LaunchedOnce`, `SlotsFollowLobbies`, `SignInsReachAnAccount`, `CampaignResultsStand`, `TicksAddUp`, `CeilingsStand`, `PlatformTypeOK` |

Seven runs find what a document, a comment or a test says and the code does not do:

1. `doctor_protect` (`ProtectionBlocksKill`): "Doctor protection blocks kill"
   (prd.md:1081). The reducer stores a protection as *last night's* while the night's
   submissions are emitted (`reducer.py:197-200`), and the resolver then refuses it as a
   repeat (`nar.py:416-417`). In a played game no protection works.
2. `decided_game_stops` (`DecidedGameStops`): the loop "checks the win condition; if a winner
   / draw is decided, appends GameTerminated and stops" (`game_runner.py:16-17`). After a crash
   between the two rows, `_resume_phase` (`game_runner.py:792-799`) goes on with the next phase.
3. `lockstep_replicas` (`Lockstep`, two processes): "the in-memory event log and DB rows stay
   in lockstep" (`game_runner.py:1137`). A second process truncates the unresolved phase
   (`benchmark_durability.py:64-70`) before it asks for the lease.
4. `scheduler_recovery` (`PendingDrains`, 740 states): `scheduler.py:3-10` promises that
   abandoned gauntlets are "picked up by the normal loop". After a kill the games keep the
   dead worker's lease; the restarted process claims the gauntlet, is refused the lease, takes
   that for success and leaves the gauntlet RUNNING, which only another start would look at.
5. `human_resume` (`PlayedOnce`): a worker shall "resume the current phase exactly where it
   left off" (`human_durability.py:62`). It re-enters a phase whose votes and outcome are
   stored and writes them again.
6. `seats_are_anonymous` (`SeatsAreAnonymous`): a view carries "ZERO human-vs-AI markers"
   (`observations.py:262`). A released human message is shown by reference, an AI's with its
   text (`human_chat_release.py:157`).
7. `shared_ceilings` (`CeilingsAreShared`): "Multiple workers reading / writing the same row
   share a single ceiling" (`rate_limit_store.py:15`). Two clocks write to one store, and each
   write evicts what the other clock stamped (`rate_limit_store.py:216`).

### Bounds, and why they are enough

* `engine`: five seats, two days, one discussion round, one shot per janitor or framer. Five
  seats let a game last into the second day with every faction standing; two days reach the
  day cap, with a first and a later night. Ten boards of single nights put different roles
  together; interactions are between three roles at most and their targets. Views: three
  shown events, one secret one, one recent event in the window, so that it slides.
* `journal`: two phases (a first one and one that follows another), two attempts, two tick
  failures, two exceptions of either kind at any stage (enough to use the attempts up, and for
  one of them to come after the end), two process starts; a retry rehydrates as a restart does,
  so a resume is resumed as well. Views: four stored events, one cut, two connections of one address with
  room for one stream.
* `journal_replicas`: two processes at once, two starts, no exceptions. Six contests, one or
  more per ladder and one mirror pair; two gauntlets on one schedule; two ticks of the clock;
  four set-ups of a matrix, with one extra round; two cells of two attempts, one rated
  game elsewhere, two kinds of blemish. One board read at a time, one thing that breaks.
* `scheduler`: two processes, two gauntlets, three games; two slots, one of which play may use up
  (`MaxSpent` < `SlotCap`: budget halts happen, and the proviso of `DoneUnlessInterrupted` that
  the budget is not spent never excuses anything in the run); two attempts; one mishap of any kind (`MaxMishaps`: a crash, an exception in
  the game, a stray one, an expired lease). `scheduler_recovery` allows one crash only, and no spend.
* `platform`: two seats, one phase, one mishap, two requests; two humans and two lobbies, one
  reservation spent, one silence, one hand-over; two browsers, subjects, flows and callbacks, and one
  tick of the clock, after which a flow is late;
  two drivers, two cells, two failures or a mishap; two callers, two tries per host, one failing
  transaction; two processes of the API, two windows, three requests, three deployments
  (memory; one database and one host; one database and two hosts with other boot times).

Every bound stands in a guard and is a CONSTANT whose comment says `bound`; nothing else
limits the models but the schedule and the number of attempts. Symmetry is over names of
processes and people that the modules only compare for equality. Deadlock checking is
off in every run: a game, a night, a tick and a journal end, and a scheduler with nothing to
claim only polls.

### Fairness

* The engine: weak fairness of the loop's next step. `run_tick` puts every seat under
  `asyncio.wait_for`, so every answer comes or is replaced, and nothing else in the loop waits.
* GauntletScheduler: weak fairness of each process's loop and of each child's next step
  (ordinary coroutines; the call of the game is bounded as above), of the ageing of heartbeats
  and leases, and of starting a process when none runs (the restart policy in
  `docker-compose.yml`). Nothing is assumed of exceptions, crashes or the reaper.
* All other runs check safety and need none.

## 4. Properties worth a word

* `NoPlayPastDecision` - the loop checks the conditions in one place only, after
  `PhaseResolved`; the invariant says that at no other time a condition holds unnoticed.
* `WinnerIsEarned` restates the winner in terms of the living, not of the list of
  conditions, and so catches a wrong order of the conditions as well.
* `EffectsStayLegal` compares a night with the night in which the blocked seats stay at home.
* `HistoryReadsOnce` - the log that is stored, after any number of crashes, truncations and
  retries, could have been written by a process that never crashed.
* `FailuresAreEarned` allows what the code does: poison dead-letters at once
  (`scheduler.py:131-145, 422-435`), anything else after the last attempt. Its one exception is
  the code's too: a log that is only `GameCreated` is taken for no log at all, and every attempt
  then breaks on the UNIQUE constraint.
* `ResolvedForEver`: the code does not keep every result. The slot is released in a `finally`
  after the terminal commit (`scheduler.py:359-366`); if that raises, and it is poison or the last
  attempt, `mark_failed` (`games.py:211-229`), which asks nothing, turns COMPLETED into FAILED.
  GameHistory lets a closed game change in this way only, and only as often as an exception came
  after the end (`disturbed`). With two schedulers a driver that lost its lease can do the
  same; no property forbids that.
* `PagesAgreeOnTheEnd`: `mark_recent` does not ask whether the game is over, so an operator can air
  it as RECENT in mid-game with the recap of half a log. The property is that this heals: when the
  game is RECENT again after its end, every page tells the whole of its log. In between, the
  recap of half a log is served for as long as the game stays RECENT. And a LIVE game may be over
  already: its analytics page (`public.py:742-750, 782-837`) then shows survival by role, votes
  and claims out of the finished log, and the live index phase and living seats
  (`public.py:1416-1439`), without the winner. The model has both (`"board"`); no property forbids
  them.
* `DoneUnlessInterrupted` has the proviso that the spend leaves the budget a slot. Without it a
  gauntlet may halt on the budget for ever: what its own games cost takes up its slots
  (`budget_reservations.py:24-28, 88-92`), and only an operator raises the cap.
* `SignInsReachAnAccount`: a flow that is only submitted within `FlowTtl` signs in once. One that is
  submitted later (`overdue`) passes again once the ledger has forgotten it, as the signed state
  does not carry its time (`oauth.py:203-227, 488-499`) and only the cookies' `max_age` bounds
  it (`human.py:943-952`); with that clause for all flows TLC finds the second session. The
  comments at `human.py:1019-1021` ("fails closed") and `1122-1128` ("inert") rest on the
  browser.
* `PlayIsPaidFor` ties the lease, the slot and the coroutine, which are written in different
  transactions. It is conditional on leases that outlive the game, and so is the code: a
  lease is never renewed during play.
* `HumanHistoryHolds` ties the rows, the worker's log, the seats and the submissions, each
  committed by someone else.
* `SlotsFollowLobbies` counts what a human can get out of create, transfer, kick and
  idleness in one day.
* `CampaignResultsStand` says what a completed cell stands for, with the provisos the code
  needs: a retried cell's pair is never rated (both gauntlets share one pair id), and a drive
  cut short before its failures are recorded reports the cell complete.
* `SecretsStayHidden` is about two executions; the two worlds make an invariant of it.
* `ProtectionBlocksKill`, `DecidedGameStops`, `PlayedOnce` and so on say what was promised; the
  runs that check them are meant to fail.
* One hazard has no property: the matrix balances roles dealt from another seed than the
  one its games are created with (`pairing.py:272`, `gauntlets/scheduler.py:139`). Pairing
  leaves every deal free and cannot tell the two seeds apart.

## 5. Proofs

Eight modules hold proofs; each extends the modules it is about. Everything is proved for
every value of the constants that satisfies the modules' assumptions, which TLC evaluates on
the values of the runs. 51 theorems are listed in `PROJECT.json`: 33 of them state a property
that a run checks, the others are the invariants and type invariants that these rest on.

| module | theorem: property |
|---|---|
| EngineProofs | `TypeCorrect`: `TypeOK`; `NeverPastDecision`: `NoPlayPastDecision`; `DeathsAlwaysLegal`: `DeathsAreLegal`; `WinnersAreEarned`: `WinnerIsEarned`; `EffectsAlwaysLegal`: `EffectsStayLegal`; `HiddenRevealsAlwaysPaidFor`: `HiddenRevealsArePaidFor`; `FeedbackAlwaysAgrees`: `FeedbackAgrees`; `PlainNightsFollowThePrd`: `AgreesWithPrd`; `ViewsKeepTheirInvariant`; `SecretsAlwaysStayHidden`: `SecretsStayHidden` |
| JournalProofs | `TypeCorrect`; `RatedAtMostOnce`: `RatedOnce`; `HistoryAlwaysReadsOnce`: `HistoryReadsOnce`; `AlwaysRatedWithTheEnd`: `RatedWithTheEnd`; `FailuresAlwaysEarned`: `FailuresAreEarned`; `AlwaysLockstep`: `Lockstep`; `JournalImplementsHistory`: `ResolvedForEver` (the refinement); `StreamsKeepTheirInvariant`; `StreamsTyped`; `StreamsAlwaysFollowTheLog`: `StreamsFollowTheLog`; `PagesAlwaysAgreeOnTheEnd`: `PagesAgreeOnTheEnd` |
| SchedulerProofs | `SchedulerTyped`; `PlayAlwaysPaidFor`: `PlayIsPaidFor`; `SlotsAlwaysComeBack`: `SlotsComeBack`; `CompletedAlwaysOver`: `CompletedIsOver`; `CompletedAlwaysStay`: `CompletedGamesStay` |
| HumanProofs | `HistoryOfHumanGames`: `HumanHistoryHolds`; `MessagesAreReleasedOnce`: `ChatReleasedOnce`; `HumansWithinGraceKeepTheirSeats`: `LiveHumansKeepTheirSeats`; `AlwaysLaunchedOnce`: `LaunchedOnce`; `SlotsAlwaysFollowLobbies`: `SlotsFollowLobbies` |
| CampaignProofs | `CampaignsInvariant`; `ResultsAlwaysStand`: `CampaignResultsStand` |
| AccessProofs | `SignInsKeepTheirInvariant`; `SignInTyped`; `SignInsAlwaysReachAnAccount`: `SignInsReachAnAccount`; `LimitsKeepTheirTallies`; `LimitsTyped`; `CeilingsAlwaysStand`: `CeilingsStand` |
| CallProofs | `CallsKeepTheirInvariant`; `CallsTyped`; `TicksAlwaysAddUp`: `TicksAddUp` |
| LeagueProofs | `TournamentsKeepTheirInvariant`; `TournamentsTyped`; `ProgrammeAlwaysFair`: `ProgrammeIsFair`; `GateKeepsItsInvariant`; `GateTyped`; `ReadyAlwaysMeansEvidence`: `ReadyMeansEvidence`; `RatingsKeepTheirInvariant`; `RatingsTyped`; `LedgerAlwaysExplains`: `LedgerExplainsRatings` |

### The night (EngineProofs)

The resolver is a pure function, so all there is to keep is that what was submitted belongs
to its seat (`NightInv`); the rest is a chain of lemmas about the tiers, with `V` for the
valid intents and `A` for the active ones. The hardest is `BlockedAreInert`: the blocks of
the reduced night are the same, hence every tier sees the same active intents.

An attempt to prove `FeedbackAgrees` as it stood failed, and for a good reason: a redirect
does not bounce off a Commuter who is away, and shows as a visit (`nar.py:554-562`), so
somebody may read about him after all. No board had a redirector, a Commuter and a Watcher
together. The property now says so, and the tenth board makes it happen.

Assumption: `RedirectorsAssumption`, that the seats a board lets redirect have no night
action of their own. It describes the boards, not the code: no role has redirects yet.

### The loop (EngineProofs)

`TypeOK` is inductive by itself; its work is in the lemmas about the operators.
`NoPlayPastDecision` needs `DecisionInv`, with `OutcomeIsLast` (a step does not start in the
middle of a game that has an outcome) and `DealtGame` (roles and conditions never change, and
before the deal the state is that of a new game). `NoEarlyDraw` shows that entering a
phase which is not the last of the schedule cannot make the day cap true.

`WinnersAreEarned` needs `EarnedInv`: besides `DecisionInv`, that `cur` is the phase of the
state (`PhaseIsCurrent`), that the schedule ends after the last night of the last day
(`ScheduleEndsLast`: a draw is only called there), that a Jester is out only between the vote
and the check (`JesterIsOut`), and what each winner owes to the conditions
(`OutcomeIsEarned`). `DeathsAlwaysLegal` rests on the night's lemmas: a unique leader of
a kill is one living seat, and a valid Mafia kill aims at nobody of the Mafia.

Assumptions: `DealAssumption` (nobody has won on the board that is dealt; DRAW is the verdict
of the day cap alone) and `RulesetAssumption` (what the rulesets use each kind of condition
for: `win_conditions.py:71-94`, `sk12_v1.py:62-88`, `jester8_v1.py:65-90`). `CheckWin` takes
the least index of a matching condition; that it exists is `MinOfNaturals`, from the
well-foundedness of `<`.

### The views (EngineProofs)

`SecretsStayHidden` compares what one viewer is shown in two worlds, whose logs differ in what is
not his to know, so their positions differ too. `ObservationsInv` keeps the logs of both worlds in
agreement (`Agree`): what a viewer may see of a log is a list of its positions in order (`Tracks`),
and the lists of the two worlds are equally long and say the same, entry by entry (`Same`).
A step keeps this in one of two ways: twins are logged in both worlds and every list either
takes both or neither (`BothLogged`), or an event that no list of this viewer takes is logged in
one world only (`OneLogged`). The views are then made of such lists only (`ViewsAreTracks`). The
model states them as entries at positions, not as filtered sequences, which the provers cannot
reason about. `CastsAssumption`: a cast gives every seat a role.

### The journal (JournalProofs)

Any number of processes: `TypeInv` bounds the length of the stored logs, without which the
largest sequence need not exist; `RatingInv` says that once a game is rated it is terminal and
the fence lets no process in play pass again.

One process: `SingleInv` is about the log `Replayed(rows)`. The rows are its prefixes
(no gap, no fork), it is well formed, and each stage of a drive knows something of it
(`Keeps`): a process that plays has it in memory, ahead of the rows by the failures of the
current tick only. These theorems assume `MaxLive = 1`, the deployment the runner is
written for (SQLite, or one scheduler container); with two, `lockstep_replicas` shows that
`Lockstep` fails.

The refinement: GameHistory is the list of the verdicts of resolved phases and how the game was
closed. The mapping filters the log (`SelectSeq`), which is recursion over data, so the proof
goes round it: `Tells(l, h)` says without recursion that `h` is the story of the log `l` (its
length counts the resolved rows, and each effect row has the verdict of its phase in `h`), and
`EveryLogTells` shows that the filter yields such a story, by the least length of a log of
which it does not. Then each row that is appended tells the same story or the next phase of it,
and what a resume cuts off tells nothing (`TruncatedStory`). `ResultInv` adds that a game has a
result as long as it is COMPLETED, and only then. A step that raises when the game is over is a
`Disturb` of GameHistory, whether it is retried or dead-letters the game.

### The streams and the pages (JournalProofs)

`StreamsFollowTheLog` is about what has arrived, which is not inductive: a paced stream has all its
frames from the start, and a tail has passed over rows it did not show. `ViewsInv` says of each
connection (`Caught`) that what arrived and what is in hand are together all public rows up to
some event, that what is in hand comes later, and that of the rows a tail has passed it has shown
every public one. A resumption is caught up again because the last event that arrived is the
newest of them (`LastArrived`), and a tail without a cursor may start after row 0 because that
row is never public. Rows in hand are a set, sent in the order of their numbers, so that no filter
of a sequence is in the way. `PagesAgreeOnTheEnd` rests on what becomes of a recap
(`RecapInv`): what was stored when the game was over is the whole log, which nothing
changes any more.

### The scheduler (SchedulerProofs)

A game changes hands only by a lease that ran out. So `SchedulerInv` says, for as long as
none has (`expiries = 0`), whatever is spent, what belongs to whoever is busy with a game: the lease and the
slot while it plays (`PlayersHold`, `OpenRunsHold`) and, if nothing raised outside of play
(`strays = 0`), an undecided row until the attempt is retried or given up
(`DoneIsOver`). The provisos are in the properties; the code needs them.

### The human lane (HumanProofs)

`HumanInv` says how the log in memory continues the rows at each stage (`LogContinues`): only
the failures of a tick are ever ahead, because a takeover commits with its seat and chat with
its release. The other parts tie rows to seats (`SeatsAgree`), answers and votes to
submissions (`AnswersAreTrue`, `VotesAreTrue`), and messages to rows (`ChatIsFiled`). The
longest part is the model's arithmetic of logs: seats in order, failures in order, the row a
replay stops at.

### Lobbies and campaigns (HumanProofs, CampaignProofs)

`LobbyInv` carries its parts through commits over outdated rows: a request either finds the
row it loaded, and is one step, or marks the lobby as raced. `WithinCap` counts the games
that a human launched for himself against the slots they were bound to; it needs that the
maker keeps the seat until the host changes (`MakerKeepsSeat`).

`CampaignInv` has parts that hold whatever goes wrong (`CellsAddUp`, `LegsAddUp`, `RatedAddsUp`)
and two with a proviso: that a gauntlet has one driver, unless it was taken for stale while
it was driven (`DrivenAlone`), and that a failed leg is on its way to its cell, unless a drive
was cut short (`FailuresReported`).

### Sign-in (AccessProofs)

`SignInInv` has the tables, what makes a flow sign in once (`FlowsSignInOnce`: one callback is
under way for it at most, and a flow that a callback or a session has can be submitted by nobody
any more, as it is in the ledger; all of it of flows that were only submitted in time) and what is an account (`AccountsReached`). The property had to
be corrected first: it asked that the account of a session stay the one its subject signs in to,
unless that account itself is one that overlapping callbacks of a guest made, and the attempt
failed at a later callback that gives the subject such an account. TLC finds it with three
flows; the run has two. The theorem is about any number of flows.

### Ceilings (AccessProofs)

`LimitsInv` compares the count `c` of a bucket and a window with the requests `a` that were let
through (`Tallied`). Buckets that are written when a request is let through (`Posting`) agree,
`c = a`, while their window can still be hit. Those that are written first count less (`c <= a`)
only below the ceiling, as the clocks of other hosts evict; with one host and one clock per store
they count no less (`a <= c`) while their window lasts. `CeilingAssumption` says that a host has
not been up for as long as its time of day says, so windows of the two clocks are never confused.

### Calls of the models (CallProofs)

`CallsInv` says for each stage of a seat's call what its rows, its bill and the hosts it gave up
must look like: the rows cost no more than the bill, and a reply that is not stored yet is
the difference (`Unwritten`). `AskedOnce` says all of it of a seat that nobody asked before, as
long as no transaction has failed. The attempt found two CASEs in the status of a row
whose guards overlap, of which TLC takes the first and the logic says nothing; they are IFs now,
in the order of the code.

### Tournaments (LeagueProofs)

`ProgrammeIsFair` was false. Larger bounds (`MaxTime = 2`, `MaxGauntlets = 4`, one occurrence a
day) show it: a tick that marks its run late writes the time of the next occurrence over what
another tick has moved on since, and an occurrence fires twice, although no two ticks ever held
it. The property used to count such a schedule as undisturbed as long as nobody patched it;
now a late mark (`Outdated`) disturbs it and a patch excuses nothing. Checked again on 398,732
states of those bounds.

`TournamentInv` has: a due occurrence is in one hand (`OneHand`), nothing later than what is due
was fired (`NothingLater`), a spent occurrence is behind the schedule (`Spent`), hence each
fired once at most (`FiredOnce`); and for the matches, that the games there are of one plan were
launched in its order (`InTurn`, `PlanHolds`): the origins are 0 to N-1 without a gap or a
repetition, and so the match after them is made by somebody who saw all N completed.

### The publish gate (LeagueProofs)

A campaign report compares each score with a baseline that the code computes backwards: a
build's score before its oldest recent update. `BaselineIsBefore` shows that this is its score when
the window began, so that the ranks compared are those at the two ends of the window; scores are
counts of ups and downs here.
The rest of `ReadyMeansEvidence` follows from `GateInv`: cells stand for what their gauntlets did
(`CellsHold`), the games of a pair are what became of its legs (`PairHolds`), and every update
of a rating belongs to a pair that was played to its end (`PairsRated`). `GateAssumption`: the
roster of a cell is a finite set of builds with a model.

### The ratings (LeagueProofs)

`LedgerExplainsRatings` says that a row is what its audit rows made of it, one after the other,
without replaying them: the first one starts from nothing, each next one from where the one
before it ended, and the row has the value the last one left (`Explained`). Rows are read long
before they are written; the proviso is that no transaction has overwritten a row with
outdated values (`lost`), and the proof shows that this is the only way to part them.

`RatingsInv` ties three things. `TablesOK`: the rows are well formed. `WritersOK`: what a
transaction holds is what it is owed. It rates nothing, its own game, or the two legs of a pair
in order; nobody else is at the end of the same game; a placement that is owed has no event yet
(`OwedOK`). `LedgerOK`: the rows are explained, and the events of a game are one stretch
of the ledger that repeats its update entry by entry (`CopiedIn`), from which their
number, their results and the order of the two legs follow. `WrittenExplains` is the heart of it:
one update, in which a build may have several seats, takes rows that are explained to rows that
are. That a pair is not rated twice, when its two ends and the settlement of its gauntlet
overlap, needs the unique constraint of the audit table (`Collides`): the second transaction
has read no event, and its first row is there already.

`RatingsAssumption`: a game has seats; people sit only in games of the human ladder
(`game_runner.py:379-430` rates a game on the others only if every seat has a build); the
canonical rulesets end with TOWN, MAFIA or DRAW. Which seats of a game have human rows is a set in
seat order, and no filter of a sequence.

### What is only model-checked, and why

* `GamesTerminate`, `DoneUnlessInterrupted`, `PendingDrains`: liveness under fairness and
  ENABLED are out of the prover's reach.
* The bound on what is spent in `LobbyTypeOK`: `Spend` is a fold over a set.
* `BoardsKeepUp`: the boards filter the log with `SelectSeq` and add up outcomes with
  `MapThenSumSet`; `MatricesAreFair`: sums over a greedy deal. Both need induction over data.
* The type invariants of the scenes (`RecordsTypeOK`, `ReplicasTypeOK`, `PlatformTypeOK`):
  those of GameJournal, GauntletScheduler, HumanLane (as part of `HumanInv`), Lobbies,
  Campaigns, SignIn, RateLimits, AgentCalls, Tournaments, PublishGate, PublicViews and Ratings
  are proved for their modules.

No module declares a RECURSIVE operator.

## 6. Plan

The properties of the runs that are left to TLC are those of the list above. Next, should the
code change there: the tags of Leaderboards, split from the sums, so that a theorem can say which
ends of games a kept board may have missed.

## 7. Running

    tlc -workers 2 -config MCEngine.cfg MCEngine
    tlapm EngineProofs.tla

and the same for each row of section 3 (`PROJECT.json` has the module of each
configuration). Each run ends within five minutes; a proof module takes one to twelve
minutes.

## 8. Not modelled, and why

* Schema, migrations, metrics, export, backup, command line, bootstrap: set-up and I/O. The
  UNIQUE constraints that matter are modelled where they bite (`Taken`, the slots' index, the
  ledger of flows).
* Plain reads and administrative writes of the HTTP API; the game analytics store.
* The game rules' texts, feedback wording and order, prompts, public memory, message content,
  token accounting.
* The arithmetic of openskill: a rating is what went into it. When and in which order is in
  Ratings.
* The provider of models and the identity provider are external: they answer, fail or hang.
* In the scheduler: a spend that grows between the statement that reads it and the one that
  claims the slot, the second budget scope, the semaphore, the computation of the balance gate (a constant set of gauntlets passes it).
* In the human lane: the client's idempotency key, which lets a seat post more than one message
  or action per phase (the model keeps one of each), the claim among several games, and the cost breaker, which after a
  restart also keeps a RUNNING game from being resumed (`human_lane.py:1157-1170, 1237-1243`).
* In lobbies: ready flags, the AI seats, and the end of a UTC day.
* In observations: the Mayor's public weight, and the sequence numbers of the entries, which
  count hidden events too.
* In the ceilings: addresses, and the offset between the windows of two clocks.
* In tournaments: a late exception that turns the result of a game into FAILED, which is in
  GameJournal and GauntletScheduler. In campaigns: the transactions of a tick for stale leases and
  for each campaign that is refused are one step with the tick.
* In the publish gate: several builds per model, which distort its baseline.
