---------------------------- MODULE GameJournal ----------------------------
(***************************************************************************)
(* The persisted event log of one benchmark game: drive_game_loop writing  *)
(* one game_events row per event, the scheduler's attempts around it       *)
(* (_run_with_retry, _run_one_game), rehydrate_benchmark_game, the lease   *)
(* and the fenced terminal write.  What a phase does to the board is       *)
(* reduced to the verdict check_win gives after it.                        *)
(*                                                                         *)
(* A row stores the hash of its event chained to the previous hash; with   *)
(* an ideal hash that value stands for the whole log up to the row, so a   *)
(* row is that log, and its sequence number is the log's length less one.  *)
(***************************************************************************)
EXTENDS Integers, Sequences, FiniteSets

CONSTANTS
    Workers,        \* worker ids: hostname:pid of every process that ever runs
    MaxLive,        \* how many scheduler processes run at a time: 1 is the SQLite
                    \* single-writer deployment, more are replicas
    Phases,         \* the phases of the schedule before TERMINAL
    Winners,        \* factions that can win
    MaxFailures,    \* failure events of one tick
    MaxAttempts,    \* padrino_scheduler_game_max_attempts
    MaxBoots,       \* bound: process starts
    MaxFaults       \* bound: exceptions inside an attempt

Undecided == "UNDECIDED"
NoWorker == "nobody"

ASSUME JournalAssumption ==
    /\ NoWorker \notin Workers
    /\ {Undecided, "DRAW", "FAILED"} \cap Winners = {}
    /\ {MaxLive, Phases, MaxAttempts} \subseteq Nat \ {0}
    /\ {MaxFailures, MaxBoots, MaxFaults} \subseteq Nat

VARIABLES
    rows,       \* game_events of the game
    game,       \* its games row, and how often ratings were applied with it
    proc,       \* worker -> its process: where it is (at), its in-memory EventLog (log),
                \* current_phase (phase), the sequences of the tick's events still to mirror
                \* (todo), the log length it truncates to (cut), _run_with_retry's attempt
    boots,      \* how many process starts there were
    faults      \* history: how many exceptions were raised, whether one of them was poison,
                \* and how many came when the game was over

vars == <<rows, game, proc, boots, faults>>

Verdict == Winners \cup {Undecided}

Event == [kind : {"created", "roles", "started", "failure", "effect", "resolved",
                  "terminated"},
          phase : 0..Phases + 1, verdict : Verdict \cup {"DRAW"}]

Ev(kind, p) == [kind |-> kind, phase |-> p, verdict |-> Undecided]

Prefix(l, n) == SubSeq(l, 1, n)

\* Stages between taking the lease and the end of the loop
Playing == {"create", "deal", "enter", "tick", "mirror", "resolve", "check"}

Stage == Playing \cup {"down", "rehydrate", "truncate", "acquire", "closed", "over"}

\* An exception may come out of any stage of an attempt; in "closed" the loop has returned and
\* the finally has the slot still to release.
Attempting == Stage \ {"down", "over"}

-----------------------------------------------------------------------------
\* Reading the rows back

\* Re-sealing every body must give every stored hash.
Intact(rs) == \A r \in rs : /\ Len(r) > 1 => Prefix(r, Len(r) - 1) \in rs
                            /\ \A q \in rs : Len(q) = Len(r) => q = r

Replayed(rs) == IF rs = {} THEN <<>> ELSE CHOOSE r \in rs : \A q \in rs : Len(q) =< Len(r)

Mentions(l, kind, p) == \E i \in DOMAIN l : l[i].kind = kind /\ l[i].phase = p

\* state.current_phase after the replay: the last PhaseStarted, SETUP before it
CurrentPhase(l) ==
    LET started == {l[i].phase : i \in {j \in DOMAIN l : l[j].kind = "started"}}
    IN  IF started = {} THEN 0 ELSE CHOOSE p \in started : \A q \in started : q =< p

StartIndex(l) == CHOOSE i \in DOMAIN l : l[i] = Ev("started", CurrentPhase(l))

\* Length of the log up to the start of an unresolved phase that has a tail, else 0
Boundary_Slip(l) ==
    IF CurrentPhase(l) # 0 /\ StartIndex(l) # Len(l) THEN StartIndex(l) ELSE 0

BoundaryNever_Slip(l) == 0

Boundary(l) ==
    IF /\ CurrentPhase(l) # 0
       /\ StartIndex(l) # Len(l)
       /\ ~Mentions(l, "resolved", CurrentPhase(l))
    THEN StartIndex(l) ELSE 0

\* rehydrate_benchmark_game returns None: the attempt starts from GameCreated.
NothingToResume(l) ==
    \/ l \in {<<>>, <<Ev("created", 0)>>}
    \/ \E i \in DOMAIN l : l[i].kind = "terminated"

\* _resume_phase
Unresolved(l) == CurrentPhase(l) # 0 /\ ~Mentions(l, "resolved", CurrentPhase(l))

ResumeStage(l) == IF l = <<>> THEN "create" ELSE IF Unresolved(l) THEN "tick" ELSE "enter"

ResumePhase(l) == IF l = <<>> THEN 0
                  ELSE IF Unresolved(l) THEN CurrentPhase(l) ELSE CurrentPhase(l) + 1

\* check_win over the folded state
CheckWin(l) ==
    LET effects == {i \in DOMAIN l : l[i].kind = "effect"}
    IN  IF effects = {} THEN Undecided
        ELSE l[CHOOSE i \in effects : \A j \in effects : j =< i].verdict

Terminal(status) == status \in {"COMPLETED", "FAILED"}

-----------------------------------------------------------------------------
\* The journal

Taken(rs, n) == \E r \in rs : Len(r) = n

Process(stage, n) ==
    [at |-> stage, log |-> <<>>, phase |-> 0, todo |-> {}, cut |-> 0, attempt |-> n]

Goes(w, stage) == proc' = [proc EXCEPT ![w].at = stage]

\* mark_failed looks at nothing but the id.
MarkFailed == game' = [game EXCEPT !.status = "FAILED", !.result = Undecided]

RaiseForEver_Slip(w, poison) ==
    IF poison
    THEN MarkFailed /\ proc' = [proc EXCEPT ![w] = Process("over", @.attempt)]
    ELSE proc' = [proc EXCEPT ![w] = Process("rehydrate", @.attempt + 1)] /\ UNCHANGED game

RaiseEarly_Slip(w, poison) ==
    IF poison \/ proc[w].attempt = MaxAttempts - 1
    THEN MarkFailed /\ proc' = [proc EXCEPT ![w] = Process("over", @.attempt)]
    ELSE proc' = [proc EXCEPT ![w] = Process("rehydrate", @.attempt + 1)] /\ UNCHANGED game

\* An exception leaves the attempt: try again, or dead-letter the game.
Raise(w, poison) ==
    IF poison \/ proc[w].attempt = MaxAttempts
    THEN MarkFailed /\ proc' = [proc EXCEPT ![w] = Process("over", @.attempt)]
    ELSE proc' = [proc EXCEPT ![w] = Process("rehydrate", @.attempt + 1)] /\ UNCHANGED game

\* emit_and_persist: append to the chain, then insert; uq_game_event_sequence may refuse.
Emit(w, event, stage, p) ==
    LET sealed == Append(proc[w].log, event)
    IN  /\ IF Taken(rows, Len(sealed))
           THEN Raise(w, FALSE) /\ UNCHANGED rows
           ELSE /\ rows' = rows \cup {sealed}
                /\ proc' = [proc EXCEPT ![w] = [@ EXCEPT !.at = stage, !.log = sealed,
                                                        !.phase = p]]
                /\ UNCHANGED game
        /\ UNCHANGED <<boots, faults>>

-----------------------------------------------------------------------------
Init ==
    /\ rows = {}
    /\ game = [status |-> "CREATED", holder |-> NoWorker, leased |-> FALSE,
               result |-> Undecided, rated |-> 0]
    /\ proc = [w \in Workers |-> Process("down", 0)]
    /\ boots = 0
    /\ faults = [raised |-> 0, poison |-> FALSE, late |-> 0]

\* A scheduler starts and drives the gauntlet of this game, if the game is not terminal.
Boot(w) ==
    /\ proc[w].at = "down"
    /\ Cardinality({v \in Workers : proc[v].at # "down"}) < MaxLive
    /\ boots < MaxBoots
    /\ ~Terminal(game.status)
    /\ proc' = [proc EXCEPT ![w] = Process("rehydrate", 1)]
    /\ boots' = boots + 1
    /\ UNCHANGED <<rows, game, faults>>

\* The process dies, or has nothing left to do and stops.
Crash(w) ==
    /\ proc[w].at # "down"
    /\ proc' = [proc EXCEPT ![w] = Process("down", 0)]
    /\ UNCHANGED <<rows, game, boots, faults>>

\* rehydrate_benchmark_game: replay the rows, look for a partial phase.
Rehydrate(w) ==
    /\ proc[w].at = "rehydrate"
    /\ LET l == Replayed(rows)
       IN  IF ~Intact(rows) THEN Raise(w, TRUE)
           ELSE /\ UNCHANGED game
                /\ IF NothingToResume(l) THEN Goes(w, "acquire")
                   ELSE IF Boundary(l) # 0
                   THEN proc' = [proc EXCEPT ![w].at = "truncate", ![w].cut = Boundary(l)]
                   ELSE proc' = [proc EXCEPT ![w].at = "acquire", ![w].log = l]
    /\ UNCHANGED <<rows, boots, faults>>

\* delete_events_after, commit, and the second replay
Truncate(w) ==
    /\ proc[w].at = "truncate"
    /\ rows' = {r \in rows : Len(r) =< proc[w].cut}
    /\ IF Intact(rows')
       THEN /\ proc' = [proc EXCEPT ![w].at = "acquire", ![w].log = Replayed(rows'),
                                    ![w].cut = 0]
            /\ UNCHANGED game
       ELSE Raise(w, TRUE)
    /\ UNCHANGED <<boots, faults>>

\* lease_game_for_worker, and on success the start of drive_game_loop
Acquire(w) ==
    /\ proc[w].at = "acquire"
    /\ IF \/ Terminal(game.status)
          \/ game.holder \notin {NoWorker, w} /\ game.leased
       THEN Goes(w, "over") /\ UNCHANGED game
       ELSE /\ game' = [game EXCEPT !.status = "RUNNING", !.holder = w, !.leased = TRUE]
            /\ proc' = [proc EXCEPT ![w].at = ResumeStage(proc[w].log),
                                    ![w].phase = ResumePhase(proc[w].log)]
    /\ UNCHANGED <<rows, boots, faults>>

Create(w) == proc[w].at = "create" /\ Emit(w, Ev("created", 0), "deal", 0)

Deal(w) == proc[w].at = "deal" /\ Emit(w, Ev("roles", 0), "enter", 1)

StartPhase(w) ==
    /\ proc[w].at = "enter"
    /\ proc[w].phase =< Phases
    /\ Emit(w, Ev("started", proc[w].phase), "tick", proc[w].phase)

Tick_Slip(w) ==
    /\ proc[w].at = "tick"
    /\ \E n \in 0..MaxFailures :
          LET failures == [i \in 1..n |-> Ev("failure", proc[w].phase)]
          IN  proc' = [proc EXCEPT ![w] = [@ EXCEPT !.at = "mirror", !.log = @ \o failures]]
    /\ UNCHANGED <<rows, game, boots, faults>>

\* run_tick appends its failure events to the log only; then persisted_sequences_from
\* says which of them are already there.
Tick(w) ==
    /\ proc[w].at = "tick"
    /\ \E n \in 0..MaxFailures :
          LET before == Len(proc[w].log)
              failures == [i \in 1..n |-> Ev("failure", proc[w].phase)]
          IN  proc' = [proc EXCEPT ![w] =
                [@ EXCEPT !.at = "mirror", !.log = proc[w].log \o failures,
                          !.todo = {s \in before + 1..before + n : ~Taken(rows, s)}]]
    /\ UNCHANGED <<rows, game, boots, faults>>

\* _persist_pending_event_rows, one row per transaction
Mirror(w) ==
    /\ proc[w].at = "mirror"
    /\ \E s \in proc[w].todo :
          /\ \A q \in proc[w].todo : s =< q
          /\ IF Taken(rows, s)
             THEN Raise(w, FALSE) /\ UNCHANGED rows
             ELSE /\ rows' = rows \cup {Prefix(proc[w].log, s)}
                  /\ proc' = [proc EXCEPT ![w].todo = @ \ {s}]
                  /\ UNCHANGED game
    /\ UNCHANGED <<boots, faults>>

\* The submission and resolution events of the phase, as one row
PlayPhase(w) ==
    /\ proc[w].at = "mirror"
    /\ proc[w].todo = {}
    /\ \E verdict \in Verdict :
          Emit(w, [Ev("effect", proc[w].phase) EXCEPT !.verdict = verdict], "resolve",
               proc[w].phase)

ResolvePhase(w) ==
    /\ proc[w].at = "resolve"
    /\ Emit(w, Ev("resolved", proc[w].phase), "check", proc[w].phase)

NextPhase(w) ==
    /\ proc[w].at = "check"
    /\ CheckWin(proc[w].log) = Undecided
    /\ proc' = [proc EXCEPT ![w].at = "enter", ![w].phase = @ + 1]
    /\ UNCHANGED <<rows, game, boots, faults>>

\* _lease_fence_allows_finalize
FenceAllows(w) == game.holder = w /\ game.leased

Terminate_Slip(w, winner) ==
    LET sealed == Append(proc[w].log, [Ev("terminated", proc[w].phase) EXCEPT !.verdict = winner])
    IN  /\ IF game.status = "COMPLETED" \/ ~FenceAllows(w)
           THEN Goes(w, "closed") /\ game' = [game EXCEPT !.rated = @ + 1] /\ UNCHANGED rows
           ELSE IF Taken(rows, Len(sealed))
           THEN Raise(w, FALSE) /\ UNCHANGED rows
           ELSE /\ rows' = rows \cup {sealed}
                /\ game' = [game EXCEPT !.status = "COMPLETED", !.result = winner,
                                        !.rated = @ + 1]
                /\ proc' = [proc EXCEPT ![w].at = "closed", ![w].log = sealed]
        /\ UNCHANGED <<boots, faults>>

\* _persist_terminated_event: one transaction; what it declines it declines silently.
Terminate(w, winner) ==
    LET sealed == Append(proc[w].log, [Ev("terminated", proc[w].phase) EXCEPT !.verdict = winner])
    IN  /\ IF game.status = "COMPLETED" \/ ~FenceAllows(w)
           THEN Goes(w, "closed") /\ UNCHANGED <<rows, game>>
           ELSE IF Taken(rows, Len(sealed))
           THEN Raise(w, FALSE) /\ UNCHANGED rows
           ELSE /\ rows' = rows \cup {sealed}
                /\ game' = [game EXCEPT !.status = "COMPLETED", !.result = winner,
                                        !.rated = @ + 1]
                /\ proc' = [proc EXCEPT ![w].at = "closed", ![w].log = sealed]
        /\ UNCHANGED <<boots, faults>>

TerminateWithWinner(w) ==
    /\ proc[w].at = "check"
    /\ CheckWin(proc[w].log) # Undecided
    /\ Terminate(w, CheckWin(proc[w].log))

TerminateAsDraw(w) ==
    /\ proc[w].at = "enter"
    /\ proc[w].phase = Phases + 1
    /\ Terminate(w, "DRAW")

\* The finally of _run_one_game has given the budget slot back.
Release(w) ==
    /\ proc[w].at = "closed"
    /\ Goes(w, "over")
    /\ UNCHANGED <<rows, game, boots, faults>>

\* An exception that nothing below the attempt absorbs.  classify_game_exception takes those
\* of the database and the provider for transient, and ValueError, TypeError,
\* ValidationError and ReplayHashMismatchError for poison.
Fault(w) ==
    /\ proc[w].at \in Attempting
    /\ faults.raised < MaxFaults
    /\ \E poison \in BOOLEAN :
          /\ faults' = [raised |-> faults.raised + 1, poison |-> faults.poison \/ poison,
                        late |-> IF Terminal(game.status) THEN faults.late + 1 ELSE faults.late]
          /\ Raise(w, poison)
    /\ UNCHANGED <<rows, boots>>

\* Nothing renews the lease of a game that is being played.
LeaseExpires ==
    /\ game.status = "RUNNING"
    /\ game.leased
    /\ game' = [game EXCEPT !.leased = FALSE]
    /\ UNCHANGED <<rows, proc, boots, faults>>

\* reset_stale_games
ReapLease ==
    /\ game.status = "RUNNING"
    /\ game.holder # NoWorker
    /\ ~game.leased
    /\ game' = [game EXCEPT !.holder = NoWorker]
    /\ UNCHANGED <<rows, proc, boots, faults>>

Next ==
    \/ \E w \in Workers :
          \/ Boot(w) \/ Crash(w) \/ Fault(w)
          \/ Rehydrate(w) \/ Truncate(w) \/ Acquire(w)
          \/ Create(w) \/ Deal(w) \/ StartPhase(w) \/ Tick(w) \/ Mirror(w)
          \/ PlayPhase(w) \/ ResolvePhase(w) \/ NextPhase(w)
          \/ TerminateWithWinner(w) \/ TerminateAsDraw(w) \/ Release(w)
    \/ LeaseExpires
    \/ ReapLease

Spec == Init /\ [][Next]_vars

-----------------------------------------------------------------------------
\* Properties

TypeOK ==
    /\ \A r \in rows : r \in Seq(Event) /\ r # <<>>
    /\ game \in [status : {"CREATED", "RUNNING", "COMPLETED", "FAILED"},
                 holder : Workers \cup {NoWorker}, leased : BOOLEAN,
                 result : Verdict \cup {"DRAW"}, rated : Nat]
    /\ \A w \in Workers :
          /\ proc[w].at \in Stage
          /\ proc[w].log \in Seq(Event)
          /\ proc[w].phase \in 0..Phases + 1
          /\ proc[w].todo \subseteq DOMAIN proc[w].log
          /\ proc[w].attempt \in 0..MaxAttempts
    /\ faults \in [raised : Nat, poison : BOOLEAN, late : Nat]

\* The verdicts that the resolved phases of a log left, in order
Resolved(l) ==
    [p \in 1..Cardinality({i \in DOMAIN l : l[i].kind = "resolved"}) |->
        l[CHOOSE i \in DOMAIN l : l[i].kind = "effect" /\ l[i].phase = p].verdict]

\* The persisted log always replays, and reads like a game played without a crash: each
\* phase starts once, after the one before was resolved, and takes effect once.
Follows(before, next) ==
    /\ before.kind = "created" => next.kind = "roles"
    /\ before.kind = "roles" => next = Ev("started", 1)
    /\ before.kind \in {"started", "failure"} =>
          next.kind \in {"failure", "effect"} /\ next.phase = before.phase
    /\ before.kind = "effect" => next = Ev("resolved", before.phase)
    /\ before.kind = "resolved" =>
          \/ next.kind = "started" /\ next.phase = before.phase + 1
          \/ next.kind = "terminated"

HistoryReadsOnce ==
    LET l == Replayed(rows)
    IN  /\ Intact(rows)
        /\ l # <<>> => l[1].kind = "created"
        /\ \A i \in 1..Len(l) - 1 : Follows(l[i], l[i + 1])

\* "The in-memory event log and DB rows stay in lockstep - failure to persist propagates
\* as an exception" (game_runner.py:1137-1138): after every insert the rows are exactly the
\* writer's log, but for the failures it is still mirroring.
Lockstep ==
    [][\A w \in Workers :
         proc'[w] # proc[w] /\ ~(rows' \subseteq rows) =>
            LET p == proc'[w]
            IN  rows' = {Prefix(p.log, n) : n \in DOMAIN p.log \ p.todo}]_vars

\* Ratings are applied with the GameTerminated row, in its transaction.
RatedWithTheEnd ==
    /\ game.rated = Cardinality({r \in rows : r[Len(r)].kind = "terminated"})
    /\ game.status = "COMPLETED" => game.rated = 1

\* Whatever two schedulers do to one game, its ratings are applied at most once.
RatedOnce == game.rated =< 1

\* A game is dead-lettered only by an exception that is poison, or by as many as one drive
\* of it takes, unless all it has is its GameCreated row, which no later attempt gets past.
FailuresAreEarned ==
    game.status = "FAILED" =>
        \/ faults.poison
        \/ faults.raised >= MaxAttempts
        \/ Replayed(rows) = <<Ev("created", 0)>>

\* The journal implements the history it promises; what disturbs it is an exception that
\* leaves an attempt when the game is over.
History == INSTANCE GameHistory WITH
    Phases <- Phases, Verdicts <- Verdict, Undecided <- Undecided,
    history <- Resolved(Replayed(rows)),
    closed <- IF game.status = "FAILED" THEN "FAILED" ELSE game.result,
    disturbed <- faults.late

ResolvedForEver == History!HSpec

\* "checks the win condition; if a winner / draw is decided, appends GameTerminated and
\* stops" (game_runner.py:16-17): no phase follows the one that decided the game.
DecidedGameStops ==
    LET l == Replayed(rows)
    IN  \A i \in 1..Len(l) - 1 :
            l[i].kind = "resolved" /\ CheckWin(Prefix(l, i)) # Undecided =>
                l[i + 1].kind = "terminated" /\ l[i + 1].verdict = CheckWin(Prefix(l, i))
=============================================================================
