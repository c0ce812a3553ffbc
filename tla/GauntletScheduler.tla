------------------------- MODULE GauntletScheduler -------------------------
(***************************************************************************)
(* run_scheduler of runner/scheduler.py: a process claims a pending        *)
(* gauntlet, drives all its child games at once (lease, budget slot, play, *)
(* release, retry or dead-letter), settles the gauntlet and polls again;   *)
(* crash recovery happens once, when a process starts.                     *)
(*                                                                         *)
(* What happens inside a game is GameJournal; here a game that is played   *)
(* ends by its fenced terminal write or by an exception.  The semaphore    *)
(* is left out (any number of children may be in flight, so every order    *)
(* that it admits is here), and so are campaigns and pair ratings.         *)
(***************************************************************************)
EXTENDS Integers, FiniteSets

CONSTANTS
    Workers,        \* worker ids
    Gauntlets,      \* numbered by created_at
    Games,          \* all child games
    Parent,         \* game -> its gauntlet
    Balanced,       \* the gauntlets that pass the balance gate when no child failed
    SlotCap,        \* slots of the budget: floor(budget / reserve)
    MaxAttempts,    \* game_max_attempts
    Reaper,         \* padrino_enable_game_lease_reaper
    MaxLive,        \* scheduler processes alive at once
    MaxFaults,      \* bound: exceptions out of game_executor
    MaxStrays,      \* bound: exceptions out of the scheduler's own steps around it
    MaxCrashes,     \* bound: killed processes
    MaxExpiries,    \* bound: leases that expire
    MaxSpent,       \* bound: slots that are spent
    MaxMishaps      \* bound: all of these together

NoWorker == "nobody"
NoGauntlet == 0

ASSUME SchedulerAssumption ==
    /\ NoWorker \notin Workers
    /\ Gauntlets \subseteq Nat \ {NoGauntlet}
    /\ Parent \in [Games -> Gauntlets]
    /\ Balanced \subseteq Gauntlets
    /\ {SlotCap, MaxAttempts, MaxLive} \subseteq Nat \ {0}
    /\ Reaper \in BOOLEAN
    /\ {MaxFaults, MaxStrays, MaxCrashes, MaxExpiries, MaxSpent, MaxMishaps} \subseteq Nat

VARIABLES
    gauntlet,   \* gauntlet -> [status, beat]: its row, beat the age of heartbeat_at
    game,       \* game -> [status, holder, leased]: its row, leased until the expiry
    slots,      \* live budget_reservation_slots: [game |-> binding, worker |-> who holds its id]
    spent,      \* _implicit_budget_used: what the llm_calls cost so far, in whole slots
    at,         \* worker -> where its loop is
    driving,    \* worker -> the claimed gauntlet
    child,      \* worker -> game -> where _run_with_retry is
    tries,      \* worker -> game -> its attempt number
    paused,     \* worker -> budget_paused_gauntlet_ids
    faults, strays, crashes, expiries

rowVars == <<gauntlet, game, slots, spent>>
bounds == <<faults, strays, crashes, expiries>>
vars == <<gauntlet, game, slots, spent, at, driving, child, tries, paused, bounds>>

Children(g) == {x \in Games : Parent[x] = g}

Terminal(x) == game[x].status \in {"COMPLETED", "FAILED"}

\* idle: no such child of this drive; attempt: about to lease; playing: in game_executor;
\* closed, raised: in the finally that releases the slot; caught: in the except clause;
\* doomed: about to be marked FAILED
ChildStage ==
    {"idle", "attempt", "playing", "closed", "raised", "caught", "doomed",
     "ended", "failed", "halted"}

Settled == {"idle", "ended", "failed", "halted"}

NoChildren == [x \in Games |-> "idle"]

\* Not code: the bound on everything that goes wrong
MayMishap == faults + strays + crashes + expiries < MaxMishaps

Live == {w \in Workers : at[w] # "down"}

Init ==
    /\ gauntlet = [g \in Gauntlets |-> [status |-> "PENDING", beat |-> "none"]]
    /\ game = [x \in Games |-> [status |-> "CREATED", holder |-> NoWorker, leased |-> FALSE]]
    /\ slots = {} /\ spent = 0
    /\ at = [w \in Workers |-> "down"]
    /\ driving = [w \in Workers |-> NoGauntlet]
    /\ child = [w \in Workers |-> NoChildren]
    /\ tries = [w \in Workers |-> [x \in Games |-> 0]]
    /\ paused = [w \in Workers |-> {}]
    /\ faults = 0 /\ strays = 0 /\ crashes = 0 /\ expiries = 0

-----------------------------------------------------------------------------
\* The process

\* _recover_stale_running, before the first tick
Boot(w) ==
    /\ w \notin Live
    /\ Cardinality(Live) < MaxLive
    /\ at' = [at EXCEPT ![w] = "poll"]
    /\ gauntlet' = [g \in Gauntlets |->
          IF gauntlet[g].status = "RUNNING" /\ gauntlet[g].beat # "fresh"
          THEN [status |-> "PENDING", beat |-> "none"] ELSE gauntlet[g]]
    /\ UNCHANGED <<game, slots, spent, driving, child, tries, paused, bounds>>

Crash(w) ==
    /\ w \in Live
    /\ crashes < MaxCrashes /\ MayMishap
    /\ crashes' = crashes + 1
    /\ at' = [at EXCEPT ![w] = "down"]
    /\ driving' = [driving EXCEPT ![w] = NoGauntlet]
    /\ child' = [child EXCEPT ![w] = NoChildren]
    /\ tries' = [tries EXCEPT ![w] = [x \in Games |-> 0]]
    /\ paused' = [paused EXCEPT ![w] = {}]
    /\ UNCHANGED <<rowVars, faults, strays, expiries>>

\* reset_stale_games
Stale_Slip ==
    {x \in Games : game[x].status = "RUNNING" /\ game[x].holder # NoWorker}

Stale ==
    {x \in Games : game[x].status = "RUNNING" /\ game[x].holder # NoWorker /\ ~game[x].leased}

\* release_budget_slots_by_binding_key leaves the others.  A released slot's row, whose index is
\* never given out again, is gone here.
SlotsWithout(released) == {s \in slots : s.game \notin released}

\* _reap_stale_games: their leases, and the slots bound to them
Reap(w) ==
    /\ Reaper
    /\ at[w] = "poll"
    /\ Stale # {}
    /\ game' = [x \in Games |-> IF x \in Stale THEN [game[x] EXCEPT !.holder = NoWorker]
                                ELSE game[x]]
    /\ slots' = SlotsWithout(Stale)
    /\ UNCHANGED <<gauntlet, spent, at, driving, child, tries, paused, bounds>>

Claimable(w) == {g \in Gauntlets : gauntlet[g].status = "PENDING" /\ g \notin paused[w]}

\* claim_oldest_pending, and _gauntlet_context's list of children that are not terminal
Claim(w) ==
    /\ at[w] = "poll"
    /\ \E g \in Claimable(w) :
          /\ \A h \in Claimable(w) : g =< h
          /\ gauntlet' = [gauntlet EXCEPT ![g] = [status |-> "RUNNING", beat |-> "fresh"]]
          /\ driving' = [driving EXCEPT ![w] = g]
          /\ child' = [child EXCEPT ![w] =
                [x \in Games |-> IF x \in Children(g) /\ ~Terminal(x) THEN "attempt" ELSE "idle"]]
          /\ tries' = [tries EXCEPT ![w] = [x \in Games |-> 1]]
    /\ at' = [at EXCEPT ![w] = "drive"]
    /\ UNCHANGED <<game, slots, spent, paused, bounds>>

\* Nothing to claim: forget the budget pauses and wait for the next poll.
IdlePoll_Slip(w) ==
    /\ at[w] = "poll"
    /\ Claimable(w) = {}
    /\ UNCHANGED vars

IdlePoll(w) ==
    /\ at[w] = "poll"
    /\ Claimable(w) = {}
    /\ paused[w] # {}
    /\ paused' = [paused EXCEPT ![w] = {}]
    /\ UNCHANGED <<rowVars, at, driving, child, tries, bounds>>

\* update_heartbeat
WithBeat(g) == [gauntlet EXCEPT ![g].beat = "fresh"]

\* _heartbeat_loop, while the children are in flight (not started on SQLite)
Beat(w) ==
    /\ at[w] = "drive"
    /\ gauntlet[driving[w]].beat # "fresh"
    /\ gauntlet' = WithBeat(driving[w])
    /\ UNCHANGED <<game, slots, spent, at, driving, child, tries, paused, bounds>>

-----------------------------------------------------------------------------
\* One child

Moves(w, x, stage) == child' = [child EXCEPT ![w][x] = stage]

HeldByOther_Slip(w, x) == game[x].holder \notin {NoWorker, w} /\ ~game[x].leased

HeldByOther(w, x) == game[x].holder \notin {NoWorker, w} /\ game[x].leased

\* lease_game_for_worker
Leasable(w, x) == ~Terminal(x) /\ ~HeldByOther(w, x)

\* No lease: the attempt ends as if all were well.
LeaseDenied(w, x) ==
    /\ child[w][x] = "attempt"
    /\ ~Leasable(w, x)
    /\ Moves(w, x, "ended")
    /\ UNCHANGED <<rowVars, at, driving, tries, paused, bounds>>

\* A game's own earlier slots are released before its new claim.
OtherSlots(x) == SlotsWithout({x})

\* claim_budget_slot: what is spent takes up slots too.
Exhausted(x) == spent + Cardinality(OtherSlots(x)) >= SlotCap

\* Lease and budget slot in one transaction; without a slot the lease is undone.
Admit(w, x) ==
    /\ child[w][x] = "attempt"
    /\ Leasable(w, x)
    /\ ~Exhausted(x)
    /\ game' = [game EXCEPT ![x] = [status |-> "RUNNING", holder |-> w, leased |-> TRUE]]
    /\ slots' = OtherSlots(x) \cup {[game |-> x, worker |-> w]}
    /\ Moves(w, x, "playing")
    /\ UNCHANGED <<gauntlet, spent, at, driving, tries, paused, bounds>>

BudgetHalt(w, x) ==
    /\ child[w][x] = "attempt"
    /\ Leasable(w, x)
    /\ Exhausted(x)
    /\ game' = [game EXCEPT ![x] = [status |-> "CREATED", holder |-> NoWorker, leased |-> FALSE]]
    /\ slots' = OtherSlots(x)
    /\ Moves(w, x, "halted")
    /\ UNCHANGED <<gauntlet, spent, at, driving, tries, paused, bounds>>

\* The calls of the game have cost another slot's worth.
Spend(w, x) ==
    /\ child[w][x] = "playing"
    /\ spent < MaxSpent
    /\ spent' = spent + 1
    /\ UNCHANGED <<gauntlet, game, slots, at, driving, child, tries, paused, bounds>>

\* The game is over; its terminal write goes through only under the lease.
Finish(w, x) ==
    /\ child[w][x] = "playing"
    /\ game' = IF game[x].holder = w /\ game[x].leased
               THEN [game EXCEPT ![x].status = "COMPLETED"] ELSE game
    /\ Moves(w, x, "closed")
    /\ UNCHANGED <<gauntlet, slots, spent, at, driving, tries, paused, bounds>>

Fault(w, x) ==
    /\ child[w][x] = "playing"
    /\ faults < MaxFaults /\ MayMishap
    /\ faults' = faults + 1
    /\ Moves(w, x, "raised")
    /\ UNCHANGED <<rowVars, at, driving, tries, paused, strays, crashes, expiries>>

\* release_budget_slot: no row is updated if the reaper was faster.
SlotReleased(w, x) == slots \ {[game |-> x, worker |-> w]}

\* release_benchmark_budget_reservation, in the finally
Release_Slip(w, x) ==
    /\ child[w][x] \in {"closed", "raised"}
    /\ slots' = IF child[w][x] = "closed" THEN SlotReleased(w, x) ELSE slots
    /\ Moves(w, x, IF child[w][x] = "closed" THEN "ended" ELSE "caught")
    /\ UNCHANGED <<gauntlet, game, spent, at, driving, tries, paused, bounds>>

Release(w, x) ==
    /\ child[w][x] \in {"closed", "raised"}
    /\ slots' = SlotReleased(w, x)
    /\ Moves(w, x, IF child[w][x] = "closed" THEN "ended" ELSE "caught")
    /\ UNCHANGED <<gauntlet, game, spent, at, driving, tries, paused, bounds>>

\* Rehydration or admission raises, and is rolled back; or the release of the slot does: the
\* slot stays, and even a game that ended well counts as failed.
Stray(w, x) ==
    /\ child[w][x] \in {"attempt", "closed", "raised"}
    /\ strays < MaxStrays /\ MayMishap
    /\ strays' = strays + 1
    /\ Moves(w, x, "caught")
    /\ UNCHANGED <<rowVars, at, driving, tries, paused, faults, crashes, expiries>>

Retry(w, x) ==
    /\ child[w][x] = "caught"
    /\ tries[w][x] < MaxAttempts
    /\ Moves(w, x, "attempt")
    /\ tries' = [tries EXCEPT ![w][x] = @ + 1]
    /\ UNCHANGED <<rowVars, at, driving, paused, bounds>>

\* After the last attempt, or at once for an exception that classifies as POISON
GiveUp(w, x) ==
    /\ child[w][x] = "caught"
    /\ Moves(w, x, "doomed")
    /\ UNCHANGED <<rowVars, at, driving, tries, paused, bounds>>

MarkFailed(w, x) ==
    /\ child[w][x] = "doomed"
    /\ game' = [game EXCEPT ![x].status = "FAILED"]
    /\ Moves(w, x, "failed")
    /\ UNCHANGED <<gauntlet, slots, spent, at, driving, tries, paused, bounds>>

-----------------------------------------------------------------------------
\* All children are back

Returns(w) ==
    /\ at[w] = "drive"
    /\ \A x \in Games : child[w][x] \in Settled
    /\ at' = [at EXCEPT ![w] = "poll"]
    /\ driving' = [driving EXCEPT ![w] = NoGauntlet]
    /\ child' = [child EXCEPT ![w] = NoChildren]
    /\ tries' = [tries EXCEPT ![w] = [x \in Games |-> 0]]
    /\ UNCHANGED <<game, slots, spent, bounds>>

Halted(w) == \E x \in Games : child[w][x] = "halted"

SettlePending(w) ==
    /\ Returns(w)
    /\ Halted(w)
    /\ gauntlet' = [gauntlet EXCEPT ![driving[w]] = [status |-> "PENDING", beat |-> "none"]]
    /\ paused' = [paused EXCEPT ![w] = @ \cup {driving[w]}]

\* _all_games_terminal: none of no games
AllGamesTerminal(g) == Children(g) # {} /\ \A x \in Children(g) : Terminal(x)

MayFinalize_Slip(g) == \E x \in Children(g) : Terminal(x)

\* finalize_gauntlet_if_done
MayFinalize(g) ==
    /\ AllGamesTerminal(g)
    /\ g \in Balanced \/ \E x \in Children(g) : game[x].status = "FAILED"

\* mark_completed
WithCompleted(g) == [gauntlet EXCEPT ![g] = [status |-> "COMPLETED", beat |-> "none"]]

SettleDone(w) ==
    /\ Returns(w)
    /\ ~Halted(w)
    /\ gauntlet' = IF MayFinalize(driving[w]) THEN WithCompleted(driving[w]) ELSE gauntlet
    /\ UNCHANGED paused

-----------------------------------------------------------------------------
\* Time

BeatAges(g) ==
    /\ gauntlet[g].beat = "fresh"
    /\ gauntlet' = [gauntlet EXCEPT ![g].beat = "stale"]
    /\ UNCHANGED <<game, slots, spent, at, driving, child, tries, paused, bounds>>

LeaseExpires(x) ==
    /\ game[x].status = "RUNNING"
    /\ game[x].leased
    /\ expiries < MaxExpiries /\ MayMishap
    /\ expiries' = expiries + 1
    /\ game' = [game EXCEPT ![x].leased = FALSE]
    /\ UNCHANGED <<gauntlet, slots, spent, at, driving, child, tries, paused, faults, strays, crashes>>

ChildStep(w, x) ==
    \/ LeaseDenied(w, x) \/ Admit(w, x) \/ BudgetHalt(w, x)
    \/ Finish(w, x) \/ Release(w, x) \/ Retry(w, x) \/ GiveUp(w, x) \/ MarkFailed(w, x)

LoopStep(w) == Claim(w) \/ IdlePoll(w) \/ SettlePending(w) \/ SettleDone(w)

Next ==
    \/ \E w \in Workers :
          \/ Boot(w) \/ Crash(w) \/ Reap(w) \/ Beat(w) \/ LoopStep(w)
          \/ \E x \in Games : ChildStep(w, x) \/ Spend(w, x) \/ Fault(w, x) \/ Stray(w, x)
    \/ \E g \in Gauntlets : BeatAges(g)
    \/ \E x \in Games : LeaseExpires(x)

Spec == Init /\ [][Next]_vars

\* The service manager starts a process when none runs, a live one keeps going (every call
\* into a game is bounded by its timeouts), and time passes.
Fairness ==
    /\ WF_vars(Live = {} /\ \E w \in Workers : Boot(w))
    /\ \A w \in Workers :
          /\ WF_vars(LoopStep(w))
          /\ \A x \in Games : WF_vars(ChildStep(w, x))
    /\ \A g \in Gauntlets : WF_vars(BeatAges(g))
    /\ \A x \in Games : WF_vars(LeaseExpires(x))

FairSpec == Spec /\ Fairness

-----------------------------------------------------------------------------
\* gauntlets, games and budget_reservation_slots
GauntletRow == [status : {"PENDING", "RUNNING", "COMPLETED"}, beat : {"none", "fresh", "stale"}]

GameRow == [status : {"CREATED", "RUNNING", "COMPLETED", "FAILED"},
            holder : Workers \cup {NoWorker}, leased : BOOLEAN]

SlotRow == [game : Games, worker : Workers]

TypeOK ==
    /\ gauntlet \in [Gauntlets -> GauntletRow]
    /\ game \in [Games -> GameRow]
    /\ slots \subseteq SlotRow /\ spent \in 0..MaxSpent
    /\ Cardinality(slots) =< SlotCap
    /\ at \in [Workers -> {"down", "poll", "drive"}]
    /\ driving \in [Workers -> Gauntlets \cup {NoGauntlet}]
    /\ child \in [Workers -> [Games -> ChildStage]]
    /\ tries \in [Workers -> [Games -> 0..MaxAttempts]]
    /\ paused \in [Workers -> SUBSET Gauntlets]
    /\ faults \in 0..MaxFaults /\ strays \in 0..MaxStrays
    /\ crashes \in 0..MaxCrashes /\ expiries \in 0..MaxExpiries
    /\ \A w \in Workers : driving[w] = NoGauntlet <=> at[w] # "drive"

\* The runs that spend money: in game_executor, or about to give the slot back
Plays ==
    {p \in SlotRow :
        child[p.worker][p.game] \in {"playing", "closed", "raised"}}

\* As long as no lease ran out, whoever plays a game holds a live slot of its own for it:
\* neither the other replica's reaper, nor a retry, nor a crashed owner's leftovers lets two
\* processes play one game or more games than the budget has slots.
PlayIsPaidFor ==
    expiries = 0 =>
        /\ Plays \subseteq slots
        /\ \A p, q \in Plays : p.game = q.game => p = q
        /\ Cardinality(Plays) =< SlotCap

\* Without a crash, a slot outlives the run that claimed it only if its release failed.
SlotsComeBack ==
    crashes = 0 => Cardinality(slots \ Plays) =< strays

\* A gauntlet is COMPLETED only when its last game is over, even if a second process drives
\* it too: all rows are terminal, and no process still plays one of them unless a lease ran
\* out or a driver without the lease dead-lettered a game (mark_failed asks nobody).
CompletedIsOver ==
    \A g \in Gauntlets : gauntlet[g].status = "COMPLETED" =>
        \A x \in Children(g) :
            /\ Terminal(x)
            /\ (\E w \in Workers : child[w][x] = "playing") => expiries + strays > 0

\* A child game that ended well keeps its result: a stale driver's attempt, a retry or a late
\* dead letter can overturn it only after a lease ran out or an exception outside of play.
CompletedGamesStay ==
    [][\A x \in Games :
          game[x].status = "COMPLETED" /\ expiries = 0 /\ strays = 0
          => game'[x].status = "COMPLETED"]_vars

\* If no process is killed, no lease runs out and nothing but play raises, every balanced
\* gauntlet is completed, whatever the games raise, as long as their spend leaves the budget
\* one slot: whoever found no slot is halted, taken up again, and gets one.
DoneUnlessInterrupted ==
    <>(\/ \A g \in Balanced : gauntlet[g].status = "COMPLETED"
       \/ crashes + expiries + strays > 0
       \/ spent >= SlotCap)

\* "drains Gauntlet.status='PENDING' rows ... and on completion flips status to COMPLETED ...
\* reset to PENDING and picked up by the normal loop" (scheduler.py:3-10): once the last crash
\* is over, a gauntlet that is back in PENDING gets completed.
PendingDrains ==
    \A g \in Balanced :
        (crashes = MaxCrashes /\ gauntlet[g].status = "PENDING")
        ~> (gauntlet[g].status = "COMPLETED")

=============================================================================
