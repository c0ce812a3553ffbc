----------------------------- MODULE HumanLane -----------------------------
(***************************************************************************)
(* One game with human seats: the worker of runner/human_lane.py that      *)
(* plays it, the requests of the humans (presence, action, chat) and the   *)
(* rows that they share.                                                   *)
(*                                                                         *)
(* A phase stands for a DAY_VOTE: every seat may act, chat is open, and    *)
(* each seat's answer becomes a VoteSubmitted.  The board is abstracted:   *)
(* GameLoop says what the votes do.  What a worker knows (log, mux, stage) *)
(* dies with it; the tables do not.  A request reads the phase and takes   *)
(* its time stamp when it begins and commits later, all at once.           *)
(***************************************************************************)
EXTENDS Integers, Sequences, FiniteSets

CONSTANTS
    Seats,          \* the human seats, in seat order
    Phases,         \* bound: phases until the schedule ends
    Grace,          \* padrino_human_reconnect_grace_seconds, in ticks of the clock
    MaxTime,        \* bound: the clock
    MaxRequests,    \* bound: requests of the humans, one of them under way at a time
    MaxMishaps      \* bound: crashes and writes that fail

ASSUME HumanLaneAssumption ==
    /\ Seats \subseteq Nat /\ IsFiniteSet(Seats) /\ Seats # {}
    /\ Phases \in Nat \ {0}
    /\ {Grace, MaxTime, MaxRequests, MaxMishaps} \subseteq Nat

Never == -1         \* no presence row
Nobody == -1

VARIABLES
    now,            \* the clock
    rows,           \* game_events: sequence number -> event
    gameStatus,     \* games.status
    runtime,        \* the phase in human_game_runtime, 0 without a row
    seatKind,       \* game_seats.seat_kind of the human seats
    presence,       \* human_seat_presence.last_seen_at, or Never
    actions,        \* human_action_submissions: pairs of seat and phase
    holds,          \* human_chat_submissions: pair of seat and phase -> status and sequence
    request,        \* the request that a human has under way
    asked,          \* requests begun so far
    stage,          \* where the worker is
    resume,         \* the worker rehydrated this game when it started
    phase,          \* the phase it plays
    log,            \* its event log
    mux,            \* seat -> who answers for it
    checked,        \* when it took the time for the scan whose findings are open, else 0
    expired,        \* seats that the scan found past grace, still to be taken over
    answers,        \* seat -> answer in this tick
    mishaps

humanTables == <<rows, gameStatus, runtime, seatKind, presence, actions, holds>>
worker == <<stage, resume, phase, log, mux, checked, expired, answers>>
humanVars == <<now, humanTables, request, asked, worker, mishaps>>

-----------------------------------------------------------------------------
\* Events

Event(type, p, who) == [type |-> type, phase |-> p, seat |-> who, by |-> "nobody"]

Vote(p, who, by) == [type |-> "Vote", phase |-> p, seat |-> who, by |-> by]

In(table, e) == \E i \in DOMAIN table : table[i] = e

Count(table, type, p, who) ==
    Cardinality({i \in DOMAIN table :
        table[i].type = type /\ table[i].phase = p /\ table[i].seat = who})

\* The log that replay_state_from_rows folds from the table
AsLog(table) == [i \in 1..Cardinality(DOMAIN table) |-> table[i]]

\* state.current_phase of a replayed log; 0 before the first phase
CurrentPhase(table) ==
    LET begun == {table[i].phase : i \in {j \in DOMAIN table : table[j].type = "Start"}}
    IN  IF begun = {} THEN 0 ELSE CHOOSE p \in begun : \A q \in begun : q =< p

\* _phase_started_without_resolution
StartedOnly(l, p) ==
    \E i \in DOMAIN l : /\ l[i].type = "Start" /\ l[i].phase = p
                        /\ \A j \in DOMAIN l : ~(l[j].type = "Resolved" /\ l[j].phase = p)

\* Rows from the n-th on are mirrored as they are in the log.
Mirrored(l, n) == [i \in DOMAIN rows \cup (n + 1)..Len(l) |-> IF i \in DOMAIN rows THEN rows[i] ELSE l[i]]

\* emit_and_persist: the log and its row in one transaction
Emit(e) ==
    /\ log' = Append(log, e)
    /\ rows' = [i \in DOMAIN rows \cup {Len(log) + 1} |-> IF i = Len(log) + 1 THEN e ELSE rows[i]]

-----------------------------------------------------------------------------
NoRequest == [seat |-> Nobody, op |-> "none", stamp |-> 0, phase |-> 0]

HumanInit ==
    /\ now = 0 /\ rows = <<>> /\ gameStatus = "CREATED" /\ runtime = 0
    /\ seatKind = [s \in Seats |-> "HUMAN"]
    /\ presence = [s \in Seats |-> Never]
    /\ actions = {}
    /\ holds = <<>>
    /\ request = NoRequest /\ asked = 0
    /\ stage = "down" /\ resume = FALSE /\ phase = 0 /\ log = <<>>
    /\ mux = [s \in Seats |-> "human"]
    /\ checked = 0 /\ expired = {} /\ answers = <<>>
    /\ mishaps = 0

-----------------------------------------------------------------------------
\* The humans

Tick ==
    /\ now < MaxTime
    /\ now' = now + 1
    /\ UNCHANGED <<humanTables, request, asked, worker, mishaps>>

Over == In(rows, Event("End", 0, Nobody))

Playing == CurrentPhase(rows) # 0 /\ ~Over

\* The routes of presence and observation, of actions and of chat, as far as they read:
\* resolve_human_game_seat asks for the occupant and not for the kind of the seat.
Ask(s, op) ==
    /\ request = NoRequest /\ asked < MaxRequests
    /\ asked' = asked + 1
    /\ op \in {"act", "chat"} => Playing
    /\ DOMAIN rows # {}
    /\ request' = [seat |-> s, op |-> op, stamp |-> now, phase |-> CurrentPhase(rows)]
    /\ UNCHANGED <<now, humanTables, worker, mishaps>>

\* record_heartbeat: an older stamp never replaces a newer one.
Beat(s, stamp) == presence' = [presence EXCEPT ![s] = IF stamp >= @ THEN stamp ELSE @]

Answered(op) ==
    /\ request.op = op
    /\ Beat(request.seat, request.stamp)
    /\ request' = NoRequest
    /\ UNCHANGED <<now, rows, gameStatus, runtime, seatKind, asked, worker, mishaps>>

\* The end of a heartbeat or an observation
Look == Answered("look") /\ UNCHANGED <<actions, holds>>

\* get_by_idempotency_key: the key is scoped by seat and phase, so a retry adds nothing.
RequestKey == <<request.seat, request.phase>>

\* submit_action
Act ==
    /\ Answered("act")
    /\ actions' = actions \cup {RequestKey}
    /\ UNCHANGED holds

\* check_message of the guard model, if one is configured: it may fail or be too slow.
GuardAnswers == {"absent", "safe", "unsafe", "failing"}

\* RealtimeModerationHook.review: a banned pattern blocks without a word from the guard; a
\* guard that fails leaves the verdict of the patterns.
Review(banned, guard) == IF banned \/ guard = "unsafe" THEN "BLOCKED" ELSE "HELD"

\* record_held
HeldRow(verdict) == [status |-> verdict, sequence |-> 0]

\* submit_chat: held, moderated and then blocked or ready, in one transaction
Chat(verdict) ==
    /\ Answered("chat")
    /\ holds' = [k \in DOMAIN holds \cup {RequestKey} |->
                    IF k \in DOMAIN holds THEN holds[k] ELSE HeldRow(verdict)]
    /\ UNCHANGED actions

-----------------------------------------------------------------------------
\* The worker: starting, claiming and dying

\* rehydrate_active_human_games, once when the lane starts
Boot ==
    /\ stage = "down"
    /\ stage' = "idle"
    /\ resume' = /\ runtime # 0 /\ DOMAIN rows # {} /\ ~Over
                 /\ gameStatus \notin {"COMPLETED", "FAILED"}
    /\ UNCHANGED <<now, humanTables, request, asked, phase, log, mux, checked, expired, answers, mishaps>>

\* build_human_lane_adapter
MuxFor == [s \in Seats |-> IF seatKind[s] = "HUMAN" THEN "human" ELSE "ai"]

\* list_human_lane_games
Waiting == gameStatus \in {"CREATED", "PENDING"}

\* _claim_game and the setup that drive_game_loop does without a resume.  A RUNNING game
\* without a runtime row is given back as it is.
ClaimFresh ==
    /\ stage = "idle" /\ Waiting
    /\ gameStatus' = "RUNNING"
    /\ stage' = "setup" /\ phase' = 1 /\ mux' = MuxFor
    /\ UNCHANGED <<now, rows, runtime, seatKind, presence, actions, holds, request, asked, resume, log,
                   checked, expired, answers, mishaps>>

\* _resume_phase over a GameResume: nothing is cut.
ResumePoint(l, p) ==
    IF StartedOnly(l, p) THEN [phase |-> p, stage |-> "scan"] ELSE [phase |-> p + 1, stage |-> "enter"]

\* _claim_game with a rehydrated game
ClaimResumed ==
    /\ stage = "idle" /\ resume
    /\ gameStatus = "RUNNING"
    /\ resume' = FALSE
    /\ log' = AsLog(rows) /\ mux' = MuxFor
    /\ LET point == ResumePoint(AsLog(rows), CurrentPhase(rows))
       IN  phase' = point.phase /\ stage' = point.stage
    /\ UNCHANGED <<now, humanTables, request, asked, checked, expired, answers, mishaps>>

Forget ==
    /\ log' = <<>> /\ mux' = [s \in Seats |-> "human"] /\ phase' = 0
    /\ checked' = 0 /\ expired' = {} /\ answers' = <<>>

Crash ==
    /\ stage # "down" /\ mishaps < MaxMishaps
    /\ mishaps' = mishaps + 1
    /\ stage' = "down" /\ resume' = FALSE
    /\ Forget
    /\ UNCHANGED <<now, humanTables, request, asked>>

\* A write raises and ends the game's task; its transaction is rolled back.
Fault ==
    /\ stage \notin {"down", "idle", "failing", "given up"}
    /\ mishaps < MaxMishaps
    /\ mishaps' = mishaps + 1
    /\ stage' = "failing"
    /\ Forget
    /\ UNCHANGED <<now, humanTables, request, asked, resume>>

\* _mark_human_game_failed: if even that fails, this process leaves the game alone.
MarkFailed ==
    /\ stage = "failing"
    /\ \/ gameStatus' = "FAILED" /\ stage' = "idle"
       \/ stage' = "given up" /\ UNCHANGED gameStatus
    /\ UNCHANGED <<now, rows, runtime, seatKind, presence, actions, holds, request, asked, resume, phase,
                   log, mux, checked, expired, answers, mishaps>>

-----------------------------------------------------------------------------
\* The worker: one phase

Working(from, to) ==
    /\ stage = from
    /\ stage' = to
    /\ UNCHANGED <<now, gameStatus, presence, actions, request, asked, resume, mishaps>>

\* GameCreated and RolesAssigned
Setup ==
    /\ Working("setup", "enter")
    /\ Emit(Event("Setup", 0, Nobody))
    /\ UNCHANGED <<runtime, seatKind, holds, phase, mux, checked, expired, answers>>

\* next_phase has nothing after the last phase.
PastSchedule(p) == p > Phases

\* PhaseStarted
Enter ==
    /\ ~PastSchedule(phase)
    /\ Working("enter", "snapshot")
    /\ Emit(Event("Start", phase, Nobody))
    /\ UNCHANGED <<runtime, seatKind, holds, phase, mux, checked, expired, answers>>

\* persist_human_runtime_snapshot; the later ones of a phase write the same phase again.
Snapshot ==
    /\ Working("snapshot", "scan")
    /\ runtime' = phase
    /\ UNCHANGED <<rows, seatKind, holds, phase, log, mux, checked, expired, answers>>

\* _presence_from_row: without a row a seat has only just dropped.  A beat that is young
\* enough counts as connected, which is no different from a drop within grace.
DisconnectedAt(s, at) == IF presence[s] = Never THEN at ELSE presence[s]

\* seats_past_grace
PastGrace(s, at) == DisconnectedAt(s, at) < at - Grace

\* _human_presence_snapshot: the time is taken once for the whole scan.
Scan ==
    LET found == {s \in Seats : seatKind[s] = "HUMAN" /\ PastGrace(s, now)}
    IN  /\ Working("scan", IF found = {} THEN "tick" ELSE "takeover")
        /\ checked' = IF found = {} THEN checked ELSE now
        /\ expired' = found
        /\ UNCHANGED <<rows, runtime, seatKind, holds, phase, log, mux, answers>>

StillExpired_Slip(s) == seatKind[s] = "HUMAN"

\* _expired_human_seat_for_update, under the lock of the presence row
StillExpired(s) == seatKind[s] = "HUMAN" /\ PastGrace(s, checked)

\* _replacement_build_id: the pool of curated builds may be empty.
Replacements == {"none", "curated"}

\* build_takeover_event, sealed onto the log
TakeoverEvent(s) == Event("Takeover", phase, s)

\* The transaction of the seat and the event, and apply_takeover once it has committed
ApplyTakeover(s) ==
    /\ seatKind' = [seatKind EXCEPT ![s] = "AI_TAKEOVER"]
    /\ mux' = [mux EXCEPT ![s] = "ai"]
    /\ Emit(TakeoverEvent(s))

\* One candidate of _take_over_expired_human_seats.  It is revalidated twice, and what
\* fails the first time fails the second.  Seat and event commit together; the log and the
\* dispatch table follow.
TakeOver(s) ==
    /\ Working("takeover", IF expired = {s} THEN "tick" ELSE "takeover")
    /\ s \in expired /\ \A t \in expired : s =< t
    /\ expired' = expired \ {s} /\ checked' = IF expired = {s} THEN 0 ELSE checked
    /\ \E build \in Replacements :
          IF build # "none" /\ StillExpired(s) /\ ~In(log, TakeoverEvent(s))
          THEN ApplyTakeover(s)
          ELSE UNCHANGED <<seatKind, mux, rows, log>>
    /\ UNCHANGED <<runtime, holds, phase, answers>>

\* latest_for_phase, as the human's adapter polls it
Submitted(s) == <<s, phase>> \in actions

\* A seat's adapter answers: HumanAdapter with what it finds, the first time it finds
\* something; an AI with anything; each may run into the deadline instead.  (HumanAdapter has the
\* same deadline as the tick, whose clock is started first: its own timeout never comes.)
Answer(s, a) ==
    /\ Working("tick", "tick")
    /\ s \notin DOMAIN answers
    /\ a = "human" => mux[s] = "human" /\ Submitted(s)
    /\ a = "ai" => mux[s] = "ai"
    /\ answers' = [t \in DOMAIN answers \cup {s} |-> IF t = s THEN a ELSE answers[t]]
    /\ UNCHANGED <<rows, runtime, seatKind, holds, phase, log, mux, checked, expired>>

InSeatOrder(who) ==
    [i \in 1..Cardinality(who) |->
        CHOOSE s \in who : Cardinality({t \in who : t < s}) = i - 1]

EventsFor(type, who) ==
    LET order == InSeatOrder(who) IN [i \in DOMAIN order |-> Event(type, phase, order[i])]

\* run_human_tick: everybody has answered, and then the one delay for the phase has passed.
TickIsOver == DOMAIN answers = Seats

\* The tick's end: failures enter the log, in seat order, and no table yet.
Settle ==
    /\ TickIsOver
    /\ Working("tick", "release")
    /\ log' = log \o EventsFor("TimedOut", {s \in Seats : answers[s] = "safe"})
    /\ UNCHANGED <<rows, runtime, seatKind, holds, phase, mux, checked, expired, answers>>

HeldChat == {s \in Seats : <<s, phase>> \in DOMAIN holds /\ holds[<<s, phase>>].status = "HELD"}

LowerRows_Slip(l, released) ==
    [i \in DOMAIN rows \cup (Len(log) + 1)..Len(l) |-> IF i \in DOMAIN rows THEN rows[i] ELSE l[i]]

\* The pending failures below the chat rows, and the chat rows
LowerRows(l, released) == IF released = {} THEN rows ELSE Mirrored(l, Cardinality(DOMAIN rows))

\* The sequence of a seat's message among those that are released together
SequenceOf(s, released) == Len(log) + Cardinality({t \in released : t =< s})

MarkReleased_Slip(released) == holds

\* mark_released, with the sequence of the sidecar row that holds the text
MarkReleased(released) ==
    [k \in DOMAIN holds |->
        IF k[1] \in released /\ k[2] = phase
        THEN [status |-> "RELEASED", sequence |-> SequenceOf(k[1], released)]
        ELSE holds[k]]

\* release_held_chat_for_phase
Release ==
    /\ LET l == log \o EventsFor("Chat", HeldChat)
       IN  /\ Working("release", IF DOMAIN LowerRows(l, HeldChat) = DOMAIN l THEN "submit" ELSE "mirror")
           /\ log' = l
           /\ rows' = LowerRows(l, HeldChat)
           /\ holds' = MarkReleased(HeldChat)
    /\ UNCHANGED <<runtime, seatKind, phase, mux, checked, expired, answers>>

\* _persist_pending_event_rows: every row a transaction of its own
Mirror ==
    LET pending == DOMAIN log \ DOMAIN rows
    IN  \E i \in pending :
           /\ \A j \in pending : i =< j
           /\ Working("mirror", IF pending = {i} THEN "submit" ELSE "mirror")
           /\ rows' = [j \in DOMAIN rows \cup {i} |-> log[j]]
           /\ UNCHANGED <<runtime, seatKind, holds, phase, log, mux, checked, expired, answers>>

\* _submission_events_for, one seat after the other
Submit ==
    /\ Working("submit", IF Cardinality(DOMAIN answers) = 1 THEN "outcome" ELSE "submit")
    /\ \E s \in DOMAIN answers :
          /\ \A t \in DOMAIN answers : s =< t
          /\ Emit(Vote(phase, s, answers[s]))
          /\ answers' = [t \in DOMAIN answers \ {s} |-> answers[t]]
    /\ UNCHANGED <<runtime, seatKind, holds, phase, mux, checked, expired>>

\* DayVoteResolved (and who is eliminated by it)
Outcome ==
    /\ Working("outcome", "resolve")
    /\ Emit(Event("Outcome", phase, Nobody))
    /\ UNCHANGED <<runtime, seatKind, holds, phase, mux, checked, expired, answers>>

\* PhaseResolved
Resolve ==
    /\ Working("resolve", "check")
    /\ Emit(Event("Resolved", phase, Nobody))
    /\ UNCHANGED <<runtime, seatKind, holds, phase, mux, checked, expired, answers>>

GoOn ==
    /\ Working("check", "enter")
    /\ phase' = phase + 1
    /\ UNCHANGED <<rows, runtime, seatKind, holds, log, mux, checked, expired, answers>>

\* GameTerminated: a win, or the schedule's end
EndGame ==
    /\ stage = "check" \/ (stage = "enter" /\ PastSchedule(phase))
    /\ rows' = [i \in DOMAIN rows \cup {Len(log) + 1} |->
                    IF i = Len(log) + 1 THEN Event("End", 0, Nobody) ELSE rows[i]]
    /\ gameStatus' = "COMPLETED"
    /\ stage' = "idle"
    /\ Forget
    /\ UNCHANGED <<now, runtime, seatKind, presence, actions, holds, request, asked, resume, mishaps>>

\* A request commits.
CommitRequest ==
    \/ Look \/ Act
    \/ \E banned \in BOOLEAN, guard \in GuardAnswers : Chat(Review(banned, guard))

\* _default_human_game_executor: the tick runner, with the takeovers before it and the release
\* after it, inside the loop of drive_game_loop
PlayStep ==
    \/ \E s \in Seats : TakeOver(s) \/ \E a \in {"human", "ai", "safe"} : Answer(s, a)
    \/ Setup \/ Enter \/ Snapshot \/ Scan \/ Settle \/ Release
    \/ Mirror \/ Submit \/ Outcome \/ Resolve \/ GoOn \/ EndGame

HumanNext ==
    \/ Tick
    \/ \E s \in Seats, op \in {"look", "act", "chat"} : Ask(s, op)
    \/ CommitRequest
    \/ Boot \/ ClaimFresh \/ ClaimResumed \/ Crash \/ Fault \/ MarkFailed
    \/ PlayStep

HumanLaneSpec == HumanInit /\ [][HumanNext]_humanVars

-----------------------------------------------------------------------------
Statuses == {"CREATED", "PENDING", "RUNNING", "COMPLETED", "FAILED"}

Stages == {"down", "idle", "setup", "enter", "snapshot", "scan", "takeover", "tick", "release",
           "mirror", "submit", "outcome", "resolve", "check", "failing", "given up"}

\* human_game_runtime, human_seat_presence, human_action_submissions, human_chat_submissions
RuntimeRow == 0..Phases

PresenceRows == [Seats -> Never..MaxTime]

ActionRows == SUBSET (Seats \X (1..Phases))

ChatRow == [status : {"HELD", "BLOCKED", "RELEASED"}, sequence : Nat]

ChatRows == [DOMAIN holds -> ChatRow]

SeatRows == [Seats -> {"HUMAN", "AI_TAKEOVER"}]

HumanTypeOK ==
    /\ now \in 0..MaxTime /\ gameStatus \in Statuses /\ stage \in Stages
    /\ runtime \in RuntimeRow /\ phase \in 0..Phases + 1
    /\ seatKind \in SeatRows /\ presence \in PresenceRows
    /\ actions \in ActionRows
    /\ DOMAIN holds \subseteq Seats \X (1..Phases) /\ holds \in ChatRows
    /\ DOMAIN mux = Seats /\ expired \subseteq Seats /\ DOMAIN answers \subseteq Seats

\* The stored chain has no hole, and a worker that plays holds a continuation of it: the
\* failures of a tick, the released chat and the takeovers commit in an order that leaves
\* no sequence number missing, whenever the worker dies.  A seat is an AI's exactly when the
\* history says when it was taken over, and from then on an AI votes for it; a human's vote
\* was submitted for the phase in which it counts.
HumanHistoryHolds ==
    /\ DOMAIN rows = 1..Cardinality(DOMAIN rows)
    /\ log # <<>> => /\ DOMAIN rows \subseteq DOMAIN log
                     /\ \A i \in DOMAIN rows : rows[i] = log[i]
    /\ \A s \in Seats :
          Cardinality({i \in DOMAIN rows : rows[i].type = "Takeover" /\ rows[i].seat = s})
              = IF seatKind[s] = "HUMAN" THEN 0 ELSE 1
    /\ \A i \in DOMAIN rows :
          rows[i].type = "Vote" /\ rows[i].by = "human" =>
              /\ <<rows[i].seat, rows[i].phase>> \in actions
              /\ \A j \in 1..i : ~(rows[j].type = "Takeover" /\ rows[j].seat = rows[i].seat)

\* human_chat_messages: the text of a released message is filed under the sequence of its event.
Sidecar(k) == rows[holds[k].sequence]

\* A message is in the history once if it is released and never otherwise, and its text is
\* filed with its own event, through crashes, resumes and requests that end when their phase
\* is over.
ChatReleasedOnce ==
    \A s \in Seats, p \in 1..Phases :
        IF <<s, p>> \in DOMAIN holds /\ holds[<<s, p>>].status = "RELEASED"
        THEN /\ Count(rows, "Chat", p, s) = 1
             /\ holds[<<s, p>>].sequence \in DOMAIN rows
             /\ Sidecar(<<s, p>>) = Event("Chat", p, s)
        ELSE Count(rows, "Chat", p, s) = 0

\* A human whose heartbeat is stored and not older than the grace period keeps the seat,
\* whatever the scan saw before the heartbeat was committed.
LiveHumansKeepTheirSeats ==
    [][\A s \in Seats : seatKind'[s] # seatKind[s] => PastGrace(s, now)]_humanVars

\* A seat votes once in a phase, and a phase has one outcome: a worker that resumes takes
\* the phase up where it was left.
PlayedOnce ==
    \A p \in 1..Phases :
        /\ Count(rows, "Outcome", p, Nobody) =< 1
        /\ \A s \in Seats : Count(rows, "Vote", p, s) =< 1
=============================================================================
