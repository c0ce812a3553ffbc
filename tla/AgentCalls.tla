----------------------------- MODULE AgentCalls -----------------------------
(***************************************************************************)
(* How the seats of one phase are asked: run_tick's barrier over one call  *)
(* per seat, each a chain of hosts with retries of its own under one       *)
(* timeout, and the llm_calls row that is written before the answer is     *)
(* handed on.  An exception in one call ends the barrier but not the other *)
(* calls: the retry of the game asks again while they are still under way. *)
(***************************************************************************)
EXTENDS Integers, Sequences, FiniteSets, SequencesExt

CONSTANTS
    Callers,        \* the eligible seats, numbered in seat order
    Routes,         \* the routing policies: the hosts in the order they are tried
    MaxTries,       \* RetryPolicy.max_attempts
    MaxRaised       \* bound: transactions that fail

VARIABLES
    route,          \* the RoutingPolicy of the build: a sequence of hosts
    barrier,        \* run_tick
    task,           \* seat -> its _call_one_seat
    usedUp,         \* history: seat -> the hosts that failed in every try
    orphans,        \* calls of an earlier tick that nobody waits for
    failureEvents,  \* what the tick appended to the log
    calls,          \* llm_calls: seat -> its rows for the phase, since the tick began
    billed,         \* history: seat -> answers a provider charged for
    raisedCalls     \* how many transactions failed

callVars == <<route, barrier, task, usedUp, orphans, failureEvents, calls, billed, raisedCalls>>

ASSUME CallAssumption ==
    /\ Callers \subseteq Nat /\ IsFiniteSet(Callers)
    /\ Routes \subseteq Seq({"primary", "same", "other"}) \ {<<>>}
    /\ MaxTries \in Nat \ {0} /\ MaxRaised \in Nat

\* The model itself, another host of the same model, and a model to fall back on
Host == {"primary", "same", "other"}

Reply == {"legal", "illegal", "unparsable"}

AdapterStatus ==
    {"ok", "invalid", "same_model_fallback_ok", "fallback_ok", "primary_failed", "both_failed",
     "exhausted"}

NoResult == [status |-> "none", reply |-> "none"]

NewTask ==
    [stage |-> "asking", hop |-> 1, attempt |-> 1, exhausted |-> FALSE, result |-> NoResult]

\* A call that is done with the hosts, and where it goes from there
Returned(stage, result) == [NewTask EXCEPT !.stage = stage, !.result = result]

\* sleeping: between two tries; storing, stored: before and after the commit of the row
InFlight == {"asking", "sleeping", "storing", "stored"}

Running(s) == barrier = "open" /\ task[s].stage \in InFlight

CallsInit ==
    /\ route \in Routes
    /\ barrier = "idle"
    /\ task = [s \in Callers |-> [NewTask EXCEPT !.stage = "over"]]
    /\ usedUp = [s \in Callers |-> {}]
    /\ orphans = {} /\ failureEvents = <<>>
    /\ calls = [s \in Callers |-> <<>>]
    /\ billed = [s \in Callers |-> 0]
    /\ raisedCalls = 0

\* The tasks of the tick are created; the game is also tried again after a tick that raised.
OpenBarrier ==
    /\ barrier \in {"idle", "raised"}
    /\ barrier' = "open"
    /\ task' = [s \in Callers |-> NewTask]
    /\ usedUp' = [s \in Callers |-> {}]
    /\ calls' = [s \in Callers |-> <<>>]
    /\ billed' = [s \in Callers |-> 0]
    /\ UNCHANGED <<route, orphans, failureEvents, raisedCalls>>

-----------------------------------------------------------------------------
\* One host: _call_model and with_retry

\* What the result of a host is called: an answer that does not parse is an answer.
AnsweredStatus(hop, reply) ==
    CASE route[hop] = "same"  -> "same_model_fallback_ok"
      [] route[hop] = "other" -> "fallback_ok"
      [] OTHER                -> IF reply = "unparsable" THEN "invalid" ELSE "ok"

HostAnswers(s) ==
    /\ Running(s) /\ task[s].stage = "asking"
    /\ \E reply \in Reply :
          task' = [task EXCEPT ![s] =
              Returned("storing", [status |-> AnsweredStatus(@.hop, reply), reply |-> reply])]
    /\ billed' = [billed EXCEPT ![s] = @ + 1]
    /\ UNCHANGED <<route, barrier, usedUp, orphans, failureEvents, calls, raisedCalls>>

\* No host is left: the status of the whole call, with a safe response in the place of one.
TerminalStatus_Slip(exhausted, last) ==
    IF last THEN "exhausted"
    ELSE IF Last(route) = "other" THEN "both_failed" ELSE "primary_failed"

TerminalStatus(exhausted, last) ==
    IF exhausted \/ last THEN "exhausted"
    ELSE IF Last(route) = "other" THEN "both_failed" ELSE "primary_failed"

\* The host is given up, after its last try or at once; the next one starts afresh.
NextHost(t, noTryLeft) ==
    IF t.hop < Len(route)
    THEN [t EXCEPT !.hop = @ + 1, !.attempt = 1, !.exhausted = @ \/ noTryLeft]
    ELSE Returned("storing",
            [status |-> TerminalStatus(t.exhausted, noTryLeft), reply |-> "coerced"])

\* with_retry gives up after its last try.
TriesLeft_Slip(t) == t.attempt =< MaxTries

TriesLeft(t) == t.attempt < MaxTries

\* A rate limit, a lost connection, a 5xx or a timeout of the request
HostFailsForNow(s) ==
    /\ Running(s) /\ task[s].stage = "asking"
    /\ \/ /\ TriesLeft(task[s])
          /\ task' = [task EXCEPT ![s].stage = "sleeping"]
          /\ UNCHANGED usedUp
       \/ /\ ~TriesLeft(task[s])
          /\ task' = [task EXCEPT ![s] = NextHost(@, TRUE)]
          /\ usedUp' = [usedUp EXCEPT ![s] = @ \cup {route[task[s].hop]}]
    /\ UNCHANGED <<route, barrier, orphans, failureEvents, calls, billed, raisedCalls>>

SleptEnough(s) ==
    /\ Running(s) /\ task[s].stage = "sleeping"
    /\ task' = [task EXCEPT ![s].stage = "asking", ![s].attempt = @ + 1]
    /\ UNCHANGED <<route, barrier, usedUp, orphans, failureEvents, calls, billed, raisedCalls>>

\* Any other exception is not retried.
HostRefuses(s) ==
    /\ Running(s) /\ task[s].stage = "asking"
    /\ task' = [task EXCEPT ![s] = NextHost(@, FALSE)]
    /\ UNCHANGED <<route, barrier, usedUp, orphans, failureEvents, calls, billed, raisedCalls>>

-----------------------------------------------------------------------------
\* _RecordingAdapter, and what run_tick makes of the result

\* A failed result has no cost, and the price is stamped from it.
Row(result) == [status |-> result.status, cost |-> IF result.reply \in Reply THEN 1 ELSE 0]

StoreCall(s) ==
    /\ Running(s) /\ task[s].stage = "storing"
    /\ calls' = [calls EXCEPT ![s] = Append(@, Row(task[s].result))]
    /\ task' = [task EXCEPT ![s].stage = "stored"]
    /\ UNCHANGED <<route, barrier, usedUp, orphans, failureEvents, billed, raisedCalls>>

\* The outcome of a seat: what it is recorded to have done wrong, if anything
Judged(result) ==
    CASE result.status = "exhausted"    -> "llm_exhausted"
      [] result.reply = "unparsable"    -> "invalid output"
      [] result.reply = "illegal"       -> "illegal action"
      [] OTHER                          -> "fine"

HandOn(s) ==
    /\ Running(s) /\ task[s].stage = "stored"
    /\ task' = [task EXCEPT ![s] = Returned(Judged(@.result), @.result)]
    /\ UNCHANGED <<route, barrier, usedUp, orphans, failureEvents, calls, billed, raisedCalls>>

\* wait_for cancels whatever the call is at: the request, the pause, the transaction.
TimeOut(s) ==
    /\ Running(s)
    /\ task' = [task EXCEPT ![s] = Returned("timeout", NoResult)]
    /\ UNCHANGED <<route, barrier, usedUp, orphans, failureEvents, calls, billed, raisedCalls>>

\* The transaction raises, gather passes it on at once, and the other tasks run on.
StoreRaises(s) ==
    /\ Running(s) /\ task[s].stage = "storing"
    /\ raisedCalls < MaxRaised
    /\ raisedCalls' = raisedCalls + 1
    /\ barrier' = "raised"
    /\ orphans' = {r \in Callers \ {s} : task[r].stage \in InFlight}
    /\ UNCHANGED <<route, task, usedUp, failureEvents, calls, billed>>

\* Such a call ends like any other, in the timeout or with a row of its own.
OrphanEnds(s) ==
    /\ s \in orphans
    /\ orphans' = orphans \ {s}
    /\ \/ UNCHANGED <<calls, billed>>
       \/ \E cost \in 0..1 :
             /\ billed' = [billed EXCEPT ![s] = @ + cost]
             /\ calls' = [calls EXCEPT ![s] =
                   Append(@, [status |-> IF cost = 1 THEN "ok" ELSE "primary_failed", cost |-> cost])]
    /\ UNCHANGED <<route, barrier, task, usedUp, failureEvents, raisedCalls>>

\* All tasks are back: their failures are appended in seat order.
Failure(s) == [seat |-> s, reason |-> task[s].stage]

Ascending(who) ==
    {order \in [1..Cardinality(who) -> who] :
        \A i, j \in DOMAIN order : i < j => order[i] < order[j]}

CloseBarrier ==
    /\ barrier = "open"
    /\ \A s \in Callers : task[s].stage \notin InFlight
    /\ barrier' = "returned"
    /\ \E failed \in Ascending({s \in Callers : task[s].stage # "fine"}) :
          failureEvents' = failureEvents \o [i \in DOMAIN failed |-> Failure(failed[i])]
    /\ UNCHANGED <<route, task, usedUp, orphans, calls, billed, raisedCalls>>

CallsNext ==
    \/ OpenBarrier \/ CloseBarrier
    \/ \E s \in Callers :
          \/ HostAnswers(s) \/ HostFailsForNow(s) \/ SleptEnough(s) \/ HostRefuses(s)
          \/ StoreCall(s) \/ HandOn(s) \/ TimeOut(s) \/ StoreRaises(s) \/ OrphanEnds(s)

CallsSpec == CallsInit /\ [][CallsNext]_callVars

-----------------------------------------------------------------------------
CallsTypeOK ==
    /\ route \in Routes
    /\ barrier \in {"idle", "open", "returned", "raised"}
    /\ \A s \in Callers :
          /\ task[s].stage \in InFlight \cup {"over", "fine", "timeout", "llm_exhausted",
                                               "invalid output", "illegal action"}
          /\ task[s].hop \in DOMAIN route /\ task[s].attempt \in 1..MaxTries
          /\ usedUp[s] \subseteq Host
          /\ \A i \in DOMAIN calls[s] : calls[s][i] \in [status : AdapterStatus, cost : 0..1]
    /\ raisedCalls \in 0..MaxRaised

CostOf(rows) == Cardinality({i \in DOMAIN rows : rows[i].cost = 1})

\* When the barrier returns, no call of the tick is under way, the log has one failure for
\* every seat that failed, in seat order, and says llm_exhausted exactly of a seat that gave
\* up after some host had used up its tries, wherever in the chain that was.  A seat that was
\* not cut off has one row, with its cost if a provider charged for it - more only if an
\* earlier tick had raised and left calls behind, and less money than charged for only as the
\* calls that were cut off.
TicksAddUp ==
    /\ barrier = "returned" =>
          /\ \A i, j \in DOMAIN failureEvents : i < j => failureEvents[i].seat < failureEvents[j].seat
          /\ \A s \in Callers :
                /\ task[s].stage \notin InFlight
                /\ task[s].stage # "fine" <=>
                      \E i \in DOMAIN failureEvents : failureEvents[i] = Failure(s)
                /\ task[s].stage # "timeout" =>
                      /\ calls[s] # <<>>
                      /\ task[s].stage = "llm_exhausted" <=>
                            usedUp[s] # {} /\ task[s].result.reply = "coerced"
    /\ \A s \in Callers :
          /\ CostOf(calls[s]) =< billed[s]
          /\ raisedCalls = 0 =>
                /\ Len(calls[s]) =< 1 /\ billed[s] =< 1
                /\ task[s].stage \notin {"storing", "timeout"} => CostOf(calls[s]) = billed[s]
=============================================================================
