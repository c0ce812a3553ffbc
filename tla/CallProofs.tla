----------------------------- MODULE CallProofs -----------------------------
(***************************************************************************)
(* Proofs about AgentCalls: whatever the hosts answer or refuse, however   *)
(* often the tick raises and whatever it leaves behind, for any number of  *)
(* seats, hosts, tries and failed transactions.                            *)
(*                                                                         *)
(* The stage of a call says what its rows, its bill and the hosts it gave  *)
(* up must look like; only as long as no tick has raised does it say all.  *)
(***************************************************************************)
EXTENDS AgentCalls, FiniteSetTheorems, TLAPS

\* The rows of llm_calls
CallRows == [status : AdapterStatus, cost : 0..1]

\* What a call comes back with: an answer, or the safe response when no host is left
Results == [status : AdapterStatus, reply : Reply \cup {"coerced"}]

Verdicts == {"fine", "llm_exhausted", "invalid output", "illegal action"}

Tasks ==
    [stage : InFlight \cup Verdicts \cup {"over", "timeout"}, hop : 1..Len(route),
     attempt : 1..MaxTries, exhausted : BOOLEAN, result : Results \cup {NoResult}]

CallTables ==
    /\ route \in Routes /\ barrier \in {"idle", "open", "returned", "raised"}
    /\ task \in [Callers -> Tasks]
    /\ usedUp \in [Callers -> SUBSET Host] /\ orphans \subseteq Callers
    /\ calls \in [Callers -> Seq(CallRows)] /\ billed \in [Callers -> Nat]
    /\ raisedCalls \in 0..MaxRaised

\* A call gave up after some host had used up its tries, or it has an answer.
Earned(result, used) ==
    /\ result \in Results
    /\ result.reply = "coerced" => (result.status = "exhausted" <=> used # {})
    /\ result.reply \in Reply => result.status # "exhausted"

\* The charge that has yet to be written down
Unwritten(t) == IF t.stage = "storing" /\ t.result.reply \in Reply THEN 1 ELSE 0

SeatAddsUp(t, used, rows, bill) ==
    /\ t.stage = "sleeping" => TriesLeft(t)
    /\ t.stage \in {"asking", "sleeping"} => (t.exhausted <=> used # {})
    /\ t.stage \in {"storing", "stored"} => Earned(t.result, used)
    /\ t.stage \in Verdicts => Earned(t.result, used) /\ t.stage = Judged(t.result)
    /\ t.stage \in Verdicts \cup {"stored"} => rows # <<>>
    /\ CostOf(rows) + Unwritten(t) =< bill

\* The same of a seat that nobody has asked before
AskedOnce(t, rows, bill) ==
    /\ t.stage \in {"asking", "sleeping", "storing"} => rows = <<>>
    /\ t.stage \in {"asking", "sleeping"} => bill = 0
    /\ Len(rows) =< 1 /\ bill =< 1
    /\ t.stage # "timeout" => CostOf(rows) + Unwritten(t) = bill

Closed ==
    /\ \A i, j \in DOMAIN failureEvents : i < j => failureEvents[i].seat < failureEvents[j].seat
    /\ \A s \in Callers :
          /\ task[s].stage \notin InFlight
          /\ task[s].stage # "fine" <=> \E i \in DOMAIN failureEvents : failureEvents[i] = Failure(s)

CallsInv ==
    /\ CallTables
    /\ barrier # "idle" => \A s \in Callers : task[s].stage # "over"
    /\ IF barrier = "returned" THEN Closed ELSE failureEvents = <<>>
    /\ \A s \in Callers : SeatAddsUp(task[s], usedUp[s], calls[s], billed[s])
    /\ raisedCalls = 0 =>
          /\ orphans = {} /\ barrier # "raised"
          /\ \A s \in Callers : AskedOnce(task[s], calls[s], billed[s])

-----------------------------------------------------------------------------
\* What the rows cost is a number.
LEMMA CostType ==
    /\ \A rows \in Seq(CallRows) : CostOf(rows) \in Nat
    /\ CostOf(<<>>) = 0
<1>1. ASSUME NEW rows \in Seq(CallRows) PROVE CostOf(rows) \in Nat
  <2>. PICK paid : paid = {i \in DOMAIN rows : rows[i].cost = 1}
    OBVIOUS
  <2>1. paid \in SUBSET (1..Len(rows)) /\ Len(rows) \in Nat
    OBVIOUS
  <2>2. IsFiniteSet(1..Len(rows))
    BY <2>1, FS_Interval
  <2>3. IsFiniteSet(paid)
    BY <2>1, <2>2, FS_Subset
  <2>4. Cardinality(paid) \in Nat
    BY <2>3, FS_CardinalityType
  <2>. QED  BY <2>4 DEF CostOf
<1>2. CostOf(<<>>) = 0
  <2>1. {i \in DOMAIN << >> : << >>[i].cost = 1} = {}
    OBVIOUS
  <2>. QED  BY <2>1, FS_EmptySet DEF CostOf
<1>. QED  BY <1>1, <1>2

\* A row adds its cost.
LEMMA CostOfRow ==
    ASSUME NEW rows \in Seq(CallRows), NEW row \in CallRows
    PROVE  CostOf(Append(rows, row)) = CostOf(rows) + row.cost
<1>. PICK n : n = Len(rows)
  OBVIOUS
<1>. PICK more : more = Append(rows, row)
  OBVIOUS
<1>. PICK paid : paid = {i \in DOMAIN rows : rows[i].cost = 1}
  OBVIOUS
<1>. PICK now : now = {i \in DOMAIN more : more[i].cost = 1}
  OBVIOUS
<1>1. n \in Nat /\ DOMAIN rows = 1..n /\ DOMAIN more = 1..(n + 1) /\ more[n + 1] = row
      /\ \A i \in 1..n : more[i] = rows[i]
  OBVIOUS
<1>2. row.cost \in {0, 1}
  BY DEF CallRows
<1>3. IsFiniteSet(paid)
  <2>1. IsFiniteSet(1..n) /\ paid \in SUBSET (1..n)
    BY <1>1, FS_Interval
  <2>. QED  BY <2>1, FS_Subset
<1>4. Cardinality(paid) \in Nat
  BY <1>3, FS_CardinalityType
<1>5. n + 1 \notin paid
  BY <1>1
<1>50. CostOf(rows) = Cardinality(paid) /\ CostOf(Append(rows, row)) = Cardinality(now)
  BY DEF CostOf
<1>6. CASE row.cost = 1
  <2>1. now = paid \cup {n + 1}
    BY <1>1, <1>6
  <2>2. Cardinality(paid \cup {n + 1}) = Cardinality(paid) + 1
    BY <1>3, <1>5, FS_AddElement
  <2>. QED  BY <2>1, <2>2, <1>6, <1>50
<1>7. CASE row.cost = 0
  <2>1. now = paid
    BY <1>1, <1>7
  <2>. QED  BY <2>1, <1>4, <1>7, <1>50
<1>. QED  BY <1>2, <1>6, <1>7

\* The failures of a tick in seat order: every seat once, and in order.
LEMMA AscendingLists ==
    ASSUME NEW who, IsFiniteSet(who), who \subseteq Nat, NEW order \in Ascending(who)
    PROVE  /\ Cardinality(who) \in Nat /\ DOMAIN order = 1..Cardinality(who)
           /\ order \in [1..Cardinality(who) -> who]
           /\ \A i, j \in DOMAIN order : i < j => order[i] < order[j]
           /\ \A s \in who : \E i \in DOMAIN order : order[i] = s
<1>. PICK n : n = Cardinality(who)
  OBVIOUS
<1>1. n \in Nat
  BY FS_CardinalityType
<1>2. order \in [1..n -> who] /\ DOMAIN order = 1..n
      /\ \A i, j \in DOMAIN order : i < j => order[i] < order[j]
  BY DEF Ascending
<1>3. IsFiniteSet(1..n) /\ Cardinality(1..n) = n
  BY <1>1, FS_Interval
<1>4. \A i, j \in 1..n : order[i] = order[j] => i = j
  <2>. SUFFICES ASSUME NEW i \in 1..n, NEW j \in 1..n, i # j PROVE order[i] # order[j]
    OBVIOUS
  <2>1. order[i] \in who /\ order[j] \in who
    BY <1>2
  <2>2. order[i] \in Nat /\ order[j] \in Nat
    BY <2>1
  <2>3. i < j \/ j < i
    BY <1>1
  <2>4. order[i] < order[j] \/ order[j] < order[i]
    BY <1>2, <2>3
  <2>. QED  BY <2>2, <2>4
<1>5. order \in Injection(1..n, who)
  BY <1>2, <1>4 DEF Injection, IsInjective
<1>6. order \in Surjection(1..n, who)
  BY <1>3, <1>5, FS_Injection
<1>. QED  BY <1>1, <1>2, <1>6 DEF Surjection

\* Routes are not empty, and there is a first try.
LEMMA CallTypes ==
    ASSUME CallTables
    PROVE  /\ route \in Seq(Host) /\ Len(route) \in Nat \ {0} /\ 1 \in 1..Len(route)
           /\ DOMAIN route = 1..Len(route) /\ 1 \in 1..MaxTries
<1>1. route \in Seq(Host) /\ route # <<>>
  BY CallAssumption DEF CallTables, Host
<1>2. Len(route) \in Nat \ {0} /\ DOMAIN route = 1..Len(route)
  BY <1>1
<1>. QED  BY <1>1, <1>2, CallAssumption

\* A call that has left the hosts
LEMMA ReturnedIsTask ==
    ASSUME CallTables, NEW stage \in InFlight \cup Verdicts \cup {"over", "timeout"},
           NEW result \in Results \cup {NoResult}
    PROVE  /\ Returned(stage, result) \in Tasks
           /\ Returned(stage, result).stage = stage /\ Returned(stage, result).result = result
BY CallTypes DEF Returned, NewTask, Tasks, NoResult

\* The calls have not begun.
LEMMA CallsInitInv == CallsInit => CallsInv
<1>. SUFFICES ASSUME CallsInit PROVE CallsInv
  OBVIOUS
<1>. PICK t : t = [NewTask EXCEPT !.stage = "over"]
  OBVIOUS
<1>1. route \in Seq(Host) /\ route # <<>>
  BY CallAssumption DEF CallsInit, Host
<1>2. 1 \in 1..Len(route) /\ 1 \in 1..MaxTries
  BY <1>1, CallAssumption
<1>3. t \in Tasks /\ t.stage = "over"
  BY <1>2 DEF NewTask, Tasks
<1>4. \A s \in Callers : task[s] = t /\ usedUp[s] = {} /\ calls[s] = <<>> /\ billed[s] = 0
  BY DEF CallsInit
<1>5. CallTables
  BY <1>3, CallAssumption DEF CallsInit, CallTables
<1>6. SeatAddsUp(t, {}, <<>>, 0) /\ AskedOnce(t, <<>>, 0)
  BY <1>3, CostType DEF SeatAddsUp, AskedOnce, Unwritten, Verdicts
<1>. QED  BY <1>4, <1>5, <1>6 DEF CallsInit, CallsInv

\* A step of one call keeps the rest.
LEMMA SeatKeeps ==
    ASSUME CallsInv, barrier = "open", NEW s \in Callers,
           NEW t \in Tasks, NEW used \in SUBSET Host, NEW rows \in Seq(CallRows), NEW bill \in Nat,
           t.stage # "over", SeatAddsUp(t, used, rows, bill),
           raisedCalls = 0 => AskedOnce(t, rows, bill),
           task' = [task EXCEPT ![s] = t], usedUp' = [usedUp EXCEPT ![s] = used],
           calls' = [calls EXCEPT ![s] = rows], billed' = [billed EXCEPT ![s] = bill],
           UNCHANGED <<route, barrier, orphans, failureEvents, raisedCalls>>
    PROVE  CallsInv'
<1>1. CallTables'
  BY DEF CallsInv, CallTables, Tasks
<1>2. ASSUME NEW r \in Callers
      PROVE  /\ task'[r] = IF r = s THEN t ELSE task[r]
             /\ usedUp'[r] = IF r = s THEN used ELSE usedUp[r]
             /\ calls'[r] = IF r = s THEN rows ELSE calls[r]
             /\ billed'[r] = IF r = s THEN bill ELSE billed[r]
  BY DEF CallsInv, CallTables
<1>3. \A r \in Callers : task'[r].stage # "over"
  BY <1>2 DEF CallsInv
<1>4. \A r \in Callers : SeatAddsUp(task'[r], usedUp'[r], calls'[r], billed'[r])
  BY <1>2 DEF CallsInv
<1>5. raisedCalls = 0 => \A r \in Callers : AskedOnce(task'[r], calls'[r], billed'[r])
  BY <1>2 DEF CallsInv
<1>. QED  BY <1>1, <1>3, <1>4, <1>5 DEF CallsInv

\* What is known of a call under way
LEMMA SeatFacts ==
    ASSUME CallsInv, NEW s \in Callers, Running(s)
    PROVE  /\ CallTables /\ barrier = "open" /\ task[s] \in Tasks /\ task[s].stage \in InFlight
           /\ usedUp[s] \in SUBSET Host /\ calls[s] \in Seq(CallRows) /\ billed[s] \in Nat
           /\ SeatAddsUp(task[s], usedUp[s], calls[s], billed[s])
           /\ raisedCalls = 0 => AskedOnce(task[s], calls[s], billed[s])
BY DEF CallsInv, CallTables, Running

\* A host answers, and charges.
LEMMA AnswerKeeps ==
    ASSUME CallsInv, NEW s \in Callers, HostAnswers(s)
    PROVE  CallsInv'
<1>. PICK o : o = task[s]
  OBVIOUS
<1>. PICK rows : rows = calls[s]
  OBVIOUS
<1>. PICK bill : bill = billed[s]
  OBVIOUS
<1>. PICK used : used = usedUp[s]
  OBVIOUS
<1>. PICK due : due = bill + 1
  OBVIOUS
<1>1. Running(s) /\ o.stage = "asking"
      /\ UNCHANGED <<route, barrier, usedUp, orphans, failureEvents, calls, raisedCalls>>
  BY DEF HostAnswers
<1>2. /\ CallTables /\ barrier = "open" /\ o \in Tasks
      /\ used \in SUBSET Host /\ rows \in Seq(CallRows) /\ bill \in Nat
      /\ SeatAddsUp(o, used, rows, bill) /\ (raisedCalls = 0 => AskedOnce(o, rows, bill))
  BY <1>1, SeatFacts
<1>3. PICK reply \in Reply :
         task' = [task EXCEPT ![s] =
            Returned("storing", [status |-> AnsweredStatus(@.hop, reply), reply |-> reply])]
  BY DEF HostAnswers
<1>. PICK result : result = [status |-> AnsweredStatus(o.hop, reply), reply |-> reply]
  OBVIOUS
<1>. PICK t : t = Returned("storing", result)
  OBVIOUS
<1>4. AnsweredStatus(o.hop, reply) \in AdapterStatus \ {"exhausted"}
  BY DEF AnsweredStatus, AdapterStatus
<1>5. result \in Results /\ result.reply = reply /\ result.status # "exhausted"
  BY <1>4 DEF Results
<1>6. t \in Tasks /\ t.stage = "storing" /\ t.result = result
  BY <1>2, <1>5, ReturnedIsTask DEF InFlight
<1>7. task' = [task EXCEPT ![s] = t]
  BY <1>3
<1>8. billed' = [billed EXCEPT ![s] = due] /\ due \in Nat
  BY <1>2 DEF HostAnswers
<1>9. Earned(result, used)
  BY <1>5 DEF Earned, Reply
<1>10. CostOf(rows) \in Nat /\ CostOf(rows) =< bill
  <2>1. CostOf(rows) \in Nat
    BY <1>2, CostType
  <2>2. Unwritten(o) = 0
    BY <1>1 DEF Unwritten
  <2>. QED  BY <2>1, <2>2, <1>2 DEF SeatAddsUp
<1>11. Unwritten(t) = 1
  BY <1>5, <1>6 DEF Unwritten
<1>12. SeatAddsUp(t, used, rows, due)
  <2>1. CostOf(rows) + Unwritten(t) =< due
    BY <1>2, <1>10, <1>11
  <2>2. t.stage \notin {"asking", "sleeping", "stored"} /\ t.stage # "sleeping" /\ t.stage \notin Verdicts
    BY <1>6 DEF Verdicts
  <2>. QED  BY <2>1, <2>2, <1>6, <1>9 DEF SeatAddsUp
<1>13. raisedCalls = 0 => AskedOnce(t, rows, due)
  <2>. SUFFICES ASSUME raisedCalls = 0 PROVE AskedOnce(t, rows, due)
    OBVIOUS
  <2>1. rows = <<>> /\ bill = 0
    BY <1>1, <1>2 DEF AskedOnce
  <2>2. CostOf(rows) = 0 /\ Len(rows) = 0
    BY <2>1, CostType
  <2>. QED  BY <2>1, <2>2, <1>6, <1>11 DEF AskedOnce
<1>14. usedUp' = [usedUp EXCEPT ![s] = used] /\ calls' = [calls EXCEPT ![s] = rows]
  BY <1>1, <1>2 DEF CallTables
<1>15. t.stage # "over" /\ UNCHANGED <<route, barrier, orphans, failureEvents, raisedCalls>>
  BY <1>1, <1>6
<1>. QED  BY <1>2, <1>6, <1>7, <1>8, <1>12, <1>13, <1>14, <1>15, SeatKeeps

\* A step that writes no row and costs nothing leaves a call as good as it was.
LEMMA MovesOn ==
    ASSUME CallsInv, NEW s \in Callers, Running(s), NEW t \in Tasks, NEW used \in SUBSET Host,
           task' = [task EXCEPT ![s] = t], usedUp' = [usedUp EXCEPT ![s] = used],
           UNCHANGED <<route, barrier, orphans, failureEvents, calls, billed, raisedCalls>>,
           t.stage = "sleeping" => TriesLeft(t),
           t.stage # "over", Unwritten(t) =< Unwritten(task[s]),
           t.stage \in {"asking", "sleeping"} =>
              task[s].stage \in {"asking", "sleeping"} /\ (t.exhausted <=> used # {}),
           t.stage \in {"storing", "stored"} => Earned(t.result, used),
           t.stage = "storing" => task[s].stage \in {"asking", "sleeping"},
           t.stage \in Verdicts => Earned(t.result, used) /\ t.stage = Judged(t.result),
           t.stage \in Verdicts \cup {"stored"} => task[s].stage = "stored",
           t.stage # "timeout" => Unwritten(t) = Unwritten(task[s])
    PROVE  CallsInv'
<1>. PICK o : o = task[s]
  OBVIOUS
<1>. PICK rows : rows = calls[s]
  OBVIOUS
<1>. PICK bill : bill = billed[s]
  OBVIOUS
<1>1. /\ CallTables /\ barrier = "open" /\ o \in Tasks /\ o.stage \in InFlight
      /\ rows \in Seq(CallRows) /\ bill \in Nat
      /\ SeatAddsUp(o, usedUp[s], rows, bill) /\ (raisedCalls = 0 => AskedOnce(o, rows, bill))
  BY SeatFacts
<1>2. CostOf(rows) \in Nat
  BY <1>1, CostType
<1>3. Unwritten(t) \in 0..1 /\ Unwritten(o) \in 0..1
  BY DEF Unwritten
<1>4. CostOf(rows) + Unwritten(t) =< bill
  <2>1. CostOf(rows) + Unwritten(o) =< bill
    BY <1>1 DEF SeatAddsUp
  <2>. QED  BY <2>1, <1>1, <1>2, <1>3
<1>5. t.stage \in Verdicts \cup {"stored"} => rows # <<>>
  BY <1>1 DEF SeatAddsUp
<1>6. SeatAddsUp(t, used, rows, bill)
  BY <1>4, <1>5 DEF SeatAddsUp
<1>7. raisedCalls = 0 => AskedOnce(t, rows, bill)
  <2>. SUFFICES ASSUME raisedCalls = 0 PROVE AskedOnce(t, rows, bill)
    OBVIOUS
  <2>1. AskedOnce(o, rows, bill) /\ o.stage # "timeout"
    BY <1>1 DEF InFlight
  <2>2. t.stage # "timeout" => CostOf(rows) + Unwritten(t) = bill
    BY <2>1 DEF AskedOnce
  <2>3. t.stage \in {"asking", "sleeping", "storing"} => rows = <<>>
    BY <2>1 DEF AskedOnce
  <2>4. t.stage \in {"asking", "sleeping"} => bill = 0
    BY <2>1 DEF AskedOnce
  <2>. QED  BY <2>1, <2>2, <2>3, <2>4 DEF AskedOnce
<1>8. calls' = [calls EXCEPT ![s] = rows] /\ billed' = [billed EXCEPT ![s] = bill]
  BY <1>1 DEF CallTables
<1>9. /\ barrier = "open" /\ t.stage # "over" /\ rows \in Seq(CallRows) /\ bill \in Nat
      /\ task' = [task EXCEPT ![s] = t] /\ usedUp' = [usedUp EXCEPT ![s] = used]
      /\ UNCHANGED <<route, barrier, orphans, failureEvents, raisedCalls>>
  BY <1>1
<1>. QED
  BY ONLY CallsInv, s \in Callers, t \in Tasks, used \in SUBSET Host, <1>6, <1>7, <1>8, <1>9, SeatKeeps

\* A host that is given up leaves the next one to ask, or nobody.
LEMMA NextHostIsTask ==
    ASSUME CallTables, NEW o \in Tasks, o.stage = "asking", NEW noTryLeft \in BOOLEAN,
           NEW used, NEW now, o.exhausted <=> used # {}, now # {} <=> (used # {} \/ noTryLeft)
    PROVE  /\ NextHost(o, noTryLeft) \in Tasks /\ Unwritten(NextHost(o, noTryLeft)) = 0
           /\ \/ /\ NextHost(o, noTryLeft).stage = "asking"
                 /\ NextHost(o, noTryLeft).exhausted <=> now # {}
              \/ /\ NextHost(o, noTryLeft).stage = "storing"
                 /\ Earned(NextHost(o, noTryLeft).result, now)
<1>. PICK t : t = NextHost(o, noTryLeft)
  OBVIOUS
<1>1. o.hop \in 1..Len(route) /\ Len(route) \in Nat /\ o.exhausted \in BOOLEAN /\ 1 \in 1..MaxTries
  BY CallTypes DEF Tasks
<1>2. CASE o.hop < Len(route)
  <2>1. t = [o EXCEPT !.hop = @ + 1, !.attempt = 1, !.exhausted = @ \/ noTryLeft]
    BY <1>2 DEF NextHost
  <2>2. o.hop + 1 \in 1..Len(route)
    BY <1>1, <1>2
  <2>3. t \in Tasks /\ t.stage = "asking" /\ (t.exhausted <=> o.exhausted \/ noTryLeft)
    BY <2>1, <2>2, <1>1 DEF Tasks
  <2>. QED  BY <2>3 DEF Unwritten
<1>3. CASE ~(o.hop < Len(route))
  <2>. PICK result : result = [status |-> TerminalStatus(o.exhausted, noTryLeft), reply |-> "coerced"]
    OBVIOUS
  <2>1. t = Returned("storing", result)
    BY <1>3 DEF NextHost
  <2>2. TerminalStatus(o.exhausted, noTryLeft) \in AdapterStatus
        /\ (TerminalStatus(o.exhausted, noTryLeft) = "exhausted" <=> o.exhausted \/ noTryLeft)
    <3>1. CASE o.exhausted \/ noTryLeft
      BY <3>1 DEF TerminalStatus, AdapterStatus
    <3>2. CASE ~(o.exhausted \/ noTryLeft)
      BY <3>2 DEF TerminalStatus, AdapterStatus
    <3>. QED  BY <3>1, <3>2
  <2>3. result \in Results /\ result.reply = "coerced" /\ (result.status = "exhausted" <=> now # {})
    BY <2>2 DEF Results
  <2>4. t \in Tasks /\ t.stage = "storing" /\ t.result = result
    BY <2>1, <2>3, ReturnedIsTask DEF InFlight
  <2>. QED  BY <2>3, <2>4 DEF Unwritten, Earned, Reply
<1>. QED  BY <1>2, <1>3

\* A host fails for now, refuses, or is asked again.
LEMMA FailureKeeps ==
    ASSUME CallsInv, NEW s \in Callers, HostFailsForNow(s) \/ HostRefuses(s) \/ SleptEnough(s)
    PROVE  CallsInv'
<1>. PICK o : o = task[s]
  OBVIOUS
<1>. PICK used : used = usedUp[s]
  OBVIOUS
<1>1. /\ Running(s) /\ o.stage \in {"asking", "sleeping"}
      /\ UNCHANGED <<route, barrier, orphans, failureEvents, calls, billed, raisedCalls>>
  BY DEF HostFailsForNow, HostRefuses, SleptEnough
<1>2. /\ CallTables /\ o \in Tasks /\ used \in SUBSET Host /\ SeatAddsUp(o, used, calls[s], billed[s])
  BY <1>1, SeatFacts
<1>3. (o.exhausted <=> used # {}) /\ Unwritten(o) = 0
  BY <1>1, <1>2 DEF SeatAddsUp, Unwritten
<1>4. ASSUME NEW t \in Tasks, NEW now \in SUBSET Host,
             task' = [task EXCEPT ![s] = t], usedUp' = [usedUp EXCEPT ![s] = now], Unwritten(t) = 0,
             t.stage = "sleeping" => TriesLeft(t),
             \/ t.stage \in {"asking", "sleeping"} /\ (t.exhausted <=> now # {})
             \/ t.stage = "storing" /\ Earned(t.result, now)
      PROVE  CallsInv'
  <2>1. t.stage \notin Verdicts /\ t.stage # "stored" /\ t.stage # "over"
    BY <1>4 DEF Verdicts
  <2>2. Unwritten(t) =< Unwritten(task[s]) /\ Unwritten(t) = Unwritten(task[s])
    BY <1>3, <1>4
  <2>. QED  BY <2>1, <2>2, <1>1, <1>4, MovesOn
<1>5. usedUp = [usedUp EXCEPT ![s] = used]
  BY <1>2 DEF CallTables
<1>6. CASE HostFailsForNow(s) /\ TriesLeft(o)
  <2>. PICK t : t = [o EXCEPT !.stage = "sleeping"]
    OBVIOUS
  <2>1. task' = [task EXCEPT ![s] = t] /\ usedUp' = usedUp
    BY <1>2, <1>6 DEF HostFailsForNow, CallTables
  <2>2. t \in Tasks /\ t.stage = "sleeping" /\ t.exhausted = o.exhausted /\ t.attempt = o.attempt
    BY <1>2 DEF Tasks, InFlight
  <2>3. Unwritten(t) = 0 /\ TriesLeft(t)
    BY <2>2, <1>6 DEF Unwritten, TriesLeft
  <2>. QED  BY <2>1, <2>2, <2>3, <1>2, <1>3, <1>4, <1>5
<1>7. CASE HostFailsForNow(s) /\ ~TriesLeft(o)
  <2>. PICK t : t = NextHost(o, TRUE)
    OBVIOUS
  <2>. PICK now : now = used \cup {route[o.hop]}
    OBVIOUS
  <2>1. /\ o.stage = "asking" /\ task' = [task EXCEPT ![s] = t]
        /\ usedUp' = [usedUp EXCEPT ![s] = now]
    BY <1>2, <1>7 DEF HostFailsForNow, CallTables
  <2>2. now \in SUBSET Host /\ now # {}
    <3>1. o.hop \in 1..Len(route) /\ route \in Seq(Host)
      BY <1>2, CallTypes DEF Tasks
    <3>. QED  BY <3>1, <1>2
  <2>3. now # {} <=> (used # {} \/ TRUE)
    BY <2>2
  <2>4. /\ t \in Tasks /\ Unwritten(t) = 0
        /\ \/ t.stage = "asking" /\ (t.exhausted <=> now # {})
           \/ t.stage = "storing" /\ Earned(t.result, now)
    BY <2>1, <2>3, <1>2, <1>3, NextHostIsTask
  <2>. QED  BY <2>1, <2>2, <2>4, <1>4
<1>8. CASE HostRefuses(s)
  <2>. PICK t : t = NextHost(o, FALSE)
    OBVIOUS
  <2>1. o.stage = "asking" /\ task' = [task EXCEPT ![s] = t] /\ usedUp' = usedUp
    BY <1>2, <1>8 DEF HostRefuses, CallTables
  <2>2. used # {} <=> (used # {} \/ FALSE)
    OBVIOUS
  <2>3. /\ t \in Tasks /\ Unwritten(t) = 0
        /\ \/ t.stage = "asking" /\ (t.exhausted <=> used # {})
           \/ t.stage = "storing" /\ Earned(t.result, used)
    BY <2>1, <2>2, <1>2, <1>3, NextHostIsTask
  <2>. QED  BY <2>1, <2>3, <1>2, <1>4, <1>5
<1>9. CASE SleptEnough(s)
  <2>. PICK t : t = [o EXCEPT !.stage = "asking", !.attempt = @ + 1]
    OBVIOUS
  <2>1. o.stage = "sleeping" /\ task' = [task EXCEPT ![s] = t] /\ usedUp' = usedUp
    BY <1>2, <1>9 DEF SleptEnough, CallTables
  <2>2. t \in Tasks /\ t.stage = "asking" /\ t.exhausted = o.exhausted
    <3>1. o.attempt \in 1..MaxTries /\ o.attempt < MaxTries
      BY <2>1, <1>2 DEF SeatAddsUp, TriesLeft, Tasks
    <3>2. o.attempt + 1 \in 1..MaxTries
      BY <3>1, CallAssumption
    <3>. QED  BY <3>2, <1>2 DEF Tasks, InFlight
  <2>3. Unwritten(t) = 0
    BY <2>2 DEF Unwritten
  <2>. QED  BY <2>1, <2>2, <2>3, <1>2, <1>3, <1>4, <1>5
<1>. QED  BY <1>6, <1>7, <1>8, <1>9

\* The row of a call is written, with what the call is charged for.
LEMMA StoreKeeps ==
    ASSUME CallsInv, NEW s \in Callers, StoreCall(s)
    PROVE  CallsInv'
<1>. PICK o : o = task[s]
  OBVIOUS
<1>. PICK used : used = usedUp[s]
  OBVIOUS
<1>. PICK bill : bill = billed[s]
  OBVIOUS
<1>. PICK row : row = Row(o.result)
  OBVIOUS
<1>. PICK rows : rows = Append(calls[s], row)
  OBVIOUS
<1>. PICK t : t = [o EXCEPT !.stage = "stored"]
  OBVIOUS
<1>1. Running(s) /\ o.stage = "storing"
      /\ UNCHANGED <<route, barrier, usedUp, orphans, failureEvents, billed, raisedCalls>>
  BY DEF StoreCall
<1>2. /\ CallTables /\ barrier = "open" /\ o \in Tasks
      /\ used \in SUBSET Host /\ calls[s] \in Seq(CallRows) /\ bill \in Nat
      /\ SeatAddsUp(o, used, calls[s], bill) /\ (raisedCalls = 0 => AskedOnce(o, calls[s], bill))
  BY <1>1, SeatFacts
<1>3. task' = [task EXCEPT ![s] = t] /\ calls' = [calls EXCEPT ![s] = rows]
  BY <1>2 DEF StoreCall, CallTables
<1>4. Earned(o.result, used)
  BY <1>1, <1>2 DEF SeatAddsUp
<1>5. row \in CallRows /\ row.cost = Unwritten(o)
  BY <1>1, <1>4 DEF Row, CallRows, Earned, Results, Unwritten
<1>6. rows \in Seq(CallRows) /\ rows # <<>> /\ Len(rows) = Len(calls[s]) + 1
  BY <1>2, <1>5
<1>7. CostOf(rows) = CostOf(calls[s]) + Unwritten(o)
  BY <1>2, <1>5, CostOfRow
<1>8. t \in Tasks /\ t.stage = "stored" /\ t.result = o.result
  BY <1>2 DEF Tasks, InFlight
<1>9. Unwritten(t) = 0 /\ CostOf(rows) \in Nat
  BY <1>6, <1>8, CostType DEF Unwritten
<1>10. SeatAddsUp(t, used, rows, bill)
  <2>1. CostOf(rows) =< bill
    BY <1>2, <1>7 DEF SeatAddsUp
  <2>2. t.stage \notin {"asking", "sleeping"} /\ t.stage # "sleeping" /\ t.stage \notin Verdicts
    BY <1>8 DEF Verdicts
  <2>. QED  BY <2>1, <2>2, <1>4, <1>6, <1>8, <1>9 DEF SeatAddsUp
<1>11. raisedCalls = 0 => AskedOnce(t, rows, bill)
  <2>. SUFFICES ASSUME raisedCalls = 0 PROVE AskedOnce(t, rows, bill)
    OBVIOUS
  <2>1. calls[s] = <<>> /\ bill =< 1 /\ CostOf(calls[s]) + Unwritten(o) = bill
    BY <1>1, <1>2 DEF AskedOnce
  <2>2. Len(rows) = 1
    BY <2>1, <1>6
  <2>. QED  BY <2>1, <2>2, <1>7, <1>8, <1>9 DEF AskedOnce
<1>12. usedUp' = [usedUp EXCEPT ![s] = used] /\ billed' = [billed EXCEPT ![s] = bill]
  BY <1>1, <1>2 DEF CallTables
<1>13. t.stage # "over" /\ UNCHANGED <<route, barrier, orphans, failureEvents, raisedCalls>>
  BY <1>1, <1>8
<1>. QED  BY <1>2, <1>3, <1>6, <1>8, <1>10, <1>11, <1>12, <1>13, SeatKeeps

\* The answer is handed on, or the call is cut off.
LEMMA EndKeeps ==
    ASSUME CallsInv, NEW s \in Callers, HandOn(s) \/ TimeOut(s)
    PROVE  CallsInv'
<1>. PICK o : o = task[s]
  OBVIOUS
<1>. PICK used : used = usedUp[s]
  OBVIOUS
<1>1. Running(s) /\ UNCHANGED <<route, barrier, usedUp, orphans, failureEvents, calls, billed, raisedCalls>>
  BY DEF HandOn, TimeOut
<1>2. CallTables /\ o \in Tasks /\ used \in SUBSET Host /\ SeatAddsUp(o, used, calls[s], billed[s])
  BY <1>1, SeatFacts
<1>3. usedUp' = [usedUp EXCEPT ![s] = used]
  BY <1>1, <1>2 DEF CallTables
<1>4. Unwritten(o) \in 0..1
  BY DEF Unwritten
<1>5. CASE HandOn(s)
  <2>. PICK t : t = Returned(Judged(o.result), o.result)
    OBVIOUS
  <2>1. o.stage = "stored" /\ task' = [task EXCEPT ![s] = t]
    BY <1>2, <1>5 DEF HandOn, CallTables
  <2>2. Earned(o.result, used) /\ o.result \in Results
    BY <2>1, <1>2 DEF SeatAddsUp, Earned
  <2>3. Judged(o.result) \in Verdicts
    BY DEF Judged, Verdicts
  <2>4. t \in Tasks /\ t.stage = Judged(o.result) /\ t.result = o.result
    BY <2>2, <2>3, <1>2, ReturnedIsTask
  <2>5. t.stage \in Verdicts /\ t.stage \notin InFlight /\ t.stage # "over"
    BY <2>3, <2>4 DEF Verdicts, InFlight
  <2>6. Unwritten(t) = 0 /\ Unwritten(o) = 0
    BY <2>1, <2>5 DEF Unwritten, InFlight
  <2>7. t.stage \notin {"asking", "sleeping", "storing", "stored"} /\ t.stage # "sleeping"
        /\ t.stage # "storing"
    BY <2>5 DEF InFlight
  <2>8. Unwritten(t) =< Unwritten(task[s]) /\ Unwritten(t) = Unwritten(task[s])
    BY <2>6
  <2>9. Earned(t.result, used) /\ t.stage = Judged(t.result) /\ task[s].stage = "stored"
    BY <2>1, <2>2, <2>4
  <2>. QED  BY ONLY CallsInv, s \in Callers, <2>1, <2>4, <2>5, <2>7, <2>8, <2>9, <1>1, <1>2, <1>3, MovesOn
<1>6. CASE TimeOut(s)
  <2>. PICK t : t = Returned("timeout", NoResult)
    OBVIOUS
  <2>1. task' = [task EXCEPT ![s] = t]
    BY <1>6 DEF TimeOut
  <2>2. t \in Tasks /\ t.stage = "timeout"
    BY <1>2, ReturnedIsTask
  <2>3. Unwritten(t) = 0 /\ t.stage \notin Verdicts
    BY <2>2 DEF Unwritten, Verdicts
  <2>4. Unwritten(t) =< Unwritten(task[s])
    BY <2>3, <1>4
  <2>. QED  BY <2>1, <2>2, <2>3, <2>4, <1>1, <1>2, <1>3, MovesOn
<1>. QED  BY <1>5, <1>6

\* The tick begins, once more if it raised.
LEMMA OpenKeeps ==
    ASSUME CallsInv, OpenBarrier
    PROVE  CallsInv'
<1>1. /\ CallTables /\ barrier \in {"idle", "raised"} /\ barrier' = "open"
      /\ task' = [s \in Callers |-> NewTask] /\ usedUp' = [s \in Callers |-> {}]
      /\ calls' = [s \in Callers |-> <<>>] /\ billed' = [s \in Callers |-> 0]
      /\ UNCHANGED <<route, orphans, failureEvents, raisedCalls>>
  BY DEF CallsInv, OpenBarrier
<1>. PICK t : t = NewTask
  OBVIOUS
<1>2. t \in Tasks /\ t.stage = "asking" /\ t.exhausted = FALSE
  BY <1>1, CallTypes DEF NewTask, Tasks, InFlight
<1>3. Unwritten(t) = 0 /\ CostOf(<<>>) = 0
  BY <1>2, CostType DEF Unwritten
<1>4. SeatAddsUp(t, {}, <<>>, 0) /\ AskedOnce(t, <<>>, 0)
  BY <1>2, <1>3 DEF SeatAddsUp, AskedOnce, Verdicts
<1>5. CallTables'
  <2>1. task' \in [Callers -> Tasks]
    BY <1>1, <1>2
  <2>. QED  BY <2>1, <1>1 DEF CallTables, Tasks
<1>6. failureEvents = <<>>
  BY <1>1 DEF CallsInv
<1>7. \A s \in Callers : task'[s] = t /\ usedUp'[s] = {} /\ calls'[s] = <<>> /\ billed'[s] = 0
  BY <1>1
<1>8. raisedCalls = 0 => orphans = {}
  BY DEF CallsInv
<1>. QED  BY <1>1, <1>2, <1>4, <1>5, <1>6, <1>7, <1>8 DEF CallsInv

\* The tick returns: every failure is in the log, in seat order.
LEMMA CloseKeeps ==
    ASSUME CallsInv, CloseBarrier
    PROVE  CallsInv'
<1>. PICK who : who = {s \in Callers : task[s].stage # "fine"}
  OBVIOUS
<1>1. /\ CallTables /\ barrier = "open" /\ barrier' = "returned" /\ failureEvents = <<>>
      /\ \A s \in Callers : task[s].stage \notin InFlight
      /\ UNCHANGED <<route, task, usedUp, orphans, calls, billed, raisedCalls>>
  BY DEF CallsInv, CloseBarrier
<1>2. PICK failed \in Ascending(who) :
         failureEvents' = failureEvents \o [i \in DOMAIN failed |-> Failure(failed[i])]
  BY DEF CloseBarrier
<1>3. IsFiniteSet(who) /\ who \subseteq Nat /\ who \subseteq Callers
  <2>1. IsFiniteSet(Callers) /\ who \in SUBSET Callers
    BY CallAssumption
  <2>2. IsFiniteSet(who)
    BY <2>1, FS_Subset
  <2>. QED  BY <2>2, CallAssumption
<1>. PICK n : n = Cardinality(who)
  OBVIOUS
<1>4. /\ n \in Nat /\ DOMAIN failed = 1..n
      /\ \A i, j \in DOMAIN failed : i < j => failed[i] < failed[j]
      /\ \A s \in who : \E i \in DOMAIN failed : failed[i] = s
      /\ failed \in [1..n -> who]
  BY <1>3, AscendingLists
<1>. PICK list : list = [i \in 1..n |-> Failure(failed[i])]
  OBVIOUS
<1>5. failureEvents' = list
  <2>1. list \in Seq({Failure(s) : s \in who})
    BY <1>4
  <2>2. << >> \o list = list
    BY <2>1
  <2>. QED  BY <2>2, <1>1, <1>2, <1>4
<1>6. DOMAIN list = 1..n /\ \A i \in 1..n : list[i] = Failure(failed[i]) /\ list[i].seat = failed[i]
  BY DEF Failure
<1>7. Closed'
  <2>1. \A i, j \in 1..n : i < j => list[i].seat < list[j].seat
    BY <1>4, <1>6
  <2>2. ASSUME NEW s \in Callers
        PROVE  task[s].stage # "fine" <=> \E i \in 1..n : list[i] = Failure(s)
    <3>1. CASE s \in who
      <4>1. PICK i \in 1..n : failed[i] = s
        BY <3>1, <1>4
      <4>2. list[i] = Failure(s)
        BY <4>1, <1>6
      <4>. QED  BY <4>2, <3>1
    <3>2. CASE s \notin who
      <4>1. ASSUME NEW i \in 1..n PROVE list[i] # Failure(s)
        <5>1. failed[i] \in who /\ list[i].seat = failed[i]
          BY <1>4, <1>6
        <5>2. Failure(s).seat = s
          BY DEF Failure
        <5>. QED  BY <5>1, <5>2, <3>2
      <4>2. task[s].stage = "fine"
        BY <3>2
      <4>. QED  BY <4>1, <4>2
    <3>. QED  BY <3>1, <3>2
  <2>3. ASSUME NEW s \in Callers PROVE Failure(s)' = Failure(s)
    BY <1>1 DEF Failure
  <2>4. /\ \A i, j \in DOMAIN failureEvents' : i < j => failureEvents'[i].seat < failureEvents'[j].seat
        /\ \A s \in Callers :
              /\ task[s].stage \notin InFlight
              /\ task[s].stage # "fine" <=> \E i \in DOMAIN failureEvents' : failureEvents'[i] = Failure(s)
    BY <2>1, <2>2, <1>1, <1>5, <1>6
  <2>. QED  BY <2>3, <2>4, <1>1 DEF Closed
<1>8. CallTables'
  BY <1>1 DEF CallTables, Tasks
<1>9. \A s \in Callers : task[s].stage # "over"
  BY <1>1 DEF CallsInv
<1>10. raisedCalls = 0 => orphans = {} /\ \A s \in Callers : AskedOnce(task[s], calls[s], billed[s])
  BY DEF CallsInv
<1>11. \A s \in Callers : SeatAddsUp(task[s], usedUp[s], calls[s], billed[s])
  BY DEF CallsInv
<1>. QED  BY <1>1, <1>7, <1>8, <1>9, <1>10, <1>11 DEF CallsInv

\* A transaction raises; nothing is claimed of a tick that has.
LEMMA RaiseKeeps ==
    ASSUME CallsInv, NEW s \in Callers, StoreRaises(s)
    PROVE  CallsInv'
<1>1. /\ CallTables /\ barrier = "open" /\ barrier' = "raised" /\ failureEvents = <<>>
      /\ raisedCalls' = raisedCalls + 1 /\ raisedCalls < MaxRaised /\ raisedCalls \in Nat
      /\ orphans' \subseteq Callers
      /\ UNCHANGED <<route, task, usedUp, failureEvents, calls, billed>>
  BY CallAssumption DEF CallsInv, CallTables, StoreRaises, Running
<1>2. CallTables' /\ raisedCalls' # 0
  <2>1. raisedCalls' \in 0..MaxRaised /\ raisedCalls' # 0
    BY <1>1, CallAssumption
  <2>. QED  BY <2>1, <1>1 DEF CallTables, Tasks
<1>3. \A r \in Callers : task[r].stage # "over" /\ SeatAddsUp(task[r], usedUp[r], calls[r], billed[r])
  BY <1>1 DEF CallsInv
<1>. QED  BY <1>1, <1>2, <1>3 DEF CallsInv

\* A call that an earlier tick left behind ends, with a row of its own or none.
LEMMA OrphanKeeps ==
    ASSUME CallsInv, NEW s \in Callers, OrphanEnds(s)
    PROVE  CallsInv'
<1>1. /\ CallTables /\ s \in orphans /\ orphans' \subseteq Callers
      /\ UNCHANGED <<route, barrier, task, usedUp, failureEvents, raisedCalls>>
  BY DEF CallsInv, CallTables, OrphanEnds
<1>2. raisedCalls # 0
  BY <1>1 DEF CallsInv
<1>3. \A r \in Callers : SeatAddsUp(task[r], usedUp[r], calls[r], billed[r])
  BY DEF CallsInv
<1>4. barrier # "idle" => \A r \in Callers : task[r].stage # "over"
  BY DEF CallsInv
<1>5. IF barrier = "returned" THEN Closed' ELSE failureEvents' = <<>>
  BY <1>1 DEF CallsInv, Closed, Failure
<1>6. CASE UNCHANGED <<calls, billed>>
  <2>1. CallTables'
    BY <1>1, <1>6 DEF CallTables, Tasks
  <2>. QED  BY <2>1, <1>1, <1>2, <1>3, <1>4, <1>5, <1>6 DEF CallsInv
<1>7. CASE ~UNCHANGED <<calls, billed>>
  <2>1. PICK cost \in 0..1 :
           /\ billed' = [billed EXCEPT ![s] = @ + cost]
           /\ calls' = [calls EXCEPT ![s] =
                 Append(@, [status |-> IF cost = 1 THEN "ok" ELSE "primary_failed", cost |-> cost])]
    BY <1>7 DEF OrphanEnds
  <2>. PICK row : row = [status |-> IF cost = 1 THEN "ok" ELSE "primary_failed", cost |-> cost]
    OBVIOUS
  <2>. PICK rows : rows = Append(calls[s], row)
    OBVIOUS
  <2>. PICK bill : bill = billed[s] + cost
    OBVIOUS
  <2>2. row \in CallRows /\ row.cost = cost
    BY DEF CallRows, AdapterStatus
  <2>3. calls[s] \in Seq(CallRows) /\ billed[s] \in Nat
    BY <1>1 DEF CallTables
  <2>4. rows \in Seq(CallRows) /\ rows # <<>> /\ bill \in Nat
    BY <2>2, <2>3
  <2>5. calls' = [calls EXCEPT ![s] = rows] /\ billed' = [billed EXCEPT ![s] = bill]
    BY <2>1
  <2>6. CallTables'
    BY <2>4, <2>5, <1>1 DEF CallTables, Tasks
  <2>7. SeatAddsUp(task[s], usedUp[s], rows, bill)
    <3>. PICK t : t = task[s]
      OBVIOUS
    <3>1. CostOf(rows) = CostOf(calls[s]) + cost
      BY <2>2, <2>3, CostOfRow
    <3>2. CostOf(calls[s]) \in Nat
      BY <2>3, CostType
    <3>3. Unwritten(t) \in 0..1
      BY DEF Unwritten
    <3>4. CostOf(calls[s]) + Unwritten(t) =< billed[s]
      BY <1>3 DEF SeatAddsUp
    <3>5. CostOf(rows) + Unwritten(t) =< bill
      BY <2>3, <3>1, <3>2, <3>3, <3>4
    <3>. QED  BY <3>5, <2>4, <1>3 DEF SeatAddsUp
  <2>8. \A r \in Callers : SeatAddsUp(task[r], usedUp[r], calls'[r], billed'[r])
    BY <2>5, <2>7, <1>1, <1>3 DEF CallTables
  <2>. QED  BY <2>6, <2>8, <1>1, <1>2, <1>4, <1>5 DEF CallsInv
<1>. QED  BY <1>6, <1>7

\* Every step keeps the invariant.
LEMMA CallsStep == CallsInv /\ [CallsNext]_callVars => CallsInv'
<1>. SUFFICES ASSUME CallsInv, [CallsNext]_callVars PROVE CallsInv'
  OBVIOUS
<1>1. CASE OpenBarrier
  BY <1>1, OpenKeeps
<1>2. CASE CloseBarrier
  BY <1>2, CloseKeeps
<1>3. ASSUME NEW s \in Callers, HostAnswers(s) PROVE CallsInv'
  BY <1>3, AnswerKeeps
<1>4. ASSUME NEW s \in Callers, HostFailsForNow(s) \/ HostRefuses(s) \/ SleptEnough(s) PROVE CallsInv'
  BY <1>4, FailureKeeps
<1>5. ASSUME NEW s \in Callers, StoreCall(s) PROVE CallsInv'
  BY <1>5, StoreKeeps
<1>6. ASSUME NEW s \in Callers, HandOn(s) \/ TimeOut(s) PROVE CallsInv'
  BY <1>6, EndKeeps
<1>7. ASSUME NEW s \in Callers, StoreRaises(s) PROVE CallsInv'
  BY <1>7, RaiseKeeps
<1>8. ASSUME NEW s \in Callers, OrphanEnds(s) PROVE CallsInv'
  BY <1>8, OrphanKeeps
<1>9. CASE UNCHANGED callVars
  <2>1. CallTables'
    BY <1>9 DEF callVars, CallsInv, CallTables, Tasks
  <2>2. IF barrier = "returned" THEN Closed' ELSE failureEvents' = <<>>
    BY <1>9 DEF callVars, CallsInv, Closed, Failure
  <2>. QED  BY <1>9, <2>1, <2>2 DEF callVars, CallsInv
<1>. QED  BY <1>1, <1>2, <1>3, <1>4, <1>5, <1>6, <1>7, <1>8, <1>9 DEF CallsNext

\* Whatever the hosts do, and however often the tick raises
THEOREM CallsKeepTheirInvariant == CallsSpec => []CallsInv
BY CallsInitInv, CallsStep, PTL DEF CallsSpec

\* The tasks of run_tick, the rows of llm_calls and the counters keep their types.
THEOREM CallsTyped == CallsSpec => []CallsTypeOK
<1>1. ASSUME CallsInv PROVE CallsTypeOK
  <2>1. CallTables
    BY <1>1 DEF CallsInv
  <2>2. DOMAIN route = 1..Len(route)
    BY <2>1, CallTypes
  <2>3. ASSUME NEW s \in Callers
        PROVE  /\ task[s].stage \in InFlight \cup {"over", "fine", "timeout", "llm_exhausted",
                                                   "invalid output", "illegal action"}
               /\ task[s].hop \in DOMAIN route /\ task[s].attempt \in 1..MaxTries
               /\ usedUp[s] \subseteq Host
               /\ \A i \in DOMAIN calls[s] : calls[s][i] \in [status : AdapterStatus, cost : 0..1]
    <3>1. task[s] \in Tasks /\ usedUp[s] \in SUBSET Host /\ calls[s] \in Seq(CallRows)
      BY <2>1 DEF CallTables
    <3>2. \A i \in DOMAIN calls[s] : calls[s][i] \in CallRows
      BY <3>1
    <3>. QED  BY <3>1, <3>2, <2>2 DEF Tasks, Verdicts, CallRows
  <2>. QED  BY <2>1, <2>3 DEF CallTables, CallsTypeOK
<1>. QED  BY <1>1, CallsKeepTheirInvariant, PTL

\* When run_tick's barrier returns, the log has one failure for every seat that failed, in seat
\* order, llm_exhausted exactly for the seats that gave up after a host had used up its tries;
\* and llm_calls has what the providers charged for, exactly once as long as no tick raised.
THEOREM TicksAlwaysAddUp == CallsSpec => []TicksAddUp
<1>1. ASSUME CallsInv PROVE TicksAddUp
  <2>1. CallTables /\ \A s \in Callers : SeatAddsUp(task[s], usedUp[s], calls[s], billed[s])
    BY <1>1 DEF CallsInv
  <2>2. ASSUME barrier = "returned"
        PROVE  /\ Closed
               /\ \A s \in Callers : task[s].stage # "timeout" =>
                     /\ calls[s] # <<>>
                     /\ task[s].stage = "llm_exhausted" <=>
                           usedUp[s] # {} /\ task[s].result.reply = "coerced"
    <3>1. Closed /\ \A s \in Callers : task[s].stage # "over"
      BY <1>1, <2>2 DEF CallsInv
    <3>2. ASSUME NEW s \in Callers, task[s].stage # "timeout"
          PROVE  /\ calls[s] # <<>>
                 /\ task[s].stage = "llm_exhausted" <=>
                       usedUp[s] # {} /\ task[s].result.reply = "coerced"
      <4>1. task[s] \in Tasks /\ task[s].stage \notin InFlight /\ task[s].stage # "over"
        BY <3>1, <2>1 DEF CallTables, Closed
      <4>2. task[s].stage \in Verdicts
        BY <4>1, <3>2 DEF Tasks
      <4>. PICK r : r = task[s].result
        OBVIOUS
      <4>3. calls[s] # <<>> /\ Earned(r, usedUp[s]) /\ task[s].stage = Judged(r)
        BY <4>2, <2>1 DEF SeatAddsUp
      <4>4. task[s].stage = "llm_exhausted" <=> r.status = "exhausted"
        BY <4>3 DEF Judged, Earned, Reply, Results
      <4>5. r.status = "exhausted" <=> usedUp[s] # {} /\ r.reply = "coerced"
        BY <4>3 DEF Earned, Results
      <4>. QED  BY <4>3, <4>4, <4>5
    <3>. QED  BY <3>1, <3>2
  <2>3. ASSUME NEW s \in Callers
        PROVE  /\ CostOf(calls[s]) =< billed[s]
               /\ raisedCalls = 0 =>
                     /\ Len(calls[s]) =< 1 /\ billed[s] =< 1
                     /\ task[s].stage \notin {"storing", "timeout"} => CostOf(calls[s]) = billed[s]
    <3>1. CostOf(calls[s]) \in Nat /\ billed[s] \in Nat /\ Unwritten(task[s]) \in 0..1
      <4>1. calls[s] \in Seq(CallRows) /\ billed[s] \in Nat
        BY <2>1 DEF CallTables
      <4>2. CostOf(calls[s]) \in Nat
        BY <4>1, CostType
      <4>3. Unwritten(task[s]) \in 0..1
        BY DEF Unwritten
      <4>. QED  BY <4>1, <4>2, <4>3
    <3>2. CostOf(calls[s]) + Unwritten(task[s]) =< billed[s]
      BY <2>1 DEF SeatAddsUp
    <3>3. CostOf(calls[s]) =< billed[s]
      BY <3>1, <3>2
    <3>4. ASSUME raisedCalls = 0
          PROVE  /\ Len(calls[s]) =< 1 /\ billed[s] =< 1
                 /\ task[s].stage \notin {"storing", "timeout"} => CostOf(calls[s]) = billed[s]
      <4>1. AskedOnce(task[s], calls[s], billed[s])
        BY <1>1, <3>4 DEF CallsInv
      <4>2. task[s].stage # "storing" => Unwritten(task[s]) = 0
        BY DEF Unwritten
      <4>. QED  BY <4>1, <4>2, <3>1 DEF AskedOnce
    <3>. QED  BY <3>3, <3>4
  <2>. QED  BY <2>2, <2>3 DEF TicksAddUp, Closed
<1>. QED  BY <1>1, CallsKeepTheirInvariant, PTL
=============================================================================
