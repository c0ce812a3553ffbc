---------------------------- MODULE HumanProofs ----------------------------
(***************************************************************************)
(* Proofs about HumanLane, for any number of seats, phases, requests and   *)
(* mishaps, and any grace period; and about Lobbies, for any number of     *)
(* humans and lobbies and any caps and bounds.                             *)
(*                                                                         *)
(* Of a human's game, the stored rows and the worker's log tell            *)
(* everything: how far the log is ahead of the rows at each stage, and     *)
(* with what.  Only failures of a tick are ever ahead, because a takeover  *)
(* commits with its seat and chat with its release.                        *)
(*                                                                         *)
(* What LaunchedOnce and SlotsFollowLobbies say of a lobby they say unless *)
(* a request committed there over a row that had changed since.  The       *)
(* invariant carries both through such commits: a request either finds its *)
(* row as it loaded it, and is one step, or marks the lobby as raced.      *)
(***************************************************************************)
EXTENDS HumanLane, Lobbies, FiniteSetTheorems, SequenceTheorems, TLAPS

-----------------------------------------------------------------------------
(* Seats in order *)

UpTo(who, s) == {t \in who : t =< s}

\* A finite set of seats in seat order: each seat stands once, at the number of those that are
\* not above it.
LEMMA InSeatOrderProperties ==
    ASSUME NEW who \in SUBSET Nat, IsFiniteSet(who)
    PROVE  /\ Cardinality(who) \in Nat
           /\ DOMAIN InSeatOrder(who) = 1..Cardinality(who)
           /\ \A i \in 1..Cardinality(who) : /\ InSeatOrder(who)[i] \in who
                                             /\ Cardinality(UpTo(who, InSeatOrder(who)[i])) = i
           /\ \A s \in who : /\ Cardinality(UpTo(who, s)) \in 1..Cardinality(who)
                             /\ InSeatOrder(who)[Cardinality(UpTo(who, s))] = s
<1> DEFINE size == Cardinality(who)
           below(s) == {t \in who : t < s}
           rank == [s \in who |-> Cardinality(UpTo(who, s))]
<1>0. \A s \in who : s \in Nat
  OBVIOUS
<1>1. size \in Nat
  BY FS_CardinalityType
<1>2. ASSUME NEW s \in who
      PROVE  /\ IsFiniteSet(below(s)) /\ IsFiniteSet(UpTo(who, s))
             /\ Cardinality(below(s)) \in Nat
             /\ Cardinality(UpTo(who, s)) = Cardinality(below(s)) + 1
             /\ Cardinality(UpTo(who, s)) \in 1..size
  <2> DEFINE upTo == UpTo(who, s)
             less == below(s)
  <2>1. upTo \in SUBSET who /\ less \in SUBSET who
    BY DEF UpTo
  <2>2. upTo = less \cup {s} /\ s \notin less
    <3>1. \A t \in who : /\ t =< s <=> t < s \/ t = s
                        /\ ~(s < s)
      BY <1>0
    <3> QED
      BY <3>1 DEF UpTo
  <2> HIDE DEF upTo, less
  <2>3. IsFiniteSet(upTo) /\ IsFiniteSet(less) /\ Cardinality(upTo) =< size
    BY <2>1, FS_Subset
  <2>4. Cardinality(upTo) = Cardinality(less) + 1
    BY <2>2, <2>3, FS_AddElement
  <2>5. Cardinality(less) \in Nat /\ Cardinality(upTo) \in Nat
    BY <2>3, FS_CardinalityType
  <2> HIDE DEF size
  <2>6. Cardinality(upTo) \in 1..size
    BY <1>1, <2>3, <2>4, <2>5
  <2> QED
    BY <2>3, <2>4, <2>5, <2>6 DEF upTo, less
<1>3. ASSUME NEW s \in who, NEW t \in who, s < t
      PROVE  Cardinality(UpTo(who, s)) # Cardinality(UpTo(who, t))
  <2> SUFFICES ASSUME Cardinality(UpTo(who, s)) = Cardinality(UpTo(who, t)) PROVE FALSE
    OBVIOUS
  <2>1. UpTo(who, s) \in SUBSET UpTo(who, t)
    <3>1. \A r \in who : r =< s => r =< t
      BY <1>0, <1>3
    <3> QED
      BY <3>1 DEF UpTo
  <2>2. UpTo(who, s) = UpTo(who, t)
    BY <1>2, <2>1, FS_Subset
  <2>3. t \in UpTo(who, t) /\ t \notin UpTo(who, s)
    BY <1>0, <1>3 DEF UpTo
  <2> QED
    BY <2>2, <2>3
<1>4. \A s, t \in who : Cardinality(UpTo(who, s)) = Cardinality(UpTo(who, t)) => s = t
  <2> SUFFICES ASSUME NEW s \in who, NEW t \in who, s # t
               PROVE  Cardinality(UpTo(who, s)) # Cardinality(UpTo(who, t))
    OBVIOUS
  <2>1. s < t \/ t < s
    OBVIOUS
  <2> QED
    BY <1>3, <2>1
<1>5. rank \in Surjection(who, 1..size)
  <2>1. rank \in Injection(who, 1..size)
    BY <1>2, <1>4 DEF Injection, IsInjective
  <2>2. IsFiniteSet(1..size) /\ Cardinality(1..size) = size
    BY <1>1, FS_Interval
  <2> HIDE DEF rank
  <2> QED
    BY <2>1, <2>2, FS_Injection
<1>6. \A i \in 1..size : \E s \in who : Cardinality(UpTo(who, s)) = i
  BY <1>5 DEF Surjection
<1>7. ASSUME NEW i \in 1..size
      PROVE  /\ InSeatOrder(who)[i] \in who
             /\ Cardinality(UpTo(who, InSeatOrder(who)[i])) = i
  <2>1. PICK s \in who : Cardinality(UpTo(who, s)) = i
    BY <1>6
  <2>2. Cardinality(below(s)) = i - 1
    BY <1>2, <2>1
  <2>3. InSeatOrder(who)[i] = CHOOSE t \in who : Cardinality(below(t)) = i - 1
    BY DEF InSeatOrder
  <2>4. PICK t \in who : InSeatOrder(who)[i] = t /\ Cardinality(below(t)) = i - 1
    BY <2>2, <2>3
  <2>5. Cardinality(UpTo(who, t)) = Cardinality(below(t)) + 1
    BY <1>2
  <2> QED
    BY <2>4, <2>5
<1>8. ASSUME NEW s \in who
      PROVE  InSeatOrder(who)[Cardinality(UpTo(who, s))] = s
  <2> DEFINE i == Cardinality(UpTo(who, s))
             t == InSeatOrder(who)[i]
  <2>1. i \in 1..size
    BY <1>2
  <2>2. t \in who /\ Cardinality(UpTo(who, t)) = i
    BY <1>7, <2>1
  <2> HIDE DEF t
  <2>3. t = s
    BY <1>4, <2>2
  <2> QED
    BY <2>3 DEF t
<1>9. DOMAIN InSeatOrder(who) = 1..size
  BY DEF InSeatOrder
<1> QED
  BY <1>1, <1>2, <1>7, <1>8, <1>9

-----------------------------------------------------------------------------
(* Logs *)

Elements(l) == {l[i] : i \in DOMAIN l}

IsLog(l) == l \in Seq(Elements(l))

\* A function on an initial segment of the numbers is a log.
LEMMA LogOf ==
    ASSUME NEW n \in Nat, NEW l, l = [i \in 1..n |-> l[i]]
    PROVE  IsLog(l) /\ Len(l) = n /\ DOMAIN l = 1..n
<1>1. DOMAIN l = 1..n
  OBVIOUS
<1>2. l \in [1..n -> Elements(l)]
  BY <1>1 DEF Elements
<1>3. l \in Seq(Elements(l))
  BY <1>2
<1> QED
  BY <1>1, <1>3, LenProperties DEF IsLog

\* Appending adds one event at the end and keeps the others.
LEMMA LogAppend ==
    ASSUME NEW l, IsLog(l), NEW e
    PROVE  /\ IsLog(Append(l, e))
           /\ Len(l) \in Nat /\ DOMAIN l = 1..Len(l)
           /\ Len(Append(l, e)) = Len(l) + 1
           /\ DOMAIN Append(l, e) = 1..(Len(l) + 1)
           /\ \A i \in 1..Len(l) : Append(l, e)[i] = l[i]
           /\ Append(l, e)[Len(l) + 1] = e
<1> DEFINE S == Elements(l) \cup {e}
           a == Append(l, e)
<1>1. l \in Seq(S)
  BY SeqMonotonic DEF IsLog
<1>2. Len(l) \in Nat /\ DOMAIN l = 1..Len(l)
  BY <1>1, LenProperties
<1> HIDE DEF S
<1>3. a \in Seq(S) /\ Len(a) = Len(l) + 1
  BY <1>1 DEF S
<1>4. DOMAIN a = 1..(Len(l) + 1)
  BY <1>3, LenProperties
<1>5. /\ \A i \in 1..Len(l) : a[i] = l[i]
      /\ a[Len(l) + 1] = e
  BY <1>1, <1>2 DEF S
<1>6. a = [i \in 1..(Len(l) + 1) |-> a[i]]
  BY <1>3, <1>4, LenProperties
<1> HIDE DEF a
<1>7. IsLog(a)
  BY <1>2, <1>6, LogOf
<1> QED
  BY <1>2, <1>3, <1>4, <1>5, <1>7 DEF a

\* One log after another
LEMMA LogConcat ==
    ASSUME NEW l, IsLog(l), NEW k, IsLog(k)
    PROVE  /\ IsLog(l \o k)
           /\ Len(l) \in Nat /\ DOMAIN l = 1..Len(l)
           /\ Len(k) \in Nat /\ DOMAIN k = 1..Len(k)
           /\ Len(l \o k) = Len(l) + Len(k)
           /\ DOMAIN (l \o k) = 1..(Len(l) + Len(k))
           /\ \A i \in 1..Len(l) : (l \o k)[i] = l[i]
           /\ \A i \in 1..Len(k) : (l \o k)[Len(l) + i] = k[i]
<1> DEFINE S == Elements(l) \cup Elements(k)
           c == l \o k
<1>1. l \in Seq(S) /\ k \in Seq(S)
  BY SeqMonotonic DEF IsLog
<1> HIDE DEF S
<1>2. /\ Len(l) \in Nat /\ DOMAIN l = 1..Len(l)
      /\ Len(k) \in Nat /\ DOMAIN k = 1..Len(k)
  BY <1>1, LenProperties
<1>3. /\ c \in Seq(S) /\ Len(c) = Len(l) + Len(k)
      /\ \A i \in 1..Len(l) + Len(k) : c[i] = IF i <= Len(l) THEN l[i] ELSE k[i - Len(l)]
  BY <1>1, ConcatProperties
<1>4. DOMAIN c = 1..(Len(l) + Len(k)) /\ c = [i \in 1..(Len(l) + Len(k)) |-> c[i]]
  BY <1>3, LenProperties
<1> HIDE DEF c
<1>5. IsLog(c)
  BY <1>2, <1>4, LogOf
<1>6. \A i \in 1..Len(l) : c[i] = l[i]
  BY <1>2, <1>3
<1>7. \A i \in 1..Len(k) : c[Len(l) + i] = k[i]
  <2> SUFFICES ASSUME NEW i \in 1..Len(k) PROVE c[Len(l) + i] = k[i]
    OBVIOUS
  <2>1. Len(l) + i \in 1..Len(l) + Len(k) /\ ~(Len(l) + i <= Len(l)) /\ Len(l) + i - Len(l) = i
    BY <1>2
  <2> QED
    BY <1>3, <2>1
<1> QED
  BY <1>2, <1>3, <1>4, <1>5, <1>6, <1>7 DEF c

\* One event of a type for each of some seats
LEMMA EventsForProperties ==
    ASSUME HumanLaneAssumption, NEW type, NEW who \in SUBSET Seats
    PROVE  /\ IsLog(EventsFor(type, who))
           /\ Cardinality(who) \in Nat
           /\ Len(EventsFor(type, who)) = Cardinality(who)
           /\ \A i \in 1..Cardinality(who) :
                 /\ InSeatOrder(who)[i] \in who
                 /\ Cardinality(UpTo(who, InSeatOrder(who)[i])) = i
                 /\ EventsFor(type, who)[i] = Event(type, phase, InSeatOrder(who)[i])
           /\ \A s \in who : /\ Cardinality(UpTo(who, s)) \in 1..Cardinality(who)
                             /\ InSeatOrder(who)[Cardinality(UpTo(who, s))] = s
<1>1. who \in SUBSET Nat /\ IsFiniteSet(who)
  BY FS_Subset DEF HumanLaneAssumption
<1>2. /\ Cardinality(who) \in Nat
      /\ DOMAIN InSeatOrder(who) = 1..Cardinality(who)
      /\ \A i \in 1..Cardinality(who) : /\ InSeatOrder(who)[i] \in who
                                        /\ Cardinality(UpTo(who, InSeatOrder(who)[i])) = i
      /\ \A s \in who : /\ Cardinality(UpTo(who, s)) \in 1..Cardinality(who)
                        /\ InSeatOrder(who)[Cardinality(UpTo(who, s))] = s
  BY <1>1, InSeatOrderProperties
<1>3. EventsFor(type, who) = [i \in 1..Cardinality(who) |-> Event(type, phase, InSeatOrder(who)[i])]
  BY <1>2 DEF EventsFor
<1> DEFINE l == EventsFor(type, who)
           n == Cardinality(who)
<1>4. l = [i \in 1..n |-> l[i]]
  BY <1>3
<1> HIDE DEF l, n
<1>5. IsLog(l) /\ Len(l) = n
  BY <1>2, <1>4, LogOf DEF n
<1> QED
  BY <1>2, <1>3, <1>5 DEF l, n

-----------------------------------------------------------------------------
(* The invariant *)

\* How many rows are stored
Stored == Cardinality(DOMAIN rows)

RowsAreChain == Stored \in Nat /\ DOMAIN rows = 1..Stored

Asleep == {"down", "idle", "failing", "given up"}

\* A worker that plays holds a log that begins with the rows.  Only failures of a tick are
\* ever ahead of them, and only until the chat of the phase is released and they are mirrored.
LogContinues ==
    stage \notin Asleep =>
        /\ IsLog(log) /\ Stored =< Len(log)
        /\ \A i \in 1..Stored : log[i] = rows[i]
        /\ \A i \in (Stored + 1)..Len(log) : log[i].type = "TimedOut"
        /\ stage \notin {"release", "mirror"} => Len(log) = Stored

\* What a worker knows dies with it, and a game is begun once.
WorkerKnows ==
    /\ stage \in Stages
    /\ stage \in Asleep => log = <<>> /\ answers = <<>> /\ expired = {} /\ checked = 0
    /\ stage = "setup" => Stored = 0
    /\ Waiting => Stored = 0 /\ stage \in Asleep
    /\ resume => Stored # 0

Clocked ==
    /\ now \in Nat /\ checked \in Int /\ checked =< now
    /\ presence \in [Seats -> Int] /\ request.stamp \in Int

TakeoverRows(s) == {i \in DOMAIN rows : rows[i].type = "Takeover" /\ rows[i].seat = s}

\* A worker dispatches to humans only who still have their seats, and the history has a
\* takeover for every seat that is not a human's.
SeatsAgree ==
    /\ seatKind \in [Seats -> {"HUMAN", "AI_TAKEOVER"}]
    /\ mux \in [Seats -> {"human", "ai"}]
    /\ expired \subseteq Seats
    /\ stage \notin Asleep => \A s \in Seats : mux[s] = "human" => seatKind[s] = "HUMAN"
    /\ \A s \in Seats : IF seatKind[s] = "HUMAN" THEN TakeoverRows(s) = {}
                        ELSE \E i \in DOMAIN rows : TakeoverRows(s) = {i}

\* A human's answer was submitted for this phase, by a human who has the seat.
AnswersAreTrue ==
    /\ DOMAIN answers \subseteq Seats
    /\ DOMAIN answers # {} => stage \in {"tick", "release", "mirror", "submit"}
    /\ \A s \in DOMAIN answers : answers[s] = "human" =>
          <<s, phase>> \in actions /\ seatKind[s] = "HUMAN"

VotesAreTrue ==
    \A i \in DOMAIN rows : rows[i].type = "Vote" /\ rows[i].by = "human" =>
        /\ <<rows[i].seat, rows[i].phase>> \in actions
        /\ \A j \in 1..i : ~(rows[j].type = "Takeover" /\ rows[j].seat = rows[i].seat)

ChatRowsOf(p, s) == {i \in DOMAIN rows : rows[i].type = "Chat" /\ rows[i].phase = p /\ rows[i].seat = s}

MessageReleased(p, s) == <<s, p>> \in DOMAIN holds /\ holds[<<s, p>>].status = "RELEASED"

ChatIsFiled ==
    \A s \in Seats, p \in 1..Phases :
        IF MessageReleased(p, s) THEN /\ ChatRowsOf(p, s) = {holds[<<s, p>>].sequence}
                               /\ Sidecar(<<s, p>>) = Event("Chat", p, s)
        ELSE ChatRowsOf(p, s) = {}

HumanInv ==
    /\ RowsAreChain /\ LogContinues /\ WorkerKnows
    /\ Clocked /\ SeatsAgree /\ AnswersAreTrue /\ VotesAreTrue /\ ChatIsFiled

-----------------------------------------------------------------------------
(* How the rows grow *)

\* Rows are only added.
Grows ==
    /\ Stored' \in Nat /\ Stored =< Stored' /\ DOMAIN rows' = 1..Stored'
    /\ \A i \in 1..Stored : rows'[i] = rows[i]

\* What is added says nothing of a takeover, a vote or a message.
PlainTypes == {"Setup", "Start", "TimedOut", "Outcome", "Resolved", "End"}

GrowsPlainly == Grows /\ \A i \in (Stored + 1)..Stored' : rows'[i].type \in PlainTypes

GrowsBy(e) == Grows /\ Stored' = Stored + 1 /\ rows'[Stored + 1] = e

\* There are n numbers from 1 to n.
LEMMA IntervalSize == \A n \in Nat : Cardinality(1..n) = n
BY FS_Interval

\* Rows that are numbered from 1 to n are n.
LEMMA StoredIs ==
    ASSUME NEW n \in Nat, DOMAIN rows' = 1..n
    PROVE  Stored' = n
BY FS_Interval DEF Stored

\* Rows that stay are a chain that grows by nothing.
LEMMA SameRows ==
    ASSUME RowsAreChain, UNCHANGED rows
    PROVE  RowsAreChain' /\ GrowsPlainly /\ Stored' = Stored
BY DEF RowsAreChain, GrowsPlainly, Grows, Stored

\* emit_and_persist, by a worker whose log has no row to catch up with
LEMMA EmitMoves ==
    ASSUME RowsAreChain, IsLog(log), Len(log) = Stored, \A i \in 1..Stored : log[i] = rows[i],
           NEW e, Emit(e)
    PROVE  /\ RowsAreChain' /\ GrowsBy(e)
           /\ IsLog(log') /\ Len(log') = Stored'
           /\ \A i \in 1..Stored' : log'[i] = rows'[i]
<1>1. DOMAIN rows' = DOMAIN rows \cup {Stored + 1}
  BY DEF Emit
<1>2. DOMAIN rows' = 1..(Stored + 1)
  BY <1>1 DEF RowsAreChain
<1>3. Stored' = Stored + 1
  BY <1>2, StoredIs DEF RowsAreChain
<1>4. rows'[Stored + 1] = e /\ \A i \in 1..Stored : rows'[i] = rows[i]
  <2>1. rows' = [i \in DOMAIN rows \cup {Stored + 1} |-> IF i = Stored + 1 THEN e ELSE rows[i]]
    BY DEF Emit
  <2>2. \A i \in 1..Stored : i # Stored + 1
    BY DEF RowsAreChain
  <2> QED
    BY <2>1, <2>2 DEF RowsAreChain
<1>5. /\ IsLog(log') /\ Len(log') = Stored + 1
      /\ \A i \in 1..Stored : log'[i] = log[i]
      /\ log'[Stored + 1] = e
  BY LogAppend DEF Emit
<1>6. \A i \in 1..(Stored + 1) : log'[i] = rows'[i]
  <2>1. \A i \in 1..(Stored + 1) : i \in 1..Stored \/ i = Stored + 1
    BY DEF RowsAreChain
  <2> QED
    BY <1>4, <1>5, <2>1
<1>7. RowsAreChain' /\ GrowsBy(e)
  BY <1>2, <1>3, <1>4 DEF RowsAreChain, GrowsBy, Grows
<1> QED
  BY <1>3, <1>5, <1>6, <1>7

\* A row that is not one of those that matter is a plain one.
LEMMA PlainRow ==
    ASSUME RowsAreChain, NEW e, GrowsBy(e), e.type \in PlainTypes
    PROVE  GrowsPlainly
<1>1. \A i \in (Stored + 1)..Stored' : i = Stored + 1
  BY DEF GrowsBy, RowsAreChain
<1> QED
  BY <1>1 DEF GrowsBy, GrowsPlainly

\* What a release stores: the failures that were ahead, and then a row for each message.
LEMMA ReleaseMoves ==
    ASSUME HumanLaneAssumption, RowsAreChain, LogContinues, Release
    PROVE  /\ RowsAreChain' /\ LogContinues' /\ Grows
           /\ HeldChat \in SUBSET Seats /\ Cardinality(HeldChat) \in Nat
           /\ HeldChat = {} => UNCHANGED rows
           /\ HeldChat # {} =>
                 /\ Len(log) \in Nat /\ Stored =< Len(log)
                 /\ Stored' = Len(log) + Cardinality(HeldChat)
                 /\ \A i \in (Stored + 1)..Len(log) : rows'[i].type = "TimedOut"
                 /\ \A i \in 1..Cardinality(HeldChat) :
                       /\ InSeatOrder(HeldChat)[i] \in HeldChat
                       /\ Cardinality(UpTo(HeldChat, InSeatOrder(HeldChat)[i])) = i
                       /\ rows'[Len(log) + i] = Event("Chat", phase, InSeatOrder(HeldChat)[i])
                 /\ \A s \in HeldChat :
                       /\ Cardinality(UpTo(HeldChat, s)) \in 1..Cardinality(HeldChat)
                       /\ InSeatOrder(HeldChat)[Cardinality(UpTo(HeldChat, s))] = s
           /\ stage' \in {"submit", "mirror"}
<1> DEFINE chats == EventsFor("Chat", HeldChat)
           l == log \o chats
           n == Cardinality(HeldChat)
<1>1. stage = "release" /\ log' = l /\ rows' = LowerRows(l, HeldChat)
  BY DEF Release, Working
<1>2. HeldChat \in SUBSET Seats
  BY DEF HeldChat
<1>3. /\ IsLog(chats) /\ n \in Nat /\ Len(chats) = n
      /\ \A i \in 1..n :
            /\ InSeatOrder(HeldChat)[i] \in HeldChat
            /\ Cardinality(UpTo(HeldChat, InSeatOrder(HeldChat)[i])) = i
            /\ chats[i] = Event("Chat", phase, InSeatOrder(HeldChat)[i])
      /\ \A s \in HeldChat : /\ Cardinality(UpTo(HeldChat, s)) \in 1..n
                             /\ InSeatOrder(HeldChat)[Cardinality(UpTo(HeldChat, s))] = s
  BY <1>2, EventsForProperties
<1>4. /\ IsLog(log) /\ Stored =< Len(log)
      /\ \A i \in 1..Stored : log[i] = rows[i]
      /\ \A i \in (Stored + 1)..Len(log) : log[i].type = "TimedOut"
  BY <1>1 DEF LogContinues, Asleep
<1> HIDE DEF chats, n
<1>5. /\ IsLog(l)
      /\ Len(log) \in Nat /\ DOMAIN log = 1..Len(log)
      /\ Len(l) = Len(log) + n /\ DOMAIN l = 1..(Len(log) + n)
      /\ \A i \in 1..Len(log) : l[i] = log[i]
      /\ \A i \in 1..n : l[Len(log) + i] = chats[i]
  <2>1. IsLog(log) /\ IsLog(chats) /\ Len(chats) = n
    BY <1>3, <1>4
  <2>2. /\ IsLog(l)
        /\ Len(log) \in Nat /\ DOMAIN log = 1..Len(log)
        /\ Len(l) = Len(log) + Len(chats)
    BY <2>1, LogConcat
  <2>3. DOMAIN l = 1..(Len(log) + Len(chats))
    BY <2>1, LogConcat
  <2>4. \A i \in 1..Len(log) : l[i] = log[i]
    BY <2>1, LogConcat
  <2>5. \A i \in 1..Len(chats) : l[Len(log) + i] = chats[i]
    BY <2>1, LogConcat
  <2> HIDE DEF l
  <2> QED
    BY <2>1, <2>2, <2>3, <2>4, <2>5
<1>6. stage' = IF DOMAIN rows' = DOMAIN l THEN "submit" ELSE "mirror"
  BY <1>1 DEF Release, Working
<1> HIDE DEF l
<1>7. CASE HeldChat = {}
  <2>1. rows' = rows /\ n = 0
    BY <1>1, <1>7, FS_EmptySet DEF LowerRows, n
  <2>2. RowsAreChain' /\ Grows /\ Stored' = Stored
    BY <2>1, SameRows DEF GrowsPlainly
  <2>3. Len(l) = Len(log) /\ \A i \in 1..Len(log) : l[i] = log[i]
    BY <1>5, <2>1
  <2>4. stage' = "submit" => Len(l) = Stored
    <3>1. Stored \in Nat /\ DOMAIN rows = 1..Stored
      BY DEF RowsAreChain
    <3>2. DOMAIN rows = DOMAIN l => Stored = Len(log)
      <4>1. DOMAIN l = 1..Len(log)
        BY <1>5, <2>1
      <4>2. Cardinality(1..Len(log)) = Len(log)
        BY <1>5, IntervalSize
      <4> QED
        BY <4>1, <4>2 DEF Stored
    <3> QED
      BY <1>6, <2>1, <2>3, <3>2
  <2>5. /\ \A i \in 1..Stored : l[i] = rows[i]
        /\ \A i \in (Stored + 1)..Len(l) : l[i].type = "TimedOut"
    BY <1>4, <1>5, <2>3 DEF RowsAreChain
  <2>6. LogContinues'
    BY <1>1, <1>4, <1>5, <1>6, <2>1, <2>2, <2>3, <2>4, <2>5 DEF LogContinues
  <2> QED
    BY <1>2, <1>3, <1>6, <1>7, <2>1, <2>2, <2>6 DEF n
<1>8. CASE HeldChat # {}
  <2>1. rows' = [i \in DOMAIN rows \cup (Stored + 1)..Len(l) |-> IF i \in DOMAIN rows THEN rows[i] ELSE l[i]]
    BY <1>1, <1>8 DEF LowerRows, Mirrored, Stored
  <2>2. Stored \in Nat /\ DOMAIN rows = 1..Stored
    BY DEF RowsAreChain
  <2>3. DOMAIN rows' = 1..Len(l) /\ Len(l) \in Nat
    BY <1>3, <1>4, <1>5, <2>1, <2>2
  <2>4. Stored' = Len(l)
    BY <2>3, StoredIs
  <2>5. \A i \in 1..Stored : rows'[i] = rows[i] /\ rows'[i] = l[i]
    BY <1>3, <1>4, <1>5, <2>1, <2>2
  <2>6. \A i \in (Stored + 1)..Len(l) : rows'[i] = l[i]
    BY <2>1, <2>2
  <2>7. RowsAreChain' /\ Grows
    BY <1>3, <1>4, <1>5, <2>2, <2>3, <2>4, <2>5 DEF RowsAreChain, Grows
  <2>8. \A i \in 1..Stored' : l[i] = rows'[i]
    <3>1. \A i \in 1..Stored' : i \in 1..Stored \/ i \in (Stored + 1)..Len(l)
      BY <2>2, <2>3, <2>4
    <3> QED
      BY <2>5, <2>6, <3>1
  <2>9. LogContinues'
    BY <1>1, <1>5, <2>3, <2>4, <2>8 DEF LogContinues
  <2>10. \A i \in (Stored + 1)..Len(log) : rows'[i].type = "TimedOut"
    BY <1>3, <1>4, <1>5, <2>2, <2>6
  <2>11. \A i \in 1..n : rows'[Len(log) + i] = chats[i]
    <3>1. \A i \in 1..n : Len(log) + i \in (Stored + 1)..Len(l)
      BY <1>3, <1>4, <1>5, <2>2
    <3> QED
      BY <1>5, <2>6, <3>1
  <2>12. stage' = "submit"
    BY <1>5, <1>6, <2>3
  <2> QED
    BY <1>2, <1>3, <1>4, <1>5, <1>8, <2>4, <2>7, <2>9, <2>10, <2>11, <2>12 DEF n
<1> QED
  BY <1>7, <1>8

GrowsByTakeover(s) == TakeOver(s) /\ seatKind[s] = "HUMAN" /\ ApplyTakeover(s) /\ GrowsBy(TakeoverEvent(s))

GrowsByVote(s) ==
    /\ Submit /\ GrowsBy(Vote(phase, s, answers[s]))
    /\ answers' = [t \in DOMAIN answers \ {s} |-> answers[t]]

Caught == {"release", "mirror"}

RowsStep ==
    /\ RowsAreChain' /\ LogContinues'
    /\ \/ GrowsPlainly
       \/ \E s \in Seats : GrowsByTakeover(s)
       \/ \E s \in DOMAIN answers : GrowsByVote(s)
       \/ Grows /\ Release

\* Whatever happens, the rows stay a chain that only grows, a log that is played continues
\* them, and what is added is known.
LEMMA RowsStand ==
    ASSUME HumanLaneAssumption, RowsAreChain, LogContinues, WorkerKnows, HumanNext
    PROVE  RowsStep
<1>1. ASSUME UNCHANGED rows, stage' \in Asleep
      PROVE  RowsStep
  BY <1>1, SameRows DEF LogContinues, RowsStep
<1>2. ASSUME UNCHANGED <<rows, log>>, stage \notin Asleep, stage' \in Caught \/ stage \notin Caught
      PROVE  RowsStep
  BY <1>2, SameRows DEF LogContinues, RowsStep, Caught
<1>3. ASSUME NEW e, Emit(e), stage \notin Asleep, stage \notin Caught
      PROVE  RowsAreChain' /\ LogContinues' /\ GrowsBy(e)
  <2>1. IsLog(log) /\ Len(log) = Stored /\ \A i \in 1..Stored : log[i] = rows[i]
    BY <1>3 DEF LogContinues, Caught
  <2>2. /\ RowsAreChain' /\ GrowsBy(e)
        /\ IsLog(log') /\ Len(log') = Stored'
        /\ \A i \in 1..Stored' : log'[i] = rows'[i]
    BY <1>3, <2>1, EmitMoves
  <2>3. Stored' \in Nat
    BY <2>2 DEF RowsAreChain
  <2>4. Stored' =< Stored' /\ \A i \in (Stored' + 1)..Stored' : FALSE
    <3>1. \A n \in Nat : n =< n /\ \A i \in (n + 1)..n : FALSE
      OBVIOUS
    <3> QED
      BY <2>3, <3>1
  <2>5. LogContinues'
    BY <2>2, <2>4 DEF LogContinues
  <2> QED
    BY <2>2, <2>5
<1>4. ASSUME NEW e, Emit(e), stage \notin Asleep, stage \notin Caught, e.type \in PlainTypes
      PROVE  RowsStep
  <2>1. RowsAreChain' /\ LogContinues' /\ GrowsBy(e)
    BY <1>3, <1>4
  <2> QED
    BY <1>4, <2>1, PlainRow DEF RowsStep
<1>5. CASE Tick
  <2>1. UNCHANGED <<rows, log, stage>>
    BY <1>5 DEF Tick, humanTables, worker
  <2> QED
    BY <2>1, SameRows DEF LogContinues, RowsStep
<1>6. CASE \E s \in Seats, op \in {"look", "act", "chat"} : Ask(s, op)
  <2>1. UNCHANGED <<rows, log, stage>>
    BY <1>6 DEF Ask, humanTables, worker
  <2> QED
    BY <2>1, SameRows DEF LogContinues, RowsStep
<1>7. CASE CommitRequest
  <2>1. UNCHANGED <<rows, log, stage>>
    BY <1>7 DEF CommitRequest, Look, Act, Chat, Answered, worker
  <2> QED
    BY <2>1, SameRows DEF LogContinues, RowsStep
<1>8. CASE Boot
  <2>1. UNCHANGED rows /\ stage' \in Asleep
    BY <1>8 DEF Boot, humanTables, Asleep
  <2> QED
    BY <1>1, <2>1
<1>9. CASE ClaimFresh
  <2>1. /\ UNCHANGED <<rows, log>> /\ stage' = "setup"
        /\ log = <<>> /\ Stored = 0
    BY <1>9 DEF ClaimFresh, WorkerKnows, Asleep
  <2>2. RowsAreChain' /\ GrowsPlainly /\ Stored' = Stored
    BY <2>1, SameRows
  <2>3. IsLog(log) /\ Len(log) = 0
    BY <2>1, EmptySeq DEF IsLog
  <2>4. LogContinues'
    BY <2>1, <2>2, <2>3 DEF LogContinues
  <2> QED
    BY <2>2, <2>4 DEF RowsStep
<1>10. CASE ClaimResumed
  <2>1. UNCHANGED rows /\ log' = AsLog(rows) /\ stage' \in {"scan", "enter"}
    BY <1>10 DEF ClaimResumed, humanTables, ResumePoint
  <2>2. RowsAreChain' /\ GrowsPlainly /\ Stored' = Stored
    BY <2>1, SameRows
  <2>3. log' = [i \in 1..Stored |-> rows[i]] /\ Stored \in Nat
    BY <2>1 DEF AsLog, Stored, RowsAreChain
  <2>4. log' = [i \in 1..Stored |-> log'[i]]
    BY <2>3
  <2>5. IsLog(log') /\ Len(log') = Stored
    BY <2>3, <2>4, LogOf
  <2>6. \A i \in (Stored + 1)..Stored : FALSE
    BY <2>3
  <2>7. LogContinues'
    BY <2>1, <2>2, <2>3, <2>5, <2>6 DEF LogContinues
  <2> QED
    BY <2>2, <2>7 DEF RowsStep
<1>11. CASE Crash \/ Fault \/ MarkFailed
  <2>1. UNCHANGED rows /\ stage' \in Asleep
    BY <1>11 DEF Crash, Fault, MarkFailed, humanTables, Asleep
  <2> QED
    BY <1>1, <2>1
<1>12. ASSUME NEW s \in Seats, TakeOver(s)
       PROVE  RowsStep
  <2>1. stage = "takeover" /\ stage' \in {"tick", "takeover"}
    BY <1>12 DEF TakeOver, Working
  <2>2. CASE UNCHANGED <<rows, log>>
    BY <1>2, <2>1, <2>2 DEF Asleep, Caught
  <2>3. CASE StillExpired(s) /\ ApplyTakeover(s)
    <3>1. Emit(TakeoverEvent(s)) /\ seatKind[s] = "HUMAN"
      BY <2>3 DEF ApplyTakeover, StillExpired
    <3>2. RowsAreChain' /\ LogContinues' /\ GrowsBy(TakeoverEvent(s))
      BY <1>3, <2>1, <3>1 DEF Asleep, Caught
    <3> QED
      BY <1>12, <2>3, <3>1, <3>2 DEF GrowsByTakeover, RowsStep
  <2> QED
    BY <1>12, <2>2, <2>3 DEF TakeOver
<1>13. ASSUME NEW s \in Seats, NEW a \in {"human", "ai", "safe"}, Answer(s, a)
       PROVE  RowsStep
  <2>1. UNCHANGED <<rows, log>> /\ stage = "tick"
    BY <1>13 DEF Answer, Working
  <2> QED
    BY <1>2, <2>1 DEF Asleep, Caught
<1>14. CASE Setup
  <2>1. Emit(Event("Setup", 0, Nobody)) /\ stage = "setup"
    BY <1>14 DEF Setup, Working
  <2>2. Event("Setup", 0, Nobody).type \in PlainTypes
    BY DEF Event, PlainTypes
  <2> QED
    BY <1>4, <2>1, <2>2 DEF Asleep, Caught
<1>15. CASE Enter
  <2>1. Emit(Event("Start", phase, Nobody)) /\ stage = "enter"
    BY <1>15 DEF Enter, Working
  <2>2. Event("Start", phase, Nobody).type \in PlainTypes
    BY DEF Event, PlainTypes
  <2> QED
    BY <1>4, <2>1, <2>2 DEF Asleep, Caught
<1>16. CASE Snapshot \/ Scan
  <2>1. UNCHANGED <<rows, log>> /\ stage \in {"snapshot", "scan"}
    BY <1>16 DEF Snapshot, Scan, Working
  <2> QED
    BY <1>2, <2>1 DEF Asleep, Caught
<1>17. CASE Settle
  <2> DEFINE who == {s \in Seats : answers[s] = "safe"}
             late == EventsFor("TimedOut", who)
  <2>1. UNCHANGED rows /\ stage = "tick" /\ stage' = "release" /\ log' = log \o late
    BY <1>17 DEF Settle, Working
  <2>2. RowsAreChain' /\ GrowsPlainly /\ Stored' = Stored
    BY <2>1, SameRows
  <2>3. IsLog(log) /\ Len(log) = Stored /\ \A i \in 1..Stored : log[i] = rows[i]
    BY <2>1 DEF LogContinues, Asleep
  <2>4. /\ IsLog(late) /\ Len(late) = Cardinality(who) /\ Cardinality(who) \in Nat
        /\ \A i \in 1..Cardinality(who) : late[i] = Event("TimedOut", phase, InSeatOrder(who)[i])
    BY EventsForProperties
  <2> HIDE DEF late, who
  <2>5. \A i \in 1..Len(late) : late[i].type = "TimedOut"
    BY <2>4 DEF Event
  <2>6. /\ IsLog(log') /\ Len(log') = Stored + Len(late)
        /\ \A i \in 1..Stored : log'[i] = log[i]
        /\ \A i \in 1..Len(late) : log'[Stored + i] = late[i]
    <3>0. IsLog(log) /\ IsLog(late)
      BY <2>3, <2>4
    <3>1. IsLog(log \o late) /\ Len(log \o late) = Len(log) + Len(late)
      BY <3>0, LogConcat
    <3>2. \A i \in 1..Len(log) : (log \o late)[i] = log[i]
      BY <3>0, LogConcat
    <3>3. \A i \in 1..Len(late) : (log \o late)[Len(log) + i] = late[i]
      BY <3>0, LogConcat
    <3> QED
      BY <2>1, <2>3, <3>1, <3>2, <3>3
  <2>7. Len(late) \in Nat /\ Stored \in Nat
    BY <2>4 DEF RowsAreChain
  <2>8. \A i \in (Stored + 1)..Len(log') : log'[i].type = "TimedOut"
    <3> SUFFICES ASSUME NEW i \in (Stored + 1)..Len(log') PROVE log'[i].type = "TimedOut"
      OBVIOUS
    <3>1. i - Stored \in 1..Len(late) /\ Stored + (i - Stored) = i
      BY <2>6, <2>7
    <3> QED
      BY <2>5, <2>6, <3>1
  <2>9. Stored =< Len(log')
    BY <2>6, <2>7
  <2>10. LogContinues'
    BY <2>1, <2>2, <2>3, <2>6, <2>8, <2>9 DEF LogContinues
  <2> QED
    BY <2>2, <2>10 DEF RowsStep
<1>18. CASE Release
  BY <1>18, ReleaseMoves DEF RowsStep
<1>19. CASE Mirror
  <2>1. PICK i \in DOMAIN log \ DOMAIN rows :
           /\ \A j \in DOMAIN log \ DOMAIN rows : i =< j
           /\ Working("mirror", IF DOMAIN log \ DOMAIN rows = {i} THEN "submit" ELSE "mirror")
           /\ rows' = [j \in DOMAIN rows \cup {i} |-> log[j]]
           /\ UNCHANGED log
    BY <1>19 DEF Mirror
  <2>2. /\ IsLog(log) /\ Stored =< Len(log) /\ stage = "mirror"
        /\ \A j \in 1..Stored : log[j] = rows[j]
        /\ \A j \in (Stored + 1)..Len(log) : log[j].type = "TimedOut"
    BY <2>1 DEF LogContinues, Asleep, Working
  <2>3. Len(log) \in Nat /\ DOMAIN log = 1..Len(log) /\ Stored \in Nat /\ DOMAIN rows = 1..Stored
    BY <2>2, LenProperties DEF IsLog, RowsAreChain
  <2>4. i = Stored + 1 /\ i \in 1..Len(log)
    <3>1. i \in (Stored + 1)..Len(log)
      BY <2>3
    <3>2. Stored + 1 \in DOMAIN log \ DOMAIN rows
      BY <2>3, <3>1
    <3>3. i =< Stored + 1
      BY <2>1, <3>2
    <3> QED
      BY <2>3, <3>1, <3>3
  <2>5. DOMAIN rows' = 1..(Stored + 1)
    BY <2>1, <2>3, <2>4
  <2>6. Stored' = Stored + 1
    BY <2>3, <2>5, StoredIs
  <2>7. \A j \in 1..(Stored + 1) : rows'[j] = log[j]
    BY <2>1, <2>3, <2>4
  <2>8. RowsAreChain' /\ Grows
    BY <2>2, <2>3, <2>5, <2>6, <2>7 DEF RowsAreChain, Grows
  <2>9. rows'[Stored + 1].type = "TimedOut"
    BY <2>2, <2>3, <2>4, <2>7
  <2>10. GrowsPlainly
    <3>1. \A j \in (Stored + 1)..Stored' : j = Stored + 1
      BY <2>3, <2>6
    <3> QED
      BY <2>8, <2>9, <3>1 DEF GrowsPlainly, PlainTypes
  <2>11. stage' \notin {"release", "mirror"} => Len(log) = Stored + 1
    <3>1. Len(log) \in DOMAIN log \ DOMAIN rows \/ Len(log) = Stored
      <4>1. Len(log) \in 1..Len(log) /\ Len(log) \notin 1..Stored
        BY <2>3, <2>4
      <4> QED
        BY <2>3, <4>1
    <3>2. Len(log) # Stored
      BY <2>3, <2>4
    <3>3. stage' \notin {"release", "mirror"} => DOMAIN log \ DOMAIN rows = {i}
      BY <2>1 DEF Working
    <3>4. stage' \notin {"release", "mirror"} => Len(log) = i
      BY <3>1, <3>2, <3>3
    <3> QED
      BY <2>4, <3>4
  <2>12. LogContinues'
    <3>1. \A j \in (Stored + 2)..Len(log) : log[j].type = "TimedOut"
      BY <2>2, <2>3
    <3>2. Stored + 1 =< Len(log) /\ (Stored + 1) + 1 = Stored + 2
      BY <2>3, <2>4
    <3>3. log' = log
      BY <2>1
    <3> QED
      BY <2>2, <2>6, <2>7, <2>11, <3>1, <3>2, <3>3 DEF LogContinues
  <2> QED
    BY <2>8, <2>10, <2>12 DEF RowsStep
<1>20. CASE Submit
  <2>1. PICK s \in DOMAIN answers :
           /\ Emit(Vote(phase, s, answers[s]))
           /\ answers' = [t \in DOMAIN answers \ {s} |-> answers[t]]
    BY <1>20 DEF Submit
  <2>2. stage = "submit"
    BY <1>20 DEF Submit, Working
  <2>3. RowsAreChain' /\ LogContinues' /\ GrowsBy(Vote(phase, s, answers[s]))
    BY <1>3, <2>1, <2>2 DEF Asleep, Caught
  <2> QED
    BY <1>20, <2>1, <2>3 DEF GrowsByVote, RowsStep
<1>21. CASE Outcome \/ Resolve
  <2>1. PICK type \in {"Outcome", "Resolved"} : Emit(Event(type, phase, Nobody))
    BY <1>21 DEF Outcome, Resolve
  <2>2. stage \in {"outcome", "resolve"}
    BY <1>21 DEF Outcome, Resolve, Working
  <2>3. Event(type, phase, Nobody).type \in PlainTypes
    BY DEF Event, PlainTypes
  <2> QED
    BY <1>4, <2>1, <2>2, <2>3 DEF Asleep, Caught
<1>22. CASE GoOn
  <2>1. UNCHANGED <<rows, log>> /\ stage = "check"
    BY <1>22 DEF GoOn, Working
  <2> QED
    BY <1>2, <2>1 DEF Asleep, Caught
<1>23. CASE EndGame
  <2>1. stage \in {"check", "enter"} /\ stage' = "idle"
    BY <1>23 DEF EndGame
  <2>2. Len(log) = Stored
    BY <2>1 DEF LogContinues, Asleep
  <2> DEFINE e == Event("End", 0, Nobody)
  <2>3. rows' = [i \in DOMAIN rows \cup {Stored + 1} |-> IF i = Stored + 1 THEN e ELSE rows[i]]
    BY <1>23, <2>2 DEF EndGame
  <2> HIDE DEF e
  <2>4. DOMAIN rows' = 1..(Stored + 1) /\ Stored \in Nat
    BY <2>3 DEF RowsAreChain
  <2>5. Stored' = Stored + 1
    BY <2>4, StoredIs
  <2>6. rows'[Stored + 1] = e /\ \A i \in 1..Stored : rows'[i] = rows[i]
    <3>1. \A i \in 1..Stored : i # Stored + 1
      BY <2>4
    <3> QED
      BY <2>3, <3>1 DEF RowsAreChain
  <2>7. RowsAreChain' /\ GrowsBy(e)
    BY <2>4, <2>5, <2>6 DEF RowsAreChain, GrowsBy, Grows
  <2>8. GrowsPlainly
    BY <2>7, PlainRow DEF e, Event, PlainTypes
  <2>9. LogContinues'
    BY <2>1 DEF LogContinues, Asleep
  <2> QED
    BY <2>7, <2>8, <2>9 DEF RowsStep
<1> QED
  BY <1>5, <1>6, <1>7, <1>8, <1>9, <1>10, <1>11, <1>12, <1>13, <1>14, <1>15, <1>16, <1>17, <1>18,
     <1>19, <1>20, <1>21, <1>22, <1>23 DEF HumanNext, PlayStep

\* Every step only adds rows.
LEMMA RowsGrow ==
    ASSUME RowsAreChain, RowsStep
    PROVE  RowsAreChain' /\ Grows /\ Stored \in Nat /\ Stored' \in Nat
BY DEF RowsStep, GrowsPlainly, GrowsByTakeover, GrowsByVote, GrowsBy, Grows, RowsAreChain

-----------------------------------------------------------------------------
(* What a worker knows, and the clock *)

\* The stage of a worker, and what it forgets when it stops.
LEMMA WorkersStand ==
    ASSUME RowsAreChain, WorkerKnows, RowsStep, HumanNext
    PROVE  WorkerKnows'
<1>1. RowsAreChain' /\ Grows /\ Stored \in Nat /\ Stored' \in Nat
  BY RowsGrow
<1>2. Stored =< Stored'
  BY <1>1 DEF Grows
<1>3. resume => Stored' # 0
  BY <1>1, <1>2 DEF WorkerKnows
<1>4. ASSUME UNCHANGED <<rows, worker, gameStatus>>
      PROVE  WorkerKnows'
  BY <1>4 DEF WorkerKnows, Stored, Waiting, worker
<1>5. ASSUME stage \in Stages \ Asleep, stage' \in Stages \ (Asleep \cup {"setup"}),
             UNCHANGED <<gameStatus, resume>>
      PROVE  WorkerKnows'
  BY <1>3, <1>5 DEF WorkerKnows, Waiting
<1>6. ASSUME stage' \in Asleep, Forget, UNCHANGED rows,
             gameStatus' = gameStatus \/ gameStatus' = "COMPLETED", resume' \in {resume, FALSE}
      PROVE  WorkerKnows'
  <2>1. Stored' = Stored
    BY <1>6 DEF Stored
  <2>2. log' = <<>> /\ answers' = <<>> /\ expired' = {} /\ checked' = 0
    BY <1>6 DEF Forget
  <2>3. stage' \in Stages /\ stage' # "setup"
    BY <1>6 DEF Asleep, Stages
  <2>4. resume' => Stored' # 0
    BY <1>3, <1>6
  <2>5. Waiting' => Stored' = 0
    BY <1>6, <2>1 DEF Waiting, WorkerKnows
  <2> QED
    BY <1>6, <2>2, <2>3, <2>4, <2>5 DEF WorkerKnows
<1>7. CASE Tick
  BY <1>4, <1>7 DEF Tick, humanTables
<1>8. CASE \E s \in Seats, op \in {"look", "act", "chat"} : Ask(s, op)
  BY <1>4, <1>8 DEF Ask, humanTables
<1>9. CASE CommitRequest
  BY <1>4, <1>9 DEF CommitRequest, Look, Act, Chat, Answered
<1>10. CASE Boot
  <2>1. resume' => DOMAIN rows # {}
    BY <1>10 DEF Boot
  <2>2. DOMAIN rows # {} => Stored # 0
    BY <1>1 DEF RowsAreChain
  <2> QED
    BY <1>10, <2>1, <2>2 DEF Boot, WorkerKnows, humanTables, Waiting, Asleep, Stages, Stored
<1>11. CASE ClaimFresh
  BY <1>11 DEF ClaimFresh, WorkerKnows, Waiting, Asleep, Stages, Stored
<1>12. CASE ClaimResumed
  <2>1. stage' \in {"scan", "enter"} /\ gameStatus' = "RUNNING" /\ resume' = FALSE
    BY <1>12 DEF ClaimResumed, ResumePoint, humanTables
  <2> QED
    BY <2>1 DEF WorkerKnows, Waiting, Asleep, Stages
<1>13. CASE Crash
  BY <1>6, <1>13 DEF Crash, humanTables, Asleep
<1>14. CASE Fault
  BY <1>6, <1>14 DEF Fault, humanTables, Asleep
<1>15. CASE MarkFailed
  <2>1. /\ UNCHANGED <<rows, log, answers, expired, checked, resume>>
        /\ stage \in Asleep /\ stage' \in {"idle", "given up"}
        /\ gameStatus' \in {"FAILED", gameStatus}
    BY <1>15 DEF MarkFailed, Asleep
  <2> QED
    BY <2>1 DEF WorkerKnows, Waiting, Asleep, Stages, Stored
<1>16. CASE PlayStep
  <2>1. CASE \E s \in Seats : TakeOver(s) \/ \E a \in {"human", "ai", "safe"} : Answer(s, a)
    BY <1>5, <2>1 DEF TakeOver, Answer, Working, Asleep, Stages
  <2>2. CASE Setup \/ Enter \/ Snapshot \/ Scan \/ Settle \/ Release
    BY <1>5, <2>2 DEF Setup, Enter, Snapshot, Scan, Settle, Release, Working, Asleep, Stages
  <2>3. CASE Mirror \/ Submit \/ Outcome \/ Resolve \/ GoOn
    BY <1>5, <2>3 DEF Mirror, Submit, Outcome, Resolve, GoOn, Working, Asleep, Stages
  <2>4. CASE EndGame
    BY <1>3, <2>4 DEF EndGame, Forget, WorkerKnows, Waiting, Asleep, Stages
  <2> QED
    BY <1>16, <2>1, <2>2, <2>3, <2>4 DEF PlayStep
<1> QED
  BY <1>7, <1>8, <1>9, <1>10, <1>11, <1>12, <1>13, <1>14, <1>15, <1>16 DEF HumanNext

\* The time of an open scan is in the past.
LEMMA ClocksStand ==
    ASSUME Clocked, HumanNext
    PROVE  Clocked'
<1>1. 0 \in Int /\ 0 =< now /\ now =< now /\ now \in Int
  BY DEF Clocked
<1>2. ASSUME UNCHANGED <<now, presence, request>>, checked' \in {checked, 0, now}
      PROVE  Clocked'
  BY <1>1, <1>2 DEF Clocked
<1>3. CASE Tick
  <2>1. now' = now + 1 /\ UNCHANGED <<checked, presence, request>>
    BY <1>3 DEF Tick, humanTables, worker
  <2> QED
    BY <2>1 DEF Clocked
<1>4. CASE \E s \in Seats, op \in {"look", "act", "chat"} : Ask(s, op)
  <2>1. UNCHANGED <<now, checked, presence>> /\ request'.stamp = now
    BY <1>4 DEF Ask, humanTables, worker
  <2> QED
    BY <1>1, <2>1 DEF Clocked
<1>5. CASE CommitRequest
  <2>1. UNCHANGED <<now, checked>> /\ request'.stamp = 0 /\ Beat(request.seat, request.stamp)
    BY <1>5 DEF CommitRequest, Look, Act, Chat, Answered, worker, NoRequest
  <2>2. presence' \in [Seats -> Int]
    BY <2>1 DEF Beat, Clocked
  <2> QED
    BY <1>1, <2>1, <2>2 DEF Clocked
<1>6. CASE Boot \/ ClaimFresh \/ ClaimResumed \/ Crash \/ Fault \/ MarkFailed
  BY <1>2, <1>6 DEF Boot, ClaimFresh, ClaimResumed, Crash, Fault, MarkFailed, Forget, humanTables
<1>7. CASE PlayStep
  <2>1. CASE \E s \in Seats : TakeOver(s) \/ \E a \in {"human", "ai", "safe"} : Answer(s, a)
    BY <1>2, <2>1 DEF TakeOver, Answer, Working
  <2>2. CASE Setup \/ Enter \/ Snapshot \/ Scan \/ Settle \/ Release
    BY <1>2, <2>2 DEF Setup, Enter, Snapshot, Scan, Settle, Release, Working
  <2>3. CASE Mirror \/ Submit \/ Outcome \/ Resolve \/ GoOn
    BY <1>2, <2>3 DEF Mirror, Submit, Outcome, Resolve, GoOn, Working
  <2>4. CASE EndGame
    BY <1>2, <2>4 DEF EndGame, Forget
  <2> QED
    BY <1>7, <2>1, <2>2, <2>3, <2>4 DEF PlayStep
<1> QED
  BY <1>3, <1>4, <1>5, <1>6, <1>7 DEF HumanNext

-----------------------------------------------------------------------------
(* Seats *)

\* Rows that say nothing of a takeover of a seat leave the takeovers of the seat alone.
LEMMA TakeoversKept ==
    ASSUME RowsAreChain, Grows, NEW s,
           \A i \in (Stored + 1)..Stored' : ~(rows'[i].type = "Takeover" /\ rows'[i].seat = s)
    PROVE  TakeoverRows(s)' = TakeoverRows(s)
<1>1. \A i \in 1..Stored' : i \in 1..Stored \/ i \in (Stored + 1)..Stored'
  BY DEF Grows, RowsAreChain
<1>2. 1..Stored \subseteq 1..Stored'
  BY DEF Grows, RowsAreChain
<1> QED
  BY <1>1, <1>2 DEF TakeoverRows, Grows, RowsAreChain

\* The rows of a step: a takeover is there only if it was made, and a vote only if it was cast.
LEMMA NewRows ==
    ASSUME HumanLaneAssumption, RowsAreChain, LogContinues, Grows
    PROVE  /\ GrowsPlainly => \A i \in (Stored + 1)..Stored' : rows'[i].type \in PlainTypes
           /\ Release => \A i \in (Stored + 1)..Stored' : rows'[i].type \in {"TimedOut", "Chat"}
           /\ \A e : GrowsBy(e) => \A i \in (Stored + 1)..Stored' : i = Stored + 1 /\ rows'[i] = e
<1>1. GrowsPlainly => \A i \in (Stored + 1)..Stored' : rows'[i].type \in PlainTypes
  BY DEF GrowsPlainly
<1>2. ASSUME Release
      PROVE  \A i \in (Stored + 1)..Stored' : rows'[i].type \in {"TimedOut", "Chat"}
  <2>1. CASE HeldChat = {}
    <3>1. UNCHANGED rows
      BY <1>2, <2>1, ReleaseMoves
    <3>2. Stored' = Stored /\ Stored \in Nat
      BY <3>1 DEF Stored, RowsAreChain
    <3> QED
      BY <3>2
  <2>2. CASE HeldChat # {}
    <3> DEFINE n == Cardinality(HeldChat)
    <3>1. /\ Len(log) \in Nat /\ Stored =< Len(log) /\ n \in Nat
          /\ Stored' = Len(log) + n
          /\ \A i \in (Stored + 1)..Len(log) : rows'[i].type = "TimedOut"
      BY <1>2, <2>2, ReleaseMoves
    <3>2. \A i \in 1..n : rows'[Len(log) + i] = Event("Chat", phase, InSeatOrder(HeldChat)[i])
      BY <1>2, <2>2, ReleaseMoves
    <3> HIDE DEF n
    <3>3. \A i \in 1..n : rows'[Len(log) + i].type = "Chat"
      <4>1. \A s : Event("Chat", phase, s).type = "Chat"
        BY DEF Event
      <4> QED
        BY <3>2, <4>1
    <3> SUFFICES ASSUME NEW i \in (Stored + 1)..Stored'
                 PROVE  rows'[i].type \in {"TimedOut", "Chat"}
      OBVIOUS
    <3>4. Stored \in Nat
      BY DEF RowsAreChain
    <3>5. i \in (Stored + 1)..Len(log) \/ (i - Len(log) \in 1..n /\ Len(log) + (i - Len(log)) = i)
      BY <3>1, <3>4
    <3> QED
      BY <3>1, <3>3, <3>5
  <2> QED
    BY <2>1, <2>2
<1>3. ASSUME NEW e, GrowsBy(e)
      PROVE  \A i \in (Stored + 1)..Stored' : i = Stored + 1 /\ rows'[i] = e
  BY <1>3 DEF GrowsBy, RowsAreChain
<1> QED
  BY <1>1, <1>2, <1>3

SeatRow(s) == IF seatKind[s] = "HUMAN" THEN TakeoverRows(s) = {}
              ELSE \E i \in DOMAIN rows : TakeoverRows(s) = {i}

\* A seat that stays as it is, with no takeover of it in the new rows
LEMMA SeatRowKept ==
    ASSUME RowsAreChain, Grows, NEW s, SeatRow(s), seatKind'[s] = seatKind[s],
           \A i \in (Stored + 1)..Stored' : ~(rows'[i].type = "Takeover" /\ rows'[i].seat = s)
    PROVE  SeatRow(s)'
<1>1. TakeoverRows(s)' = TakeoverRows(s)
  BY TakeoversKept
<1>2. DOMAIN rows \subseteq DOMAIN rows'
  BY DEF Grows, RowsAreChain
<1> QED
  BY <1>1, <1>2 DEF SeatRow

\* Every seat has its kind and its rows after a step as before it, or was taken over by it.
LEMMA SeatRowsStand ==
    ASSUME HumanLaneAssumption, RowsAreChain, LogContinues, SeatsAgree, RowsStep, HumanNext
    PROVE  \/ UNCHANGED seatKind /\ \A s \in Seats : SeatRow(s)'
           \/ \E t \in Seats : GrowsByTakeover(t) /\ \A s \in Seats : SeatRow(s)'
<1>1. Grows /\ Stored \in Nat /\ Stored' \in Nat
  BY RowsGrow
<1>2. \A s \in Seats : SeatRow(s)
  BY DEF SeatsAgree, SeatRow
<1>3. ASSUME UNCHANGED seatKind, \A i \in (Stored + 1)..Stored' : rows'[i].type # "Takeover"
      PROVE  UNCHANGED seatKind /\ \A s \in Seats : SeatRow(s)'
  BY <1>1, <1>2, <1>3, SeatRowKept
<1>4. ASSUME ~ \E t \in Seats : GrowsByTakeover(t)
      PROVE  \A i \in (Stored + 1)..Stored' : rows'[i].type # "Takeover"
  <2>1. CASE GrowsPlainly
    BY <1>1, <2>1, NewRows DEF PlainTypes
  <2>2. CASE Release
    BY <1>1, <2>2, NewRows
  <2>3. CASE \E s \in DOMAIN answers : GrowsByVote(s)
    <3>1. PICK s : GrowsBy(Vote(phase, s, answers[s]))
      BY <2>3 DEF GrowsByVote
    <3>2. \A i \in (Stored + 1)..Stored' : rows'[i] = Vote(phase, s, answers[s])
      BY <1>1, <3>1, NewRows
    <3> QED
      BY <3>2 DEF Vote
  <2> QED
    BY <1>4, <2>1, <2>2, <2>3 DEF RowsStep
<1>5. ASSUME NEW t \in Seats, GrowsByTakeover(t)
      PROVE  \A s \in Seats : SeatRow(s)'
  <2>1. \A i \in (Stored + 1)..Stored' : i = Stored + 1 /\ rows'[i] = TakeoverEvent(t)
    BY <1>1, <1>5, NewRows DEF GrowsByTakeover
  <2>2. seatKind[t] = "HUMAN" /\ seatKind' = [seatKind EXCEPT ![t] = "AI_TAKEOVER"]
    BY <1>5 DEF GrowsByTakeover, ApplyTakeover
  <2>3. ASSUME NEW s \in Seats, s # t
        PROVE  SeatRow(s)'
    <3>1. seatKind'[s] = seatKind[s]
      BY <2>2, <2>3 DEF SeatsAgree
    <3>2. \A i \in (Stored + 1)..Stored' : ~(rows'[i].type = "Takeover" /\ rows'[i].seat = s)
      BY <2>1, <2>3 DEF TakeoverEvent, Event
    <3> QED
      BY <1>1, <1>2, <3>1, <3>2, SeatRowKept
  <2>4. SeatRow(t)'
    <3>1. seatKind'[t] = "AI_TAKEOVER"
      BY <2>2 DEF SeatsAgree
    <3>2. TakeoverRows(t) = {}
      BY <1>2, <2>2 DEF SeatRow
    <3>3. Stored' = Stored + 1 /\ DOMAIN rows' = 1..(Stored + 1)
      BY <1>1, <1>5 DEF GrowsByTakeover, GrowsBy, Grows
    <3>4. rows'[Stored + 1].type = "Takeover" /\ rows'[Stored + 1].seat = t
      BY <1>1, <2>1, <3>3 DEF TakeoverEvent, Event
    <3>5. \A i \in 1..Stored : ~(rows'[i].type = "Takeover" /\ rows'[i].seat = t)
      BY <1>1, <3>2 DEF TakeoverRows, Grows, RowsAreChain
    <3>6. \A i \in 1..(Stored + 1) : i \in 1..Stored \/ i = Stored + 1
      BY <1>1
    <3>7. TakeoverRows(t)' = {Stored + 1} /\ Stored + 1 \in DOMAIN rows'
      BY <1>1, <3>3, <3>4, <3>5, <3>6 DEF TakeoverRows
    <3> QED
      BY <3>1, <3>7 DEF SeatRow
  <2> QED
    BY <2>3, <2>4
<1>6. (\E s \in Seats : TakeOver(s)) \/ UNCHANGED seatKind
  BY DEF HumanNext, Tick, Ask, CommitRequest, Look, Act, Chat, Answered, Boot, ClaimFresh, ClaimResumed,
         Crash, Fault, MarkFailed, PlayStep, humanTables, Working, Answer, Setup, Enter, Snapshot, Scan, Settle,
         Release, Mirror, Submit, Outcome, Resolve, GoOn, EndGame
<1>7. UNCHANGED seatKind \/ \E s \in Seats : GrowsByTakeover(s)
  <2> SUFFICES ASSUME NEW s \in Seats, TakeOver(s), ~ UNCHANGED seatKind
               PROVE  GrowsByTakeover(s)
    BY <1>6
  <2>1. StillExpired(s) /\ ApplyTakeover(s) /\ stage = "takeover"
    BY DEF TakeOver, Working
  <2>2. seatKind[s] = "HUMAN" /\ Emit(TakeoverEvent(s))
    BY <2>1 DEF StillExpired, ApplyTakeover
  <2>3. IsLog(log) /\ Len(log) = Stored /\ \A i \in 1..Stored : log[i] = rows[i]
    BY <2>1 DEF LogContinues, Asleep
  <2>4. GrowsBy(TakeoverEvent(s))
    BY <2>2, <2>3, EmitMoves
  <2> QED
    BY <2>1, <2>2, <2>4 DEF GrowsByTakeover
<1> QED
  BY <1>3, <1>4, <1>5, <1>7

\* A worker asks a human only who has the seat.
LEMMA SeatsStand ==
    ASSUME HumanLaneAssumption, RowsAreChain, LogContinues, SeatsAgree, RowsStep, HumanNext
    PROVE  SeatsAgree'
<1>1. \A s \in Seats : SeatRow(s)'
  BY SeatRowsStand
<1>2. \/ UNCHANGED seatKind
      \/ \E t \in Seats : GrowsByTakeover(t)
  BY SeatRowsStand
<1> DEFINE Kinds == seatKind \in [Seats -> {"HUMAN", "AI_TAKEOVER"}]
           Dispatch == mux \in [Seats -> {"human", "ai"}] /\ expired \subseteq Seats
           Asked == stage \notin Asleep => \A s \in Seats : mux[s] = "human" => seatKind[s] = "HUMAN"
<1>3. Kinds /\ Dispatch /\ Asked
  BY DEF SeatsAgree
<1>4. Kinds'
  BY <1>2, <1>3 DEF GrowsByTakeover, ApplyTakeover
<1>5. SUFFICES (Dispatch /\ Asked)'
  BY <1>1, <1>4 DEF SeatsAgree, SeatRow
<1>6. ASSUME UNCHANGED <<seatKind, mux>>, stage \notin Asleep \/ stage' \in Asleep, expired' \subseteq Seats
      PROVE  (Dispatch /\ Asked)'
  BY <1>3, <1>6
<1>7. ASSUME Forget, stage' \in Asleep
      PROVE  (Dispatch /\ Asked)'
  BY <1>7 DEF Forget
<1>8. ASSUME mux' = MuxFor, UNCHANGED <<seatKind, expired>>
      PROVE  (Dispatch /\ Asked)'
  BY <1>3, <1>8 DEF MuxFor
<1>9. ASSUME UNCHANGED <<seatKind, mux, expired, stage>>
      PROVE  (Dispatch /\ Asked)'
  BY <1>3, <1>9
<1>10. CASE Tick \/ \E s \in Seats, op \in {"look", "act", "chat"} : Ask(s, op)
  <2>1. UNCHANGED <<seatKind, mux, expired, stage>>
    BY <1>10 DEF Tick, Ask, humanTables, worker
  <2> QED
    BY <1>9, <2>1
<1>11. CASE CommitRequest
  <2>1. UNCHANGED <<seatKind, mux, expired, stage>>
    BY <1>11 DEF CommitRequest, Look, Act, Chat, Answered, worker
  <2> QED
    BY <1>9, <2>1
<1>12. CASE Boot \/ MarkFailed
  <2>1. UNCHANGED <<seatKind, mux, expired>> /\ stage' \in Asleep
    BY <1>12 DEF Boot, MarkFailed, humanTables, Asleep
  <2> QED
    BY <1>3, <1>6, <2>1
<1>13. CASE ClaimFresh \/ ClaimResumed
  <2>1. mux' = MuxFor /\ UNCHANGED <<seatKind, expired>>
    BY <1>13 DEF ClaimFresh, ClaimResumed, humanTables
  <2> QED
    BY <1>8, <2>1
<1>14. CASE Crash \/ Fault \/ EndGame
  <2>1. Forget /\ stage' \in Asleep
    BY <1>14 DEF Crash, Fault, EndGame, Asleep
  <2> QED
    BY <1>7, <2>1
<1>15. CASE \E s \in Seats : TakeOver(s)
  <2>1. PICK s \in Seats : TakeOver(s)
    BY <1>15
  <2>2. expired' \subseteq Seats /\ stage \notin Asleep
    BY <1>3, <2>1 DEF TakeOver, Working, Asleep
  <2>3. CASE UNCHANGED <<seatKind, mux>>
    BY <1>6, <2>2, <2>3
  <2>4. CASE ApplyTakeover(s)
    <3>1. /\ seatKind' = [seatKind EXCEPT ![s] = "AI_TAKEOVER"]
          /\ mux' = [mux EXCEPT ![s] = "ai"]
      BY <2>4 DEF ApplyTakeover
    <3> QED
      BY <1>3, <2>2, <3>1
  <2> QED
    BY <2>1, <2>3, <2>4 DEF TakeOver
<1>16. CASE Scan
  <2>1. expired' \subseteq Seats /\ stage \notin Asleep /\ UNCHANGED <<seatKind, mux>>
    BY <1>16 DEF Scan, Working, Asleep
  <2> QED
    BY <1>6, <2>1
<1>17. CASE \E s \in Seats, a \in {"human", "ai", "safe"} : Answer(s, a)
  <2>1. UNCHANGED <<seatKind, mux, expired>> /\ stage \notin Asleep
    BY <1>17 DEF Answer, Working, Asleep
  <2> QED
    BY <1>3, <1>6, <2>1
<1>18. CASE Setup \/ Enter \/ Snapshot \/ Settle \/ Release
  <2>1. UNCHANGED <<seatKind, mux, expired>> /\ stage \notin Asleep
    BY <1>18 DEF Setup, Enter, Snapshot, Settle, Release, Working, Asleep
  <2> QED
    BY <1>3, <1>6, <2>1
<1>19. CASE Mirror \/ Submit \/ Outcome \/ Resolve \/ GoOn
  <2>1. UNCHANGED <<seatKind, mux, expired>> /\ stage \notin Asleep
    BY <1>19 DEF Mirror, Submit, Outcome, Resolve, GoOn, Working, Asleep
  <2> QED
    BY <1>3, <1>6, <2>1
<1> QED
  BY <1>10, <1>11, <1>12, <1>13, <1>14, <1>15, <1>16, <1>17, <1>18, <1>19 DEF HumanNext, PlayStep

-----------------------------------------------------------------------------
(* Answers and votes *)

\* An answer of a human stays what it was submitted as until it is a vote.
LEMMA AnswersStand ==
    ASSUME HumanLaneAssumption, WorkerKnows, SeatsAgree, AnswersAreTrue, HumanNext
    PROVE  AnswersAreTrue'
<1> DEFINE Open == {"tick", "release", "mirror", "submit"}
<1>1. actions \subseteq actions'
  BY DEF HumanNext, Tick, Ask, CommitRequest, Look, Act, Chat, Answered, Boot, ClaimFresh, ClaimResumed,
         Crash, Fault, MarkFailed, PlayStep, humanTables, Working, Answer, Setup, Enter, Snapshot, Scan, Settle,
         Release, Mirror, Submit, Outcome, Resolve, GoOn, EndGame, TakeOver
<1>2. ASSUME DOMAIN answers' = {}
      PROVE  AnswersAreTrue'
  BY <1>2 DEF AnswersAreTrue
<1>3. ASSUME UNCHANGED <<answers, phase, seatKind>>, stage' \in Open \/ stage' = stage
      PROVE  AnswersAreTrue'
  BY <1>1, <1>3 DEF AnswersAreTrue
<1>4. ASSUME UNCHANGED answers, stage \notin Open
      PROVE  AnswersAreTrue'
  BY <1>2, <1>4 DEF AnswersAreTrue
<1>5. CASE Tick \/ \E s \in Seats, op \in {"look", "act", "chat"} : Ask(s, op)
  BY <1>3, <1>5 DEF Tick, Ask, humanTables, worker
<1>6. CASE CommitRequest
  BY <1>3, <1>6 DEF CommitRequest, Look, Act, Chat, Answered, worker
<1>7. CASE Boot \/ ClaimFresh \/ ClaimResumed \/ MarkFailed
  BY <1>4, <1>7 DEF Boot, ClaimFresh, ClaimResumed, MarkFailed
<1>8. CASE Crash \/ Fault \/ EndGame
  <2>1. answers' = <<>>
    BY <1>8 DEF Crash, Fault, EndGame, Forget
  <2>2. DOMAIN answers' = {}
    BY <2>1
  <2> QED
    BY <1>2, <2>2
<1>9. CASE \E s \in Seats : TakeOver(s)
  BY <1>4, <1>9 DEF TakeOver, Working
<1>10. CASE Setup \/ Enter \/ Snapshot \/ Scan \/ Outcome \/ Resolve \/ GoOn
  BY <1>4, <1>10 DEF Setup, Enter, Snapshot, Scan, Outcome, Resolve, GoOn, Working
<1>11. CASE Settle \/ Release \/ Mirror
  BY <1>3, <1>11 DEF Settle, Release, Mirror, Working
<1>12. ASSUME NEW s \in Seats, NEW a \in {"human", "ai", "safe"}, Answer(s, a)
       PROVE  AnswersAreTrue'
  <2>1. /\ stage = "tick" /\ stage' = "tick" /\ UNCHANGED <<phase, seatKind, actions>>
        /\ answers' = [t \in DOMAIN answers \cup {s} |-> IF t = s THEN a ELSE answers[t]]
        /\ a = "human" => mux[s] = "human" /\ <<s, phase>> \in actions
    BY <1>12 DEF Answer, Working, Submitted
  <2>2. a = "human" => seatKind[s] = "HUMAN"
    BY <2>1 DEF SeatsAgree, Asleep
  <2> QED
    BY <2>1, <2>2 DEF AnswersAreTrue
<1>13. CASE Submit
  <2>1. PICK s \in DOMAIN answers : answers' = [t \in DOMAIN answers \ {s} |-> answers[t]]
    BY <1>13 DEF Submit
  <2>2. /\ stage = "submit" /\ UNCHANGED <<phase, seatKind, actions>>
        /\ stage' = IF Cardinality(DOMAIN answers) = 1 THEN "outcome" ELSE "submit"
    BY <1>13 DEF Submit, Working
  <2>3. CASE stage' = "submit"
    BY <2>1, <2>2, <2>3 DEF AnswersAreTrue
  <2>4. CASE Cardinality(DOMAIN answers) = 1
    <3>1. IsFiniteSet(DOMAIN answers)
      BY FS_Subset DEF AnswersAreTrue, HumanLaneAssumption
    <3>2. PICK t : DOMAIN answers = {t}
      BY <2>4, <3>1, FS_Singleton
    <3>3. DOMAIN answers' = {}
      BY <2>1, <3>2
    <3> QED
      BY <1>2, <3>3
  <2> QED
    BY <2>2, <2>3, <2>4
<1> QED
  BY <1>5, <1>6, <1>7, <1>8, <1>9, <1>10, <1>11, <1>12, <1>13 DEF HumanNext, PlayStep

\* A vote in the rows stands as it was, and a new one is that of an answer.
LEMMA VotesStand ==
    ASSUME HumanLaneAssumption, RowsAreChain, LogContinues, SeatsAgree, AnswersAreTrue, VotesAreTrue,
           RowsStep, HumanNext
    PROVE  VotesAreTrue'
<1>1. Grows /\ Stored \in Nat /\ Stored' \in Nat
  BY RowsGrow
<1>2. actions \subseteq actions'
  BY DEF HumanNext, Tick, Ask, CommitRequest, Look, Act, Chat, Answered, Boot, ClaimFresh, ClaimResumed,
         Crash, Fault, MarkFailed, PlayStep, humanTables, Working, Answer, Setup, Enter, Snapshot, Scan, Settle,
         Release, Mirror, Submit, Outcome, Resolve, GoOn, EndGame, TakeOver
<1> DEFINE Human(i) == rows[i].type = "Vote" /\ rows[i].by = "human"
           True(i) == /\ <<rows[i].seat, rows[i].phase>> \in actions
                      /\ \A j \in 1..i : ~(rows[j].type = "Takeover" /\ rows[j].seat = rows[i].seat)
<1>3. ASSUME NEW i \in 1..Stored, Human(i)'
      PROVE  True(i)'
  <2>1. rows'[i] = rows[i] /\ i \in DOMAIN rows
    BY <1>1 DEF Grows, RowsAreChain
  <2>2. /\ <<rows[i].seat, rows[i].phase>> \in actions
        /\ \A j \in 1..i : ~(rows[j].type = "Takeover" /\ rows[j].seat = rows[i].seat)
    BY <1>3, <2>1 DEF VotesAreTrue
  <2>3. \A j \in 1..i : rows'[j] = rows[j]
    BY <1>1 DEF Grows
  <2> QED
    BY <1>2, <2>1, <2>2, <2>3
<1>4. ASSUME NEW i \in (Stored + 1)..Stored', Human(i)'
      PROVE  True(i)'
  <2>1. PICK s \in DOMAIN answers : GrowsByVote(s)
    <3>1. CASE GrowsPlainly
      BY <1>1, <1>4, <3>1, NewRows DEF PlainTypes
    <3>2. CASE Release
      BY <1>1, <1>4, <3>2, NewRows
    <3>3. CASE \E s \in Seats : GrowsByTakeover(s)
      <4>1. PICK s : GrowsBy(TakeoverEvent(s))
        BY <3>3 DEF GrowsByTakeover
      <4> QED
        BY <1>1, <1>4, <4>1, NewRows DEF TakeoverEvent, Event
    <3> QED
      BY <3>1, <3>2, <3>3 DEF RowsStep
  <2>2. i = Stored + 1 /\ rows'[i] = Vote(phase, s, answers[s])
    BY <1>1, <1>4, <2>1, NewRows DEF GrowsByVote
  <2>3. rows'[i].seat = s /\ rows'[i].phase = phase /\ rows'[i].type = "Vote" /\ rows'[i].by = answers[s]
    BY <2>2 DEF Vote
  <2>4. <<s, phase>> \in actions /\ seatKind[s] = "HUMAN" /\ s \in Seats
    BY <1>4, <2>3 DEF AnswersAreTrue
  <2>5. TakeoverRows(s) = {}
    BY <2>4 DEF SeatsAgree
  <2>6. \A j \in 1..Stored : ~(rows'[j].type = "Takeover" /\ rows'[j].seat = s)
    BY <1>1, <2>5 DEF TakeoverRows, Grows, RowsAreChain
  <2>7. \A j \in 1..i : j \in 1..Stored \/ j = i
    BY <1>1, <2>2
  <2> QED
    BY <1>2, <2>3, <2>4, <2>6, <2>7
<1>5. \A i \in DOMAIN rows' : i \in 1..Stored \/ i \in (Stored + 1)..Stored'
  BY <1>1 DEF Grows
<1> QED
  BY <1>3, <1>4, <1>5 DEF VotesAreTrue

-----------------------------------------------------------------------------
(* Chat *)

FiledRow(p, s) ==
    IF MessageReleased(p, s) THEN /\ ChatRowsOf(p, s) = {holds[<<s, p>>].sequence}
                           /\ Sidecar(<<s, p>>) = Event("Chat", p, s)
    ELSE ChatRowsOf(p, s) = {}

IsChat(i, p, s) == rows[i].type = "Chat" /\ rows[i].phase = p /\ rows[i].seat = s

\* A message that stays as it is, with no row for it among the new ones
LEMMA FiledRowKept ==
    ASSUME RowsAreChain, Grows, NEW p, NEW s, FiledRow(p, s),
           MessageReleased(p, s)' = MessageReleased(p, s),
           MessageReleased(p, s) => holds'[<<s, p>>] = holds[<<s, p>>],
           \A i \in (Stored + 1)..Stored' : ~ IsChat(i, p, s)'
    PROVE  FiledRow(p, s)'
<1>1. /\ \A i \in 1..Stored' : i \in 1..Stored \/ i \in (Stored + 1)..Stored'
      /\ 1..Stored \subseteq 1..Stored'
  BY DEF Grows, RowsAreChain
<1>2. ChatRowsOf(p, s)' = ChatRowsOf(p, s)
  BY <1>1 DEF ChatRowsOf, IsChat, Grows, RowsAreChain
<1>3. CASE MessageReleased(p, s)
  <2> DEFINE n == holds[<<s, p>>].sequence
  <2>1. n \in DOMAIN rows /\ rows[n] = Event("Chat", p, s)
    BY <1>3 DEF FiledRow, ChatRowsOf, Sidecar
  <2>2. rows'[n] = rows[n]
    BY <2>1 DEF Grows, RowsAreChain
  <2>3. holds'[<<s, p>>].sequence = n /\ ChatRowsOf(p, s) = {n}
    BY <1>3 DEF FiledRow
  <2>4. Sidecar(<<s, p>>)' = Event("Chat", p, s)
    BY <2>1, <2>2, <2>3 DEF Sidecar
  <2> QED
    BY <1>2, <1>3, <2>3, <2>4 DEF FiledRow
<1>4. CASE ~MessageReleased(p, s)
  BY <1>2, <1>4 DEF FiledRow
<1> QED
  BY <1>3, <1>4

\* A release files what it releases.
LEMMA ReleaseFiles ==
    ASSUME HumanLaneAssumption, RowsAreChain, LogContinues, ChatIsFiled, Release
    PROVE  ChatIsFiled'
<1> DEFINE n == Cardinality(HeldChat)
           at(s) == Cardinality(UpTo(HeldChat, s))
<1>1. RowsAreChain' /\ Grows /\ HeldChat \in SUBSET Seats /\ n \in Nat
  BY ReleaseMoves
<1>2. Stored \in Nat /\ DOMAIN rows = 1..Stored /\ Stored' \in Nat /\ DOMAIN rows' = 1..Stored'
  BY <1>1 DEF RowsAreChain
<1>3. holds' = [k \in DOMAIN holds |->
                   IF k[1] \in HeldChat /\ k[2] = phase
                   THEN [status |-> "RELEASED", sequence |-> SequenceOf(k[1], HeldChat)]
                   ELSE holds[k]]
  BY DEF Release, MarkReleased
<1>4. ASSUME NEW s \in Seats, NEW p \in 1..Phases, ~(s \in HeldChat /\ p = phase)
      PROVE  /\ MessageReleased(p, s)' = MessageReleased(p, s)
             /\ MessageReleased(p, s) => holds'[<<s, p>>] = holds[<<s, p>>]
  BY <1>3, <1>4 DEF MessageReleased
<1>5. CASE HeldChat = {}
  <2>1. UNCHANGED rows
    BY <1>5, ReleaseMoves
  <2>2. Stored' = Stored
    BY <2>1 DEF Stored
  <2>3. \A i \in (Stored + 1)..Stored' : FALSE
    BY <1>2, <2>2
  <2>4. ASSUME NEW s \in Seats, NEW p \in 1..Phases
        PROVE  FiledRow(p, s)'
    BY <1>1, <1>4, <1>5, <2>3, <2>4, FiledRowKept DEF ChatIsFiled, FiledRow
  <2> QED
    BY <2>4 DEF ChatIsFiled, FiledRow
<1>6. CASE HeldChat # {}
  <2>1. /\ Len(log) \in Nat /\ Stored =< Len(log)
        /\ Stored' = Len(log) + n
        /\ \A i \in (Stored + 1)..Len(log) : rows'[i].type = "TimedOut"
    BY <1>6, ReleaseMoves
  <2>2. \A i \in 1..n : /\ InSeatOrder(HeldChat)[i] \in HeldChat
                        /\ at(InSeatOrder(HeldChat)[i]) = i
    BY <1>6, ReleaseMoves
  <2>3. \A i \in 1..n : rows'[Len(log) + i] = Event("Chat", phase, InSeatOrder(HeldChat)[i])
    BY <1>6, ReleaseMoves
  <2>4. \A s \in HeldChat : at(s) \in 1..n /\ InSeatOrder(HeldChat)[at(s)] = s
    BY <1>6, ReleaseMoves
  <2>5. \A s \in HeldChat : SequenceOf(s, HeldChat) = Len(log) + at(s)
    BY DEF SequenceOf, UpTo
  <2> HIDE DEF n, at
  <2>6. ASSUME NEW p, NEW s, NEW i \in (Stored + 1)..Stored', IsChat(i, p, s)'
        PROVE  p = phase /\ s \in HeldChat /\ i = Len(log) + at(s)
    <3>1. i \notin (Stored + 1)..Len(log)
      BY <2>1, <2>6 DEF IsChat
    <3>2. i - Len(log) \in 1..n /\ Len(log) + (i - Len(log)) = i
      BY <1>1, <1>2, <2>1, <3>1
    <3>3. PICK k \in 1..n : i = Len(log) + k
      BY <3>2
    <3>4. rows'[i] = Event("Chat", phase, InSeatOrder(HeldChat)[k])
      BY <2>3, <3>3
    <3>5. p = phase /\ s = InSeatOrder(HeldChat)[k]
      BY <2>6, <3>4 DEF IsChat, Event
    <3> QED
      BY <2>2, <3>3, <3>5
  <2>7. ASSUME NEW s \in Seats, NEW p \in 1..Phases
        PROVE  FiledRow(p, s)'
    <3>1. FiledRow(p, s)
      BY DEF ChatIsFiled, FiledRow
    <3>2. CASE ~(s \in HeldChat /\ p = phase)
      <4>1. \A i \in (Stored + 1)..Stored' : ~ IsChat(i, p, s)'
        BY <2>6, <3>2
      <4> QED
        BY <1>1, <1>4, <3>1, <3>2, <4>1, FiledRowKept
    <3>3. CASE s \in HeldChat /\ p = phase
      <4>1. <<s, p>> \in DOMAIN holds /\ ~MessageReleased(p, s)
        BY <3>3 DEF HeldChat, MessageReleased
      <4>2. ChatRowsOf(p, s) = {}
        BY <3>1, <4>1 DEF FiledRow
      <4>3. PICK m : m = Len(log) + at(s)
        OBVIOUS
      <4>4. holds'[<<s, p>>] = [status |-> "RELEASED", sequence |-> m]
        <5>1. SequenceOf(s, HeldChat) = m
          BY <2>5, <3>3, <4>3
        <5> QED
          BY <1>3, <3>3, <4>1, <5>1
      <4>5. MessageReleased(p, s)' /\ holds'[<<s, p>>].sequence = m
        BY <1>3, <4>1, <4>4 DEF MessageReleased
      <4>6. m \in (Stored + 1)..Stored' /\ rows'[m] = Event("Chat", p, s)
        <5>1. at(s) \in 1..n /\ InSeatOrder(HeldChat)[at(s)] = s
          BY <2>4, <3>3
        <5>2. PICK k \in 1..n : k = at(s)
          BY <5>1
        <5>3. rows'[Len(log) + k] = Event("Chat", phase, s)
          BY <2>3, <5>1, <5>2
        <5>4. m = Len(log) + k
          BY <4>3, <5>2
        <5> QED
          BY <1>1, <1>2, <2>1, <3>3, <5>3, <5>4
      <4>7. m \in 1..Stored' /\ IsChat(m, p, s)'
        BY <1>2, <4>6 DEF IsChat, Event
      <4>8. \A i \in 1..Stored' : IsChat(i, p, s)' => i = m
        <5> SUFFICES ASSUME NEW i \in 1..Stored', IsChat(i, p, s)'
                     PROVE  i = m
          OBVIOUS
        <5>1. i \in 1..Stored \/ i \in (Stored + 1)..Stored'
          BY <1>2
        <5>2. i \notin 1..Stored
          BY <1>1, <1>2, <4>2 DEF ChatRowsOf, IsChat, Grows
        <5> QED
          BY <2>6, <4>3, <5>1, <5>2
      <4>9. ChatRowsOf(p, s)' = {m}
        BY <1>2, <4>7, <4>8 DEF ChatRowsOf, IsChat
      <4>10. Sidecar(<<s, p>>)' = Event("Chat", p, s)
        BY <4>5, <4>6 DEF Sidecar
      <4> QED
        BY <4>5, <4>9, <4>10 DEF FiledRow
    <3> QED
      BY <3>2, <3>3
  <2> QED
    BY <2>7 DEF ChatIsFiled, FiledRow
<1> QED
  BY <1>5, <1>6

\* What is filed stays filed, and nothing else is.
LEMMA ChatStands ==
    ASSUME HumanLaneAssumption, RowsAreChain, LogContinues, ChatIsFiled, RowsStep, HumanNext
    PROVE  ChatIsFiled'
<1>1. CASE Release
  BY <1>1, ReleaseFiles
<1>2. CASE ~Release
  <2>1. Grows /\ Stored \in Nat /\ Stored' \in Nat
    BY RowsGrow
  <2>2. \A i \in (Stored + 1)..Stored' : rows'[i].type # "Chat"
    <3>1. CASE GrowsPlainly
      BY <2>1, <3>1, NewRows DEF PlainTypes
    <3>2. CASE \E s \in Seats : GrowsByTakeover(s)
      <4>1. PICK s : GrowsBy(TakeoverEvent(s))
        BY <3>2 DEF GrowsByTakeover
      <4>2. \A i \in (Stored + 1)..Stored' : rows'[i] = TakeoverEvent(s)
        BY <2>1, <4>1, NewRows
      <4> QED
        BY <4>2 DEF TakeoverEvent, Event
    <3>3. CASE \E s \in DOMAIN answers : GrowsByVote(s)
      <4>1. PICK s : GrowsBy(Vote(phase, s, answers[s]))
        BY <3>3 DEF GrowsByVote
      <4>2. \A i \in (Stored + 1)..Stored' : rows'[i] = Vote(phase, s, answers[s])
        BY <2>1, <4>1, NewRows
      <4> QED
        BY <4>2 DEF Vote
    <3> QED
      BY <1>2, <3>1, <3>2, <3>3 DEF RowsStep
  <2>3. /\ DOMAIN holds \subseteq DOMAIN holds' /\ \A k \in DOMAIN holds : holds'[k] = holds[k]
        /\ \A k \in DOMAIN holds' \ DOMAIN holds : holds'[k].status # "RELEASED"
    <3>1. CASE UNCHANGED holds
      BY <3>1
    <3>2. CASE \E banned \in BOOLEAN, guard \in GuardAnswers : Chat(Review(banned, guard))
      <4>1. PICK v \in {"BLOCKED", "HELD"} : Chat(v)
        BY <3>2 DEF Review
      <4> QED
        BY <4>1 DEF Chat, HeldRow
    <3>3. UNCHANGED holds \/ \E banned \in BOOLEAN, guard \in GuardAnswers : Chat(Review(banned, guard))
      BY <1>2 DEF HumanNext, Tick, Ask, CommitRequest, Look, Act, Boot, ClaimFresh, ClaimResumed,
         Crash, Fault, MarkFailed, PlayStep, humanTables, Answer, Setup, Enter, Snapshot, Scan, Settle,
         Mirror, Submit, Outcome, Resolve, GoOn, EndGame, TakeOver
    <3> QED
      BY <3>1, <3>2, <3>3
  <2>4. ASSUME NEW s \in Seats, NEW p \in 1..Phases
        PROVE  FiledRow(p, s)'
    <3>1. FiledRow(p, s)
      BY DEF ChatIsFiled, FiledRow
    <3>2. MessageReleased(p, s)' = MessageReleased(p, s)
      BY <2>3 DEF MessageReleased
    <3>3. MessageReleased(p, s) => holds'[<<s, p>>] = holds[<<s, p>>]
      BY <2>3 DEF MessageReleased
    <3>4. \A i \in (Stored + 1)..Stored' : ~ IsChat(i, p, s)'
      BY <2>2 DEF IsChat
    <3> QED
      BY <2>1, <3>1, <3>2, <3>3, <3>4, FiledRowKept
  <2> QED
    BY <2>4 DEF ChatIsFiled, FiledRow
<1> QED
  BY <1>1, <1>2

-----------------------------------------------------------------------------
(* The theorems *)

\* A game begins with no rows, no messages and every seat a human's.
LEMMA HumanInvStart ==
    ASSUME HumanLaneAssumption, HumanInit
    PROVE  HumanInv
<1>1. DOMAIN rows = {} /\ Stored = 0
  <2>1. DOMAIN rows = {}
    BY DEF HumanInit
  <2> QED
    BY <2>1, FS_EmptySet DEF Stored
<1>2. RowsAreChain
  BY <1>1 DEF RowsAreChain
<1>3. LogContinues /\ WorkerKnows
  BY <1>1 DEF HumanInit, LogContinues, WorkerKnows, Asleep, Stages
<1>4. Clocked
  BY DEF HumanInit, Clocked, Never, NoRequest
<1>5. SeatsAgree
  BY <1>1 DEF HumanInit, SeatsAgree, TakeoverRows, Asleep
<1>6. AnswersAreTrue
  BY DEF HumanInit, AnswersAreTrue
<1>7. VotesAreTrue
  BY <1>1 DEF VotesAreTrue
<1>8. ChatIsFiled
  <2>1. DOMAIN holds = {}
    BY DEF HumanInit
  <2> QED
    BY <1>1, <2>1 DEF ChatIsFiled, MessageReleased, ChatRowsOf
<1> QED
  BY <1>2, <1>3, <1>4, <1>5, <1>6, <1>7, <1>8 DEF HumanInv

\* Every step keeps the invariant.
LEMMA HumanInvStep ==
    ASSUME HumanLaneAssumption, HumanInv, [HumanNext]_humanVars
    PROVE  HumanInv'
<1>1. CASE HumanNext
  <2>1. RowsStep
    BY <1>1, RowsStand DEF HumanInv
  <2>2. RowsAreChain' /\ LogContinues'
    BY <2>1 DEF RowsStep
  <2>3. WorkerKnows'
    BY <1>1, <2>1, WorkersStand DEF HumanInv
  <2>4. Clocked'
    BY <1>1, ClocksStand DEF HumanInv
  <2>5. SeatsAgree'
    BY <1>1, <2>1, SeatsStand DEF HumanInv
  <2>6. AnswersAreTrue'
    BY <1>1, AnswersStand DEF HumanInv
  <2>7. VotesAreTrue'
    BY <1>1, <2>1, VotesStand DEF HumanInv
  <2>8. ChatIsFiled'
    BY <1>1, <2>1, ChatStands DEF HumanInv
  <2> QED
    BY <2>2, <2>3, <2>4, <2>5, <2>6, <2>7, <2>8 DEF HumanInv
<1>2. CASE UNCHANGED humanVars
  <2>1. /\ UNCHANGED <<now, rows, gameStatus, seatKind, presence, actions, holds, request>>
        /\ UNCHANGED <<stage, resume, phase, log, mux, checked, expired, answers>>
    BY <1>2 DEF humanVars, humanTables, worker
  <2>2. Stored' = Stored
    BY <2>1 DEF Stored
  <2>3. RowsAreChain' /\ LogContinues'
    BY <2>1, <2>2 DEF HumanInv, RowsAreChain, LogContinues
  <2>4. WorkerKnows' /\ Clocked'
    BY <2>1, <2>2 DEF HumanInv, WorkerKnows, Clocked, Waiting
  <2>5. SeatsAgree'
    BY <2>1 DEF HumanInv, SeatsAgree, TakeoverRows
  <2>6. AnswersAreTrue' /\ VotesAreTrue'
    BY <2>1 DEF HumanInv, AnswersAreTrue, VotesAreTrue
  <2>7. ChatIsFiled'
    <3>1. ASSUME NEW s \in Seats, NEW p \in 1..Phases
          PROVE  /\ MessageReleased(p, s)' = MessageReleased(p, s) /\ ChatRowsOf(p, s)' = ChatRowsOf(p, s)
                 /\ Sidecar(<<s, p>>)' = Sidecar(<<s, p>>) /\ UNCHANGED holds
      BY <2>1 DEF MessageReleased, ChatRowsOf, Sidecar
    <3> QED
      BY <3>1 DEF HumanInv, ChatIsFiled
  <2> QED
    BY <2>3, <2>4, <2>5, <2>6, <2>7 DEF HumanInv
<1> QED
  BY <1>1, <1>2

\* The invariant holds of every game: it ties the log that a worker plays to the rows, the
\* rows to the seats, the answers to what was submitted and the messages to their rows.
THEOREM HumanLaneInvariant == HumanLaneSpec => []HumanInv
<1>1. HumanInit => HumanInv
  BY HumanLaneAssumption, HumanInvStart
<1>2. HumanInv /\ [HumanNext]_humanVars => HumanInv'
  BY HumanLaneAssumption, HumanInvStep
<1> QED
  BY <1>1, <1>2, PTL DEF HumanLaneSpec

\* The invariant says what the history shows.
LEMMA HistoryShows ==
    ASSUME HumanInv
    PROVE  HumanHistoryHolds
<1>1. RowsAreChain /\ LogContinues /\ WorkerKnows /\ SeatsAgree /\ VotesAreTrue
  BY DEF HumanInv
<1>2. Stored \in Nat /\ DOMAIN rows = 1..Stored
  BY <1>1 DEF RowsAreChain
<1>3. ASSUME log # <<>>
      PROVE  DOMAIN rows \subseteq DOMAIN log /\ \A i \in DOMAIN rows : rows[i] = log[i]
  <2>1. stage \notin Asleep
    BY <1>1, <1>3 DEF WorkerKnows
  <2>2. IsLog(log) /\ Stored =< Len(log) /\ \A i \in 1..Stored : log[i] = rows[i]
    BY <1>1, <2>1 DEF LogContinues
  <2>3. DOMAIN log = 1..Len(log) /\ Len(log) \in Nat
    BY <2>2, LenProperties DEF IsLog
  <2> QED
    BY <1>2, <2>2, <2>3
<1>4. ASSUME NEW s \in Seats
      PROVE  Cardinality(TakeoverRows(s)) = IF seatKind[s] = "HUMAN" THEN 0 ELSE 1
  <2>1. CASE seatKind[s] = "HUMAN"
    <3>1. TakeoverRows(s) = {}
      BY <1>1, <2>1 DEF SeatsAgree
    <3> QED
      BY <2>1, <3>1, FS_EmptySet
  <2>2. CASE seatKind[s] # "HUMAN"
    <3>1. PICK i : TakeoverRows(s) = {i}
      BY <1>1, <2>2 DEF SeatsAgree
    <3> QED
      BY <2>2, <3>1, FS_Singleton
  <2> QED
    BY <2>1, <2>2
<1> QED
  BY <1>1, <1>2, <1>3, <1>4 DEF HumanHistoryHolds, Stored, TakeoverRows, VotesAreTrue

\* The stored chain has no hole, whenever a worker dies: no failure of a tick, no message and
\* no takeover leaves a sequence number missing (_persist_pending_event_rows,
\* release_held_chat_for_phase, _take_over_expired_human_seats), and the history says of every
\* seat whose it is and for whom it voted.
THEOREM HistoryOfHumanGames == HumanLaneSpec => []HumanHistoryHolds
<1>1. HumanInv => HumanHistoryHolds
  BY HistoryShows
<1> QED
  BY HumanLaneInvariant, <1>1, PTL

\* A message that was released is in the history once, with its text filed under its own
\* event, and one that was not is not (release_held_chat_for_phase).
THEOREM MessagesAreReleasedOnce == HumanLaneSpec => []ChatReleasedOnce
<1>1. ASSUME HumanInv
      PROVE  ChatReleasedOnce
  <2> SUFFICES ASSUME NEW s \in Seats, NEW p \in 1..Phases
               PROVE  IF MessageReleased(p, s)
                      THEN /\ Count(rows, "Chat", p, s) = 1
                           /\ holds[<<s, p>>].sequence \in DOMAIN rows
                           /\ Sidecar(<<s, p>>) = Event("Chat", p, s)
                      ELSE Count(rows, "Chat", p, s) = 0
    BY DEF ChatReleasedOnce, MessageReleased
  <2>1. Count(rows, "Chat", p, s) = Cardinality(ChatRowsOf(p, s))
    BY DEF Count, ChatRowsOf
  <2>2. IF MessageReleased(p, s) THEN /\ ChatRowsOf(p, s) = {holds[<<s, p>>].sequence}
                               /\ Sidecar(<<s, p>>) = Event("Chat", p, s)
        ELSE ChatRowsOf(p, s) = {}
    BY <1>1 DEF HumanInv, ChatIsFiled
  <2>3. CASE MessageReleased(p, s)
    <3>1. Cardinality(ChatRowsOf(p, s)) = 1
      BY <2>2, <2>3, FS_Singleton
    <3>2. holds[<<s, p>>].sequence \in DOMAIN rows
      BY <2>2, <2>3 DEF ChatRowsOf
    <3> QED
      BY <2>1, <2>2, <2>3, <3>1, <3>2
  <2>4. CASE ~MessageReleased(p, s)
    BY <2>1, <2>2, <2>4, FS_EmptySet
  <2> QED
    BY <2>3, <2>4
<1> QED
  BY HumanLaneInvariant, <1>1, PTL

\* A step that takes a seat from a human finds the last stored heartbeat older than the grace
\* period, by the clock of that step and not only by that of the scan
\* (_expired_human_seat_for_update).
LEMMA TakenSeatsWereExpired ==
    ASSUME HumanLaneAssumption, HumanInv, [HumanNext]_humanVars, NEW s \in Seats, seatKind'[s] # seatKind[s]
    PROVE  PastGrace(s, now)
<1>1. HumanNext
  BY DEF humanVars, humanTables
<1>2. Clocked /\ SeatsAgree
  BY DEF HumanInv
<1>3. PICK t \in Seats : TakeOver(t)
  BY <1>1 DEF HumanNext, Tick, Ask, CommitRequest, Look, Act, Chat, Answered, Boot, ClaimFresh, ClaimResumed,
         Crash, Fault, MarkFailed, PlayStep, humanTables, Working, Answer, Setup, Enter, Snapshot, Scan, Settle,
         Release, Mirror, Submit, Outcome, Resolve, GoOn, EndGame
<1>4. StillExpired(t) /\ seatKind' = [seatKind EXCEPT ![t] = "AI_TAKEOVER"]
  BY <1>3 DEF TakeOver, ApplyTakeover
<1>5. s = t /\ PastGrace(s, checked)
  BY <1>2, <1>4 DEF SeatsAgree, StillExpired
<1>6. Grace \in Nat /\ now \in Nat /\ checked \in Int /\ checked =< now /\ presence[s] \in Int
  BY <1>2 DEF Clocked, HumanLaneAssumption
<1>7. presence[s] # Never /\ presence[s] < checked - Grace
  BY <1>5, <1>6 DEF PastGrace, DisconnectedAt
<1> QED
  BY <1>6, <1>7 DEF PastGrace, DisconnectedAt

\* A human whose heartbeat is stored and young enough keeps the seat, whatever the scan saw.
THEOREM HumansWithinGraceKeepTheirSeats == HumanLaneSpec => LiveHumansKeepTheirSeats
<1>1. HumanInv /\ [HumanNext]_humanVars
        => [\A s \in Seats : seatKind'[s] # seatKind[s] => PastGrace(s, now)]_humanVars
  BY HumanLaneAssumption, TakenSeatsWereExpired
<1> QED
  BY HumanLaneInvariant, <1>1, PTL DEF HumanLaneSpec, LiveHumansKeepTheirSeats

-----------------------------------------------------------------------------
(* Lobbies: the tables *)

Born(l) == lobby[l].status # "UNBORN"

GameRows == [lobby : LobbyIds, occupant : Principals \cup {NoOne}, by : Principals, nth : Nat]

\* What the tables hold.  LobbyTypeOK also bounds what has been spent, which needs the sum that
\* Spend folds.
LobbyTables ==
    /\ lobby \in [LobbyIds -> LobbyRows]
    /\ DOMAIN members = LobbyIds
    /\ \A l \in LobbyIds : DOMAIN members[l] \subseteq Principals
    /\ claims \subseteq CountSlots \cup DollarSlots /\ IsFiniteSet(claims)
    /\ launches \subseteq GameRows /\ IsFiniteSet(launches)
    /\ begun \subseteq [who : Principals, lobby : LobbyIds, op : Request, row : LobbyRows]
    /\ raced \subseteq LobbyIds /\ handed \subseteq LobbyIds

\* A lobby that has not been created has no row to load and no members.
NothingUnborn ==
    /\ \A l \in LobbyIds : ~Born(l) => lobby[l] = Unborn /\ DOMAIN members[l] = {}
    /\ \A r \in begun : Born(r.lobby)

\* Whoever made a lobby is its host and has its HUMAN seat until another is made host.
MakerKeepsSeat ==
    \A l \in LobbyIds \ handed : Born(l) =>
        lobby[l].host \in Principals /\ lobby[l].seat = lobby[l].host

SeatsAreTaken ==
    \A g \in launches : g.lobby \notin handed => g.occupant \in Principals

\* LaunchedOnce without cardinalities
OneGame ==
    \A l \in LobbyIds \ raced :
        /\ \A g, h \in launches : g.lobby = l /\ h.lobby = l => g = h
        /\ (\E g \in launches : g.lobby = l) <=> lobby[l].status = "LAUNCHED"

\* The first half of SlotsFollowLobbies
Follow(l) ==
    /\ lobby[l].status = "CLOSED" => OfLobby(l) = {}
    /\ lobby[l].status = "LAUNCHED" =>
          \A c \in OfLobby(l) :
             c.kind = "game" /\ \E g \in launches : g.lobby = l /\ g.by = c.who
    /\ \A c \in OfLobby(l) : c.who \in DOMAIN members[l]

SlotsFollow == \A l \in LobbyIds \ raced : Follow(l)

\* The games that a human launched for himself
OwnGames(p) == {g \in launches : g.by = p /\ g.occupant = p}

WithinCap == \A p \in Principals : Cardinality(OwnGames(p)) =< GameCap

LobbyInv ==
    /\ LobbyTables
    /\ NothingUnborn
    /\ MakerKeepsSeat
    /\ SeatsAreTaken
    /\ OneGame
    /\ SlotsFollow
    /\ WithinCap

-----------------------------------------------------------------------------
(* Lobbies: admission *)

\* The slots of one decision are three rows.
LEMMA SlotsTyped ==
    ASSUME NEW p \in Principals, NEW action, NEW l \in LobbyIds
    PROVE  /\ IsFiniteSet(Slots(p, action, l))
           /\ Slots(p, action, l) \subseteq CountSlots \cup DollarSlots
           /\ \A c \in Slots(p, action, l) : c.who = p /\ c.lobby = l
<1> DEFINE kinds == {"global", "dollars", IF action = "join" THEN "join" ELSE "game"}
           Row(k) == [who |-> p, kind |-> k, lobby |-> l]
<1>1. Slots(p, action, l) = {Row("global")} \cup {Row("dollars")}
                            \cup {Row(IF action = "join" THEN "join" ELSE "game")}
  BY DEF Slots
<1>2. IsFiniteSet(Slots(p, action, l))
  <2>1. \A k : IsFiniteSet({Row(k)})
    BY FS_Singleton
  <2> DEFINE A == {Row("global")}
             B == {Row("dollars")}
             D == {Row(IF action = "join" THEN "join" ELSE "game")}
  <2>2. IsFiniteSet(A) /\ IsFiniteSet(B) /\ IsFiniteSet(D) /\ Slots(p, action, l) = (A \cup B) \cup D
    BY <1>1, <2>1
  <2> HIDE DEF A, B, D
  <2>3. IsFiniteSet(A \cup B)
    BY <2>2, FS_Union
  <2>4. IsFiniteSet((A \cup B) \cup D)
    BY <2>2, <2>3, FS_Union
  <2> QED
    BY <2>2, <2>4
<1>3. \A c \in Slots(p, action, l) : c.who = p /\ c.lobby = l
  BY <1>1
<1>4. Slots(p, action, l) \subseteq CountSlots \cup DollarSlots
  BY <1>1 DEF CountSlots, DollarSlots
<1> QED
  BY <1>2, <1>3, <1>4

\* Whoever is admitted to a game is in fewer games today than the cap allows.
LEMMA AdmittedBelowCap ==
    ASSUME NEW p \in Principals, NEW table, IsFiniteSet(table), IsFiniteSet(launches),
           Admits(p, "launch", table)
    PROVE  GamesToday(p) \in Nat /\ GamesToday(p) < GameCap
<1>1. GamesToday(p) + Cardinality(Held(p, "game", table)) < GameCap
  BY DEF Admits, HasRoom
<1>2. Cardinality(Held(p, "game", table)) \in Nat
  BY FS_Subset, FS_CardinalityType DEF Held
<1>3. GamesToday(p) \in Nat
  BY FS_Subset, FS_CardinalityType DEF GamesToday
<1> QED
  BY <1>1, <1>2, <1>3, LobbyAssumption

\* So the launch that follows leaves him within the cap, and everyone else where he was.
LEMMA LaunchWithinCap ==
    ASSUME IsFiniteSet(launches), WithinCap,
           NEW p \in Principals, NEW g, g.by = p, launches' = launches \cup {g},
           GamesToday(p) < GameCap
    PROVE  WithinCap'
<1> USE LobbyAssumption
<1> SUFFICES ASSUME NEW q \in Principals
             PROVE  Cardinality(OwnGames(q)') =< GameCap
  BY DEF WithinCap
<1>1. CASE q # p
  <2>1. OwnGames(q)' = OwnGames(q)
    BY <1>1 DEF OwnGames
  <2> QED
    BY <2>1 DEF WithinCap
<1>2. CASE q = p
  <2> DEFINE Mine == OwnGames(p)
             Today == {h \in launches : h.occupant = p}
  <2>1. OwnGames(q)' \subseteq Mine \cup {g}
    BY <1>2 DEF OwnGames
  <2>2. IsFiniteSet(Mine) /\ IsFiniteSet(Today)
    BY FS_Subset DEF OwnGames
  <2>3. Cardinality(Mine) =< Cardinality(Today)
    BY <2>2, FS_Subset DEF OwnGames
  <2>4. Cardinality(Mine) \in Nat /\ Cardinality(Today) \in Nat
    BY <2>2, FS_CardinalityType
  <2>5. Cardinality(Mine) < GameCap
    <3>1. Cardinality(Today) < GameCap
      BY DEF GamesToday
    <3> HIDE DEF Mine, Today
    <3> QED
      BY <2>3, <2>4, <3>1
  <2> HIDE DEF Mine
  <2>6. /\ IsFiniteSet(Mine \cup {g})
        /\ Cardinality(Mine \cup {g}) = IF g \in Mine THEN Cardinality(Mine) ELSE Cardinality(Mine) + 1
    BY <2>2, FS_AddElement
  <2>7. IsFiniteSet(OwnGames(q)') /\ Cardinality(OwnGames(q)') =< Cardinality(Mine \cup {g})
    BY <2>1, <2>6, FS_Subset
  <2>8. Cardinality(OwnGames(q)') \in Nat
    BY <2>7, FS_CardinalityType
  <2> QED
    BY <2>4, <2>5, <2>6, <2>7, <2>8
<1> QED
  BY <1>1, <1>2

\* A launched game's row
LEMMA NewGameTyped ==
    ASSUME IsFiniteSet(launches), NEW p \in Principals, NEW l \in LobbyIds,
           NEW seat \in Principals \cup {NoOne}
    PROVE  /\ NewGame(p, l, seat) \in GameRows
           /\ NewGame(p, l, seat).lobby = l
           /\ NewGame(p, l, seat).by = p
           /\ NewGame(p, l, seat).occupant = seat
<1>1. Cardinality({g \in launches : g.lobby = l}) \in Nat
  BY FS_Subset, FS_CardinalityType
<1> QED
  BY <1>1 DEF NewGame, GameRows

-----------------------------------------------------------------------------
(* Lobbies: the steps *)

\* A request commits, with the row that it loaded: at once, or after others.
Commit(p, l, row) ==
    /\ \/ begun' = begun /\ row = lobby[l]
       \/ \E r \in begun : begun' = begun \ {r} /\ r.who = p /\ r.lobby = l /\ r.row = row
    /\ JoinWith(p, l, row) \/ LaunchWith(p, l, row) \/ ReconcileWith(l, row)

\* Every step is a creation, a commit, a member's request, one that begins or is given up, or
\* time and money.
LEMMA StepKinds ==
    ASSUME LobbyNext, LobbyTables
    PROVE  \/ \E l \in LobbyIds, p \in Principals : Create(p, l) \/ SoloMatch(p, l)
           \/ \E l \in LobbyIds, p \in Principals, row \in LobbyRows : Commit(p, l, row)
           \/ \E l \in LobbyIds, p \in Principals : Touch(p, l) \/ Lock(p, l) \/ GoQuiet(p, l)
           \/ \E l \in LobbyIds, p \in Principals, other \in Principals :
                 Kick(p, l, other) \/ Transfer(p, l, other)
           \/ \E l \in LobbyIds, p \in Principals, op \in Request : Begin(p, l, op)
           \/ \E r \in begun : Abandon(r)
           \/ \E l \in LobbyIds : Idle(l) \/ Charge(l)
<1>1. ASSUME NEW l \in LobbyIds, NEW p \in Principals, AtOnce(p, l)
      PROVE  \E row \in LobbyRows : Commit(p, l, row)
  <2>1. lobby[l] \in LobbyRows
    BY DEF LobbyTables
  <2> QED
    BY <1>1, <2>1 DEF AtOnce, Commit
<1>2. ASSUME NEW r \in begun, Finish(r)
      PROVE  \E l \in LobbyIds, p \in Principals, row \in LobbyRows : Commit(p, l, row)
  <2>1. r.who \in Principals /\ r.lobby \in LobbyIds /\ r.row \in LobbyRows
    BY DEF LobbyTables
  <2>2. Commit(r.who, r.lobby, r.row)
    BY <1>2 DEF Finish, Commit
  <2> QED
    BY <2>1, <2>2
<1> QED
  BY <1>1, <1>2 DEF LobbyNext

\* What a commit may do to a lobby, whatever row it loaded; a commit over a row that has
\* changed marks it as raced.
LEMMA CommitIsCurrent ==
    ASSUME NEW p, NEW l \in LobbyIds, NEW row, Commit(p, l, row)
    PROVE  /\ raced \subseteq raced'
           /\ l \notin raced' => row = lobby[l]
           /\ raced' \subseteq raced \cup {l}
           /\ handed' = handed /\ spent' = spent
           /\ begun' \subseteq begun
  BY DEF Commit, JoinWith, LaunchWith, ReconcileWith, Commits

\* The tables keep their types, and slots and games stay finitely many.
LEMMA TablesStep ==
    ASSUME LobbyTables, [LobbyNext]_lobbyVars
    PROVE  LobbyTables'
<1> USE LobbyAssumption
<1> DEFINE Rows == [who : Principals, lobby : LobbyIds, op : Request, row : LobbyRows]
<1>1. CASE UNCHANGED lobbyVars
  BY <1>1 DEF lobbyVars, LobbyTables
<1>2. ASSUME NEW l \in LobbyIds, NEW p \in Principals, Create(p, l) \/ SoloMatch(p, l)
      PROVE  LobbyTables'
  <2>1. lobby' \in [LobbyIds -> LobbyRows]
    <3>1. \A status \in {"OPEN", "LAUNCHED"}, b \in BOOLEAN :
             [status |-> status, host |-> p, active |-> TRUE, game |-> b, seat |-> p] \in LobbyRows
      BY DEF LobbyRows
    <3>2. CASE Create(p, l)
      BY <3>1, <3>2 DEF Create, LobbyTables
    <3>3. CASE SoloMatch(p, l)
      BY <3>1, <3>3 DEF SoloMatch, LobbyTables
    <3> QED
      BY <1>2, <3>2, <3>3
  <2>2. /\ DOMAIN members' = LobbyIds
        /\ \A k \in LobbyIds : DOMAIN members'[k] \subseteq Principals
    <3>1. members' = [members EXCEPT ![l] = [x \in {p} |-> "present"]]
      BY <1>2 DEF Create, SoloMatch
    <3>2. DOMAIN members' = LobbyIds /\ DOMAIN members'[l] = {p}
      BY <3>1 DEF LobbyTables
    <3>3. \A k \in LobbyIds \ {l} : members'[k] = members[k]
      BY <3>1 DEF LobbyTables
    <3> QED
      BY <3>2, <3>3 DEF LobbyTables
  <2>3. claims' \subseteq claims \cup Slots(p, "create", l) \cup Slots(p, "launch", l)
    BY <1>2 DEF Create, SoloMatch
  <2>4. IsFiniteSet(claims \cup Slots(p, "create", l) \cup Slots(p, "launch", l))
    BY SlotsTyped, FS_Union DEF LobbyTables
  <2>5. IsFiniteSet(claims') /\ claims' \subseteq CountSlots \cup DollarSlots
    BY <2>3, <2>4, SlotsTyped, FS_Subset DEF LobbyTables
  <2>6. launches' \subseteq GameRows /\ IsFiniteSet(launches')
    <3>1. NewGame(p, l, p) \in GameRows
      BY NewGameTyped DEF LobbyTables
    <3>2. launches' = launches \/ launches' = launches \cup {NewGame(p, l, p)}
      BY <1>2 DEF Create, SoloMatch
    <3> QED
      BY <3>1, <3>2, FS_AddElement DEF LobbyTables
  <2> QED
    BY <1>2, <2>1, <2>2, <2>5, <2>6 DEF Create, SoloMatch, LobbyTables
<1>3. ASSUME NEW l \in LobbyIds, NEW p \in Principals, NEW row \in LobbyRows, Commit(p, l, row)
      PROVE  LobbyTables'
  <2>1. CASE JoinWith(p, l, row)
    <3>1. lobby' \in [LobbyIds -> LobbyRows]
      <4>1. \A r \in LobbyRows : [r EXCEPT !.active = TRUE] \in LobbyRows
        BY DEF LobbyRows
      <4> QED
        BY <2>1, <4>1 DEF JoinWith, LobbyTables
    <3>2. /\ DOMAIN members' = LobbyIds
          /\ \A k \in LobbyIds : DOMAIN members'[k] \subseteq Principals
      BY <2>1 DEF JoinWith, LobbyTables
    <3>3. IsFiniteSet(claims') /\ claims' \subseteq CountSlots \cup DollarSlots
      BY <2>1, SlotsTyped, FS_Union DEF JoinWith, LobbyTables
    <3> QED
      BY <1>3, <2>1, <3>1, <3>2, <3>3, CommitIsCurrent DEF JoinWith, LobbyTables
  <2>2. CASE LaunchWith(p, l, row)
    <3>1. lobby' \in [LobbyIds -> LobbyRows]
      <4>1. \A r \in LobbyRows :
               [r EXCEPT !.status = "LAUNCHED", !.game = TRUE] \in LobbyRows
        BY DEF LobbyRows
      <4>2. CASE lobby' = lobby
        BY <4>2 DEF LobbyTables
      <4>3. CASE lobby' = [lobby EXCEPT ![l].status = "LAUNCHED", ![l].game = TRUE]
        BY <4>1, <4>3 DEF LobbyTables
      <4> QED
        BY <2>2, <4>2, <4>3 DEF LaunchWith
    <3>2. claims' \subseteq claims \cup Slots(p, "launch", l)
      BY <2>2 DEF LaunchWith
    <3>3. IsFiniteSet(claims') /\ claims' \subseteq CountSlots \cup DollarSlots
      <4>1. IsFiniteSet(claims) /\ claims \subseteq CountSlots \cup DollarSlots
        BY DEF LobbyTables
      <4>2. /\ IsFiniteSet(Slots(p, "launch", l))
            /\ Slots(p, "launch", l) \subseteq CountSlots \cup DollarSlots
        BY SlotsTyped
      <4>3. IsFiniteSet(claims \cup Slots(p, "launch", l))
        BY <4>1, <4>2, FS_Union
      <4> QED
        BY <3>2, <4>1, <4>2, <4>3, FS_Subset
    <3>4. lobby[l].seat \in Principals \cup {NoOne}
      BY DEF LobbyTables, LobbyRows
    <3>5. launches' \subseteq GameRows /\ IsFiniteSet(launches')
      <4>1. CASE launches' = launches
        BY <4>1 DEF LobbyTables
      <4>2. CASE launches' = launches \cup {NewGame(p, l, lobby[l].seat)}
        <5>1. NewGame(p, l, lobby[l].seat) \in GameRows
          BY <3>4, NewGameTyped DEF LobbyTables
        <5> QED
          BY <4>2, <5>1, FS_AddElement DEF LobbyTables
      <4> QED
        BY <2>2, <4>1, <4>2 DEF LaunchWith
    <3> QED
      BY <1>3, <2>2, <3>1, <3>3, <3>5, CommitIsCurrent DEF LaunchWith, LobbyTables
  <2>3. CASE ReconcileWith(l, row)
    <3>1. lobby' \in [LobbyIds -> LobbyRows]
      <4>1. \A r \in LobbyRows :
               /\ [r EXCEPT !.status = "CLOSED", !.active = TRUE] \in LobbyRows
               /\ [r EXCEPT !.seat = NoOne] \in LobbyRows
               /\ [r EXCEPT !.seat = r.seat] \in LobbyRows
        BY DEF LobbyRows
      <4>2. CASE lobby' = [lobby EXCEPT ![l].status = "CLOSED", ![l].active = TRUE]
        BY <4>1, <4>2 DEF LobbyTables
      <4>3. CASE lobby' = WithoutMembers(l, Evicted(l))
        BY <4>1, <4>3 DEF WithoutMembers, LobbyTables
      <4> QED
        BY <2>3, <4>2, <4>3 DEF ReconcileWith
    <3>2. /\ DOMAIN members' = LobbyIds
          /\ \A k \in LobbyIds : DOMAIN members'[k] \subseteq Principals
      BY <2>3 DEF ReconcileWith, Keep, LobbyTables
    <3>3. claims' \subseteq claims
      BY <2>3 DEF ReconcileWith, Released
    <3>4. IsFiniteSet(claims')
      BY <3>3, FS_Subset DEF LobbyTables
    <3>5. raced' \subseteq LobbyIds /\ begun' \subseteq Rows
      <4>1. raced' \subseteq raced \cup {l} /\ begun' \subseteq begun
        BY <1>3, CommitIsCurrent
      <4> QED
        BY <4>1 DEF LobbyTables
    <3>6. UNCHANGED <<launches, handed>>
      BY <2>3 DEF ReconcileWith
    <3> QED
      BY <3>1, <3>2, <3>3, <3>4, <3>5, <3>6 DEF LobbyTables
  <2> QED
    BY <1>3, <2>1, <2>2, <2>3 DEF Commit
<1>4. ASSUME NEW l \in LobbyIds, NEW p \in Principals, Touch(p, l) \/ Lock(p, l) \/ GoQuiet(p, l)
      PROVE  LobbyTables'
  <2>1. \A r \in LobbyRows :
           /\ [r EXCEPT !.active = TRUE] \in LobbyRows
           /\ [r EXCEPT !.status = "LOCKED", !.active = TRUE] \in LobbyRows
    BY DEF LobbyRows
  <2>2. lobby' \in [LobbyIds -> LobbyRows]
    <3>1. CASE Touch(p, l)
      BY <2>1, <3>1 DEF Touch, LobbyTables
    <3>2. CASE Lock(p, l)
      BY <2>1, <3>2 DEF Lock, LobbyTables
    <3>3. CASE GoQuiet(p, l)
      BY <3>3 DEF GoQuiet, LobbyTables
    <3> QED
      BY <1>4, <3>1, <3>2, <3>3
  <2>3. /\ DOMAIN members' = LobbyIds
        /\ \A k \in LobbyIds : DOMAIN members'[k] \subseteq Principals
    BY <1>4 DEF Touch, Lock, GoQuiet, LobbyTables
  <2> QED
    BY <1>4, <2>2, <2>3 DEF Touch, Lock, GoQuiet, LobbyTables
<1>5. ASSUME NEW l \in LobbyIds, NEW p \in Principals, NEW other \in Principals,
             Kick(p, l, other) \/ Transfer(p, l, other)
      PROVE  LobbyTables'
  <2>1. \A r \in LobbyRows :
           /\ [r EXCEPT !.active = TRUE] \in LobbyRows
           /\ [r EXCEPT !.seat = NoOne] \in LobbyRows
           /\ [r EXCEPT !.seat = r.seat] \in LobbyRows
           /\ [r EXCEPT !.host = other, !.active = TRUE] \in LobbyRows
    BY DEF LobbyRows
  <2>2. lobby' \in [LobbyIds -> LobbyRows]
    <3>1. CASE Kick(p, l, other)
      <4>1. WithoutMembers(l, {other}) \in [LobbyIds -> LobbyRows]
        BY <2>1 DEF WithoutMembers, LobbyTables
      <4> QED
        BY <2>1, <3>1, <4>1 DEF Kick
    <3>2. CASE Transfer(p, l, other)
      BY <2>1, <3>2 DEF Transfer, LobbyTables
    <3> QED
      BY <1>5, <3>1, <3>2
  <2>3. /\ DOMAIN members' = LobbyIds
        /\ \A k \in LobbyIds : DOMAIN members'[k] \subseteq Principals
    BY <1>5 DEF Kick, Transfer, Keep, LobbyTables
  <2>4. claims' \subseteq claims
    BY <1>5 DEF Kick, Transfer
  <2>5. IsFiniteSet(claims')
    BY <2>4, FS_Subset DEF LobbyTables
  <2> QED
    BY <1>5, <2>2, <2>3, <2>4, <2>5 DEF Kick, Transfer, LobbyTables
<1>6. ASSUME NEW l \in LobbyIds, NEW p \in Principals, NEW op \in Request, Begin(p, l, op)
      PROVE  LobbyTables'
  <2>1. begun' \subseteq Rows
    BY <1>6 DEF Begin, LobbyTables
  <2> QED
    BY <1>6, <2>1 DEF Begin, LobbyTables
<1>7. ASSUME NEW r \in begun, Abandon(r)
      PROVE  LobbyTables'
  BY <1>7 DEF Abandon, LobbyTables
<1>8. ASSUME NEW l \in LobbyIds, Idle(l) \/ Charge(l)
      PROVE  LobbyTables'
  <2>1. \A r \in LobbyRows : [r EXCEPT !.active = FALSE] \in LobbyRows
    BY DEF LobbyRows
  <2>2. lobby' \in [LobbyIds -> LobbyRows]
    BY <1>8, <2>1 DEF Idle, Charge, LobbyTables
  <2> QED
    BY <1>8, <2>2 DEF Idle, Charge, LobbyTables
<1> QED
  BY <1>1, <1>2, <1>3, <1>4, <1>5, <1>6, <1>7, <1>8, StepKinds

\* A lobby is created once, whole, and nothing can happen to it before: requests are begun
\* only in lobbies that exist.
LEMMA UnbornStep ==
    ASSUME LobbyTables, NothingUnborn, [LobbyNext]_lobbyVars
    PROVE  NothingUnborn'
<1> USE LobbyAssumption
<1> USE DEF Born
<1>1. CASE UNCHANGED lobbyVars
  BY <1>1 DEF lobbyVars, NothingUnborn
<1>2. ASSUME NEW l \in LobbyIds,
             \A k \in LobbyIds \ {l} : lobby'[k] = lobby[k] /\ members'[k] = members[k],
             lobby'[l].status # "UNBORN",
             begun' \subseteq begun
      PROVE  NothingUnborn'
  BY <1>2 DEF NothingUnborn, LobbyTables
<1>3. ASSUME NEW l \in LobbyIds, NEW p \in Principals, Create(p, l) \/ SoloMatch(p, l)
      PROVE  NothingUnborn'
  BY <1>2, <1>3 DEF Create, SoloMatch, LobbyTables
<1>4. ASSUME NEW l \in LobbyIds, NEW p \in Principals, NEW row \in LobbyRows, Commit(p, l, row)
      PROVE  NothingUnborn'
  <2>1. begun' \subseteq begun /\ Born(l)
    <3>1. CASE begun' = begun /\ row = lobby[l]
      <4>1. ~(row = Unborn)
        BY <1>4 DEF Commit, JoinWith, LaunchWith, ReconcileWith, Unborn
      <4> QED
        BY <3>1, <4>1 DEF NothingUnborn
    <3>2. ASSUME NEW r \in begun, begun' = begun \ {r}, r.lobby = l
          PROVE  begun' \subseteq begun /\ Born(l)
      BY <3>2 DEF NothingUnborn
    <3> QED
      BY <1>4, <3>1, <3>2 DEF Commit
  <2>2. \A k \in LobbyIds \ {l} : lobby'[k] = lobby[k] /\ members'[k] = members[k]
    BY <1>4 DEF Commit, JoinWith, LaunchWith, ReconcileWith, WithoutMembers, Keep, LobbyTables
  <2>3. lobby'[l].status \in {lobby[l].status, "LAUNCHED", "CLOSED"}
    BY <1>4
    DEF Commit, JoinWith, LaunchWith, ReconcileWith, WithoutMembers, LobbyTables, LobbyRows
  <2> QED
    BY <1>2, <2>1, <2>2, <2>3
<1>5. ASSUME NEW l \in LobbyIds, NEW p \in Principals, Touch(p, l) \/ Lock(p, l) \/ GoQuiet(p, l)
      PROVE  NothingUnborn'
  <2>1. Born(l)
    BY <1>5 DEF Touch, Lock, GoQuiet, Hosts, NothingUnborn
  <2>2. lobby'[l].status \in {lobby[l].status, "LOCKED"}
    BY <1>5 DEF Touch, Lock, GoQuiet, LobbyTables, LobbyRows
  <2> QED
    BY <1>2, <1>5, <2>1, <2>2 DEF Touch, Lock, GoQuiet, LobbyTables
<1>6. ASSUME NEW l \in LobbyIds, NEW p \in Principals, NEW other \in Principals,
             Kick(p, l, other) \/ Transfer(p, l, other)
      PROVE  NothingUnborn'
  <2>1. Born(l)
    BY <1>6 DEF Kick, Transfer, Hosts, NothingUnborn
  <2>2. lobby'[l].status = lobby[l].status
    BY <1>6 DEF Kick, Transfer, WithoutMembers, LobbyTables, LobbyRows
  <2> QED
    BY <1>2, <1>6, <2>1, <2>2 DEF Kick, Transfer, WithoutMembers, Keep, LobbyTables
<1>7. ASSUME NEW l \in LobbyIds, NEW p \in Principals, NEW op \in Request, Begin(p, l, op)
      PROVE  NothingUnborn'
  BY <1>7 DEF Begin, NothingUnborn
<1>8. ASSUME NEW r \in begun, Abandon(r)
      PROVE  NothingUnborn'
  BY <1>8 DEF Abandon, NothingUnborn
<1>9. ASSUME NEW l \in LobbyIds, Idle(l) \/ Charge(l)
      PROVE  NothingUnborn'
  <2>1. CASE Charge(l)
    BY <2>1 DEF Charge, NothingUnborn
  <2>2. CASE Idle(l)
    BY <1>2, <2>2 DEF Idle, LobbyTables, LobbyRows
  <2> QED
    BY <1>9, <2>1, <2>2
<1> QED
  BY <1>1, <1>3, <1>4, <1>5, <1>6, <1>7, <1>8, <1>9, StepKinds

\* Evictions spare the host and kicks are the host's: until a lobby is handed over, its maker
\* keeps the HUMAN seat, and so the seat of every game that is launched from it is taken.
LEMMA SeatStep ==
    ASSUME LobbyTables, NothingUnborn, MakerKeepsSeat, SeatsAreTaken, [LobbyNext]_lobbyVars
    PROVE  MakerKeepsSeat' /\ SeatsAreTaken'
<1> USE LobbyAssumption
<1> USE DEF Born
<1>1. ASSUME UNCHANGED launches, handed \subseteq handed',
             NEW l \in LobbyIds,
             \A k \in LobbyIds \ {l} : lobby'[k] = lobby[k],
             l \notin handed' => lobby'[l].host \in Principals /\ lobby'[l].seat = lobby'[l].host
      PROVE  MakerKeepsSeat' /\ SeatsAreTaken'
  BY <1>1 DEF MakerKeepsSeat, SeatsAreTaken
<1>2. ASSUME UNCHANGED <<lobby, launches, handed>>
      PROVE  MakerKeepsSeat' /\ SeatsAreTaken'
  BY <1>2 DEF MakerKeepsSeat, SeatsAreTaken
<1>3. ASSUME NEW l \in LobbyIds, NEW p \in Principals, Create(p, l) \/ SoloMatch(p, l)
      PROVE  MakerKeepsSeat' /\ SeatsAreTaken'
  <2>1. MakerKeepsSeat'
    BY <1>3 DEF Create, SoloMatch, MakerKeepsSeat, LobbyTables
  <2>2. SeatsAreTaken'
    BY <1>3, NewGameTyped DEF Create, SoloMatch, SeatsAreTaken, LobbyTables
  <2> QED
    BY <2>1, <2>2
<1>4. ASSUME NEW l \in LobbyIds, NEW p \in Principals, NEW row \in LobbyRows, Commit(p, l, row)
      PROVE  MakerKeepsSeat' /\ SeatsAreTaken'
  <2>1. Born(l)
    BY <1>4 DEF Commit, NothingUnborn, JoinWith, LaunchWith, ReconcileWith, Unborn
  <2>2. l \notin handed => lobby[l].host \in Principals /\ lobby[l].seat = lobby[l].host
    BY <2>1 DEF MakerKeepsSeat
  <2>3. handed' = handed
    BY <1>4, CommitIsCurrent
  <2>4. \A k \in LobbyIds \ {l} : lobby'[k] = lobby[k]
    BY <1>4 DEF Commit, JoinWith, LaunchWith, ReconcileWith, WithoutMembers, LobbyTables
  <2>5. l \notin handed => lobby'[l].host = lobby[l].host /\ lobby'[l].seat = lobby[l].seat
    <3>1. CASE JoinWith(p, l, row)
      BY <3>1 DEF JoinWith, LobbyTables, LobbyRows
    <3>2. CASE LaunchWith(p, l, row)
      BY <3>2 DEF LaunchWith, LobbyTables, LobbyRows
    <3>3. CASE ReconcileWith(l, row)
      BY <2>2, <3>3 DEF ReconcileWith, WithoutMembers, Evicted, LobbyTables, LobbyRows
    <3> QED
      BY <1>4, <3>1, <3>2, <3>3 DEF Commit
  <2>6. MakerKeepsSeat'
    BY <2>2, <2>3, <2>4, <2>5 DEF MakerKeepsSeat
  <2>7. launches' \subseteq launches \cup {NewGame(p, l, lobby[l].seat)}
    BY <1>4 DEF Commit, JoinWith, LaunchWith, ReconcileWith
  <2>8. lobby[l].seat \in Principals \cup {NoOne}
    BY DEF LobbyTables, LobbyRows
  <2>9. SeatsAreTaken'
    <3> SUFFICES ASSUME NEW g \in launches', g.lobby \notin handed
                 PROVE  g.occupant \in Principals
      BY <2>3 DEF SeatsAreTaken
    <3>1. CASE g \in launches
      BY <3>1 DEF SeatsAreTaken
    <3>2. CASE g = NewGame(p, l, lobby[l].seat)
      BY <2>2, <2>8, <3>2 DEF NewGame
    <3> QED
      BY <2>7, <3>1, <3>2
  <2> QED
    BY <2>6, <2>9
<1>5. ASSUME NEW l \in LobbyIds, NEW p \in Principals, Touch(p, l) \/ Lock(p, l) \/ GoQuiet(p, l)
      PROVE  MakerKeepsSeat' /\ SeatsAreTaken'
  <2>1. Born(l) /\ UNCHANGED <<launches, handed>>
    BY <1>5 DEF Touch, Lock, GoQuiet, Hosts, NothingUnborn
  <2>2. lobby'[l].host = lobby[l].host /\ lobby'[l].seat = lobby[l].seat
    BY <1>5 DEF Touch, Lock, GoQuiet, LobbyTables, LobbyRows
  <2>3. \A k \in LobbyIds \ {l} : lobby'[k] = lobby[k]
    BY <1>5 DEF Touch, Lock, GoQuiet, LobbyTables
  <2> QED
    BY <1>1, <2>1, <2>2, <2>3 DEF MakerKeepsSeat
<1>6. ASSUME NEW l \in LobbyIds, NEW p \in Principals, NEW other \in Principals,
             Kick(p, l, other)
      PROVE  MakerKeepsSeat' /\ SeatsAreTaken'
  <2>1. Born(l) /\ lobby[l].host = p /\ other # p /\ UNCHANGED <<launches, handed>>
    BY <1>6 DEF Kick, Hosts, NothingUnborn
  <2>2. lobby'[l].host = p /\ (lobby[l].seat = p => lobby'[l].seat = p)
    BY <1>6, <2>1 DEF Kick, WithoutMembers, LobbyTables, LobbyRows
  <2>3. \A k \in LobbyIds \ {l} : lobby'[k] = lobby[k]
    BY <1>6 DEF Kick, WithoutMembers, LobbyTables
  <2> QED
    BY <1>1, <2>1, <2>2, <2>3 DEF MakerKeepsSeat
<1>7. ASSUME NEW l \in LobbyIds, NEW p \in Principals, NEW other \in Principals,
             Transfer(p, l, other)
      PROVE  MakerKeepsSeat' /\ SeatsAreTaken'
  <2>1. UNCHANGED launches /\ handed' = handed \cup {l}
    BY <1>7 DEF Transfer
  <2>2. \A k \in LobbyIds \ {l} : lobby'[k] = lobby[k]
    BY <1>7 DEF Transfer, LobbyTables
  <2> QED
    BY <1>1, <2>1, <2>2
<1>8. ASSUME NEW l \in LobbyIds, Idle(l)
      PROVE  MakerKeepsSeat' /\ SeatsAreTaken'
  <2>1. Born(l) /\ UNCHANGED <<launches, handed>>
    BY <1>8 DEF Idle, LobbyTables, LobbyRows
  <2>2. lobby'[l].host = lobby[l].host /\ lobby'[l].seat = lobby[l].seat
    BY <1>8 DEF Idle, LobbyTables, LobbyRows
  <2>3. \A k \in LobbyIds \ {l} : lobby'[k] = lobby[k]
    BY <1>8 DEF Idle, LobbyTables
  <2> QED
    BY <1>1, <2>1, <2>2, <2>3 DEF MakerKeepsSeat
<1> QED
  BY <1>2, <1>3, <1>4, <1>5, <1>6, <1>7, <1>8, StepKinds
  DEF Begin, Abandon, Charge, lobbyVars

\* A lobby that was not raced is launched once: the commit that launches it found it LOCKED.
LEMMA GameStep ==
    ASSUME LobbyTables, NothingUnborn, OneGame, [LobbyNext]_lobbyVars
    PROVE  OneGame'
<1> USE LobbyAssumption
<1>1. ASSUME UNCHANGED launches, raced \subseteq raced',
             \A k \in LobbyIds \ raced' :
                lobby'[k].status = "LAUNCHED" <=> lobby[k].status = "LAUNCHED"
      PROVE  OneGame'
  BY <1>1 DEF OneGame
<1>2. ASSUME NEW l \in LobbyIds, NEW g, g.lobby = l, launches' = launches \cup {g},
             raced \subseteq raced',
             \A k \in LobbyIds \ {l} : lobby'[k].status = lobby[k].status,
             lobby'[l].status = "LAUNCHED",
             l \notin raced' => lobby[l].status # "LAUNCHED"
      PROVE  OneGame'
  <2> DEFINE Once(k, table, row) ==
               /\ \A x, y \in table : x.lobby = k /\ y.lobby = k => x = y
               /\ (\E x \in table : x.lobby = k) <=> row.status = "LAUNCHED"
  <2> SUFFICES ASSUME NEW k \in LobbyIds \ raced'
               PROVE  Once(k, launches', lobby'[k])
    BY DEF OneGame
  <2>1. Once(k, launches, lobby[k])
    BY <1>2 DEF OneGame
  <2>2. CASE k = l
    <3>1. \A x \in launches' : x.lobby = l => x = g
      BY <1>2, <2>1, <2>2
    <3> QED
      BY <1>2, <2>2, <3>1
  <2>3. CASE k # l
    <3>1. lobby'[k].status = lobby[k].status
      BY <1>2, <2>3
    <3>2. \A x \in launches' : x.lobby = k <=> x \in launches /\ x.lobby = k
      BY <1>2, <2>3
    <3> QED
      BY <1>2, <2>1, <3>1, <3>2
  <2> QED
    BY <2>2, <2>3
<1>3. ASSUME NEW l \in LobbyIds, NEW p \in Principals, Create(p, l)
      PROVE  OneGame'
  BY <1>1, <1>3 DEF Create, Unborn, LobbyTables
<1>4. ASSUME NEW l \in LobbyIds, NEW p \in Principals, SoloMatch(p, l)
      PROVE  OneGame'
  <2>1. NewGame(p, l, p).lobby = l /\ launches' = launches \cup {NewGame(p, l, p)}
    BY <1>4 DEF SoloMatch, NewGame
  <2>2. /\ \A k \in LobbyIds \ {l} : lobby'[k].status = lobby[k].status
        /\ lobby'[l].status = "LAUNCHED" /\ lobby[l].status # "LAUNCHED"
        /\ raced' = raced
    BY <1>4 DEF SoloMatch, Unborn, LobbyTables
  <2> QED
    BY <1>2, <2>1, <2>2
<1>5. ASSUME NEW l \in LobbyIds, NEW p \in Principals, NEW row \in LobbyRows, Commit(p, l, row)
      PROVE  OneGame'
  <2>1. raced \subseteq raced' /\ (l \notin raced' => row = lobby[l])
    BY <1>5, CommitIsCurrent
  <2>2. \A k \in LobbyIds \ {l} : lobby'[k].status = lobby[k].status
    BY <1>5 DEF Commit, JoinWith, LaunchWith, ReconcileWith, WithoutMembers, LobbyTables
  <2>3. CASE JoinWith(p, l, row)
    <3>1. UNCHANGED launches /\ lobby'[l].status = lobby[l].status
      BY <2>3 DEF JoinWith, LobbyTables, LobbyRows
    <3> QED
      BY <1>1, <2>1, <2>2, <3>1
  <2>4. CASE ReconcileWith(l, row)
    <3>1. /\ UNCHANGED launches
          /\ row.status \in {"OPEN", "LOCKED"}
          /\ lobby'[l].status \in {lobby[l].status, "CLOSED"}
      BY <2>4 DEF ReconcileWith, WithoutMembers, LobbyTables, LobbyRows
    <3> QED
      BY <1>1, <2>1, <2>2, <3>1
  <2>5. CASE LaunchWith(p, l, row) /\ UNCHANGED <<lobby, launches>>
    BY <1>1, <2>1, <2>5
  <2>6. CASE LaunchWith(p, l, row) /\ ~UNCHANGED <<lobby, launches>>
    <3>1. /\ row.status = "LOCKED"
          /\ lobby'[l].status = "LAUNCHED"
          /\ launches' = launches \cup {NewGame(p, l, lobby[l].seat)}
          /\ NewGame(p, l, lobby[l].seat).lobby = l
      <4>1. /\ row.status = "LOCKED"
            /\ launches' = launches \cup {NewGame(p, l, lobby[l].seat)}
            /\ lobby' = [lobby EXCEPT ![l].status = "LAUNCHED", ![l].game = TRUE]
        BY <2>6 DEF LaunchWith
      <4>2. lobby'[l].status = "LAUNCHED"
        BY <4>1 DEF LobbyTables, LobbyRows
      <4>3. NewGame(p, l, lobby[l].seat).lobby = l
        BY DEF NewGame
      <4> QED
        BY <4>1, <4>2, <4>3
    <3> QED
      BY <1>2, <2>1, <2>2, <3>1
  <2> QED
    BY <1>5, <2>3, <2>4, <2>5, <2>6 DEF Commit
<1>6. ASSUME NEW l \in LobbyIds, NEW p \in Principals, Touch(p, l) \/ Lock(p, l) \/ GoQuiet(p, l)
      PROVE  OneGame'
  <2>1. UNCHANGED <<launches, raced>>
    BY <1>6 DEF Touch, Lock, GoQuiet
  <2>2. \A k \in LobbyIds : lobby'[k].status = "LAUNCHED" <=> lobby[k].status = "LAUNCHED"
    BY <1>6 DEF Touch, Lock, GoQuiet, LobbyTables, LobbyRows
  <2> QED
    BY <1>1, <2>1, <2>2
<1>7. ASSUME NEW l \in LobbyIds, NEW p \in Principals, NEW other \in Principals,
             Kick(p, l, other) \/ Transfer(p, l, other)
      PROVE  OneGame'
  <2>1. UNCHANGED <<launches, raced>>
    BY <1>7 DEF Kick, Transfer
  <2>2. \A k \in LobbyIds : lobby'[k].status = lobby[k].status
    BY <1>7 DEF Kick, Transfer, WithoutMembers, LobbyTables, LobbyRows
  <2> QED
    BY <1>1, <2>1, <2>2
<1>8. ASSUME NEW l \in LobbyIds, Idle(l)
      PROVE  OneGame'
  <2>1. UNCHANGED <<launches, raced>>
    BY <1>8 DEF Idle
  <2>2. \A k \in LobbyIds : lobby'[k].status = lobby[k].status
    BY <1>8 DEF Idle, LobbyTables, LobbyRows
  <2> QED
    BY <1>1, <2>1, <2>2
<1> QED
  BY <1>1, <1>3, <1>4, <1>5, <1>6, <1>7, <1>8, StepKinds
  DEF Begin, Abandon, Charge, lobbyVars

\* Whatever a step does to one lobby, the slots of the others follow them as before.
LEMMA OthersFollow ==
    ASSUME SlotsFollow, NEW l \in LobbyIds,
           \A k \in LobbyIds \ {l} : lobby'[k].status = lobby[k].status /\ members'[k] = members[k],
           \A c \in claims' : c.lobby # l => c \in claims,
           launches \subseteq launches',
           raced \subseteq raced',
           l \notin raced' => Follow(l)'
    PROVE  SlotsFollow'
<1> SUFFICES ASSUME NEW k \in LobbyIds \ {l}, k \notin raced'
             PROVE  Follow(k)'
  BY DEF SlotsFollow
<1>1. Follow(k)
  BY DEF SlotsFollow
<1>2. OfLobby(k)' \subseteq OfLobby(k)
  BY DEF OfLobby
<1> QED
  BY <1>1, <1>2 DEF Follow

\* Every slot that a step claims is a member's, and every member, status and lobby that goes
\* takes its slots along.
LEMMA SlotStep ==
    ASSUME LobbyTables, NothingUnborn, SlotsFollow, [LobbyNext]_lobbyVars
    PROVE  SlotsFollow'
<1> USE LobbyAssumption
<1>1. ASSUME UNCHANGED <<members, claims, launches, raced>>,
             \A k \in LobbyIds : lobby'[k].status = lobby[k].status
      PROVE  SlotsFollow'
  <2> SUFFICES ASSUME NEW k \in LobbyIds \ raced'
               PROVE  Follow(k)'
    BY DEF SlotsFollow
  <2>1. Follow(k) /\ OfLobby(k)' = OfLobby(k)
    BY <1>1 DEF SlotsFollow, OfLobby
  <2> QED
    BY <1>1, <2>1 DEF Follow
<1>2. ASSUME NEW l \in LobbyIds, NEW p \in Principals, Create(p, l) \/ SoloMatch(p, l)
      PROVE  SlotsFollow'
  <2>1. /\ \A k \in LobbyIds \ {l} : lobby'[k].status = lobby[k].status /\ members'[k] = members[k]
        /\ raced' = raced /\ launches \subseteq launches'
        /\ DOMAIN members'[l] = {p}
        /\ lobby[l] = Unborn
    BY <1>2 DEF Create, SoloMatch, LobbyTables
  <2>2. l \notin raced => OfLobby(l) = {}
    <3>1. DOMAIN members[l] = {}
      <4>1. ~Born(l)
        BY <2>1 DEF Born, Unborn
      <4> QED
        BY <4>1 DEF NothingUnborn
    <3>2. l \notin raced => \A c \in OfLobby(l) : c.who \in DOMAIN members[l]
      BY DEF SlotsFollow, Follow
    <3> QED
      BY <3>1, <3>2
  <2>3. CASE Create(p, l)
    <3>1. lobby'[l].status = "OPEN" /\ claims' = claims \cup Slots(p, "create", l)
      BY <2>3 DEF Create, LobbyTables
    <3>2. l \notin raced' => Follow(l)'
      <4> SUFFICES ASSUME l \notin raced'
                   PROVE  Follow(l)'
        OBVIOUS
      <4>1. \A c \in OfLobby(l)' : c.who = p
        <5> SUFFICES ASSUME NEW c \in OfLobby(l)'
                     PROVE  c.who = p
          OBVIOUS
        <5>1. c \in claims' /\ c.lobby = l
          BY DEF OfLobby
        <5>2. c \notin claims
          BY <2>1, <2>2, <5>1 DEF OfLobby
        <5>3. c \in Slots(p, "create", l)
          BY <3>1, <5>1, <5>2
        <5> QED
          BY <5>3, SlotsTyped
      <4> QED
        BY <2>1, <3>1, <4>1 DEF Follow
    <3>3. \A c \in claims' : c.lobby # l => c \in claims
      BY <3>1, SlotsTyped
    <3> QED
      BY <2>1, <3>2, <3>3, OthersFollow
  <2>4. CASE SoloMatch(p, l)
    <3>1. /\ lobby'[l].status = "LAUNCHED"
          /\ claims' = claims \cup {c \in Slots(p, "launch", l) : c.kind = "game"}
          /\ NewGame(p, l, p) \in launches'
          /\ NewGame(p, l, p).lobby = l /\ NewGame(p, l, p).by = p
      BY <2>4 DEF SoloMatch, NewGame, LobbyTables
    <3>2. l \notin raced => OfLobby(l)' \subseteq {c \in Slots(p, "launch", l) : c.kind = "game"}
      BY <2>2, <3>1 DEF OfLobby
    <3>3. l \notin raced' => Follow(l)'
      BY <2>1, <3>1, <3>2, SlotsTyped DEF Follow
    <3>4. \A c \in claims' : c.lobby # l => c \in claims
      BY <3>1, SlotsTyped
    <3> QED
      BY <2>1, <3>3, <3>4, OthersFollow
  <2> QED
    BY <1>2, <2>3, <2>4
<1>3. ASSUME NEW l \in LobbyIds, NEW p \in Principals, NEW row \in LobbyRows, Commit(p, l, row)
      PROVE  SlotsFollow'
  <2>1. raced \subseteq raced' /\ (l \notin raced' => row = lobby[l])
    BY <1>3, CommitIsCurrent
  <2>2. \A k \in LobbyIds \ {l} : lobby'[k].status = lobby[k].status /\ members'[k] = members[k]
    BY <1>3 DEF Commit, JoinWith, LaunchWith, ReconcileWith, WithoutMembers, Keep, LobbyTables
  <2>3. CASE JoinWith(p, l, row)
    <3>1. /\ row.status = "OPEN" /\ lobby'[l].status = lobby[l].status
          /\ DOMAIN members'[l] = DOMAIN members[l] \cup {p}
          /\ claims' = claims \cup Slots(p, "join", l)
          /\ launches' = launches
      BY <2>3 DEF JoinWith, LobbyTables, LobbyRows
    <3>2. l \notin raced' => Follow(l)'
      BY <2>1, <3>1, SlotsTyped DEF SlotsFollow, Follow, OfLobby
    <3>3. \A c \in claims' : c.lobby # l => c \in claims
      BY <3>1, SlotsTyped
    <3> QED
      BY <2>1, <2>2, <3>1, <3>2, <3>3, OthersFollow
  <2>4. CASE LaunchWith(p, l, row) /\ UNCHANGED <<lobby, launches>>
    <3>1. \/ claims' = claims \ OfLobby(l) /\ members' = members
          \/ lobby'[l].status = "LAUNCHED"
      BY <2>4 DEF LaunchWith, LobbyTables, LobbyRows
    <3>2. CASE claims' = claims \ OfLobby(l) /\ members' = members
      <4>1. OfLobby(l)' = {}
        BY <3>2 DEF OfLobby
      <4> QED
        BY <2>1, <2>2, <2>4, <3>2, <4>1, OthersFollow DEF Follow
    <3>3. CASE row.status = "LOCKED" /\ lobby'[l].status = "LAUNCHED"
      <4>1. l \in raced'
        BY <2>1, <2>4, <3>3
      <4>2. \A c \in claims' : c.lobby # l => c \in claims
        BY <2>4, SlotsTyped DEF LaunchWith
      <4> QED
        BY <2>1, <2>2, <2>4, <4>1, <4>2, OthersFollow
    <3> QED
      BY <2>4, <3>2, <3>3 DEF LaunchWith, LobbyTables, LobbyRows
  <2>5. CASE LaunchWith(p, l, row) /\ ~UNCHANGED <<lobby, launches>>
    <3>1. /\ lobby'[l].status = "LAUNCHED" /\ members' = members
          /\ p \in DOMAIN members[l]
          /\ launches' = launches \cup {NewGame(p, l, lobby[l].seat)}
          /\ claims' = (claims \ OfLobby(l)) \cup {c \in Slots(p, "launch", l) : c.kind = "game"}
          /\ NewGame(p, l, lobby[l].seat).lobby = l /\ NewGame(p, l, lobby[l].seat).by = p
      <4>1. /\ members' = members /\ p \in DOMAIN members[l]
            /\ launches' = launches \cup {NewGame(p, l, lobby[l].seat)}
            /\ claims' = (claims \ OfLobby(l)) \cup {c \in Slots(p, "launch", l) : c.kind = "game"}
            /\ lobby' = [lobby EXCEPT ![l].status = "LAUNCHED", ![l].game = TRUE]
        BY <2>5 DEF LaunchWith
      <4>2. lobby'[l].status = "LAUNCHED"
        BY <4>1 DEF LobbyTables, LobbyRows
      <4>3. NewGame(p, l, lobby[l].seat).lobby = l /\ NewGame(p, l, lobby[l].seat).by = p
        BY DEF NewGame
      <4> QED
        BY <4>1, <4>2, <4>3
    <3>2. OfLobby(l)' \subseteq {c \in Slots(p, "launch", l) : c.kind = "game"}
      BY <3>1 DEF OfLobby
    <3>3. Follow(l)'
      <4>1. \A c \in OfLobby(l)' : c.kind = "game" /\ c.who = p
        BY <3>2 DEF Slots
      <4>2. \E g \in launches' : g.lobby = l /\ g.by = p
        BY <3>1
      <4> QED
        BY <3>1, <4>1, <4>2 DEF Follow
    <3>4. \A c \in Slots(p, "launch", l) : c.lobby = l
      BY DEF Slots
    <3>5. \A c \in claims' : c.lobby # l => c \in claims
      BY <3>1, <3>4
    <3> QED
      BY <2>1, <2>2, <3>1, <3>3, <3>5, OthersFollow
  <2>6. CASE ReconcileWith(l, row) /\ claims' = claims \ OfLobby(l)
    <3>1. OfLobby(l)' = {} /\ launches' = launches
      BY <2>6 DEF OfLobby, ReconcileWith
    <3> QED
      BY <2>1, <2>2, <2>6, <3>1, OthersFollow DEF Follow
  <2>7. CASE ReconcileWith(l, row) /\ claims' = Released(l, Evicted(l)) /\ members' = Keep(l, Evicted(l))
    <3>1. /\ DOMAIN members'[l] = DOMAIN members[l] \ Evicted(l)
          /\ row.status \in {"OPEN", "LOCKED"}
          /\ launches' = launches
          /\ lobby'[l].status \in {lobby[l].status, "CLOSED"}
      BY <2>7 DEF ReconcileWith, Keep, WithoutMembers, LobbyTables, LobbyRows
    <3>2. \A c \in claims' : c \in claims /\ (c.lobby = l => c.who \notin Evicted(l))
      BY <2>7 DEF Released, OfMember, OfLobby
    <3>3. CASE lobby'[l].status = lobby[l].status
      <4>1. l \notin raced' => Follow(l)'
        BY <2>1, <3>1, <3>2, <3>3 DEF SlotsFollow, Follow, OfLobby
      <4> QED
        BY <2>1, <2>2, <3>1, <3>2, <4>1, OthersFollow
    <3>4. CASE lobby'[l].status # lobby[l].status
      <4>1. claims' = claims \ OfLobby(l)
        BY <2>7, <3>4 DEF ReconcileWith, WithoutMembers, LobbyTables, LobbyRows
      <4> QED
        BY <2>6, <2>7, <4>1
    <3> QED
      BY <3>3, <3>4
  <2> QED
    BY <1>3, <2>3, <2>4, <2>5, <2>6, <2>7 DEF Commit, ReconcileWith
<1>4. ASSUME NEW l \in LobbyIds, NEW p \in Principals, Touch(p, l) \/ Lock(p, l) \/ GoQuiet(p, l)
      PROVE  SlotsFollow'
  <2>1. UNCHANGED <<claims, launches, raced>>
    BY <1>4 DEF Touch, Lock, GoQuiet
  <2>2. /\ \A k \in LobbyIds \ {l} : lobby'[k].status = lobby[k].status /\ members'[k] = members[k]
        /\ DOMAIN members'[l] = DOMAIN members[l]
    BY <1>4 DEF Touch, Lock, GoQuiet, LobbyTables, LobbyRows
  <2>3. \/ lobby'[l].status = lobby[l].status
        \/ lobby'[l].status = "LOCKED"
    BY <1>4 DEF Touch, Lock, GoQuiet, LobbyTables, LobbyRows
  <2>4. l \notin raced' => Follow(l)'
    BY <2>1, <2>2, <2>3 DEF SlotsFollow, Follow, OfLobby
  <2> QED
    BY <2>1, <2>2, <2>4, OthersFollow
<1>5. ASSUME NEW l \in LobbyIds, NEW p \in Principals, NEW other \in Principals,
             Kick(p, l, other)
      PROVE  SlotsFollow'
  <2>1. /\ UNCHANGED <<launches, raced>> /\ claims' = claims \ OfMember(other, l)
        /\ \A k \in LobbyIds \ {l} : lobby'[k].status = lobby[k].status /\ members'[k] = members[k]
        /\ DOMAIN members'[l] = DOMAIN members[l] \ {other}
        /\ lobby'[l].status = lobby[l].status
    BY <1>5 DEF Kick, WithoutMembers, Keep, LobbyTables, LobbyRows
  <2>2. l \notin raced' => Follow(l)'
    BY <2>1 DEF SlotsFollow, Follow, OfLobby, OfMember
  <2> QED
    BY <2>1, <2>2, OthersFollow
<1>6. ASSUME NEW l \in LobbyIds, NEW p \in Principals, NEW other \in Principals,
             Transfer(p, l, other)
      PROVE  SlotsFollow'
  <2>1. /\ UNCHANGED <<launches, raced, claims, members>>
        /\ \A k \in LobbyIds : lobby'[k].status = lobby[k].status
    BY <1>6 DEF Transfer, LobbyTables, LobbyRows
  <2> QED
    BY <1>1, <2>1
<1>7. ASSUME NEW l \in LobbyIds, Idle(l)
      PROVE  SlotsFollow'
  <2>1. /\ UNCHANGED <<launches, raced, claims, members>>
        /\ \A k \in LobbyIds : lobby'[k].status = lobby[k].status
    BY <1>7 DEF Idle, LobbyTables, LobbyRows
  <2> QED
    BY <1>1, <2>1
<1> QED
  BY <1>1, <1>2, <1>3, <1>4, <1>5, <1>6, <1>7, StepKinds
  DEF Begin, Abandon, Charge, lobbyVars

\* Every launch was admitted.
LEMMA CapStep ==
    ASSUME LobbyTables, WithinCap, [LobbyNext]_lobbyVars
    PROVE  WithinCap'
<1>1. ASSUME UNCHANGED launches
      PROVE  WithinCap'
  BY <1>1 DEF WithinCap, OwnGames
<1>2. ASSUME NEW p \in Principals, NEW l \in LobbyIds, NEW table, IsFiniteSet(table),
             Admits(p, "launch", table), NEW seat,
             launches' = launches \cup {NewGame(p, l, seat)}
      PROVE  WithinCap'
  <2>1. GamesToday(p) < GameCap
    BY <1>2, AdmittedBelowCap DEF LobbyTables
  <2>2. NewGame(p, l, seat).by = p
    BY DEF NewGame
  <2> QED
    BY <1>2, <2>1, <2>2, LaunchWithinCap DEF LobbyTables
<1>3. ASSUME NEW l \in LobbyIds, NEW p \in Principals, SoloMatch(p, l)
      PROVE  WithinCap'
  BY <1>2, <1>3 DEF SoloMatch, LobbyTables
<1>4. ASSUME NEW l \in LobbyIds, NEW p \in Principals, NEW row \in LobbyRows, Commit(p, l, row)
      PROVE  WithinCap'
  <2>1. CASE UNCHANGED launches
    BY <1>1, <2>1
  <2>2. CASE ~UNCHANGED launches
    <3>1. /\ Admits(p, "launch", claims \ OfLobby(l))
          /\ launches' = launches \cup {NewGame(p, l, lobby[l].seat)}
      BY <1>4, <2>2 DEF Commit, JoinWith, LaunchWith, ReconcileWith
    <3>2. IsFiniteSet(claims \ OfLobby(l))
      BY FS_Subset DEF LobbyTables
    <3> QED
      BY <1>2, <3>1, <3>2
  <2> QED
    BY <2>1, <2>2
<1> QED
  BY <1>1, <1>3, <1>4, StepKinds
  DEF Create, Touch, Lock, GoQuiet, Kick, Transfer, Begin, Abandon, Idle, Charge, lobbyVars

-----------------------------------------------------------------------------
(* Lobbies: the invariant and what follows *)

\* LobbyInv holds of every reachable state.
THEOREM Invariance == LobbySpec => []LobbyInv
<1> USE LobbyAssumption
<1>1. LobbyInit => LobbyInv
  <2> SUFFICES ASSUME LobbyInit PROVE LobbyInv
    OBVIOUS
  <2>1. LobbyTables
    BY FS_EmptySet DEF LobbyInit, LobbyTables, LobbyRows, Unborn
  <2>2. NothingUnborn /\ MakerKeepsSeat /\ SeatsAreTaken
    BY DEF LobbyInit, NothingUnborn, MakerKeepsSeat, SeatsAreTaken, Born, Unborn
  <2>3. OneGame /\ SlotsFollow
    BY DEF LobbyInit, OneGame, SlotsFollow, Follow, OfLobby, Unborn
  <2>4. WithinCap
    <3> SUFFICES ASSUME NEW p \in Principals
                 PROVE  Cardinality(OwnGames(p)) =< GameCap
      BY DEF WithinCap
    <3>1. OwnGames(p) = {}
      BY DEF LobbyInit, OwnGames
    <3> QED
      BY <3>1, FS_EmptySet
  <2> QED
    BY <2>1, <2>2, <2>3, <2>4 DEF LobbyInv
<1>2. LobbyInv /\ [LobbyNext]_lobbyVars => LobbyInv'
  BY TablesStep, UnbornStep, SeatStep, GameStep, SlotStep, CapStep DEF LobbyInv
<1> QED
  BY <1>1, <1>2, PTL DEF LobbySpec

\* A lobby becomes one game and stays launched, with a human in its seat as long as its maker
\* hosts it, unless a request committed over an outdated row.
THEOREM AlwaysLaunchedOnce == LobbySpec => []LaunchedOnce
<1>1. LobbyInv => LaunchedOnce
  <2> SUFFICES ASSUME LobbyInv, NEW l \in LobbyIds \ raced
               PROVE  LET games == {g \in launches : g.lobby = l}
                      IN  /\ Cardinality(games) =< 1
                          /\ games # {} <=> lobby[l].status = "LAUNCHED"
                          /\ l \notin handed => \A g \in games : g.occupant \in Principals
    BY DEF LaunchedOnce
  <2> DEFINE games == {g \in launches : g.lobby = l}
  <2>1. \A g, h \in games : g = h
    BY DEF LobbyInv, OneGame
  <2>2. games # {} <=> lobby[l].status = "LAUNCHED"
    BY DEF LobbyInv, OneGame
  <2>3. l \notin handed => \A g \in games : g.occupant \in Principals
    BY DEF LobbyInv, SeatsAreTaken
  <2>4. Cardinality(games) =< 1
    <3>1. CASE games = {}
      BY <3>1, FS_EmptySet
    <3>2. CASE games # {}
      <4>1. PICK g \in games : games = {g}
        BY <2>1, <3>2
      <4> HIDE DEF games
      <4> QED
        BY <4>1, FS_Singleton
    <3> QED
      BY <3>1, <3>2
  <2> QED
    BY <2>2, <2>3, <2>4
<1> QED
  BY <1>1, Invariance, PTL

\* Slots follow the lobbies they were claimed for, and nobody launches more games for himself
\* a day than the cap: whatever is kicked, handed over, evicted, closed or raced in between.
THEOREM SlotsAlwaysFollowLobbies == LobbySpec => []SlotsFollowLobbies
<1>1. LobbyInv => SlotsFollowLobbies
  BY DEF LobbyInv, SlotsFollow, Follow, WithinCap, OwnGames, SlotsFollowLobbies
<1> QED
  BY <1>1, Invariance, PTL

=============================================================================
