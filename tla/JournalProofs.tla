--------------------------- MODULE JournalProofs ---------------------------
(***************************************************************************)
(* Proofs about GameJournal for every number of phases, failures,          *)
(* attempts, boots and faults.                                             *)
(*                                                                         *)
(* For any number of workers and replicas: the type invariant, and that    *)
(* ratings are applied at most once.                                       *)
(*                                                                         *)
(* Where one scheduler process runs at a time, the deployment the runner   *)
(* is written for: whatever crashes and retries happen, the rows are one   *)
(* log that reads like a game played without them, the in-memory log       *)
(* follows it, a game is rated and given up only as it should be, and the  *)
(* journal implements GameHistory.                                         *)
(*                                                                         *)
(* And proofs about PublicViews for any number of connections and any      *)
(* limits: what has arrived on a stream, with what is on its way, is the   *)
(* public log up to some event, and a tail has passed over nothing else.   *)
(***************************************************************************)
EXTENDS GameJournal, PublicViews, FiniteSetTheorems, WellFoundedInduction, SequenceTheorems, TLAPS

-----------------------------------------------------------------------------
\* Operators of the model

LessOnNat == {ss \in Nat \X Nat : ss[1] < ss[2]}

\* A bounded nonempty set of numbers has a largest element.
LEMMA MaxOfBounded ==
    ASSUME NEW S, S \subseteq Nat, S # {}, NEW n \in Nat, \A x \in S : x =< n
    PROVE  \E x \in S : \A y \in S : y =< x
<1>. DEFINE Bounds == {m \in Nat : \A x \in S : x =< m}
<1>1. IsWellFoundedOn(LessOnNat, Nat)
  BY NatLessThanWellFounded DEF OpToRel, LessOnNat
<1>2. Bounds \subseteq Nat /\ n \in Bounds
  OBVIOUS
<1>3. PICK m \in Bounds : \A b \in Bounds : ~ (<<b, m>> \in LessOnNat)
  BY <1>1, <1>2, WFMin
<1>4. \A b \in Bounds : m =< b
  <2>. SUFFICES ASSUME NEW b \in Bounds, ~(m =< b) PROVE FALSE
    OBVIOUS
  <2>1. b \in Nat /\ m \in Nat /\ b < m
    OBVIOUS
  <2>. QED  BY <1>3, <2>1 DEF LessOnNat
<1>5. m \in S
  <2>. SUFFICES ASSUME m \notin S PROVE FALSE
    OBVIOUS
  <2>1. m \in Nat /\ \A x \in S : x \in Nat /\ x =< m /\ x # m
    OBVIOUS
  <2>2. m # 0
    <3>. PICK x \in S : TRUE
      OBVIOUS
    <3>. QED  BY <2>1
  <2>3. m - 1 \in Nat
    BY <2>1, <2>2
  <2>4. m - 1 \in Bounds
    BY <2>1, <2>3
  <2>5. m =< m - 1
    BY <1>4, <2>4
  <2>. QED  BY <2>1, <2>5
<1>6. \A x \in S : x =< m
  OBVIOUS
<1>. QED  BY <1>5, <1>6

\* What the loop writes: a phase of the schedule is the only thing it starts, and what a
\* phase leaves is a verdict of check_win.
Written ==
    {e \in Event : /\ e.kind = "started" => e.phase \in 1..Phases /\ e = Ev("started", e.phase)
                   /\ e.kind = "effect" => e.verdict \in Verdict}

Log == Seq(Written)

\* The rows read back are one of the rows, if there is any.
LEMMA ReplayedType ==
    ASSUME NEW rs, rs \subseteq Log, NEW n \in Nat, \A r \in rs : Len(r) =< n
    PROVE  /\ Replayed(rs) \in Log
           /\ rs # {} => Replayed(rs) \in rs
<1>1. CASE rs = {}
  BY <1>1 DEF Replayed, Log
<1>2. CASE rs # {}
  <2>. DEFINE lengths == {Len(r) : r \in rs}
  <2>1. \A r \in rs : r \in Seq(Written) /\ Len(r) \in Nat
    BY DEF Log
  <2>2. lengths \subseteq Nat /\ lengths # {} /\ \A x \in lengths : x =< n
    BY <1>2, <2>1
  <2>3. \E r \in rs : \A q \in rs : Len(q) =< Len(r)
    <3>. HIDE DEF lengths
    <3>. PICK x \in lengths : \A y \in lengths : y =< x
      BY <2>2, MaxOfBounded
    <3>. QED  BY DEF lengths
  <2>4. Replayed(rs) = CHOOSE r \in rs : \A q \in rs : Len(q) =< Len(r)
    BY <1>2 DEF Replayed
  <2>5. Replayed(rs) \in rs
    BY <2>3, <2>4
  <2>. QED  BY <2>5
<1>. QED  BY <1>1, <1>2

\* state.current_phase is a phase that the log starts, or SETUP.
LEMMA CurrentPhaseType ==
    ASSUME NEW l \in Log
    PROVE  /\ CurrentPhase(l) \in 0..Phases
           /\ CurrentPhase(l) # 0 => /\ StartIndex(l) \in DOMAIN l
                                     /\ l[StartIndex(l)] = Ev("started", CurrentPhase(l))
           /\ \A i \in DOMAIN l : l[i].kind = "started" => l[i].phase =< CurrentPhase(l)
<1>. DEFINE started == {l[i].phase : i \in {j \in DOMAIN l : l[j].kind = "started"}}
<1>. Phases \in Nat \ {0}
  BY JournalAssumption
<1>1. \A i \in DOMAIN l : l[i] \in Written
  BY DEF Log
<1>2. started \subseteq 1..Phases
  BY <1>1 DEF Written
<1>3. CASE started = {}
  <2>1. CurrentPhase(l) = 0
    BY <1>3 DEF CurrentPhase
  <2>2. \A i \in DOMAIN l : l[i].kind # "started"
    BY <1>3
  <2>. QED  BY <2>1, <2>2
<1>4. CASE started # {}
  <2>1. started \subseteq Nat /\ \A x \in started : x =< Phases
    BY <1>2
  <2>2. \E p \in started : \A q \in started : q =< p
    BY <1>4, <2>1, MaxOfBounded
  <2>3. CurrentPhase(l) = CHOOSE p \in started : \A q \in started : q =< p
    BY <1>4 DEF CurrentPhase
  <2>4. CurrentPhase(l) \in started /\ \A q \in started : q =< CurrentPhase(l)
    BY <2>2, <2>3
  <2>5. \E i \in DOMAIN l : l[i] = Ev("started", CurrentPhase(l))
    BY <2>4, <1>1 DEF Written
  <2>6. StartIndex(l) \in DOMAIN l /\ l[StartIndex(l)] = Ev("started", CurrentPhase(l))
    BY <2>5 DEF StartIndex
  <2>. QED  BY <2>4, <2>6, <1>2
<1>. QED  BY <1>3, <1>4

\* A prefix of a log is a log.
LEMMA PrefixType ==
    ASSUME NEW l \in Log, NEW n \in 0..Len(l)
    PROVE  /\ Prefix(l, n) \in Log
           /\ Len(Prefix(l, n)) = n
           /\ DOMAIN Prefix(l, n) = 1..n
           /\ \A i \in 1..n : Prefix(l, n)[i] = l[i]
BY DEF Prefix, Log

-----------------------------------------------------------------------------
\* Type correctness, for any number of workers

GameType ==
    [status : {"CREATED", "RUNNING", "COMPLETED", "FAILED"}, holder : Workers \cup {NoWorker},
     leased : BOOLEAN, result : Verdict \cup {"DRAW"}, rated : Nat]

ProcessType ==
    [at : Stage, log : Log, phase : 0..Phases + 1, todo : SUBSET Nat, cut : Nat,
     attempt : 0..MaxAttempts]

\* What the stage of a drive says of the other fields
Steady(p) ==
    /\ p.todo \subseteq DOMAIN p.log
    /\ p.at # "mirror" => p.todo = {}
    /\ p.at \in {"tick", "mirror", "resolve", "check"} => p.phase \in 1..Phases
    /\ p.at = "enter" => p.phase # 0

TypeInv ==
    /\ rows \subseteq Log \ {<<>>}
    /\ \E n \in Nat : \A r \in rows : Len(r) =< n
    /\ game \in GameType
    /\ proc \in [Workers -> ProcessType]
    /\ \A w \in Workers : Steady(proc[w])

\* One more row leaves the rows bounded.
LEMMA OneMoreRow ==
    ASSUME TypeInv, NEW r \in Log, r # <<>>, rows' \subseteq rows \cup {r}
    PROVE  /\ rows' \subseteq Log \ {<<>>}
           /\ \E n \in Nat : \A q \in rows' : Len(q) =< n
<1>1. PICK n \in Nat : \A q \in rows : Len(q) =< n
  BY DEF TypeInv
<1>2. Len(r) \in Nat
  BY DEF Log
<1>3. \A q \in rows : Len(q) \in Nat
  BY DEF TypeInv, Log
<1>4. \A q \in rows' : Len(q) =< n + Len(r)
  BY <1>1, <1>2, <1>3
<1>5. n + Len(r) \in Nat
  BY <1>2
<1>. QED  BY <1>4, <1>5 DEF TypeInv

\* The process of a new attempt is of the type.
LEMMA ProcessIsSteady ==
    ASSUME NEW stage \in {"down", "rehydrate", "over"}, NEW n \in 0..MaxAttempts
    PROVE  Process(stage, n) \in ProcessType /\ Steady(Process(stage, n))
<1>. Phases \in Nat \ {0}
  BY JournalAssumption
<1>1. <<>> \in Log
  BY DEF Log
<1>. QED  BY <1>1 DEF Process, ProcessType, Steady, Stage, Playing

\* An exception ends the attempt and touches nothing but the game's status and its result.
LEMMA RaiseEnds ==
    ASSUME TypeInv, NEW w \in Workers, NEW poison \in BOOLEAN, Raise(w, poison)
    PROVE  /\ game' \in GameType
           /\ game' = game \/ game' = [game EXCEPT !.status = "FAILED", !.result = Undecided]
           /\ proc' \in [Workers -> ProcessType]
           /\ \A v \in Workers : Steady(proc'[v])
           /\ \A v \in Workers \ {w} : proc'[v] = proc[v]
           /\ proc'[w].at \in {"over", "rehydrate"}
<1>. MaxAttempts \in Nat \ {0}
  BY JournalAssumption
<1>1. game \in GameType /\ proc \in [Workers -> ProcessType]
  BY DEF TypeInv
<1>2. proc[w].attempt \in 0..MaxAttempts
  BY <1>1 DEF ProcessType
<1>3. CASE poison \/ proc[w].attempt = MaxAttempts
  <2>1. MarkFailed /\ proc' = [proc EXCEPT ![w] = Process("over", proc[w].attempt)]
    BY <1>3 DEF Raise
  <2>2. Process("over", proc[w].attempt) \in ProcessType
        /\ Steady(Process("over", proc[w].attempt))
    BY <1>2, ProcessIsSteady
  <2>3. game' \in GameType
        /\ game' = [game EXCEPT !.status = "FAILED", !.result = Undecided]
    BY <1>1, <2>1 DEF MarkFailed, GameType, Verdict
  <2>4. Process("over", proc[w].attempt).at = "over"
    BY DEF Process
  <2>. QED  BY <1>1, <2>1, <2>2, <2>3, <2>4 DEF TypeInv
<1>4. CASE ~(poison \/ proc[w].attempt = MaxAttempts)
  <2>1. game' = game /\ proc' = [proc EXCEPT ![w] = Process("rehydrate", proc[w].attempt + 1)]
    BY <1>4 DEF Raise
  <2>2. proc[w].attempt + 1 \in 0..MaxAttempts
    BY <1>2, <1>4
  <2>3. Process("rehydrate", proc[w].attempt + 1) \in ProcessType
        /\ Steady(Process("rehydrate", proc[w].attempt + 1))
    BY <2>2, ProcessIsSteady
  <2>4. Process("rehydrate", proc[w].attempt + 1).at = "rehydrate"
    BY DEF Process
  <2>. QED  BY <1>1, <2>1, <2>3, <2>4 DEF TypeInv
<1>. QED  BY <1>3, <1>4

\* One process moves to a steady state, the others stay.
LEMMA OneMoves ==
    ASSUME TypeInv, NEW w \in Workers, NEW p \in ProcessType, Steady(p),
           proc' = [proc EXCEPT ![w] = p]
    PROVE  proc' \in [Workers -> ProcessType] /\ \A v \in Workers : Steady(proc'[v])
BY DEF TypeInv

\* emit_and_persist keeps the tables and the processes of their types.
LEMMA EmitType ==
    ASSUME TypeInv, NEW w \in Workers, NEW e \in Written, NEW stage \in Playing \ {"mirror"},
           NEW ph \in 0..Phases + 1, proc[w].todo = {},
           stage \in {"tick", "resolve", "check"} => ph \in 1..Phases,
           stage = "enter" => ph # 0,
           Emit(w, e, stage, ph)
    PROVE  TypeInv'
<1>. DEFINE sealed == Append(proc[w].log, e)
            q == [proc[w] EXCEPT !.at = stage, !.log = sealed, !.phase = ph]
<1>1. proc[w] \in ProcessType /\ proc[w].log \in Log
  BY DEF TypeInv, ProcessType
<1>2. sealed \in Log /\ sealed # <<>> /\ Len(sealed) \in Nat
  <2>1. sealed \in Seq(Written)
    BY <1>1 DEF Log
  <2>2. Len(sealed) = Len(proc[w].log) + 1 /\ Len(proc[w].log) \in Nat
    BY <1>1 DEF Log
  <2> QED
    BY <2>1, <2>2 DEF Log
<1>3. CASE Taken(rows, Len(sealed))
  <2>1. Raise(w, FALSE) /\ rows' = rows
    BY <1>3 DEF Emit
  <2>. QED  BY <2>1, RaiseEnds DEF TypeInv
<1>4. CASE ~Taken(rows, Len(sealed))
  <2>1. rows' = rows \cup {sealed} /\ proc' = [proc EXCEPT ![w] = q] /\ game' = game
    BY <1>4 DEF Emit
  <2>2. q \in ProcessType
    BY <1>1, <1>2 DEF ProcessType, Stage
  <2>3. Steady(q)
    <3>1. q.todo = {} /\ q.at = stage /\ q.phase = ph
      BY <1>1 DEF ProcessType
    <3>. QED  BY <3>1 DEF Steady, Playing
  <2>4. rows' \subseteq Log \ {<<>>} /\ \E n \in Nat : \A r \in rows' : Len(r) =< n
    <3>. HIDE DEF sealed
    <3>. QED  BY <1>2, <2>1, OneMoreRow
  <2>5. proc' \in [Workers -> ProcessType] /\ \A v \in Workers : Steady(proc'[v])
    <3>. HIDE DEF q
    <3>. QED  BY <2>1, <2>2, <2>3, OneMoves
  <2>. QED  BY <2>1, <2>4, <2>5 DEF TypeInv
<1>. QED  BY <1>3, <1>4

\* Taking the lease leads to the stage at which the log stops.
LEMMA AcquireType ==
    ASSUME TypeInv, NEW w \in Workers, Acquire(w)
    PROVE  TypeInv'
<1>. DEFINE l == proc[w].log
<1>. Phases \in Nat \ {0}
  BY JournalAssumption
<1>1. proc[w] \in ProcessType /\ l \in Log /\ game \in GameType /\ Steady(proc[w])
  BY DEF TypeInv, ProcessType
<1>2. proc[w].at = "acquire" /\ proc[w].todo = {} /\ rows' = rows
  BY <1>1 DEF Acquire, Steady
<1>3. CASE \/ Terminal(game.status)
           \/ game.holder \notin {NoWorker, w} /\ game.leased
  <2>. DEFINE q == [proc[w] EXCEPT !.at = "over"]
  <2>1. proc' = [proc EXCEPT ![w] = q] /\ game' = game
    BY <1>1, <1>3 DEF Acquire, Goes, TypeInv
  <2>2. q \in ProcessType /\ Steady(q)
    BY <1>1, <1>2 DEF ProcessType, Stage, Steady
  <2>3. proc' \in [Workers -> ProcessType] /\ \A v \in Workers : Steady(proc'[v])
    <3>. HIDE DEF q
    <3>. QED  BY <2>1, <2>2, OneMoves
  <2>. QED  BY <1>2, <2>1, <2>3 DEF TypeInv
<1>4. CASE ~(\/ Terminal(game.status)
             \/ game.holder \notin {NoWorker, w} /\ game.leased)
  <2>. DEFINE q == [proc[w] EXCEPT !.at = ResumeStage(l), !.phase = ResumePhase(l)]
  <2>1. proc' = [proc EXCEPT ![w] = q]
        /\ game' = [game EXCEPT !.status = "RUNNING", !.holder = w, !.leased = TRUE]
    BY <1>1, <1>4 DEF Acquire, TypeInv, ProcessType
  <2>2. CurrentPhase(l) \in 0..Phases
    BY <1>1, CurrentPhaseType
  <2>3. ResumePhase(l) \in 0..Phases + 1
    BY <2>2 DEF ResumePhase
  <2>4. ResumeStage(l) \in {"create", "tick", "enter"}
    BY DEF ResumeStage
  <2>5. /\ ResumeStage(l) = "tick" => ResumePhase(l) \in 1..Phases
        /\ ResumeStage(l) = "enter" => ResumePhase(l) # 0
    BY <2>2 DEF ResumeStage, ResumePhase, Unresolved
  <2>6. q \in ProcessType /\ Steady(q)
    <3>. HIDE DEF l
    <3>. q = [proc[w] EXCEPT !.at = ResumeStage(l), !.phase = ResumePhase(l)]
      OBVIOUS
    <3>1. q \in ProcessType
      BY <1>1, <2>3, <2>4 DEF ProcessType, Stage, Playing
    <3>2. q.at = ResumeStage(l) /\ q.phase = ResumePhase(l) /\ q.todo = {}
      BY <1>1, <1>2 DEF ProcessType
    <3>. QED  BY <3>1, <3>2, <2>4, <2>5 DEF Steady
  <2>7. proc' \in [Workers -> ProcessType] /\ \A v \in Workers : Steady(proc'[v])
    <3>. HIDE DEF q
    <3>. QED  BY <2>1, <2>6, OneMoves
  <2>8. game' \in GameType
    BY <1>1, <2>1 DEF GameType
  <2>. QED  BY <1>2, <2>7, <2>8 DEF TypeInv
<1>. QED  BY <1>3, <1>4

\* Replaying the rows leads to the lease, to the truncation or out of the attempt.
LEMMA RehydrateType ==
    ASSUME TypeInv, NEW w \in Workers, Rehydrate(w)
    PROVE  TypeInv'
<1>. DEFINE l == Replayed(rows)
<1>1. proc[w] \in ProcessType /\ Steady(proc[w]) /\ proc[w].at = "rehydrate"
      /\ proc[w].todo = {} /\ rows' = rows
  BY DEF TypeInv, Rehydrate, Steady
<1>2. l \in Log
  <2>1. PICK n \in Nat : \A r \in rows : Len(r) =< n
    BY DEF TypeInv
  <2>2. rows \subseteq Log
    BY DEF TypeInv
  <2>. QED  BY <2>1, <2>2, ReplayedType
<1>3. CASE ~Intact(rows)
  <2>1. Raise(w, TRUE)
    BY <1>3 DEF Rehydrate
  <2>. QED  BY <1>1, <2>1, RaiseEnds DEF TypeInv
<1>4. CASE Intact(rows)
  <2>. DEFINE q == IF NothingToResume(l) THEN [proc[w] EXCEPT !.at = "acquire"]
                   ELSE IF Boundary(l) # 0
                   THEN [proc[w] EXCEPT !.at = "truncate", !.cut = Boundary(l)]
                   ELSE [proc[w] EXCEPT !.at = "acquire", !.log = l]
  <2>1. game' = game
    BY <1>4 DEF Rehydrate
  <2>2. proc' = [proc EXCEPT ![w] = q]
    <3>1. IF NothingToResume(l) THEN Goes(w, "acquire")
          ELSE IF Boundary(l) # 0
          THEN proc' = [proc EXCEPT ![w].at = "truncate", ![w].cut = Boundary(l)]
          ELSE proc' = [proc EXCEPT ![w].at = "acquire", ![w].log = l]
      BY <1>4 DEF Rehydrate
    <3>. HIDE DEF l
    <3>. QED  BY <3>1, <1>1 DEF Goes, TypeInv, ProcessType
  <2>3. Boundary(l) \in Nat
    <3>1. DOMAIN l \subseteq Nat
      BY <1>2 DEF Log
    <3>. QED  BY <1>2, <3>1, CurrentPhaseType DEF Boundary
  <2>4. q \in ProcessType /\ Steady(q)
    <3>. HIDE DEF l
    <3>1. CASE NothingToResume(l)
      BY <3>1, <1>1 DEF ProcessType, Stage, Steady
    <3>2. CASE ~NothingToResume(l) /\ Boundary(l) # 0
      BY <3>2, <1>1, <2>3 DEF ProcessType, Stage, Steady
    <3>3. CASE ~NothingToResume(l) /\ Boundary(l) = 0
      BY <3>3, <1>1, <1>2 DEF ProcessType, Stage, Steady
    <3>. QED  BY <3>1, <3>2, <3>3
  <2>5. proc' \in [Workers -> ProcessType] /\ \A v \in Workers : Steady(proc'[v])
    <3>. HIDE DEF q
    <3>. QED  BY <2>2, <2>4, OneMoves
  <2>. QED  BY <1>1, <2>1, <2>5 DEF TypeInv
<1>. QED  BY <1>3, <1>4

\* Dropping the tail of a partial phase keeps every table of its type.
LEMMA TruncateType ==
    ASSUME TypeInv, NEW w \in Workers, Truncate(w)
    PROVE  TypeInv'
<1>1. proc[w] \in ProcessType /\ Steady(proc[w]) /\ proc[w].at = "truncate" /\ proc[w].todo = {}
  BY DEF TypeInv, Truncate, Steady
<1>2. rows' \subseteq rows
  BY DEF Truncate
<1>3. PICK n \in Nat : \A r \in rows' : Len(r) =< n
  BY <1>2 DEF TypeInv
<1>4. rows' \subseteq Log \ {<<>>}
  BY <1>2 DEF TypeInv
<1>5. Replayed(rows') \in Log
  BY <1>3, <1>4, ReplayedType
<1>6. CASE ~Intact(rows')
  <2>1. Raise(w, TRUE)
    BY <1>6 DEF Truncate
  <2>. QED  BY <1>3, <1>4, <2>1, RaiseEnds DEF TypeInv
<1>7. CASE Intact(rows')
  <2>. DEFINE q == [proc[w] EXCEPT !.at = "acquire", !.log = Replayed(rows'), !.cut = 0]
  <2>1. game' = game /\ proc' = [proc EXCEPT ![w] = q]
    BY <1>1, <1>7 DEF Truncate, TypeInv, ProcessType
  <2>2. q \in ProcessType /\ Steady(q)
    BY <1>1, <1>5 DEF ProcessType, Stage, Steady
  <2>3. proc' \in [Workers -> ProcessType] /\ \A v \in Workers : Steady(proc'[v])
    <3>. HIDE DEF q
    <3>. QED  BY <2>1, <2>2, OneMoves
  <2>. QED  BY <1>3, <1>4, <2>1, <2>3 DEF TypeInv
<1>. QED  BY <1>6, <1>7

\* A failure event is an event.
LEMMA EventsWritten ==
    ASSUME NEW ph \in 0..Phases
    PROVE  /\ {Ev("created", 0), Ev("roles", 0), Ev("failure", ph), Ev("resolved", ph)} \subseteq Written
           /\ ph # 0 => Ev("started", ph) \in Written
           /\ \A v \in Verdict : [Ev("effect", ph) EXCEPT !.verdict = v] \in Written
<1>. Phases \in Nat \ {0}
  BY JournalAssumption
<1>. QED  BY DEF Ev, Written, Event, Verdict

\* A tick appends failures of its phase, and knows which of them no row holds.
LEMMA TickType ==
    ASSUME TypeInv, NEW w \in Workers, Tick(w)
    PROVE  TypeInv'
<1>. DEFINE l == proc[w].log
            ph == proc[w].phase
<1>. MaxFailures \in Nat /\ Phases \in Nat \ {0}
  BY JournalAssumption
<1>1. proc[w] \in ProcessType /\ Steady(proc[w]) /\ proc[w].at = "tick" /\ l \in Log
      /\ rows' = rows /\ game' = game
  BY DEF TypeInv, Tick, ProcessType
<1>2. ph \in 1..Phases
  BY <1>1 DEF Steady
<1>3. PICK n \in 0..MaxFailures :
         proc' = [proc EXCEPT ![w] =
            [@ EXCEPT !.at = "mirror", !.log = l \o [i \in 1..n |-> Ev("failure", ph)],
                      !.todo = {s \in Len(l) + 1..Len(l) + n : ~Taken(rows, s)}]]
  BY DEF Tick
<1>. DEFINE tail == [i \in 1..n |-> Ev("failure", ph)]
            todo == {s \in Len(l) + 1..Len(l) + n : ~Taken(rows, s)}
            q == [proc[w] EXCEPT !.at = "mirror", !.log = l \o tail, !.todo = todo]
<1>4. tail \in Seq(Written) /\ Len(tail) = n
  <2>1. Ev("failure", ph) \in Written
    BY <1>2, EventsWritten
  <2>. QED  BY <2>1
<1>5. l \o tail \in Log /\ Len(l \o tail) = Len(l) + n /\ Len(l) \in Nat
  <2>. HIDE DEF tail, l
  <2>. QED  BY <1>1, <1>4 DEF Log
<1>6. todo \subseteq DOMAIN (l \o tail) /\ todo \subseteq Nat
  <2>1. DOMAIN (l \o tail) = 1..Len(l) + n
    <3>. HIDE DEF tail, l
    <3>. QED  BY <1>5 DEF Log
  <2>. QED  BY <2>1, <1>5
<1>7. proc' = [proc EXCEPT ![w] = q]
  BY <1>3
<1>8. q \in ProcessType /\ Steady(q)
  <2>. HIDE DEF tail, todo, l, ph
  <2>1. q \in ProcessType
    BY <1>1, <1>5, <1>6 DEF ProcessType, Stage, Playing
  <2>2. q.at = "mirror" /\ q.todo = todo /\ q.log = l \o tail /\ q.phase = proc[w].phase
    BY <1>1 DEF ProcessType
  <2>. QED  BY <2>1, <2>2, <1>6, <1>2 DEF Steady, ph
<1>9. proc' \in [Workers -> ProcessType] /\ \A v \in Workers : Steady(proc'[v])
  <2>. HIDE DEF q
  <2>. QED  BY <1>7, <1>8, OneMoves
<1>. QED  BY <1>1, <1>9 DEF TypeInv

\* Mirroring inserts a prefix of the log.
LEMMA MirrorType ==
    ASSUME TypeInv, NEW w \in Workers, Mirror(w)
    PROVE  TypeInv'
<1>. DEFINE l == proc[w].log
<1>1. proc[w] \in ProcessType /\ Steady(proc[w]) /\ proc[w].at = "mirror" /\ l \in Log
  BY DEF TypeInv, Mirror, ProcessType
<1>2. PICK s \in proc[w].todo :
         IF Taken(rows, s)
         THEN Raise(w, FALSE) /\ UNCHANGED rows
         ELSE /\ rows' = rows \cup {Prefix(l, s)}
              /\ proc' = [proc EXCEPT ![w].todo = @ \ {s}]
              /\ UNCHANGED game
  BY DEF Mirror
<1>3. CASE Taken(rows, s)
  BY <1>2, <1>3, RaiseEnds DEF TypeInv
<1>4. CASE ~Taken(rows, s)
  <2>. DEFINE q == [proc[w] EXCEPT !.todo = @ \ {s}]
  <2>1. rows' = rows \cup {Prefix(l, s)} /\ game' = game /\ proc' = [proc EXCEPT ![w] = q]
    BY <1>1, <1>2, <1>4 DEF TypeInv
  <2>2. s \in 1..Len(l) /\ Len(l) \in Nat
    BY <1>1 DEF Steady, Log
  <2>3. Prefix(l, s) \in Log /\ Prefix(l, s) # <<>>
    <3>1. Prefix(l, s) \in Log /\ Len(Prefix(l, s)) = s
      BY <1>1, <2>2, PrefixType
    <3>. QED  BY <3>1, <2>2
  <2>4. rows' \subseteq Log \ {<<>>} /\ \E n \in Nat : \A r \in rows' : Len(r) =< n
    BY <2>1, <2>3, OneMoreRow
  <2>5. q \in ProcessType /\ Steady(q)
    BY <1>1 DEF ProcessType, Stage, Playing, Steady
  <2>6. proc' \in [Workers -> ProcessType] /\ \A v \in Workers : Steady(proc'[v])
    <3>. HIDE DEF q
    <3>. QED  BY <2>1, <2>5, OneMoves
  <2>. QED  BY <2>1, <2>4, <2>6 DEF TypeInv
<1>. QED  BY <1>3, <1>4

\* The end of a game is one more row and a closed games row, or nothing.
LEMMA TerminateType ==
    ASSUME TypeInv, NEW w \in Workers, NEW winner \in Verdict \cup {"DRAW"},
           proc[w].at \in {"enter", "check"}, Terminate(w, winner)
    PROVE  TypeInv'
<1>. DEFINE last == [Ev("terminated", proc[w].phase) EXCEPT !.verdict = winner]
            sealed == Append(proc[w].log, last)
<1>1. proc[w] \in ProcessType /\ Steady(proc[w]) /\ proc[w].log \in Log /\ game \in GameType
      /\ proc[w].todo = {}
  BY DEF TypeInv, ProcessType, Steady
<1>2. last \in Written
  BY <1>1 DEF ProcessType, Ev, Written, Event
<1>3. sealed \in Log /\ sealed # <<>>
  <2>. HIDE DEF last
  <2>. QED  BY <1>1, <1>2 DEF Log
<1>4. CASE game.status = "COMPLETED" \/ ~FenceAllows(w)
  <2>. DEFINE q == [proc[w] EXCEPT !.at = "closed"]
  <2>1. rows' = rows /\ game' = game /\ proc' = [proc EXCEPT ![w] = q]
    BY <1>1, <1>4 DEF Terminate, Goes, TypeInv
  <2>2. q \in ProcessType /\ Steady(q)
    BY <1>1 DEF ProcessType, Stage, Steady
  <2>3. proc' \in [Workers -> ProcessType] /\ \A v \in Workers : Steady(proc'[v])
    <3>. HIDE DEF q
    <3>. QED  BY <2>1, <2>2, OneMoves
  <2>. QED  BY <2>1, <2>3 DEF TypeInv
<1>5. CASE ~(game.status = "COMPLETED" \/ ~FenceAllows(w)) /\ Taken(rows, Len(sealed))
  <2>1. Raise(w, FALSE) /\ rows' = rows
    BY <1>5 DEF Terminate
  <2>. QED  BY <2>1, RaiseEnds DEF TypeInv
<1>6. CASE ~(game.status = "COMPLETED" \/ ~FenceAllows(w)) /\ ~Taken(rows, Len(sealed))
  <2>. DEFINE q == [proc[w] EXCEPT !.at = "closed", !.log = sealed]
  <2>1. /\ rows' = rows \cup {sealed}
        /\ game' = [game EXCEPT !.status = "COMPLETED", !.result = winner, !.rated = @ + 1]
        /\ proc' = [proc EXCEPT ![w] = q]
    <3>. HIDE DEF last
    <3>. QED  BY <1>1, <1>6 DEF Terminate, last, TypeInv, ProcessType
  <2>2. q \in ProcessType /\ Steady(q)
    <3>. HIDE DEF sealed
    <3>. QED  BY <1>1, <1>3 DEF ProcessType, Stage, Steady
  <2>3. proc' \in [Workers -> ProcessType] /\ \A v \in Workers : Steady(proc'[v])
    <3>. HIDE DEF q
    <3>. QED  BY <2>1, <2>2, OneMoves
  <2>4. rows' \subseteq Log \ {<<>>} /\ \E n \in Nat : \A r \in rows' : Len(r) =< n
    <3>. HIDE DEF sealed
    <3>. QED  BY <2>1, <1>3, OneMoreRow
  <2>5. game' \in GameType
    <3>1. game.rated \in Nat /\ game.rated + 1 \in Nat
      BY <1>1 DEF GameType
    <3>2. winner \in Verdict \cup {"DRAW"}
      OBVIOUS
    <3>. QED  BY <1>1, <2>1, <3>1, <3>2 DEF GameType
  <2>. QED  BY <2>3, <2>4, <2>5 DEF TypeInv
<1>. QED  BY <1>4, <1>5, <1>6

\* check_win over a log answers a faction or nothing, as the phases of the log did.
LEMMA CheckWinType ==
    ASSUME NEW l \in Log
    PROVE  CheckWin(l) \in Verdict \cup {"DRAW"}
<1>. DEFINE effects == {i \in DOMAIN l : l[i].kind = "effect"}
<1>1. CASE effects = {}
  BY <1>1 DEF CheckWin, Verdict
<1>2. CASE effects # {}
  <2>1. Len(l) \in Nat /\ effects \subseteq Nat /\ \A i \in effects : i =< Len(l)
    BY DEF Log
  <2>2. \E i \in effects : \A j \in effects : j =< i
    <3>. HIDE DEF effects
    <3>. QED  BY <1>2, <2>1, MaxOfBounded
  <2>3. (CHOOSE i \in effects : \A j \in effects : j =< i) \in effects
    BY <2>2
  <2>4. CheckWin(l) = l[CHOOSE i \in effects : \A j \in effects : j =< i].verdict
    BY <1>2 DEF CheckWin
  <2>5. \A i \in DOMAIN l : l[i].verdict \in Verdict \cup {"DRAW"}
    BY DEF Log, Written, Event
  <2>. QED  BY <2>3, <2>4, <2>5
<1>. QED  BY <1>1, <1>2

\* Init has the types.
LEMMA TypeInit == Init => TypeInv
<1>. SUFFICES ASSUME Init PROVE TypeInv
  OBVIOUS
<1>1. Process("down", 0) \in ProcessType /\ Steady(Process("down", 0))
  BY ProcessIsSteady, JournalAssumption
<1>2. proc \in [Workers -> ProcessType] /\ \A w \in Workers : Steady(proc[w])
  BY <1>1 DEF Init
<1>3. game \in GameType
  BY DEF Init, GameType, Verdict
<1>4. rows \subseteq Log \ {<<>>} /\ \A r \in rows : Len(r) =< 0
  BY DEF Init
<1>. QED  BY <1>2, <1>3, <1>4 DEF TypeInv

\* Every step keeps the types.
LEMMA TypeStep == TypeInv /\ [Next]_vars => TypeInv'
<1>. SUFFICES ASSUME TypeInv, [Next]_vars PROVE TypeInv'
  OBVIOUS
<1>. Phases \in Nat \ {0} /\ MaxAttempts \in Nat \ {0}
  BY JournalAssumption
<1>a. \A w \in Workers : proc[w] \in ProcessType /\ proc[w].log \in Log /\ Steady(proc[w])
  BY DEF TypeInv, ProcessType
<1>1. ASSUME NEW w \in Workers, Boot(w) PROVE TypeInv'
  <2>1. Process("rehydrate", 1) \in ProcessType /\ Steady(Process("rehydrate", 1))
    BY ProcessIsSteady
  <2>2. proc' = [proc EXCEPT ![w] = Process("rehydrate", 1)] /\ rows' = rows /\ game' = game
    BY <1>1 DEF Boot
  <2>. QED  BY <2>1, <2>2, OneMoves DEF TypeInv
<1>2. ASSUME NEW w \in Workers, Crash(w) PROVE TypeInv'
  <2>1. Process("down", 0) \in ProcessType /\ Steady(Process("down", 0))
    BY ProcessIsSteady
  <2>2. proc' = [proc EXCEPT ![w] = Process("down", 0)] /\ rows' = rows /\ game' = game
    BY <1>2 DEF Crash
  <2>. QED  BY <2>1, <2>2, OneMoves DEF TypeInv
<1>3. ASSUME NEW w \in Workers, Fault(w) PROVE TypeInv'
  <2>1. PICK poison \in BOOLEAN : Raise(w, poison)
    BY <1>3 DEF Fault
  <2>. QED  BY <1>3, <2>1, RaiseEnds DEF Fault, TypeInv
<1>4. ASSUME NEW w \in Workers, Rehydrate(w) PROVE TypeInv'
  BY <1>4, RehydrateType
<1>5. ASSUME NEW w \in Workers, Truncate(w) PROVE TypeInv'
  BY <1>5, TruncateType
<1>6. ASSUME NEW w \in Workers, Acquire(w) PROVE TypeInv'
  BY <1>6, AcquireType
<1>7. ASSUME NEW w \in Workers, Create(w) PROVE TypeInv'
  <2>1. Emit(w, Ev("created", 0), "deal", 0) /\ proc[w].todo = {}
    BY <1>7, <1>a DEF Create, Steady
  <2>. QED  BY <2>1, EventsWritten, EmitType DEF Playing
<1>8. ASSUME NEW w \in Workers, Deal(w) PROVE TypeInv'
  <2>1. Emit(w, Ev("roles", 0), "enter", 1) /\ proc[w].todo = {}
    BY <1>8, <1>a DEF Deal, Steady
  <2>. QED  BY <2>1, EventsWritten, EmitType DEF Playing
<1>9. ASSUME NEW w \in Workers, StartPhase(w) PROVE TypeInv'
  <2>1. /\ Emit(w, Ev("started", proc[w].phase), "tick", proc[w].phase)
        /\ proc[w].todo = {} /\ proc[w].phase \in 1..Phases
    BY <1>9, <1>a DEF StartPhase, Steady, ProcessType
  <2>. QED  BY <2>1, EventsWritten, EmitType DEF Playing
<1>10. ASSUME NEW w \in Workers, Tick(w) PROVE TypeInv'
  BY <1>10, TickType
<1>11. ASSUME NEW w \in Workers, Mirror(w) PROVE TypeInv'
  BY <1>11, MirrorType
<1>12. ASSUME NEW w \in Workers, PlayPhase(w) PROVE TypeInv'
  <2>1. PICK verdict \in Verdict :
          Emit(w, [Ev("effect", proc[w].phase) EXCEPT !.verdict = verdict], "resolve",
               proc[w].phase)
    BY <1>12 DEF PlayPhase
  <2>2. proc[w].todo = {} /\ proc[w].phase \in 1..Phases
    BY <1>12, <1>a DEF PlayPhase, Steady
  <2>3. [Ev("effect", proc[w].phase) EXCEPT !.verdict = verdict] \in Written
    BY <2>2, EventsWritten
  <2>. QED  BY <2>1, <2>2, <2>3, EmitType DEF Playing
<1>13. ASSUME NEW w \in Workers, ResolvePhase(w) PROVE TypeInv'
  <2>1. /\ Emit(w, Ev("resolved", proc[w].phase), "check", proc[w].phase)
        /\ proc[w].todo = {} /\ proc[w].phase \in 1..Phases
    BY <1>13, <1>a DEF ResolvePhase, Steady
  <2>. QED  BY <2>1, EventsWritten, EmitType DEF Playing
<1>14. ASSUME NEW w \in Workers, NextPhase(w) PROVE TypeInv'
  <2>. DEFINE q == [proc[w] EXCEPT !.at = "enter", !.phase = proc[w].phase + 1]
  <2>1. proc' = [proc EXCEPT ![w] = q] /\ rows' = rows /\ game' = game
    BY <1>14, <1>a DEF NextPhase, ProcessType, TypeInv
  <2>2. proc[w].phase \in 1..Phases /\ proc[w].todo = {}
    BY <1>14, <1>a DEF NextPhase, Steady
  <2>3. q \in ProcessType /\ Steady(q)
    <3>1. proc[w].phase + 1 \in 1..Phases + 1
      BY <2>2
    <3>2. \A n \in 0..Phases + 1 : [proc[w] EXCEPT !.at = "enter", !.phase = n] \in ProcessType
      BY <1>a DEF ProcessType, Stage, Playing
    <3>a. q \in ProcessType
      <4>. DEFINE ph == proc[w].phase + 1
      <4>1. ph \in 0..Phases + 1
        BY <3>1
      <4>. HIDE DEF ph
      <4>2. [proc[w] EXCEPT !.at = "enter", !.phase = ph] \in ProcessType
        BY <4>1, <3>2
      <4>. QED  BY <4>2 DEF ph
    <3>3. q.at = "enter" /\ q.phase = proc[w].phase + 1 /\ q.todo = {}
      BY <2>2, <1>a DEF ProcessType
    <3>. QED  BY <3>1, <3>a, <3>3 DEF Steady
  <2>4. proc' \in [Workers -> ProcessType] /\ \A v \in Workers : Steady(proc'[v])
    <3>. HIDE DEF q
    <3>. QED  BY <2>1, <2>3, OneMoves
  <2>. QED  BY <2>1, <2>4 DEF TypeInv
<1>15. ASSUME NEW w \in Workers, TerminateWithWinner(w) PROVE TypeInv'
  BY <1>15, <1>a, CheckWinType, TerminateType DEF TerminateWithWinner
<1>16. ASSUME NEW w \in Workers, TerminateAsDraw(w) PROVE TypeInv'
  BY <1>16, TerminateType DEF TerminateAsDraw
<1>17. CASE LeaseExpires
  <2>1. game' \in GameType /\ rows' = rows /\ proc' = proc
    BY <1>17 DEF LeaseExpires, TypeInv, GameType
  <2>. QED  BY <2>1 DEF TypeInv
<1>18. CASE ReapLease
  <2>1. game' \in GameType /\ rows' = rows /\ proc' = proc
    BY <1>18 DEF ReapLease, TypeInv, GameType
  <2>. QED  BY <2>1 DEF TypeInv
<1>19. ASSUME NEW w \in Workers, Release(w) PROVE TypeInv'
  <2>. DEFINE q == [proc[w] EXCEPT !.at = "over"]
  <2>1. proc' = [proc EXCEPT ![w] = q] /\ rows' = rows /\ game' = game /\ proc[w].at = "closed"
    BY <1>19 DEF Release, Goes, TypeInv
  <2>2. q \in ProcessType /\ Steady(q)
    BY <1>a, <2>1 DEF ProcessType, Stage, Steady
  <2>3. proc' \in [Workers -> ProcessType] /\ \A v \in Workers : Steady(proc'[v])
    <3>. HIDE DEF q
    <3>. QED  BY <2>1, <2>2, OneMoves
  <2>. QED  BY <2>1, <2>3 DEF TypeInv
<1>20. CASE UNCHANGED vars
  BY <1>20 DEF vars, TypeInv
<1>. QED  BY <1>1, <1>2, <1>3, <1>4, <1>5, <1>6, <1>7, <1>8, <1>9, <1>10, <1>11, <1>12,
             <1>13, <1>14, <1>15, <1>16, <1>17, <1>18, <1>19, <1>20 DEF Next

FaultsType == [raised : Nat, poison : BOOLEAN, late : Nat]

\* Only Fault counts exceptions, and it counts each once.
LEMMA FaultsStep == faults \in FaultsType /\ [Next]_vars => faults' \in FaultsType
<1>. SUFFICES ASSUME faults \in FaultsType, [Next]_vars PROVE faults' \in FaultsType
  OBVIOUS
<1>1. ASSUME NEW w \in Workers, Fault(w) PROVE faults' \in FaultsType
  <2>1. /\ faults'.raised = faults.raised + 1
        /\ faults'.late \in {faults.late, faults.late + 1}
        /\ faults' = [raised |-> faults'.raised, poison |-> faults'.poison, late |-> faults'.late]
        /\ faults'.poison \in BOOLEAN
    BY <1>1 DEF Fault, FaultsType
  <2>. QED  BY <2>1 DEF FaultsType
<1>2. ASSUME NEW w \in Workers,
             \/ Create(w) \/ Deal(w) \/ StartPhase(w) \/ PlayPhase(w) \/ ResolvePhase(w)
             \/ TerminateWithWinner(w) \/ TerminateAsDraw(w)
      PROVE  faults' = faults
  BY <1>2 DEF Create, Deal, StartPhase, PlayPhase, ResolvePhase, Emit, TerminateWithWinner,
              TerminateAsDraw, Terminate
<1>3. ASSUME NEW w \in Workers,
             \/ Boot(w) \/ Crash(w) \/ Rehydrate(w) \/ Truncate(w) \/ Acquire(w) \/ Tick(w)
             \/ Mirror(w) \/ NextPhase(w) \/ Release(w)
      PROVE  faults' = faults
  BY <1>3 DEF Boot, Crash, Rehydrate, Truncate, Acquire, Tick, Mirror, NextPhase, Release
<1>4. CASE LeaseExpires \/ ReapLease \/ UNCHANGED vars
  BY <1>4 DEF LeaseExpires, ReapLease, vars
<1>. QED  BY <1>1, <1>2, <1>3, <1>4 DEF Next

\* The tables and every process are always of their types, for any number of workers.
THEOREM TypeCorrect == Spec => []TypeOK
<1>. DEFINE FaultsOK == faults \in FaultsType
<1>1. TypeInv /\ FaultsOK => TypeOK
  <2>. SUFFICES ASSUME TypeInv, faults \in FaultsType PROVE TypeOK
    OBVIOUS
  <2>1. \A l \in Log : l \in Seq(Event)
    BY DEF Log, Written
  <2>2. \A r \in rows : r \in Seq(Event) /\ r # <<>>
    BY <2>1 DEF TypeInv
  <2>3. \A w \in Workers : proc[w] \in ProcessType /\ Steady(proc[w])
    BY DEF TypeInv
  <2>4. \A w \in Workers : /\ proc[w].at \in Stage
                           /\ proc[w].log \in Seq(Event)
                           /\ proc[w].phase \in 0..Phases + 1
                           /\ proc[w].todo \subseteq DOMAIN proc[w].log
                           /\ proc[w].attempt \in 0..MaxAttempts
    BY <2>1, <2>3 DEF ProcessType, Steady
  <2>. QED  BY <2>2, <2>4 DEF TypeInv, TypeOK, GameType, FaultsType
<1>2. Init => FaultsOK
  BY DEF Init, FaultsType
<1>3. FaultsOK /\ [Next]_vars => FaultsOK'
  BY FaultsStep
<1>. HIDE DEF FaultsOK
<1>. QED  BY <1>1, <1>2, <1>3, TypeInit, TypeStep, PTL DEF Spec

-----------------------------------------------------------------------------
\* Ratings are applied at most once, for any number of workers

\* Once they have been, the game is over and its row fences out everybody who still plays.
RatingInv ==
    /\ TypeInv
    /\ game.rated \in {0, 1}
    /\ game.rated = 1 =>
          /\ Terminal(game.status)
          /\ \A w \in Workers : FenceAllows(w) => proc[w].at \notin Playing

\* A step that leaves the games row, or dead-letters it, and brings nobody into play.
LEMMA NobodyJoins ==
    ASSUME RatingInv, TypeInv',
           game' = game \/ game' = [game EXCEPT !.status = "FAILED", !.result = Undecided],
           \A w \in Workers : proc'[w].at \in Playing => proc[w].at \in Playing
    PROVE  RatingInv'
<1>1. game \in GameType
  BY DEF RatingInv, TypeInv
<1>2. /\ game'.rated = game.rated /\ game'.holder = game.holder /\ game'.leased = game.leased
      /\ Terminal(game.status) => Terminal(game'.status)
  BY <1>1 DEF GameType, Terminal
<1>. QED  BY <1>2 DEF RatingInv, FenceAllows

\* emit_and_persist brings nobody into play.
LEMMA EmitKeepsPlaying ==
    ASSUME TypeInv, NEW w \in Workers, NEW e, NEW stage, NEW ph,
           proc[w].at \in Playing, Emit(w, e, stage, ph)
    PROVE  /\ game' = game \/ game' = [game EXCEPT !.status = "FAILED", !.result = Undecided]
           /\ \A v \in Workers : proc'[v].at \in Playing => proc[v].at \in Playing
<1>. DEFINE sealed == Append(proc[w].log, e)
            q == [[proc[w] EXCEPT !.at = stage, !.log = sealed] EXCEPT !.phase = ph]
<1>1. CASE Taken(rows, Len(sealed))
  <2>1. Raise(w, FALSE)
    BY <1>1 DEF Emit
  <2>. QED  BY <2>1, RaiseEnds DEF Playing
<1>2. CASE ~Taken(rows, Len(sealed))
  <2>. HIDE DEF sealed
  <2>1. game' = game /\ proc' = [proc EXCEPT ![w] = q]
    BY <1>2 DEF Emit, sealed
  <2>. HIDE DEF q
  <2>2. \A v \in Workers \ {w} : proc'[v] = proc[v]
    BY <2>1 DEF TypeInv
  <2>. QED  BY <2>1, <2>2
<1>. QED  BY <1>1, <1>2

\* Every step keeps the strengthened invariant.
LEMMA RatingStep == RatingInv /\ [Next]_vars => RatingInv'
<1>. SUFFICES ASSUME RatingInv, [Next]_vars PROVE RatingInv'
  OBVIOUS
<1>. TypeInv /\ TypeInv'
  BY TypeStep DEF RatingInv
<1>a. game \in GameType /\ proc \in [Workers -> ProcessType]
  BY DEF TypeInv
<1>1. ASSUME NEW w \in Workers, Boot(w) \/ Crash(w) \/ NextPhase(w) PROVE RatingInv'
  <2>1. game' = game /\ \A v \in Workers \ {w} : proc'[v] = proc[v]
    BY <1>1, <1>a DEF Boot, Crash, NextPhase
  <2>2. proc'[w].at \in {"rehydrate", "down"} \/ proc[w].at \in Playing
    BY <1>1, <1>a DEF Boot, Crash, NextPhase, Process, Playing
  <2>. QED  BY <2>1, <2>2, NobodyJoins DEF Playing
<1>2. ASSUME NEW w \in Workers, Fault(w) PROVE RatingInv'
  <2>1. PICK poison \in BOOLEAN : Raise(w, poison)
    BY <1>2 DEF Fault
  <2>. QED  BY <2>1, RaiseEnds, NobodyJoins DEF Playing
<1>3. ASSUME NEW w \in Workers, Rehydrate(w) PROVE RatingInv'
  <2>1. CASE Raise(w, TRUE)
    BY <2>1, RaiseEnds, NobodyJoins DEF Playing
  <2>2. CASE ~Raise(w, TRUE)
    <3>. DEFINE l == Replayed(rows)
    <3>1. /\ game' = game
          /\ IF NothingToResume(l) THEN Goes(w, "acquire")
             ELSE IF Boundary(l) # 0
             THEN proc' = [proc EXCEPT ![w].at = "truncate", ![w].cut = Boundary(l)]
             ELSE proc' = [proc EXCEPT ![w].at = "acquire", ![w].log = l]
      BY <1>3, <2>2 DEF Rehydrate
    <3>. HIDE DEF l
    <3>2. \A v \in Workers \ {w} : proc'[v] = proc[v]
      BY <3>1, <1>a DEF Goes
    <3>3. proc'[w].at \in {"acquire", "truncate"}
      BY <3>1, <1>a DEF Goes, ProcessType
    <3>. QED  BY <3>1, <3>2, <3>3, NobodyJoins DEF Playing
  <2>. QED  BY <2>1, <2>2
<1>4. ASSUME NEW w \in Workers, Truncate(w) PROVE RatingInv'
  <2>1. CASE Raise(w, TRUE)
    BY <2>1, RaiseEnds, NobodyJoins DEF Playing
  <2>2. CASE ~Raise(w, TRUE)
    <3>1. /\ game' = game
          /\ proc' = [proc EXCEPT ![w].at = "acquire", ![w].log = Replayed(rows'), ![w].cut = 0]
      BY <1>4, <2>2 DEF Truncate
    <3>2. \A v \in Workers \ {w} : proc'[v] = proc[v]
      BY <3>1, <1>a
    <3>3. proc'[w].at = "acquire"
      BY <3>1, <1>a DEF ProcessType
    <3>. QED  BY <3>1, <3>2, <3>3, NobodyJoins DEF Playing
  <2>. QED  BY <2>1, <2>2
<1>5. ASSUME NEW w \in Workers, Acquire(w) PROVE RatingInv'
  <2>1. CASE Goes(w, "over") /\ UNCHANGED game
    <3>1. \A v \in Workers \ {w} : proc'[v] = proc[v]
      BY <2>1, <1>a DEF Goes
    <3>2. proc'[w].at = "over"
      BY <2>1, <1>a DEF Goes, ProcessType
    <3>. QED  BY <2>1, <3>1, <3>2, NobodyJoins DEF Playing
  <2>2. CASE ~(Goes(w, "over") /\ UNCHANGED game)
    <3>1. /\ ~Terminal(game.status)
          /\ game' = [game EXCEPT !.status = "RUNNING", !.holder = w, !.leased = TRUE]
      BY <1>5, <2>2 DEF Acquire
    <3>2. game.rated = 0
      BY <3>1 DEF RatingInv
    <3>3. game'.rated = 0
      BY <3>1, <3>2, <1>a DEF GameType
    <3>. QED  BY <3>3 DEF RatingInv
  <2>. QED  BY <2>1, <2>2
<1>6. ASSUME NEW w \in Workers, Create(w) \/ Deal(w) \/ StartPhase(w) \/ PlayPhase(w) \/ ResolvePhase(w)
      PROVE  RatingInv'
  <2>1. proc[w].at \in Playing /\ \E e, stage, ph : Emit(w, e, stage, ph)
    BY <1>6 DEF Create, Deal, StartPhase, PlayPhase, ResolvePhase, Playing
  <2>2. PICK e, stage, ph : Emit(w, e, stage, ph)
    BY <2>1
  <2>. QED  BY <2>1, <2>2, EmitKeepsPlaying, NobodyJoins
<1>7. ASSUME NEW w \in Workers, Tick(w) PROVE RatingInv'
  <2>1. proc[w].at \in Playing /\ game' = game /\ \A v \in Workers \ {w} : proc'[v] = proc[v]
    BY <1>7, <1>a DEF Tick, Playing
  <2>. QED  BY <2>1, NobodyJoins
<1>8. ASSUME NEW w \in Workers, Mirror(w) PROVE RatingInv'
  <2>1. CASE Raise(w, FALSE)
    BY <2>1, RaiseEnds, NobodyJoins DEF Playing
  <2>2. CASE ~Raise(w, FALSE)
    <3>1. proc[w].at \in Playing /\ game' = game /\ \A v \in Workers \ {w} : proc'[v] = proc[v]
      BY <1>8, <2>2, <1>a DEF Mirror, Playing
    <3>. QED  BY <3>1, NobodyJoins
  <2>. QED  BY <2>1, <2>2
<1>9. ASSUME NEW w \in Workers, TerminateWithWinner(w) \/ TerminateAsDraw(w) PROVE RatingInv'
  <2>1. PICK winner : Terminate(w, winner)
    BY <1>9 DEF TerminateWithWinner, TerminateAsDraw
  <2>2. proc[w].at \in Playing
    BY <1>9 DEF TerminateWithWinner, TerminateAsDraw, Playing
  <2>. DEFINE sealed == Append(proc[w].log,
                               [Ev("terminated", proc[w].phase) EXCEPT !.verdict = winner])
  <2>3. CASE Raise(w, FALSE)
    BY <2>3, RaiseEnds, NobodyJoins DEF Playing
  <2>4. CASE Goes(w, "closed") /\ UNCHANGED game
    <3>1. \A v \in Workers \ {w} : proc'[v] = proc[v]
      BY <2>4, <1>a DEF Goes
    <3>. QED  BY <2>2, <2>4, <3>1, NobodyJoins
  <2>5. CASE /\ FenceAllows(w)
             /\ game' = [game EXCEPT !.status = "COMPLETED", !.result = winner, !.rated = @ + 1]
             /\ proc' = [proc EXCEPT ![w].at = "closed", ![w].log = sealed]
    <3>1. game.rated = 0
      BY <2>2, <2>5 DEF RatingInv
    <3>2. game'.rated = 1 /\ game'.status = "COMPLETED" /\ game'.holder = w
      BY <2>5, <3>1, <1>a DEF GameType, FenceAllows
    <3>3. proc'[w].at = "closed"
      <4>. HIDE DEF sealed
      <4>. QED  BY <2>5, <1>a DEF ProcessType
    <3>. QED  BY <3>2, <3>3 DEF RatingInv, FenceAllows, Terminal, Playing
  <2>. QED  BY <2>1, <2>3, <2>4, <2>5 DEF Terminate
<1>10. CASE LeaseExpires \/ ReapLease
  <2>1. game.status = "RUNNING" /\ game'.rated = game.rated
    BY <1>10, <1>a DEF LeaseExpires, ReapLease, GameType
  <2>2. game.rated = 0
    BY <2>1 DEF RatingInv, Terminal
  <2>. QED  BY <2>1, <2>2 DEF RatingInv
<1>11. ASSUME NEW w \in Workers, Release(w) PROVE RatingInv'
  <2>1. game' = game /\ proc'[w].at = "over" /\ \A v \in Workers \ {w} : proc'[v] = proc[v]
    BY <1>11, <1>a DEF Release, Goes, ProcessType
  <2>. QED  BY <2>1, NobodyJoins DEF Playing
<1>12. CASE UNCHANGED vars
  BY <1>12, NobodyJoins DEF vars
<1>. QED  BY <1>1, <1>2, <1>3, <1>4, <1>5, <1>6, <1>7, <1>8, <1>9, <1>10, <1>11, <1>12 DEF Next

\* Whatever several schedulers, their crashes, faults and expired leases do to one game,
\* its ratings are applied at most once: _lease_fence_allows_finalize.
THEOREM RatedAtMostOnce == Spec => []RatedOnce
<1>1. Init => RatingInv
  BY TypeInit DEF RatingInv, Init
<1>2. RatingInv => RatedOnce
  BY DEF RatingInv, RatedOnce
<1>. QED  BY <1>1, <1>2, RatingStep, PTL DEF Spec

-----------------------------------------------------------------------------
\* One writer

\* The rows of a log
RowsOf(l) == {Prefix(l, n) : n \in 1..Len(l)}

Latest(l) == l[Len(l)]

\* Each event follows from the one before it, and none follows the end.
WellFormed(l) ==
    /\ l # <<>> => l[1] = Ev("created", 0)
    /\ \A i \in 1..Len(l) - 1 : Follows(l[i], l[i + 1]) /\ l[i].kind # "terminated"

\* At most one process runs.
OneWriter(ps) == \A v, w \in Workers : ps[v].at # "down" /\ ps[w].at # "down" => v = w

\* What a process at each stage of a drive knows of the persisted log l
Carries(p, l) ==
    /\ p.at = "rehydrate" => p.log = <<>>
    /\ p.at = "truncate" => p.log = <<>> /\ p.cut # 0 /\ p.cut = Boundary(l)
    /\ p.at = "acquire" =>
          IF NothingToResume(l) THEN p.log = <<>>
          ELSE p.log = l /\ (Unresolved(l) => Latest(l) = Ev("started", CurrentPhase(l)))
    /\ p.at = "create" => p.log = <<>> /\ l \in {<<>>, <<Ev("created", 0)>>}
    /\ p.at = "deal" => p.log = l /\ l = <<Ev("created", 0)>>
    /\ p.at = "enter" =>
          /\ p.log = l /\ l # <<>>
          /\ \/ Latest(l).kind = "roles" /\ p.phase = 1
             \/ Latest(l).kind = "resolved" /\ p.phase = Latest(l).phase + 1
    /\ p.at = "tick" => p.log = l /\ l # <<>> /\ Latest(l) = Ev("started", p.phase)
    /\ p.at = "mirror" =>
          /\ WellFormed(p.log) /\ p.log # <<>>
          /\ Latest(p.log).phase = p.phase
          /\ \E k \in 1..Len(p.log) :
                /\ l = Prefix(p.log, k) /\ p.todo = k + 1..Len(p.log)
                /\ \A i \in k..Len(p.log) : p.log[i].kind \in {"started", "failure"}
    /\ p.at = "resolve" =>
          p.log = l /\ l # <<>> /\ Latest(l).kind = "effect" /\ Latest(l).phase = p.phase
    /\ p.at = "check" =>
          p.log = l /\ l # <<>> /\ Latest(l).kind = "resolved" /\ Latest(l).phase = p.phase

Ended(l) == l # <<>> /\ Latest(l).kind = "terminated"

\* Nothing but GameCreated was written, and no process is about to write more.
Stuck(l, ps) == l = <<Ev("created", 0)>> /\ \A w \in Workers : ps[w].at # "deal"

\* Where a process may be when the game is over
Resting == {"down", "over", "closed", "rehydrate", "acquire"}

\* A process that has a game in its hands which is not over
Engaged(w) == proc[w].at # "down" /\ (proc[w].at \notin Resting \/ ~Terminal(game.status))

\* What the games row and the attempts say of the persisted log
Accounts(l, g, ps, f) ==
    /\ f \in FaultsType
    /\ g.rated = IF Ended(l) THEN 1 ELSE 0
    /\ g.status = "COMPLETED" => Ended(l)
    /\ Ended(l) => Terminal(g.status)
    /\ Terminal(g.status) =>
          \A w \in Workers : ps[w].at \in {"down", "over"} \/ (ps[w].at \in Resting /\ Ended(l))
    /\ Stuck(l, ps) \/ \A w \in Workers : ps[w].attempt =< f.raised + 1
    /\ g.status = "FAILED" => f.poison \/ f.raised >= MaxAttempts \/ l = <<Ev("created", 0)>>

\* What one writer keeps, l being what the rows read back as
Keeps(l) ==
    /\ rows = RowsOf(l)
    /\ WellFormed(l)
    /\ OneWriter(proc)
    /\ \A w \in Workers : Carries(proc[w], l)
    /\ Accounts(l, game, proc, faults)

SingleInv == TypeInv /\ Keeps(Replayed(rows))

-----------------------------------------------------------------------------
\* Operators of the model

\* Two logs of one length with the same events are one log.
LEMMA SameLog ==
    ASSUME NEW l \in Log, NEW m \in Log, Len(l) = Len(m), \A i \in 1..Len(l) : l[i] = m[i]
    PROVE  l = m
BY SeqEqual DEF Log

\* A prefix of a prefix is a prefix, and the longest one is the log.
LEMMA PrefixOfPrefix ==
    ASSUME NEW l \in Log, NEW n \in 0..Len(l), NEW k \in 0..n
    PROVE  /\ Prefix(Prefix(l, n), k) = Prefix(l, k)
           /\ Prefix(l, Len(l)) = l
<1>1. Len(l) \in Nat /\ k \in 0..Len(l)
  BY DEF Log
<1>2. /\ Prefix(l, n) \in Log /\ Len(Prefix(l, n)) = n
      /\ \A i \in 1..n : Prefix(l, n)[i] = l[i]
  BY PrefixType
<1>3. /\ Prefix(l, k) \in Log /\ Len(Prefix(l, k)) = k
      /\ \A i \in 1..k : Prefix(l, k)[i] = l[i]
  BY <1>1, PrefixType
<1>4. /\ Prefix(Prefix(l, n), k) \in Log /\ Len(Prefix(Prefix(l, n), k)) = k
      /\ \A i \in 1..k : Prefix(Prefix(l, n), k)[i] = Prefix(l, n)[i]
  BY <1>2, PrefixType
<1>5. /\ Prefix(l, Len(l)) \in Log /\ Len(Prefix(l, Len(l))) = Len(l)
      /\ \A i \in 1..Len(l) : Prefix(l, Len(l))[i] = l[i]
  BY <1>1, PrefixType
<1>. QED  BY <1>1, <1>2, <1>3, <1>4, <1>5, SameLog

\* The rows of a log read back as the log, and one of each length is taken.
LEMMA RowsReadBack ==
    ASSUME NEW l \in Log
    PROVE  /\ Replayed(RowsOf(l)) = l
           /\ Intact(RowsOf(l))
           /\ \A n \in Nat : Taken(RowsOf(l), n) <=> n \in 1..Len(l)
           /\ \A r \in RowsOf(l) : r \in Log /\ Len(r) \in 1..Len(l) /\ r = Prefix(l, Len(r))
<1>1. Len(l) \in Nat
  BY DEF Log
<1>2. \A n \in 1..Len(l) : Prefix(l, n) \in Log /\ Len(Prefix(l, n)) = n
  BY <1>1, PrefixType
<1>3. \A r \in RowsOf(l) : r \in Log /\ Len(r) \in 1..Len(l) /\ r = Prefix(l, Len(r))
  BY <1>2 DEF RowsOf
<1>4. \A n \in Nat : Taken(RowsOf(l), n) <=> n \in 1..Len(l)
  BY <1>2, <1>3 DEF Taken, RowsOf
<1>5. Replayed(RowsOf(l)) = l
  <2>1. CASE Len(l) = 0
    <3>1. l = <<>> /\ RowsOf(l) = {}
      BY <2>1 DEF RowsOf, Log
    <3>. QED  BY <3>1 DEF Replayed
  <2>2. CASE Len(l) # 0
    <3>. DEFINE Longest(r) == r \in RowsOf(l) /\ \A q \in RowsOf(l) : Len(q) =< Len(r)
    <3>1. l \in RowsOf(l)
      <4>1. Prefix(l, Len(l)) = l
        BY <1>1, PrefixOfPrefix
      <4>. QED  BY <1>1, <2>2, <4>1 DEF RowsOf
    <3>2. Longest(l)
      BY <3>1, <1>3
    <3>3. \A r : Longest(r) => r = l
      <4>. SUFFICES ASSUME NEW r, Longest(r) PROVE r = l
        OBVIOUS
      <4>1. Len(l) =< Len(r) /\ Len(r) =< Len(l) /\ Len(r) \in Nat
        BY <3>1, <1>3
      <4>2. r = Prefix(l, Len(l))
        BY <4>1, <1>1, <1>3
      <4>. QED  BY <4>2, <1>1, PrefixOfPrefix
    <3>4. Replayed(RowsOf(l)) = CHOOSE r \in RowsOf(l) : \A q \in RowsOf(l) : Len(q) =< Len(r)
      BY <3>1 DEF Replayed
    <3>. QED  BY <3>2, <3>3, <3>4
  <2>. QED  BY <2>1, <2>2
<1>6. Intact(RowsOf(l))
  <2>. SUFFICES ASSUME NEW r \in RowsOf(l)
                PROVE  /\ Len(r) > 1 => Prefix(r, Len(r) - 1) \in RowsOf(l)
                       /\ \A q \in RowsOf(l) : Len(q) = Len(r) => q = r
    BY DEF Intact
  <2>1. ASSUME Len(r) > 1 PROVE Prefix(r, Len(r) - 1) \in RowsOf(l)
    <3>1. Len(r) \in 1..Len(l) /\ r = Prefix(l, Len(r))
      BY <1>3
    <3>2. Prefix(r, Len(r) - 1) = Prefix(l, Len(r) - 1)
      BY <3>1, <2>1, <1>1, PrefixOfPrefix
    <3>. QED  BY <3>1, <3>2, <2>1 DEF RowsOf
  <2>2. \A q \in RowsOf(l) : Len(q) = Len(r) => q = r
    BY <1>3
  <2>. QED  BY <2>1, <2>2
<1>. QED  BY <1>3, <1>4, <1>5, <1>6

\* One more event is one more row.
LEMMA RowsOfAppend ==
    ASSUME NEW l \in Log, NEW e \in Written
    PROVE  /\ Append(l, e) \in Log
           /\ Len(Append(l, e)) = Len(l) + 1
           /\ Latest(Append(l, e)) = e
           /\ Append(l, e) # <<>>
           /\ \A i \in 1..Len(l) : Append(l, e)[i] = l[i]
           /\ RowsOf(Append(l, e)) = RowsOf(l) \cup {Append(l, e)}
           /\ \A i \in 0..Len(l) : Prefix(Append(l, e), i) = Prefix(l, i)
<1>1. Len(l) \in Nat
  BY DEF Log
<1>2. /\ Append(l, e) \in Log /\ Len(Append(l, e)) = Len(l) + 1 /\ Append(l, e)[Len(l) + 1] = e
      /\ Append(l, e) # <<>> /\ \A i \in 1..Len(l) : Append(l, e)[i] = l[i]
  BY DEF Log
<1>3. \A i \in 0..Len(l) : Prefix(Append(l, e), i) = Prefix(l, i)
  <2>. SUFFICES ASSUME NEW i \in 0..Len(l) PROVE Prefix(Append(l, e), i) = Prefix(l, i)
    OBVIOUS
  <2>. DEFINE m == Append(l, e)
  <2>a. m \in Log /\ i \in 0..Len(m)
    BY <1>1, <1>2
  <2>. HIDE DEF m
  <2>1. /\ Prefix(m, i) \in Log /\ Len(Prefix(m, i)) = i
        /\ \A j \in 1..i : Prefix(m, i)[j] = m[j]
    BY <2>a, PrefixType
  <2>2. /\ Prefix(l, i) \in Log /\ Len(Prefix(l, i)) = i
        /\ \A j \in 1..i : Prefix(l, i)[j] = l[j]
    BY PrefixType
  <2>3. \A j \in 1..i : m[j] = l[j]
    BY <1>1, <1>2 DEF m
  <2>. QED  BY <2>1, <2>2, <2>3, SameLog DEF m
<1>4. Prefix(Append(l, e), Len(l) + 1) = Append(l, e)
  <2>. DEFINE m == Append(l, e)
  <2>1. m \in Log /\ Len(m) = Len(l) + 1
    BY <1>2
  <2>. HIDE DEF m
  <2>2. Len(m) \in 0..Len(m) /\ 0 \in 0..Len(m)
    BY <1>1, <2>1
  <2>3. Prefix(m, Len(m)) = m
    BY <2>1, <2>2, PrefixOfPrefix
  <2>. QED  BY <2>1, <2>3 DEF m
<1>5. RowsOf(Append(l, e)) = RowsOf(l) \cup {Append(l, e)}
  <2>1. 1..Len(l) + 1 = 1..Len(l) \cup {Len(l) + 1}
    BY <1>1
  <2>. QED  BY <2>1, <1>1, <1>2, <1>3, <1>4 DEF RowsOf
<1>. QED  BY <1>2, <1>3, <1>5 DEF Latest

\* The rows up to a length are the rows of the prefix.
LEMMA RowsOfPrefix ==
    ASSUME NEW l \in Log, NEW k \in 0..Len(l)
    PROVE  RowsOf(Prefix(l, k)) = {r \in RowsOf(l) : Len(r) =< k}
<1>1. Len(l) \in Nat /\ Len(Prefix(l, k)) = k
  BY PrefixType DEF Log
<1>2. \A n \in 1..k : Prefix(Prefix(l, k), n) = Prefix(l, n)
  BY PrefixOfPrefix
<1>3. \A n \in 1..Len(l) : Len(Prefix(l, n)) = n
  BY <1>1, PrefixType
<1>. QED  BY <1>1, <1>2, <1>3 DEF RowsOf

\* A log that reads well still does when what follows is appended.
LEMMA WellFormedAppend ==
    ASSUME NEW l \in Log, NEW e \in Written, WellFormed(l),
           l = <<>> => e = Ev("created", 0),
           l # <<>> => Follows(Latest(l), e) /\ Latest(l).kind # "terminated"
    PROVE  WellFormed(Append(l, e))
<1>. DEFINE m == Append(l, e)
<1>1. Len(l) \in Nat /\ (Len(l) = 0 <=> l = <<>>)
  BY DEF Log
<1>2. /\ Len(m) = Len(l) + 1 /\ Latest(m) = e /\ \A i \in 1..Len(l) : m[i] = l[i]
  BY RowsOfAppend
<1>. HIDE DEF m
<1>3. m[Len(l) + 1] = e
  BY <1>2 DEF Latest
<1>4. m[1] = Ev("created", 0)
  BY <1>1, <1>2, <1>3 DEF WellFormed
<1>5. ASSUME NEW i \in 1..Len(m) - 1
      PROVE  Follows(m[i], m[i + 1]) /\ m[i].kind # "terminated"
  <2>1. i \in 1..Len(l)
    BY <1>1, <1>2
  <2>2. CASE i = Len(l)
    BY <2>1, <2>2, <1>1, <1>2, <1>3 DEF Latest
  <2>3. CASE i # Len(l)
    <3>1. i \in 1..Len(l) - 1 /\ i + 1 \in 1..Len(l)
      BY <2>1, <2>3, <1>1
    <3>. QED  BY <3>1, <2>1, <1>2 DEF WellFormed
  <2>. QED  BY <2>2, <2>3
<1>. QED  BY <1>4, <1>5 DEF WellFormed, m

\* A prefix of a log that reads well does too.
LEMMA WellFormedPrefix ==
    ASSUME NEW l \in Log, WellFormed(l), NEW k \in 0..Len(l)
    PROVE  WellFormed(Prefix(l, k))
<1>1. Len(l) \in Nat
  BY DEF Log
<1>2. /\ Len(Prefix(l, k)) = k /\ \A i \in 1..k : Prefix(l, k)[i] = l[i]
      /\ Prefix(l, k) \in Log
  BY PrefixType
<1>3. Prefix(l, k) # <<>> => k # 0 /\ l # <<>>
  BY <1>1, <1>2 DEF Log
<1>4. \A i \in 1..k - 1 : i \in 1..Len(l) - 1 /\ i \in 1..k /\ i + 1 \in 1..k
  BY <1>1
<1>5. PICK m : m = Prefix(l, k)
  OBVIOUS
<1>6. m # <<>> => m[1] = Ev("created", 0)
  <2>1. k # 0 => 1 \in 1..k
    BY <1>1
  <2>. QED  BY <1>2, <1>3, <1>5, <2>1 DEF WellFormed
<1>7. \A i \in 1..k - 1 : Follows(m[i], m[i + 1]) /\ m[i].kind # "terminated"
  BY <1>2, <1>4, <1>5 DEF WellFormed
<1>. QED  BY <1>2, <1>5, <1>6, <1>7 DEF WellFormed

-----------------------------------------------------------------------------
\* Steps of the one process that runs

\* While a process runs, every other is down, and its move is all that changes.
LEMMA OneStep ==
    ASSUME SingleInv, TypeInv', NEW w \in Workers, proc[w].at # "down",
           \A v \in Workers \ {w} : proc'[v] = proc[v],
           NEW m \in Log, rows' = RowsOf(m), WellFormed(m), Carries(proc'[w], m),
           Accounts(m, game', proc', faults')
    PROVE  SingleInv'
<1>1. \A v \in Workers \ {w} : proc[v].at = "down"
  BY DEF SingleInv, Keeps, OneWriter
<1>2. OneWriter(proc')
  BY <1>1 DEF OneWriter
<1>3. \A v \in Workers : Carries(proc'[v], m)
  BY <1>1 DEF Carries
<1>4. Replayed(rows') = m
  BY RowsReadBack
<1>. QED  BY <1>2, <1>3, <1>4 DEF SingleInv, Keeps

\* The log that the rows read back as
LEMMA ReadBack ==
    ASSUME SingleInv
    PROVE  /\ Replayed(rows) \in Log
           /\ rows = RowsOf(Replayed(rows))
           /\ WellFormed(Replayed(rows))
           /\ Intact(rows)
           /\ \A n \in Nat : Taken(rows, n) <=> n \in 1..Len(Replayed(rows))
<1>1. PICK n \in Nat : \A r \in rows : Len(r) =< n
  BY DEF SingleInv, TypeInv
<1>2. rows \subseteq Log
  BY DEF SingleInv, TypeInv
<1>3. Replayed(rows) \in Log
  BY <1>1, <1>2, ReplayedType
<1>4. rows = RowsOf(Replayed(rows)) /\ WellFormed(Replayed(rows))
  BY DEF SingleInv, Keeps
<1>. QED  BY <1>3, <1>4, RowsReadBack

\* A process that is under way plays a game that is open.
LEMMA UnderWay ==
    ASSUME SingleInv, NEW w \in Workers, Engaged(w)
    PROVE  /\ ~Terminal(game.status)
           /\ ~Ended(Replayed(rows))
           /\ game.rated = 0
           /\ \A v \in Workers \ {w} : proc[v].at = "down"
           /\ Carries(proc[w], Replayed(rows))
<1>1. proc[w].at # "down" /\ Accounts(Replayed(rows), game, proc, faults)
  BY DEF SingleInv, Keeps, Engaged
<1>2. ~Terminal(game.status)
  BY <1>1 DEF Accounts, Engaged, Resting
<1>. QED  BY <1>1, <1>2 DEF SingleInv, Keeps, Accounts, OneWriter

\* The books stay as they are while the game stays open.
LEMMA AccountsStay ==
    ASSUME SingleInv, NEW w \in Workers, Engaged(w),
           \A v \in Workers \ {w} : proc'[v] = proc[v],
           proc'[w].attempt = proc[w].attempt,
           game'.rated = game.rated, ~Terminal(game'.status), faults' = faults,
           NEW m, ~Ended(m),
           Stuck(Replayed(rows), proc) => m = Replayed(rows) /\ proc'[w].at # "deal"
    PROVE  Accounts(m, game', proc', faults')
<1>. DEFINE l == Replayed(rows)
<1>1. game.rated = 0 /\ \A v \in Workers \ {w} : proc[v].at = "down"
  BY UnderWay
<1>2. Accounts(l, game, proc, faults)
  BY DEF SingleInv, Keeps
<1>3. Stuck(m, proc') \/ \A v \in Workers : proc'[v].attempt =< faults'.raised + 1
  <2>1. CASE Stuck(l, proc)
    <3>1. m = <<Ev("created", 0)>> /\ proc'[w].at # "deal"
      BY <2>1 DEF Stuck
    <3>2. \A v \in Workers : proc'[v].at # "deal"
      BY <3>1, <1>1
    <3>. QED  BY <3>1, <3>2 DEF Stuck
  <2>2. CASE ~Stuck(l, proc)
    BY <2>2, <1>2 DEF Accounts
  <2>. QED  BY <2>1, <2>2
<1>4. faults' \in FaultsType
  BY <1>2 DEF Accounts
<1>. QED  BY <1>1, <1>3, <1>4 DEF Accounts, Terminal

\* An exception ends the attempt as a fault, or because GameCreated is there already.
LEMMA RaiseKeeps ==
    ASSUME SingleInv, TypeInv', NEW w \in Workers, Engaged(w),
           NEW poison \in BOOLEAN, Raise(w, poison), rows' = rows, faults' \in FaultsType,
           poison => faults'.poison,
           \/ faults'.raised = faults.raised + 1
           \/ faults' = faults /\ Replayed(rows) = <<Ev("created", 0)>>
    PROVE  SingleInv'
<1>. DEFINE l == Replayed(rows)
<1>. MaxAttempts \in Nat \ {0}
  BY JournalAssumption
<1>a. TypeInv /\ l \in Log /\ rows' = RowsOf(l) /\ WellFormed(l) /\ proc[w].at # "down"
  BY ReadBack DEF SingleInv, Engaged
<1>b. /\ ~Terminal(game.status) /\ ~Ended(l) /\ game.rated = 0
      /\ \A v \in Workers \ {w} : proc[v].at = "down"
  BY UnderWay
<1>c. Accounts(l, game, proc, faults) /\ faults.raised \in Nat /\ faults'.raised \in Nat
  BY DEF SingleInv, Keeps, Accounts, FaultsType
<1>d. \A v \in Workers : proc[v].attempt \in 0..MaxAttempts
  BY <1>a DEF TypeInv, ProcessType
<1>e. game \in GameType
  BY <1>a DEF TypeInv
<1>1. CASE poison \/ proc[w].attempt = MaxAttempts
  <2>1. MarkFailed /\ proc' = [proc EXCEPT ![w] = Process("over", proc[w].attempt)]
    BY <1>1 DEF Raise
  <2>2. /\ \A v \in Workers \ {w} : proc'[v] = proc[v]
        /\ proc'[w].at = "over" /\ proc'[w].attempt = proc[w].attempt
    BY <2>1, <1>a DEF TypeInv, Process
  <2>3. game'.status = "FAILED" /\ game'.rated = 0
    BY <2>1, <1>b, <1>e DEF MarkFailed, GameType
  <2>4. Carries(proc'[w], l)
    BY <2>2 DEF Carries
  <2>5. \A v \in Workers : proc'[v].at # "deal"
    BY <2>2, <1>b
  <2>6. Stuck(l, proc') \/ \A v \in Workers : proc'[v].attempt =< faults'.raised + 1
    BY <2>2, <2>5, <1>c, <1>d DEF Accounts, Stuck
  <2>7. faults'.poison \/ faults'.raised >= MaxAttempts \/ l = <<Ev("created", 0)>>
    <3>1. CASE poison
      BY <3>1
    <3>2. CASE proc[w].attempt = MaxAttempts
      BY <3>2, <1>c DEF Accounts, Stuck
    <3>. QED  BY <1>1, <3>1, <3>2
  <2>8. Accounts(l, game', proc', faults')
    BY <2>2, <2>3, <2>6, <2>7, <1>b DEF Accounts, Terminal
  <2>. QED  BY <2>2, <2>4, <2>8, <1>a, OneStep
<1>2. CASE ~poison /\ proc[w].attempt # MaxAttempts
  <2>1. game' = game /\ proc' = [proc EXCEPT ![w] = Process("rehydrate", proc[w].attempt + 1)]
    BY <1>2 DEF Raise
  <2>2. /\ \A v \in Workers \ {w} : proc'[v] = proc[v]
        /\ proc'[w].at = "rehydrate" /\ proc'[w].attempt = proc[w].attempt + 1
        /\ proc'[w].log = <<>>
    BY <2>1, <1>a DEF TypeInv, Process
  <2>3. Carries(proc'[w], l)
    BY <2>2 DEF Carries
  <2>4. \A v \in Workers : proc'[v].at # "deal"
    BY <2>2, <1>b
  <2>5. Stuck(l, proc') \/ \A v \in Workers : proc'[v].attempt =< faults'.raised + 1
    <3>1. CASE l = <<Ev("created", 0)>>
      BY <3>1, <2>4 DEF Stuck
    <3>2. CASE l # <<Ev("created", 0)>>
      <4>1. /\ faults'.raised = faults.raised + 1
            /\ \A v \in Workers : proc[v].attempt =< faults.raised + 1
        BY <3>2, <1>c DEF Accounts, Stuck
      <4>2. faults.raised \in Nat /\ faults'.raised = faults.raised + 1
        BY <1>c, <4>1
      <4>3. \A v \in Workers : proc[v].attempt \in Nat /\ proc[v].attempt =< faults.raised + 1
        BY <1>d, <4>1
      <4>4. proc'[w].attempt =< faults'.raised + 1
        <5>1. proc'[w].attempt = proc[w].attempt + 1
          BY <2>2
        <5>. QED  BY <5>1, <4>2, <4>3
      <4>5. ASSUME NEW v \in Workers \ {w} PROVE proc'[v].attempt =< faults'.raised + 1
        <5>1. proc'[v].attempt = proc[v].attempt
          BY <2>2
        <5>. QED  BY <5>1, <4>2, <4>3
      <4>. QED  BY <4>4, <4>5
    <3>. QED  BY <3>1, <3>2
  <2>6. Accounts(l, game', proc', faults')
    BY <2>1, <2>5, <1>b DEF Accounts, Terminal
  <2>. QED  BY <2>2, <2>3, <2>6, <1>a, OneStep
<1>. QED  BY <1>1, <1>2

\* A game that is over while its drive has not ended has a terminated log.
LEMMA OverIsOver ==
    ASSUME SingleInv, NEW w \in Workers, proc[w].at \notin {"down", "over"},
           Terminal(game.status)
    PROVE  /\ Ended(Replayed(rows)) /\ NothingToResume(Replayed(rows))
           /\ proc[w].attempt =< faults.raised + 1
           /\ game.status = "FAILED" => faults.poison \/ faults.raised >= MaxAttempts
           /\ faults \in FaultsType
<1>. DEFINE l == Replayed(rows)
<1>1. Accounts(l, game, proc, faults) /\ l \in Log
  BY ReadBack DEF SingleInv, Keeps
<1>2. Ended(l)
  BY <1>1 DEF Accounts
<1>3. l # <<>> /\ Latest(l).kind = "terminated" /\ l # <<Ev("created", 0)>>
  BY <1>2 DEF Ended, Latest, Ev
<1>4. Len(l) \in DOMAIN l
  BY <1>1, <1>3 DEF Log
<1>5. NothingToResume(l)
  BY <1>3, <1>4 DEF NothingToResume, Latest
<1>. QED  BY <1>1, <1>2, <1>3, <1>5 DEF Accounts, Stuck

\* Whatever still moves when the game is over changes neither the log nor the ratings.
LEMMA AfterTheEnd ==
    ASSUME SingleInv, TypeInv', NEW w \in Workers, proc[w].at \notin {"down", "over"},
           Terminal(game.status), rows' = rows,
           \A v \in Workers \ {w} : proc'[v] = proc[v],
           \/ proc'[w].at = "over"
           \/ proc'[w].at \in {"rehydrate", "acquire"} /\ proc'[w].log = <<>>,
           game'.rated = game.rated, Terminal(game'.status),
           faults' \in FaultsType, faults'.raised >= faults.raised,
           proc'[w].attempt =< faults'.raised + 1,
           game'.status = "FAILED" => faults'.poison \/ faults'.raised >= MaxAttempts
    PROVE  SingleInv'
<1>. DEFINE l == Replayed(rows)
<1>1. /\ Accounts(l, game, proc, faults) /\ \A v \in Workers \ {w} : proc[v].at = "down"
      /\ l \in Log /\ rows = RowsOf(l) /\ WellFormed(l)
  BY ReadBack DEF SingleInv, Keeps, OneWriter
<1>2. Ended(l) /\ ~Stuck(l, proc)
  <2>1. Ended(l)
    BY OverIsOver
  <2>. QED  BY <2>1 DEF Ended, Stuck, Latest, Ev
<1>3. NothingToResume(l)
  BY OverIsOver
<1>4. Carries(proc'[w], l)
  BY <1>3 DEF Carries
<1>5. \A v \in Workers : proc'[v].attempt =< faults'.raised + 1
  <2>1. \A v \in Workers : proc[v].attempt =< faults.raised + 1 /\ proc[v].attempt \in Nat
    BY <1>1, <1>2, JournalAssumption DEF Accounts, SingleInv, TypeInv, ProcessType
  <2>2. faults.raised \in Nat /\ faults'.raised \in Nat
    BY <1>1 DEF Accounts, FaultsType
  <2>. QED  BY <2>1, <2>2
<1>6. \A v \in Workers : proc'[v].at \in Resting
  BY <1>1 DEF Resting
<1>7. Accounts(l, game', proc', faults')
  BY <1>1, <1>2, <1>5, <1>6 DEF Accounts
<1>. QED  BY <1>1, <1>4, <1>7, OneStep

\* The drive of a game that is over moves on to its end.
LEMMA MovesAfterTheEnd ==
    ASSUME SingleInv, TypeInv', NEW w \in Workers, proc[w].at \notin {"down", "over"},
           Terminal(game.status), rows' = rows, game' = game, faults' = faults,
           \A v \in Workers \ {w} : proc'[v] = proc[v],
           \/ proc'[w].at = "over"
           \/ proc'[w].at = "acquire" /\ proc'[w].log = <<>>,
           proc'[w].attempt = proc[w].attempt
    PROVE  SingleInv'
<1>1. /\ faults' \in FaultsType /\ faults'.raised >= faults.raised
      /\ proc'[w].attempt =< faults'.raised + 1
      /\ game'.status = "FAILED" => faults'.poison \/ faults'.raised >= MaxAttempts
  BY OverIsOver DEF FaultsType
<1>. QED  BY <1>1, AfterTheEnd

\* An exception after the end is counted, and at most takes the result away.
LEMMA LateRaiseKeeps ==
    ASSUME SingleInv, TypeInv', NEW w \in Workers, proc[w].at \notin {"down", "over"},
           Terminal(game.status), NEW poison \in BOOLEAN, Raise(w, poison), rows' = rows,
           faults' \in FaultsType, faults'.raised = faults.raised + 1,
           faults.poison \/ poison => faults'.poison
    PROVE  SingleInv'
<1>. MaxAttempts \in Nat \ {0}
  BY JournalAssumption
<1>1. /\ game \in GameType /\ proc \in [Workers -> ProcessType]
      /\ proc[w].attempt \in 0..MaxAttempts
  BY DEF SingleInv, TypeInv, ProcessType
<1>2. /\ proc[w].attempt =< faults.raised + 1
      /\ game.status = "FAILED" => faults.poison \/ faults.raised >= MaxAttempts
  BY OverIsOver
<1>3. faults.raised \in Nat
  BY OverIsOver DEF FaultsType
<1>4. CASE poison \/ proc[w].attempt = MaxAttempts
  <2>1. MarkFailed /\ proc' = [proc EXCEPT ![w] = Process("over", proc[w].attempt)]
    BY <1>4 DEF Raise
  <2>2. /\ \A v \in Workers \ {w} : proc'[v] = proc[v]
        /\ proc'[w].at = "over" /\ proc'[w].attempt = proc[w].attempt
    BY <2>1, <1>1 DEF Process
  <2>3. game'.status = "FAILED" /\ game'.rated = game.rated
    BY <2>1, <1>1 DEF MarkFailed, GameType
  <2>4. faults'.poison \/ faults'.raised >= MaxAttempts
    BY <1>1, <1>2, <1>3, <1>4
  <2>5. proc'[w].attempt =< faults'.raised + 1
    BY <2>2, <1>1, <1>2, <1>3
  <2>. QED  BY <2>2, <2>3, <2>4, <2>5, <1>3, AfterTheEnd DEF Terminal
<1>5. CASE ~poison /\ proc[w].attempt # MaxAttempts
  <2>1. game' = game /\ proc' = [proc EXCEPT ![w] = Process("rehydrate", proc[w].attempt + 1)]
    BY <1>5 DEF Raise
  <2>2. /\ \A v \in Workers \ {w} : proc'[v] = proc[v]
        /\ proc'[w].at = "rehydrate" /\ proc'[w].attempt = proc[w].attempt + 1
        /\ proc'[w].log = <<>>
    BY <2>1, <1>1 DEF Process
  <2>3. proc'[w].attempt =< faults'.raised + 1
    BY <2>2, <1>1, <1>2, <1>3
  <2>4. game'.status = "FAILED" => faults'.poison \/ faults'.raised >= MaxAttempts
    BY <2>1, <1>2, <1>3
  <2>. QED  BY <2>1, <2>2, <2>3, <2>4, <1>3, AfterTheEnd
<1>. QED  BY <1>4, <1>5

\* The stage that emit_and_persist leads to knows what it should of the log it leaves.
Prepares(stage, ph, m) ==
    \A p \in ProcessType : p.at = stage /\ p.log = m /\ p.phase = ph => Carries(p, m)

\* An event that follows from the log is appended to the log and to the rows.
LEMMA EmitKeeps ==
    ASSUME SingleInv, TypeInv', NEW w \in Workers, proc[w].at \in Playing,
           NEW e \in Written, NEW stage \in Playing, NEW ph, Emit(w, e, stage, ph),
           proc[w].log = Replayed(rows),
           proc[w].log = <<>> => e = Ev("created", 0),
           proc[w].log # <<>> => /\ Follows(Latest(proc[w].log), e)
                                 /\ Latest(proc[w].log).kind # "terminated",
           e.kind # "terminated", ~Stuck(Replayed(rows), proc),
           Prepares(stage, ph, Append(Replayed(rows), e))
    PROVE  SingleInv'
<1>. DEFINE l == Replayed(rows)
            m == Append(l, e)
            q == [[proc[w] EXCEPT !.at = stage, !.log = m] EXCEPT !.phase = ph]
<1>a. l \in Log /\ rows = RowsOf(l) /\ WellFormed(l) /\ Len(l) \in Nat /\ TypeInv
      /\ \A n \in Nat : Taken(rows, n) <=> n \in 1..Len(l)
  BY ReadBack DEF SingleInv, Log
<1>b. m \in Log /\ Len(m) = Len(l) + 1 /\ Latest(m) = e /\ RowsOf(m) = RowsOf(l) \cup {m}
  BY <1>a, RowsOfAppend
<1>c. Engaged(w) /\ proc[w] \in ProcessType
  BY <1>a DEF Playing, TypeInv, Engaged, Resting
<1>1. ~Taken(rows, Len(m))
  BY <1>a, <1>b
<1>2. WellFormed(m)
  BY <1>a, WellFormedAppend
<1>. HIDE DEF m
<1>3. /\ rows' = rows \cup {m} /\ game' = game /\ faults' = faults
      /\ proc' = [proc EXCEPT ![w] = q]
  BY <1>1 DEF Emit, m
<1>4. q.at = stage /\ q.log = m /\ q.phase = ph /\ q.attempt = proc[w].attempt
  BY <1>c DEF ProcessType
<1>. HIDE DEF q
<1>5. /\ \A v \in Workers \ {w} : proc'[v] = proc[v]
      /\ proc'[w] = q
  BY <1>3, <1>a DEF TypeInv
<1>6. Carries(proc'[w], m)
  <2>1. q \in ProcessType
    BY <1>5 DEF TypeInv
  <2>. QED  BY <2>1, <1>4, <1>5 DEF m, Prepares
<1>7. ~Ended(m)
  BY <1>b DEF Ended
<1>8. Accounts(m, game', proc', faults')
  BY <1>3, <1>4, <1>5, <1>7, <1>c, UnderWay, AccountsStay
<1>9. rows' = RowsOf(m)
  BY <1>3, <1>a, <1>b
<1>. QED  BY <1>2, <1>5, <1>6, <1>8, <1>9, <1>b, <1>c, OneStep DEF Engaged

\* A log whose latest event is past GameCreated is not stuck at it.
LEMMA PastCreated ==
    ASSUME NEW l, NEW ps, Latest(l).kind # "created"
    PROVE  ~Stuck(l, ps)
BY DEF Stuck, Latest, Ev

\* GameCreated opens an empty log, or is there and refused.
LEMMA CreateKeeps ==
    ASSUME SingleInv, TypeInv', NEW w \in Workers, Create(w)
    PROVE  SingleInv'
<1>. DEFINE l == Replayed(rows)
<1>1. /\ proc[w].at = "create" /\ Emit(w, Ev("created", 0), "deal", 0)
      /\ Engaged(w) /\ proc[w].at \in Playing
  BY DEF Create, Playing, Engaged, Resting
<1>2. proc[w].log = <<>> /\ l \in {<<>>, <<Ev("created", 0)>>}
  BY <1>1, UnderWay DEF Carries
<1>3. Ev("created", 0) \in Written
  BY JournalAssumption, EventsWritten
<1>4. CASE l = <<>>
  <2>1. ~Stuck(l, proc)
    BY <1>4 DEF Stuck
  <2>2. Prepares("deal", 0, Append(l, Ev("created", 0)))
    BY <1>4 DEF Prepares, Carries
  <2>3. Ev("created", 0).kind # "terminated" /\ "deal" \in Playing
    BY DEF Ev, Playing
  <2>. HIDE DEF l
  <2>4. /\ proc[w].log = <<>> => Ev("created", 0) = Ev("created", 0)
        /\ proc[w].log # <<>> => /\ Follows(Latest(proc[w].log), Ev("created", 0))
                                 /\ Latest(proc[w].log).kind # "terminated"
    BY <1>2
  <2>. QED  BY <1>1, <1>2, <1>3, <1>4, <2>1, <2>2, <2>3, <2>4, EmitKeeps DEF l
<1>5. CASE l = <<Ev("created", 0)>>
  <2>1. Taken(rows, 1)
    <3>1. Len(l) = 1
      BY <1>5
    <3>. QED  BY <3>1, ReadBack
  <2>2. Len(Append(proc[w].log, Ev("created", 0))) = 1
    BY <1>2
  <2>3. Raise(w, FALSE) /\ rows' = rows /\ faults' = faults
    BY <1>1, <2>1, <2>2 DEF Emit
  <2>4. faults' \in FaultsType
    BY <2>3 DEF SingleInv, Keeps, Accounts
  <2>. QED  BY <1>1, <1>5, <2>3, <2>4, RaiseKeeps
<1>. QED  BY <1>2, <1>4, <1>5

\* RolesAssigned follows GameCreated.
LEMMA DealKeeps ==
    ASSUME SingleInv, TypeInv', NEW w \in Workers, Deal(w)
    PROVE  SingleInv'
<1>. DEFINE l == Replayed(rows)
            e == Ev("roles", 0)
<1>1. /\ proc[w].at = "deal" /\ Emit(w, e, "enter", 1)
      /\ Engaged(w) /\ proc[w].at \in Playing
  BY DEF Deal, Playing, Engaged, Resting
<1>2. proc[w].log = l /\ l = <<Ev("created", 0)>>
  BY <1>1, UnderWay DEF Carries
<1>3. e \in Written /\ e.kind = "roles" /\ "enter" \in Playing
  <2>1. 0 \in 0..Phases
    BY JournalAssumption
  <2>. QED  BY <2>1, EventsWritten DEF Ev, Playing
<1>4. Latest(l) = Ev("created", 0) /\ Latest(l).kind = "created" /\ l # <<>>
  BY <1>2 DEF Latest, Ev
<1>5. Follows(Latest(l), e)
  BY <1>3, <1>4 DEF Follows
<1>6. ~Stuck(l, proc)
  BY <1>1 DEF Stuck
<1>7. l \in Log
  BY ReadBack
<1>. HIDE DEF l, e
<1>8. Prepares("enter", 1, Append(l, e))
  <2>1. Latest(Append(l, e)) = e /\ Append(l, e) # <<>>
    BY <1>3, <1>7, RowsOfAppend
  <2>. QED  BY <1>3, <2>1 DEF Carries, Prepares
<1>. QED  BY <1>1, <1>2, <1>3, <1>4, <1>5, <1>6, <1>8, EmitKeeps DEF l

\* PhaseStarted follows the deal or the phase before.
LEMMA StartPhaseKeeps ==
    ASSUME SingleInv, TypeInv', NEW w \in Workers, StartPhase(w)
    PROVE  SingleInv'
<1>. DEFINE l == Replayed(rows)
            ph == proc[w].phase
            e == Ev("started", ph)
<1>1. /\ proc[w].at = "enter" /\ Emit(w, e, "tick", ph) /\ ph =< Phases
      /\ Engaged(w) /\ proc[w].at \in Playing
  BY DEF StartPhase, Playing, Engaged, Resting
<1>2. /\ proc[w].log = l /\ l # <<>>
      /\ \/ Latest(l).kind = "roles" /\ ph = 1
         \/ Latest(l).kind = "resolved" /\ ph = Latest(l).phase + 1
  BY <1>1, UnderWay DEF Carries
<1>3. ph \in 1..Phases
  BY <1>1, JournalAssumption DEF SingleInv, TypeInv, ProcessType, Steady
<1>4. e \in Written /\ e.kind = "started" /\ e.phase = ph /\ "tick" \in Playing
  <2>1. ph \in 0..Phases /\ ph # 0
    BY <1>3, JournalAssumption
  <2>2. e \in Written
    BY <2>1, EventsWritten
  <2>. QED  BY <2>2 DEF Ev, Playing
<1>5. Follows(Latest(l), e) /\ Latest(l).kind # "terminated" /\ ~Stuck(l, proc)
  BY <1>2, <1>4, PastCreated DEF Follows
<1>6. l \in Log
  BY ReadBack
<1>7. Prepares("tick", ph, Append(l, e))
  <2>. HIDE DEF e
  <2>1. Latest(Append(l, e)) = e /\ Append(l, e) # <<>>
    BY <1>4, <1>6, RowsOfAppend
  <2>2. e = Ev("started", ph)
    BY DEF e
  <2>. QED  BY <2>1, <2>2 DEF Carries, Prepares
<1>. HIDE DEF l, e, ph
<1>. QED  BY <1>1, <1>2, <1>4, <1>5, <1>7, EmitKeeps DEF l

\* A phase takes effect when all its failures have been mirrored.
LEMMA PlayPhaseKeeps ==
    ASSUME SingleInv, TypeInv', NEW w \in Workers, PlayPhase(w)
    PROVE  SingleInv'
<1>. DEFINE l == Replayed(rows)
            ph == proc[w].phase
<1>1. /\ proc[w].at = "mirror" /\ proc[w].todo = {}
      /\ Engaged(w) /\ proc[w].at \in Playing
  BY DEF PlayPhase, Playing, Engaged, Resting
<1>2. PICK verdict \in Verdict :
        Emit(w, [Ev("effect", proc[w].phase) EXCEPT !.verdict = verdict], "resolve", proc[w].phase)
  BY DEF PlayPhase
<1>. DEFINE e == [Ev("effect", ph) EXCEPT !.verdict = verdict]
<1>3. ph \in 1..Phases /\ proc[w].log \in Log
  BY <1>1 DEF SingleInv, TypeInv, ProcessType, Steady
<1>4. e \in Written /\ e.kind = "effect" /\ e.phase = ph /\ "resolve" \in Playing
  <2>1. ph \in 0..Phases /\ ph # 0
    BY <1>3, JournalAssumption
  <2>2. e \in Written
    BY <2>1, EventsWritten
  <2>. QED  BY <2>2 DEF Ev, Playing
<1>5. proc[w].log = l
  <2>1. PICK k \in 1..Len(proc[w].log) :
           l = Prefix(proc[w].log, k) /\ proc[w].todo = k + 1..Len(proc[w].log)
    BY <1>1, UnderWay DEF Carries
  <2>2. Len(proc[w].log) \in Nat
    BY <1>3 DEF Log
  <2>3. k = Len(proc[w].log)
    <3>. SUFFICES ASSUME k # Len(proc[w].log) PROVE k + 1 \in proc[w].todo
      BY <1>1
    <3>. QED  BY <2>1, <2>2
  <2>. QED  BY <1>3, <2>1, <2>2, <2>3, PrefixOfPrefix
<1>6. l # <<>> /\ Latest(l).kind \in {"started", "failure"} /\ Latest(l).phase = ph
  <2>1. /\ l # <<>> /\ Latest(l).phase = ph
        /\ \E k \in 1..Len(l) : \A i \in k..Len(l) : l[i].kind \in {"started", "failure"}
    BY <1>1, <1>5, UnderWay DEF Carries
  <2>2. Len(l) \in Nat
    BY <1>3, <1>5 DEF Log
  <2>. QED  BY <2>1, <2>2 DEF Latest
<1>7. Follows(Latest(l), e) /\ Latest(l).kind # "terminated" /\ ~Stuck(l, proc)
  BY <1>4, <1>6, PastCreated DEF Follows
<1>8. l \in Log
  BY ReadBack
<1>. HIDE DEF e
<1>9. Prepares("resolve", ph, Append(l, e))
  <2>1. Latest(Append(l, e)) = e /\ Append(l, e) # <<>>
    BY <1>4, <1>8, RowsOfAppend
  <2>. QED  BY <1>4, <2>1 DEF Carries, Prepares
<1>10. Emit(w, e, "resolve", ph)
  BY <1>2 DEF e
<1>. HIDE DEF l, ph
<1>. QED  BY <1>1, <1>4, <1>5, <1>6, <1>7, <1>9, <1>10, EmitKeeps DEF l

\* PhaseResolved follows the effect of its phase.
LEMMA ResolvePhaseKeeps ==
    ASSUME SingleInv, TypeInv', NEW w \in Workers, ResolvePhase(w)
    PROVE  SingleInv'
<1>. DEFINE l == Replayed(rows)
            ph == proc[w].phase
            e == Ev("resolved", ph)
<1>1. /\ proc[w].at = "resolve" /\ Emit(w, e, "check", ph)
      /\ Engaged(w) /\ proc[w].at \in Playing
  BY DEF ResolvePhase, Playing, Engaged, Resting
<1>2. proc[w].log = l /\ l # <<>> /\ Latest(l).kind = "effect" /\ Latest(l).phase = ph
  BY <1>1, UnderWay DEF Carries
<1>3. ph \in 1..Phases
  BY <1>1 DEF SingleInv, TypeInv, Steady
<1>4. e \in Written /\ e.kind = "resolved" /\ e.phase = ph /\ "check" \in Playing
  <2>1. ph \in 0..Phases /\ ph # 0
    BY <1>3, JournalAssumption
  <2>2. e \in Written
    BY <2>1, EventsWritten
  <2>. QED  BY <2>2 DEF Ev, Playing
<1>5. Follows(Latest(l), e) /\ Latest(l).kind # "terminated" /\ ~Stuck(l, proc)
  BY <1>2, <1>4, PastCreated DEF Follows
<1>6. l \in Log
  BY ReadBack
<1>. HIDE DEF e
<1>7. Prepares("check", ph, Append(l, e))
  <2>1. Latest(Append(l, e)) = e /\ Append(l, e) # <<>>
    BY <1>4, <1>6, RowsOfAppend
  <2>. QED  BY <1>4, <2>1 DEF Carries, Prepares
<1>. HIDE DEF l, ph
<1>. QED  BY <1>1, <1>2, <1>4, <1>5, <1>7, EmitKeeps DEF l

\* A log and the same log with n failures of a phase after it; what a process that mirrors
\* them may rely on.
WithFailures(l, m, n, ph) ==
    /\ Len(m) = Len(l) + n
    /\ \A i \in 1..Len(l) : m[i] = l[i]
    /\ \A i \in Len(l) + 1..Len(l) + n : m[i] = Ev("failure", ph)

Mirrored(l, m, ph) ==
    /\ WellFormed(m) /\ m # <<>> /\ Latest(m).phase = ph
    /\ \A i \in Len(l)..Len(m) : m[i].kind \in {"started", "failure"}
    /\ Prefix(m, Len(l)) = l

\* Failures of its phase follow from the start of a phase, whatever their number.
LEMMA FailuresFollow ==
    ASSUME NEW l \in Log, l # <<>>, WellFormed(l), NEW ph \in 1..Phases,
           Latest(l) = Ev("started", ph), NEW n \in Nat,
           NEW m \in Log, WithFailures(l, m, n, ph)
    PROVE  Mirrored(l, m, ph)
<1>0. /\ Len(m) = Len(l) + n
      /\ \A i \in 1..Len(l) : m[i] = l[i]
      /\ \A i \in Len(l) + 1..Len(l) + n : m[i] = Ev("failure", ph)
  BY DEF WithFailures
<1>1. Len(l) \in Nat \ {0} /\ l[Len(l)] = Ev("started", ph)
  BY DEF Log, Latest
<1>2. m # <<>> /\ m[1] = Ev("created", 0)
  BY <1>0, <1>1 DEF WellFormed
<1>3. \A i \in Len(l)..Len(m) : m[i].kind \in {"started", "failure"} /\ m[i].phase = ph
  BY <1>0, <1>1 DEF Ev
<1>4. ASSUME NEW i \in 1..Len(m) - 1
      PROVE  Follows(m[i], m[i + 1]) /\ m[i].kind # "terminated"
  <2>1. CASE i < Len(l)
    <3>1. i \in 1..Len(l) - 1 /\ i + 1 \in 1..Len(l) /\ i \in 1..Len(l)
      BY <2>1, <1>1
    <3>. QED  BY <3>1, <1>0 DEF WellFormed
  <2>2. CASE i >= Len(l)
    <3>1. i \in Len(l)..Len(m) /\ i + 1 \in Len(l) + 1..Len(l) + n
      BY <2>2, <1>0, <1>1
    <3>2. m[i].kind \in {"started", "failure"} /\ m[i].phase = ph
      BY <3>1, <1>3
    <3>3. m[i + 1].kind = "failure" /\ m[i + 1].phase = ph
      BY <3>1, <1>0 DEF Ev
    <3>. QED  BY <3>2, <3>3 DEF Follows
  <2>. QED  BY <2>1, <2>2, <1>0, <1>1
<1>5. WellFormed(m)
  BY <1>2, <1>4 DEF WellFormed
<1>6. Prefix(m, Len(l)) = l
  <2>1. /\ Prefix(m, Len(l)) \in Log /\ Len(Prefix(m, Len(l))) = Len(l)
        /\ \A i \in 1..Len(l) : Prefix(m, Len(l))[i] = m[i]
    BY <1>0, <1>1, PrefixType
  <2>. QED  BY <2>1, <1>0, SameLog
<1>7. Latest(m).phase = ph
  <2>1. Len(m) \in Len(l)..Len(m)
    BY <1>0, <1>1
  <2>. QED  BY <2>1, <1>3 DEF Latest
<1>. QED  BY <1>2, <1>3, <1>5, <1>6, <1>7 DEF Mirrored

\* A tick leaves its failures in the log and all of them to be mirrored.
LEMMA TickKeeps ==
    ASSUME SingleInv, TypeInv', NEW w \in Workers, Tick(w)
    PROVE  SingleInv'
<1>. DEFINE l == Replayed(rows)
            ph == proc[w].phase
<1>. MaxFailures \in Nat /\ Phases \in Nat \ {0}
  BY JournalAssumption
<1>1. /\ proc[w].at = "tick" /\ Engaged(w)
      /\ rows' = rows /\ game' = game /\ faults' = faults
  BY DEF Tick, Engaged, Resting
<1>2. proc[w].log = l /\ l # <<>> /\ Latest(l) = Ev("started", ph)
  BY <1>1, UnderWay DEF Carries
<1>3. /\ l \in Log /\ rows = RowsOf(l) /\ WellFormed(l) /\ Len(l) \in Nat
      /\ \A n \in Nat : Taken(rows, n) <=> n \in 1..Len(l)
  BY ReadBack DEF Log
<1>4. proc[w] \in ProcessType /\ ph \in 1..Phases /\ proc \in [Workers -> ProcessType]
  BY <1>1 DEF SingleInv, TypeInv, Steady
<1>5. PICK n \in 0..MaxFailures :
         proc' = [proc EXCEPT ![w] =
            [@ EXCEPT !.at = "mirror",
                      !.log = proc[w].log \o [i \in 1..n |-> Ev("failure", ph)],
                      !.todo = {s \in Len(proc[w].log) + 1..Len(proc[w].log) + n : ~Taken(rows, s)}]]
  BY DEF Tick
<1>. DEFINE tail == [i \in 1..n |-> Ev("failure", ph)]
            m == l \o tail
            todo == {s \in Len(l) + 1..Len(l) + n : ~Taken(rows, s)}
            q == [proc[w] EXCEPT !.at = "mirror", !.log = m, !.todo = todo]
<1>6. tail \in Seq(Written) /\ Len(tail) = n /\ \A i \in 1..n : tail[i] = Ev("failure", ph)
  <2>1. Ev("failure", ph) \in Written
    BY <1>4, EventsWritten
  <2>. QED  BY <2>1
<1>. HIDE DEF tail, l
<1>7. /\ m \in Log /\ Len(m) = Len(l) + n /\ \A i \in 1..Len(l) : m[i] = l[i]
      /\ \A i \in Len(l) + 1..Len(l) + n : m[i] = Ev("failure", ph)
  <2>1. /\ m \in Seq(Written) /\ Len(m) = Len(l) + n
        /\ \A i \in 1..Len(l) + n : m[i] = IF i =< Len(l) THEN l[i] ELSE tail[i - Len(l)]
    BY <1>3, <1>6, ConcatProperties DEF Log
  <2>. HIDE DEF m
  <2>2. \A i \in Len(l) + 1..Len(l) + n : i - Len(l) \in 1..n
    BY <1>3
  <2>. QED  BY <2>1, <2>2, <1>3, <1>6 DEF Log
<1>8. Mirrored(l, m, ph)
  <2>1. n \in Nat /\ ph \in 1..Phases
    BY <1>4
  <2>2. WithFailures(l, m, n, ph) /\ m \in Log
    BY <1>7 DEF WithFailures
  <2>. HIDE DEF m, ph, todo, q
  <2>3. l \in Log /\ l # <<>> /\ WellFormed(l) /\ Latest(l) = Ev("started", ph)
    BY <1>2, <1>3
  <2>. QED  BY <2>1, <2>2, <2>3, FailuresFollow
<1>9. todo = Len(l) + 1..Len(m)
  BY <1>3, <1>7
<1>10. proc' = [proc EXCEPT ![w] = q]
  BY <1>2, <1>5 DEF tail
<1>11. q.at = "mirror" /\ q.log = m /\ q.todo = todo /\ q.phase = ph /\ q.attempt = proc[w].attempt
  <2>. HIDE DEF m, todo
  <2>. QED  BY <1>4 DEF ProcessType
<1>. HIDE DEF q, todo, m
<1>12. proc'[w] = q /\ \A v \in Workers \ {w} : proc'[v] = proc[v]
  BY <1>4, <1>10
<1>13. Len(l) \in 1..Len(m)
  BY <1>2, <1>3, <1>7 DEF Log
<1>14. Carries(proc'[w], l)
  BY <1>8, <1>9, <1>11, <1>12, <1>13 DEF Carries, Mirrored
<1>15. ~Terminal(game.status) /\ ~Ended(l)
  BY <1>1, UnderWay DEF l
<1>16. Accounts(l, game', proc', faults')
  BY <1>1, <1>11, <1>12, <1>15, AccountsStay DEF l
<1>. QED  BY <1>1, <1>3, <1>12, <1>14, <1>16, OneStep

\* Mirroring the next failure makes the persisted log one event longer.
LEMMA MirrorKeeps ==
    ASSUME SingleInv, TypeInv', NEW w \in Workers, Mirror(w)
    PROVE  SingleInv'
<1>. DEFINE l == Replayed(rows)
            m == proc[w].log
<1>1. proc[w].at = "mirror" /\ Engaged(w) /\ faults' = faults
  BY DEF Mirror, Engaged, Resting
<1>2. /\ l \in Log /\ rows = RowsOf(l) /\ WellFormed(l) /\ Len(l) \in Nat
      /\ \A n \in Nat : Taken(rows, n) <=> n \in 1..Len(l)
  BY ReadBack DEF Log
<1>3. /\ proc[w] \in ProcessType /\ proc \in [Workers -> ProcessType] /\ m \in Log
      /\ proc[w].phase \in 1..Phases /\ Len(m) \in Nat
  BY <1>1 DEF SingleInv, TypeInv, Steady, ProcessType, Log
<1>4. WellFormed(m) /\ m # <<>> /\ Latest(m).phase = proc[w].phase
  BY <1>1, UnderWay DEF Carries
<1>5. PICK k \in 1..Len(m) : /\ l = Prefix(m, k) /\ proc[w].todo = k + 1..Len(m)
                             /\ \A i \in k..Len(m) : m[i].kind \in {"started", "failure"}
  BY <1>1, UnderWay DEF Carries
<1>. DEFINE todo == proc[w].todo
<1>6. PICK s \in todo :
         /\ \A q \in todo : s =< q
         /\ IF Taken(rows, s)
            THEN Raise(w, FALSE) /\ UNCHANGED rows
            ELSE /\ rows' = rows \cup {Prefix(m, s)}
                 /\ proc' = [proc EXCEPT ![w].todo = @ \ {s}]
                 /\ UNCHANGED game
  BY DEF Mirror
<1>7. s = k + 1 /\ k + 1 \in 1..Len(m)
  BY <1>3, <1>5, <1>6
<1>8. Len(l) = k
  BY <1>3, <1>5, PrefixType
<1>9. ~Taken(rows, s)
  BY <1>2, <1>7, <1>8
<1>. DEFINE q == [proc[w] EXCEPT !.todo = todo \ {s}]
<1>10. /\ rows' = rows \cup {Prefix(m, k + 1)} /\ game' = game
       /\ proc' = [proc EXCEPT ![w] = q]
  BY <1>6, <1>7, <1>9, <1>3
<1>11. /\ q.at = "mirror" /\ q.log = m /\ q.todo = k + 2..Len(m) /\ q.phase = proc[w].phase
       /\ q.attempt = proc[w].attempt
  <2>1. todo \ {s} = k + 2..Len(m)
    BY <1>3, <1>5, <1>7
  <2>. QED  BY <2>1, <1>1, <1>3 DEF ProcessType
<1>. HIDE DEF q
<1>12. proc'[w] = q /\ \A v \in Workers \ {w} : proc'[v] = proc[v]
  BY <1>3, <1>10
<1>. DEFINE next == Prefix(m, k + 1)
<1>13. next \in Log /\ Len(next) = k + 1 /\ WellFormed(next) /\ \A i \in 1..k + 1 : next[i] = m[i]
  <2>1. k + 1 \in 0..Len(m)
    BY <1>7
  <2>. QED  BY <2>1, <1>3, <1>4, PrefixType, WellFormedPrefix
<1>14. rows' = RowsOf(next)
  <2>1. \A n \in 0..k : Prefix(l, n) = Prefix(m, n)
    BY <1>3, <1>5, PrefixOfPrefix
  <2>2. \A n \in 0..k + 1 : Prefix(next, n) = Prefix(m, n)
    BY <1>3, <1>7, PrefixOfPrefix
  <2>3. 1..k + 1 = 1..k \cup {k + 1}
    BY <1>5
  <2>. HIDE DEF next, l
  <2>4. RowsOf(l) = {Prefix(m, n) : n \in 1..k}
    BY <2>1, <1>8 DEF RowsOf
  <2>5. RowsOf(next) = {Prefix(m, n) : n \in 1..k + 1}
    BY <2>2, <1>13 DEF RowsOf
  <2>. QED  BY <2>3, <2>4, <2>5, <1>2, <1>10
<1>15. Carries(proc'[w], next)
  <2>1. next = Prefix(m, k + 1) /\ q.todo = (k + 1) + 1..Len(m)
    BY <1>11, <1>5
  <2>2. \A i \in k + 1..Len(m) : m[i].kind \in {"started", "failure"}
    BY <1>5
  <2>. HIDE DEF next, m
  <2>. QED  BY <2>1, <2>2, <1>4, <1>7, <1>11, <1>12 DEF Carries
<1>16. ~Stuck(l, proc)
  <2>1. Latest(l) = m[k]
    BY <1>3, <1>5, <1>8, PrefixType DEF Latest
  <2>2. m[k].kind \in {"started", "failure"}
    BY <1>3, <1>5
  <2>. QED  BY <2>1, <2>2, PastCreated
<1>17. ~Ended(next)
  <2>1. Latest(next) = m[k + 1] /\ k + 1 \in k..Len(m)
    BY <1>3, <1>7, <1>13 DEF Latest
  <2>. QED  BY <2>1, <1>5 DEF Ended
<1>18. ~Terminal(game.status)
  BY <1>1, UnderWay
<1>. HIDE DEF next, m
<1>19. Accounts(next, game', proc', faults')
  BY <1>1, <1>10, <1>11, <1>12, <1>16, <1>17, <1>18, AccountsStay
<1>. QED  BY <1>1, <1>12, <1>13, <1>14, <1>15, <1>19, OneStep

\* An undecided board leads on to the next phase.
LEMMA NextPhaseKeeps ==
    ASSUME SingleInv, TypeInv', NEW w \in Workers, NextPhase(w)
    PROVE  SingleInv'
<1>. DEFINE l == Replayed(rows)
            q == [proc[w] EXCEPT !.at = "enter", !.phase = proc[w].phase + 1]
<1>1. /\ proc[w].at = "check" /\ Engaged(w)
      /\ rows' = rows /\ game' = game /\ faults' = faults
  BY DEF NextPhase, Engaged, Resting
<1>2. proc[w] \in ProcessType /\ proc \in [Workers -> ProcessType]
  BY DEF SingleInv, TypeInv
<1>3. l \in Log /\ rows = RowsOf(l) /\ WellFormed(l)
  BY ReadBack
<1>4. proc[w].log = l /\ l # <<>> /\ Latest(l).kind = "resolved" /\ Latest(l).phase = proc[w].phase
  BY <1>1, UnderWay DEF Carries
<1>5. proc' = [proc EXCEPT ![w] = q]
  BY <1>2 DEF NextPhase, ProcessType
<1>6. /\ q.at = "enter" /\ q.log = l /\ q.phase = proc[w].phase + 1
      /\ q.attempt = proc[w].attempt
  BY <1>2, <1>4 DEF ProcessType
<1>. HIDE DEF q
<1>7. proc'[w] = q /\ \A v \in Workers \ {w} : proc'[v] = proc[v]
  BY <1>2, <1>5
<1>8. Carries(proc'[w], l)
  BY <1>4, <1>6, <1>7 DEF Carries
<1>9. ~Terminal(game.status) /\ ~Ended(l)
  BY <1>1, UnderWay
<1>10. Accounts(l, game', proc', faults')
  BY <1>1, <1>6, <1>7, <1>9, AccountsStay
<1>. QED  BY <1>1, <1>3, <1>7, <1>8, <1>10, OneStep

\* The end of a game is appended to a log whose last phase is resolved, and counted once.
LEMMA TerminateKeeps ==
    ASSUME SingleInv, TypeInv', NEW w \in Workers, NEW winner \in Verdict \cup {"DRAW"},
           proc[w].at \in {"enter", "check"}, Terminate(w, winner),
           Latest(Replayed(rows)).kind = "resolved"
    PROVE  SingleInv'
<1>. DEFINE l == Replayed(rows)
            e == [Ev("terminated", proc[w].phase) EXCEPT !.verdict = winner]
            m == Append(l, e)
<1>1. Engaged(w) /\ faults' = faults
  BY DEF Terminate, Engaged, Resting
<1>2. proc[w] \in ProcessType /\ proc \in [Workers -> ProcessType] /\ game \in GameType
  BY DEF SingleInv, TypeInv
<1>3. /\ l \in Log /\ rows = RowsOf(l) /\ WellFormed(l) /\ Len(l) \in Nat
      /\ \A n \in Nat : Taken(rows, n) <=> n \in 1..Len(l)
  BY ReadBack DEF Log
<1>4. proc[w].log = l /\ l # <<>>
  BY <1>1, UnderWay DEF Carries
<1>5. /\ ~Terminal(game.status) /\ ~Ended(l) /\ game.rated = 0
      /\ \A v \in Workers \ {w} : proc[v].at = "down"
  BY <1>1, UnderWay
<1>6. e \in Written /\ e.kind = "terminated"
  BY <1>2 DEF Ev, Written, Event, ProcessType
<1>. HIDE DEF e
<1>7. m \in Log /\ Len(m) = Len(l) + 1 /\ Latest(m) = e /\ m # <<>> /\ RowsOf(m) = RowsOf(l) \cup {m}
  BY <1>3, <1>6, RowsOfAppend
<1>8. WellFormed(m)
  <2>1. Follows(Latest(l), e) /\ Latest(l).kind # "terminated"
    BY <1>6 DEF Follows
  <2>. QED  BY <2>1, <1>3, <1>4, <1>6, WellFormedAppend
<1>9. CASE ~FenceAllows(w)
  <2>1. rows' = rows /\ game' = game /\ Goes(w, "closed")
    BY <1>9 DEF Terminate
  <2>2. /\ proc'[w].at = "closed" /\ proc'[w].attempt = proc[w].attempt
        /\ \A v \in Workers \ {w} : proc'[v] = proc[v]
    BY <2>1, <1>2 DEF Goes, ProcessType
  <2>3. Carries(proc'[w], l)
    BY <2>2 DEF Carries
  <2>4. Accounts(l, game', proc', faults')
    BY <2>1, <2>2, <1>1, <1>5, AccountsStay
  <2>. QED  BY <2>1, <2>2, <2>3, <2>4, <1>1, <1>3, OneStep
<1>10. CASE FenceAllows(w)
  <2>. DEFINE q == [proc[w] EXCEPT !.at = "closed", !.log = m]
  <2>1. ~Taken(rows, Len(m))
    BY <1>3, <1>7
  <2>. HIDE DEF m
  <2>2. game.status # "COMPLETED"
    BY <1>5 DEF Terminal
  <2>3. /\ rows' = rows \cup {m}
        /\ game' = [game EXCEPT !.status = "COMPLETED", !.result = winner, !.rated = @ + 1]
        /\ proc' = [proc EXCEPT ![w] = q]
    BY <2>1, <2>2, <1>2, <1>4, <1>10 DEF Terminate, e, m, ProcessType
  <2>4. q.at = "closed" /\ q.attempt = proc[w].attempt
    BY <1>2 DEF ProcessType
  <2>. HIDE DEF q
  <2>5. proc'[w] = q /\ \A v \in Workers \ {w} : proc'[v] = proc[v]
    BY <2>3, <1>2
  <2>6. Carries(proc'[w], m)
    BY <2>4, <2>5 DEF Carries
  <2>7. game'.rated = 1 /\ game'.status = "COMPLETED"
    BY <2>3, <1>2, <1>5 DEF GameType
  <2>8. Accounts(m, game', proc', faults')
    <3>1. Ended(m)
      BY <1>6, <1>7 DEF Ended
    <3>2. \A v \in Workers : proc'[v].at \in Resting
      BY <2>4, <2>5, <1>5 DEF Resting
    <3>3. Accounts(l, game, proc, faults) /\ l # <<Ev("created", 0)>>
      BY DEF SingleInv, Keeps, Latest, Ev
    <3>4. \A v \in Workers : proc'[v].attempt =< faults'.raised + 1 /\ faults' \in FaultsType
      BY <3>3, <2>4, <2>5, <1>1 DEF Accounts, Stuck
    <3>. QED  BY <3>1, <3>2, <3>3, <3>4, <2>7, <1>1 DEF Accounts, Terminal
  <2>. QED  BY <2>3, <2>5, <2>6, <2>8, <1>1, <1>3, <1>7, <1>8, OneStep
<1>. QED  BY <1>9, <1>10

\* The drive ends, whether or not its end was written.
LEMMA ReleaseKeeps ==
    ASSUME SingleInv, TypeInv', NEW w \in Workers, Release(w)
    PROVE  SingleInv'
<1>. DEFINE l == Replayed(rows)
<1>1. /\ proc[w].at = "closed" /\ Goes(w, "over")
      /\ rows' = rows /\ game' = game /\ faults' = faults
  BY DEF Release
<1>2. /\ proc'[w].at = "over" /\ proc'[w].attempt = proc[w].attempt
      /\ \A v \in Workers \ {w} : proc'[v] = proc[v]
  BY <1>1 DEF Goes, SingleInv, TypeInv, ProcessType
<1>3. CASE Terminal(game.status)
  BY <1>1, <1>2, <1>3, MovesAfterTheEnd
<1>4. CASE ~Terminal(game.status)
  <2>1. Engaged(w)
    BY <1>1, <1>4 DEF Engaged
  <2>2. l \in Log /\ rows = RowsOf(l) /\ WellFormed(l) /\ ~Ended(l)
    BY <2>1, ReadBack, UnderWay
  <2>3. Carries(proc'[w], l)
    BY <1>2 DEF Carries
  <2>4. Accounts(l, game', proc', faults')
    BY <2>1, <2>2, <1>1, <1>2, <1>4, AccountsStay
  <2>. QED  BY <2>2, <2>3, <2>4, <1>1, <1>2, OneStep
<1>. QED  BY <1>3, <1>4

\* A log that can be resumed and has no open phase ends in what the next phase follows.
LEMMA BetweenPhases ==
    ASSUME NEW l \in Log, WellFormed(l), ~NothingToResume(l), ~Unresolved(l)
    PROVE  /\ l # <<>>
           /\ \/ Latest(l).kind = "roles" /\ CurrentPhase(l) = 0
              \/ Latest(l).kind = "resolved" /\ Latest(l).phase = CurrentPhase(l)
<1>. Phases \in Nat \ {0}
  BY JournalAssumption
<1>1. Len(l) \in Nat /\ l # <<>> /\ Len(l) # 0 /\ \A i \in 1..Len(l) : l[i] \in Written
  BY DEF NothingToResume, Log
<1>a. Len(l) \in Nat /\ Len(l) # 0
  BY <1>1
<1>2. \A i \in 1..Len(l) : l[i].kind = "started" => l[i].phase \in 1..Phases /\ l[i].phase =< CurrentPhase(l)
  BY <1>1, CurrentPhaseType DEF Written, Log
<1>3. CurrentPhase(l) \in 0..Phases
  BY CurrentPhaseType
<1>4. l[1] = Ev("created", 0) /\ l[1].kind = "created"
  BY <1>1 DEF WellFormed, Ev
<1>5. CASE CurrentPhase(l) = 0
  <2>1. \A i \in 1..Len(l) : l[i].kind # "started"
    BY <1>2, <1>5
  <2>2. Len(l) # 1
    <3>. SUFFICES ASSUME Len(l) = 1 PROVE l = <<Ev("created", 0)>>
      BY DEF NothingToResume
    <3>1. Ev("created", 0) \in Written
      BY EventsWritten
    <3>2. <<Ev("created", 0)>> \in Log /\ Len(<<Ev("created", 0)>>) = 1
          /\ <<Ev("created", 0)>>[1] = Ev("created", 0)
      BY <3>1 DEF Log
    <3>. QED  BY <3>2, <1>4, SameLog
  <2>3. l[2].kind = "roles"
    <3>1. 1 \in 1..Len(l) - 1
      <4>. DEFINE n == Len(l)
      <4>1. n \in Nat /\ n # 0 /\ n # 1
        BY <1>a, <2>2
      <4>. HIDE DEF n
      <4>2. 1 \in 1..n - 1
        BY <4>1
      <4>. QED  BY <4>2 DEF n
    <3>. QED  BY <3>1, <1>4 DEF WellFormed, Follows
  <2>4. ~(Len(l) > 2)
    <3>. SUFFICES ASSUME Len(l) > 2 PROVE FALSE
      OBVIOUS
    <3>1. 2 \in 1..Len(l) - 1 /\ 3 \in 1..Len(l)
      BY <1>1
    <3>2. Follows(l[2], l[2 + 1])
      BY <3>1 DEF WellFormed
    <3>3. l[3].kind = "started"
      BY <3>2, <2>3 DEF Follows, Ev
    <3>. QED  BY <3>1, <3>3, <2>1
  <2>5. Len(l) = 2
    <3>. DEFINE n == Len(l)
    <3>1. n \in Nat /\ n # 0 /\ n # 1 /\ ~(n > 2)
      BY <1>a, <2>2, <2>4
    <3>. HIDE DEF n
    <3>2. n = 2
      BY <3>1
    <3>. QED  BY <3>2 DEF n
  <2>. QED  BY <1>1, <1>5, <2>3, <2>5 DEF Latest
<1>6. CASE CurrentPhase(l) # 0
  <2>1. Mentions(l, "resolved", CurrentPhase(l))
    BY <1>6 DEF Unresolved
  <2>2. PICK i \in 1..Len(l) : l[i].kind = "resolved" /\ l[i].phase = CurrentPhase(l)
    BY <2>1 DEF Mentions, Log
  <2>3. i = Len(l)
    <3>. SUFFICES ASSUME i # Len(l) PROVE FALSE
      OBVIOUS
    <3>1. i \in 1..Len(l) - 1 /\ i + 1 \in 1..Len(l)
      BY <1>1
    <3>2. \/ l[i + 1].kind = "started" /\ l[i + 1].phase = CurrentPhase(l) + 1
          \/ l[i + 1].kind = "terminated"
      BY <3>1, <2>2 DEF WellFormed, Follows
    <3>3. l[i + 1].kind # "terminated"
      BY <3>1 DEF NothingToResume, Log
    <3>. QED  BY <3>1, <3>2, <3>3, <1>2, <1>3
  <2>. QED  BY <1>1, <2>2, <2>3 DEF Latest
<1>. QED  BY <1>5, <1>6

\* The lease is refused, or the drive goes on where the log stops.
LEMMA AcquireKeeps ==
    ASSUME SingleInv, TypeInv', NEW w \in Workers, Acquire(w)
    PROVE  SingleInv'
<1>. DEFINE l == Replayed(rows)
            g == proc[w].log
<1>1. proc[w].at = "acquire" /\ rows' = rows /\ faults' = faults
  BY DEF Acquire
<1>2. proc[w] \in ProcessType /\ proc \in [Workers -> ProcessType] /\ game \in GameType
  BY DEF SingleInv, TypeInv
<1>a. CASE Terminal(game.status)
  <2>1. game' = game /\ Goes(w, "over")
    BY <1>a DEF Acquire
  <2>2. /\ \A v \in Workers \ {w} : proc'[v] = proc[v]
        /\ proc'[w].at = "over" /\ proc'[w].attempt = proc[w].attempt
    BY <2>1, <1>2 DEF Goes, ProcessType
  <2>. QED  BY <2>1, <2>2, <1>1, <1>a, MovesAfterTheEnd
<1>. SUFFICES ASSUME ~Terminal(game.status) PROVE SingleInv'
  BY <1>a
<1>b. Engaged(w)
  BY <1>1 DEF Engaged
<1>3. l \in Log /\ rows = RowsOf(l) /\ WellFormed(l) /\ Len(l) \in Nat
  BY ReadBack DEF Log
<1>4. IF NothingToResume(l) THEN g = <<>>
      ELSE g = l /\ (Unresolved(l) => Latest(l) = Ev("started", CurrentPhase(l)))
  BY <1>1, <1>b, UnderWay DEF Carries
<1>5. ~Terminal(game.status) /\ ~Ended(l)
  BY <1>1, <1>b, UnderWay
<1>6. CASE game.holder \notin {NoWorker, w} /\ game.leased
  <2>1. game' = game /\ Goes(w, "over")
    BY <1>6 DEF Acquire
  <2>2. /\ proc'[w].at = "over" /\ proc'[w].attempt = proc[w].attempt
        /\ \A v \in Workers \ {w} : proc'[v] = proc[v]
    BY <2>1, <1>2 DEF Goes, ProcessType
  <2>3. Carries(proc'[w], l)
    BY <2>2 DEF Carries
  <2>4. Accounts(l, game', proc', faults')
    BY <2>1, <2>2, <1>1, <1>b, <1>5, AccountsStay
  <2>. QED  BY <2>2, <2>3, <2>4, <1>1, <1>3, OneStep
<1>7. CASE ~(game.holder \notin {NoWorker, w} /\ game.leased)
  <2>1. /\ game' = [game EXCEPT !.status = "RUNNING", !.holder = w, !.leased = TRUE]
        /\ proc' = [proc EXCEPT ![w].at = ResumeStage(g), ![w].phase = ResumePhase(g)]
    BY <1>5, <1>7 DEF Acquire
  <2>2. game'.rated = game.rated /\ ~Terminal(game'.status)
    BY <2>1, <1>2 DEF GameType, Terminal
  <2>. HIDE DEF g
  <2>3. /\ proc'[w].at = ResumeStage(g) /\ proc'[w].phase = ResumePhase(g)
        /\ proc'[w].log = g /\ proc'[w].attempt = proc[w].attempt
        /\ \A v \in Workers \ {w} : proc'[v] = proc[v]
    BY <2>1, <1>2 DEF ProcessType, g
  <2>4. proc'[w].at # "deal"
    BY <2>3 DEF ResumeStage
  <2>5. Carries(proc'[w], l)
    <3>1. CASE NothingToResume(l)
      <4>1. g = <<>> /\ proc'[w].at = "create"
        BY <3>1, <1>4, <2>3 DEF ResumeStage
      <4>2. l \in {<<>>, <<Ev("created", 0)>>}
        <5>1. ASSUME NEW i \in DOMAIN l, l[i].kind = "terminated" PROVE FALSE
          <6>1. i \in 1..Len(l) /\ l # <<>>
            BY <1>3 DEF Log
          <6>2. i \notin 1..Len(l) - 1
            BY <5>1, <1>3 DEF WellFormed
          <6>3. i = Len(l)
            BY <6>1, <6>2, <1>3
          <6>. QED  BY <5>1, <6>1, <6>3, <1>5 DEF Ended, Latest
        <5>. QED  BY <5>1, <3>1 DEF NothingToResume
      <4>. QED  BY <4>1, <4>2, <2>3 DEF Carries
    <3>2. CASE ~NothingToResume(l) /\ Unresolved(l)
      <4>1. g = l /\ l # <<>> /\ Latest(l) = Ev("started", CurrentPhase(l))
        BY <3>2, <1>4 DEF NothingToResume
      <4>2. proc'[w].at = "tick" /\ proc'[w].phase = CurrentPhase(l)
        BY <4>1, <3>2, <2>3 DEF ResumeStage, ResumePhase
      <4>. HIDE DEF l
      <4>. QED  BY <4>1, <4>2, <2>3 DEF Carries
    <3>3. CASE ~NothingToResume(l) /\ ~Unresolved(l)
      <4>1. /\ g = l /\ l # <<>>
            /\ \/ Latest(l).kind = "roles" /\ CurrentPhase(l) = 0
               \/ Latest(l).kind = "resolved" /\ Latest(l).phase = CurrentPhase(l)
        BY <3>3, <1>3, <1>4, BetweenPhases
      <4>2. proc'[w].at = "enter" /\ proc'[w].phase = CurrentPhase(l) + 1
        BY <4>1, <3>3, <2>3 DEF ResumeStage, ResumePhase
      <4>3. CurrentPhase(l) = 0 => CurrentPhase(l) + 1 = 1
        OBVIOUS
      <4>. HIDE DEF l
      <4>. QED  BY <4>1, <4>2, <4>3, <2>3 DEF Carries
    <3>. QED  BY <3>1, <3>2, <3>3
  <2>6. Accounts(l, game', proc', faults')
    BY <2>2, <2>3, <2>4, <1>1, <1>b, <1>5, AccountsStay
  <2>. QED  BY <2>3, <2>5, <2>6, <1>1, <1>3, OneStep
<1>. QED  BY <1>6, <1>7

\* A partial phase is a started phase that has a tail and no resolution.
LEMMA PartialPhase ==
    ASSUME NEW l \in Log, WellFormed(l), Boundary(l) # 0
    PROVE  /\ Boundary(l) \in 1..Len(l) - 1
           /\ l[Boundary(l)] = Ev("started", CurrentPhase(l))
           /\ CurrentPhase(l) \in 1..Phases
<1>1. /\ CurrentPhase(l) # 0 /\ Boundary(l) = StartIndex(l) /\ StartIndex(l) # Len(l)
  BY DEF Boundary
<1>2. /\ StartIndex(l) \in DOMAIN l /\ l[StartIndex(l)] = Ev("started", CurrentPhase(l))
      /\ CurrentPhase(l) \in 0..Phases
  BY <1>1, CurrentPhaseType
<1>3. Len(l) \in Nat /\ DOMAIN l = 1..Len(l) /\ Phases \in Nat
  BY JournalAssumption DEF Log
<1>. QED  BY <1>1, <1>2, <1>3

\* Replaying the rows finds nothing to resume, a partial phase, or where to go on.
LEMMA RehydrateKeeps ==
    ASSUME SingleInv, TypeInv', NEW w \in Workers, Rehydrate(w)
    PROVE  SingleInv'
<1>. DEFINE l == Replayed(rows)
<1>1. proc[w].at = "rehydrate" /\ rows' = rows /\ faults' = faults
  BY DEF Rehydrate
<1>2. proc[w] \in ProcessType /\ proc \in [Workers -> ProcessType]
  BY DEF SingleInv, TypeInv
<1>3. l \in Log /\ rows = RowsOf(l) /\ WellFormed(l) /\ Intact(rows)
  BY ReadBack
<1>4. proc[w].log = <<>>
  BY <1>1 DEF SingleInv, Keeps, Carries
<1>a. CASE Terminal(game.status)
  <2>1. NothingToResume(l)
    BY <1>1, <1>a, OverIsOver
  <2>2. game' = game /\ Goes(w, "acquire")
    BY <2>1, <1>3 DEF Rehydrate
  <2>3. /\ \A v \in Workers \ {w} : proc'[v] = proc[v]
        /\ proc'[w].at = "acquire" /\ proc'[w].attempt = proc[w].attempt
        /\ proc'[w].log = <<>>
    BY <2>2, <1>2, <1>4 DEF Goes, ProcessType
  <2>. QED  BY <2>2, <2>3, <1>1, <1>a, MovesAfterTheEnd
<1>. SUFFICES ASSUME ~Terminal(game.status) PROVE SingleInv'
  BY <1>a
<1>b. Engaged(w)
  BY <1>1 DEF Engaged
<1>5. ~Terminal(game.status) /\ ~Ended(l)
  BY <1>b, UnderWay
<1>6. /\ game' = game
      /\ IF NothingToResume(l) THEN Goes(w, "acquire")
         ELSE IF Boundary(l) # 0
         THEN proc' = [proc EXCEPT ![w].at = "truncate", ![w].cut = Boundary(l)]
         ELSE proc' = [proc EXCEPT ![w].at = "acquire", ![w].log = l]
  BY <1>3 DEF Rehydrate
<1>. HIDE DEF l
<1>7. /\ \A v \in Workers \ {w} : proc'[v] = proc[v]
      /\ proc'[w].attempt = proc[w].attempt /\ proc'[w].at # "deal"
  BY <1>2, <1>6 DEF Goes, ProcessType
<1>8. Carries(proc'[w], l)
  <2>1. CASE NothingToResume(l)
    <3>1. proc'[w].at = "acquire" /\ proc'[w].log = <<>>
      BY <2>1, <1>2, <1>4, <1>6 DEF Goes, ProcessType
    <3>. QED  BY <2>1, <3>1 DEF Carries
  <2>2. CASE ~NothingToResume(l) /\ Boundary(l) # 0
    <3>1. proc'[w].at = "truncate" /\ proc'[w].cut = Boundary(l) /\ proc'[w].log = <<>>
      BY <2>2, <1>2, <1>4, <1>6 DEF ProcessType
    <3>. QED  BY <2>2, <3>1 DEF Carries
  <2>3. CASE ~NothingToResume(l) /\ Boundary(l) = 0
    <3>1. proc'[w].at = "acquire" /\ proc'[w].log = l
      BY <2>3, <1>2, <1>6 DEF ProcessType
    <3>2. Unresolved(l) => Latest(l) = Ev("started", CurrentPhase(l))
      <4>. SUFFICES ASSUME Unresolved(l) PROVE Latest(l) = Ev("started", CurrentPhase(l))
        OBVIOUS
      <4>1. CurrentPhase(l) # 0 /\ ~Mentions(l, "resolved", CurrentPhase(l))
        BY DEF Unresolved
      <4>2. StartIndex(l) \in DOMAIN l /\ l[StartIndex(l)] = Ev("started", CurrentPhase(l))
        BY <4>1, <1>3, CurrentPhaseType
      <4>3. StartIndex(l) # 0
        BY <4>2, <1>3 DEF Log
      <4>4. StartIndex(l) = Len(l)
        BY <4>1, <4>3, <2>3 DEF Boundary
      <4>. QED  BY <4>2, <4>4 DEF Latest
    <3>. QED  BY <2>3, <3>1, <3>2 DEF Carries
  <2>. QED  BY <2>1, <2>2, <2>3
<1>9. Accounts(l, game', proc', faults')
  BY <1>1, <1>b, <1>5, <1>6, <1>7, AccountsStay DEF l
<1>. QED  BY <1>1, <1>3, <1>7, <1>8, <1>9, OneStep

\* Truncation leaves the log up to the start of the partial phase, which is played again.
LEMMA TruncateKeeps ==
    ASSUME SingleInv, TypeInv', NEW w \in Workers, Truncate(w)
    PROVE  SingleInv'
<1>. DEFINE l == Replayed(rows)
            k == Boundary(l)
            m == Prefix(l, k)
<1>1. proc[w].at = "truncate" /\ Engaged(w) /\ faults' = faults
  BY DEF Truncate, Engaged, Resting
<1>2. proc[w] \in ProcessType /\ proc \in [Workers -> ProcessType]
  BY DEF SingleInv, TypeInv
<1>3. l \in Log /\ rows = RowsOf(l) /\ WellFormed(l) /\ Len(l) \in Nat
  BY ReadBack DEF Log
<1>4. proc[w].cut = k /\ k # 0
  BY <1>1, UnderWay DEF Carries
<1>5. k \in 1..Len(l) - 1 /\ l[k] = Ev("started", CurrentPhase(l)) /\ CurrentPhase(l) \in 1..Phases
  BY <1>3, <1>4, PartialPhase
<1>. HIDE DEF l, k
<1>6. m \in Log /\ Len(m) = k /\ (\A i \in 1..k : m[i] = l[i]) /\ WellFormed(m)
  <2>1. k \in 0..Len(l)
    BY <1>3, <1>5
  <2>. QED  BY <2>1, <1>3, PrefixType, WellFormedPrefix
<1>7. rows' = RowsOf(m)
  <2>1. k \in 0..Len(l)
    BY <1>3, <1>5
  <2>2. RowsOf(m) = {r \in RowsOf(l) : Len(r) =< k}
    BY <2>1, <1>3, RowsOfPrefix
  <2>3. rows' = {r \in rows : Len(r) =< k}
    BY <1>4 DEF Truncate
  <2>. QED  BY <2>2, <2>3, <1>3
<1>. HIDE DEF m
<1>8. Intact(rows') /\ Replayed(rows') = m
  BY <1>6, <1>7, RowsReadBack
<1>9. /\ game' = game
      /\ proc' = [proc EXCEPT ![w].at = "acquire", ![w].log = m, ![w].cut = 0]
  BY <1>8 DEF Truncate
<1>10. /\ \A v \in Workers \ {w} : proc'[v] = proc[v]
       /\ proc'[w].attempt = proc[w].attempt /\ proc'[w].at = "acquire" /\ proc'[w].log = m
  BY <1>2, <1>9 DEF ProcessType
<1>11. m # <<>> /\ Latest(m) = Ev("started", CurrentPhase(l)) /\ Latest(m).kind = "started"
  BY <1>5, <1>6 DEF Latest, Ev, Log
<1>12. CurrentPhase(m) = CurrentPhase(l)
  <2>1. l[k].phase = CurrentPhase(l) /\ l[k].kind = "started" /\ k \in DOMAIN m /\ m[k] = l[k]
    BY <1>5, <1>6 DEF Ev, Log
  <2>2. CurrentPhase(l) =< CurrentPhase(m) /\ CurrentPhase(m) \in 0..Phases
    BY <2>1, <1>6, CurrentPhaseType
  <2>3. CurrentPhase(m) # 0
    BY <2>2, <1>5
  <2>4. PICK i \in DOMAIN m : m[i] = Ev("started", CurrentPhase(m))
    BY <2>3, <1>6, CurrentPhaseType
  <2>5. i \in DOMAIN l /\ l[i] = Ev("started", CurrentPhase(m))
    BY <2>4, <1>3, <1>5, <1>6 DEF Log
  <2>6. CurrentPhase(m) =< CurrentPhase(l)
    <3>1. l[i].kind = "started" /\ l[i].phase = CurrentPhase(m)
      BY <2>5 DEF Ev
    <3>. QED  BY <2>5, <3>1, <1>3, CurrentPhaseType
  <2>. QED  BY <2>2, <2>6, <1>5
<1>13. ~NothingToResume(m)
  <2>1. m # <<Ev("created", 0)>>
    BY <1>11 DEF Latest, Ev
  <2>2. \A i \in DOMAIN m : m[i].kind # "terminated"
    <3>1. \A i \in DOMAIN m : i \in 1..Len(l) - 1 /\ m[i] = l[i]
      BY <1>3, <1>5, <1>6 DEF Log
    <3>. QED  BY <3>1, <1>3 DEF WellFormed
  <2>. QED  BY <2>1, <2>2, <1>11 DEF NothingToResume
<1>14. Carries(proc'[w], m)
  BY <1>10, <1>11, <1>12, <1>13 DEF Carries
<1>15. ~Terminal(game.status) /\ ~Ended(m)
  BY <1>1, <1>11, UnderWay DEF Ended
<1>16. ~Stuck(l, proc)
  <2>. SUFFICES ASSUME l = <<Ev("created", 0)>> PROVE FALSE
    BY DEF Stuck
  <2>1. Len(l) = 1
    OBVIOUS
  <2>. QED  BY <2>1, <1>5
<1>17. Accounts(m, game', proc', faults')
  BY <1>1, <1>9, <1>10, <1>15, <1>16, AccountsStay DEF l
<1>. QED  BY <1>1, <1>6, <1>7, <1>10, <1>14, <1>17, OneStep

\* A scheduler starts only where none runs, and finds the game open.
LEMMA BootKeeps ==
    ASSUME MaxLive = 1, SingleInv, TypeInv', NEW w \in Workers, Boot(w)
    PROVE  SingleInv'
<1>. DEFINE l == Replayed(rows)
            live == {v \in Workers : proc[v].at # "down"}
<1>. MaxAttempts \in Nat \ {0}
  BY JournalAssumption
<1>1. live = {}
  <2>. SUFFICES ASSUME NEW u \in live PROVE FALSE
    OBVIOUS
  <2>1. live = {u}
    BY DEF SingleInv, Keeps, OneWriter
  <2>2. Cardinality(live) = 1
    BY <2>1, FS_Singleton
  <2>3. Cardinality(live) < 1
    BY DEF Boot
  <2>. QED  BY <2>2, <2>3
<1>2. /\ rows' = rows /\ game' = game /\ faults' = faults /\ ~Terminal(game.status)
      /\ proc' = [proc EXCEPT ![w] = Process("rehydrate", 1)]
  BY DEF Boot
<1>3. proc \in [Workers -> ProcessType]
  BY DEF SingleInv, TypeInv
<1>4. /\ proc'[w].at = "rehydrate" /\ proc'[w].log = <<>> /\ proc'[w].attempt = 1
      /\ \A v \in Workers \ {w} : proc'[v] = proc[v] /\ proc'[v].at = "down"
  BY <1>1, <1>2, <1>3 DEF Process
<1>5. OneWriter(proc')
  BY <1>4 DEF OneWriter
<1>6. \A v \in Workers : Carries(proc'[v], l)
  BY <1>4 DEF Carries
<1>7. Accounts(l, game, proc, faults) /\ rows = RowsOf(l) /\ WellFormed(l)
  BY DEF SingleInv, Keeps
<1>8. Stuck(l, proc') \/ \A v \in Workers : proc'[v].attempt =< faults.raised + 1
  <2>1. CASE l = <<Ev("created", 0)>>
    BY <2>1, <1>4 DEF Stuck
  <2>2. CASE l # <<Ev("created", 0)>>
    BY <2>2, <1>4, <1>7 DEF Accounts, Stuck, FaultsType
  <2>. QED  BY <2>1, <2>2
<1>9. Accounts(l, game', proc', faults')
  BY <1>2, <1>7, <1>8 DEF Accounts
<1>. QED  BY <1>2, <1>5, <1>6, <1>7, <1>9 DEF SingleInv, Keeps

\* A process that dies leaves the rows and the games row as they are.
LEMMA CrashKeeps ==
    ASSUME SingleInv, TypeInv', NEW w \in Workers, Crash(w)
    PROVE  SingleInv'
<1>. DEFINE l == Replayed(rows)
<1>1. /\ proc[w].at # "down" /\ rows' = rows /\ game' = game /\ faults' = faults
      /\ proc' = [proc EXCEPT ![w] = Process("down", 0)]
  BY DEF Crash
<1>2. proc \in [Workers -> ProcessType]
  BY DEF SingleInv, TypeInv
<1>3. /\ proc'[w].at = "down" /\ proc'[w].attempt = 0
      /\ \A v \in Workers \ {w} : proc'[v] = proc[v] /\ proc[v].at = "down"
  BY <1>1, <1>2 DEF Process, SingleInv, Keeps, OneWriter
<1>4. Carries(proc'[w], l)
  BY <1>3 DEF Carries
<1>5. Accounts(l, game, proc, faults) /\ rows = RowsOf(l) /\ WellFormed(l) /\ l \in Log
  BY ReadBack DEF SingleInv, Keeps
<1>6. Stuck(l, proc') \/ \A v \in Workers : proc'[v].attempt =< faults.raised + 1
  <2>1. CASE Stuck(l, proc)
    BY <2>1, <1>3 DEF Stuck
  <2>2. CASE ~Stuck(l, proc)
    BY <2>2, <1>3, <1>5 DEF Accounts, FaultsType
  <2>. QED  BY <2>1, <2>2
<1>7. Accounts(l, game', proc', faults')
  BY <1>1, <1>3, <1>5, <1>6 DEF Accounts
<1>. QED  BY <1>1, <1>3, <1>4, <1>5, <1>7, OneStep

\* The lease of a game that is played runs out or is reaped, and nothing else changes.
LEMMA LeaseKeeps ==
    ASSUME SingleInv, TypeInv', LeaseExpires \/ ReapLease
    PROVE  SingleInv'
<1>1. /\ rows' = rows /\ proc' = proc /\ faults' = faults
      /\ game'.status = game.status /\ game'.rated = game.rated
  BY DEF LeaseExpires, ReapLease, SingleInv, TypeInv, GameType
<1>. QED  BY <1>1 DEF SingleInv, Keeps, Accounts

\* Init keeps what one writer keeps.
LEMMA SingleInit == Init => SingleInv
<1>. SUFFICES ASSUME Init PROVE SingleInv
  OBVIOUS
<1>1. Replayed(rows) = <<>> /\ rows = RowsOf(<<>>)
  BY DEF Init, Replayed, RowsOf
<1>2. WellFormed(<<>>) /\ ~Ended(<<>>)
  BY DEF WellFormed, Ended
<1>3. \A w \in Workers : proc[w].at = "down" /\ proc[w].attempt = 0
  BY DEF Init, Process
<1>4. OneWriter(proc) /\ \A w \in Workers : Carries(proc[w], <<>>)
  BY <1>3 DEF OneWriter, Carries
<1>5. Accounts(<<>>, game, proc, faults)
  BY <1>2, <1>3 DEF Init, Accounts, Terminal, FaultsType
<1>. QED  BY <1>1, <1>2, <1>4, <1>5, TypeInit DEF SingleInv, Keeps

\* Every step of the one writer keeps it.
LEMMA SingleStep ==
    ASSUME MaxLive = 1
    PROVE  SingleInv /\ [Next]_vars => SingleInv'
<1>. SUFFICES ASSUME SingleInv, [Next]_vars PROVE SingleInv'
  OBVIOUS
<1>a. TypeInv /\ TypeInv'
  BY TypeStep DEF SingleInv
<1>1. ASSUME NEW w \in Workers, Boot(w) PROVE SingleInv'
  BY <1>1, <1>a, BootKeeps
<1>2. ASSUME NEW w \in Workers, Crash(w) PROVE SingleInv'
  BY <1>2, <1>a, CrashKeeps
<1>3. ASSUME NEW w \in Workers, Fault(w) PROVE SingleInv'
  <2>1. PICK poison \in BOOLEAN :
           /\ faults' = [raised |-> faults.raised + 1, poison |-> faults.poison \/ poison,
                         late |-> IF Terminal(game.status) THEN faults.late + 1 ELSE faults.late]
           /\ Raise(w, poison)
    BY <1>3 DEF Fault
  <2>2. proc[w].at \notin {"down", "over"} /\ rows' = rows
    BY <1>3 DEF Fault, Attempting
  <2>3. /\ faults' \in FaultsType /\ faults'.raised = faults.raised + 1
        /\ faults.poison \/ poison => faults'.poison
    <3>1. faults \in FaultsType
      BY DEF SingleInv, Keeps, Accounts
    <3>. QED  BY <2>1, <3>1 DEF FaultsType
  <2>4. CASE Terminal(game.status)
    BY <2>1, <2>2, <2>3, <2>4, <1>a, LateRaiseKeeps
  <2>5. CASE ~Terminal(game.status)
    <3>1. Engaged(w)
      BY <2>2, <2>5 DEF Engaged
    <3>. QED  BY <2>1, <2>2, <2>3, <3>1, <1>a, RaiseKeeps
  <2>. QED  BY <2>4, <2>5
<1>4. ASSUME NEW w \in Workers, Rehydrate(w) PROVE SingleInv'
  BY <1>4, <1>a, RehydrateKeeps
<1>5. ASSUME NEW w \in Workers, Truncate(w) PROVE SingleInv'
  BY <1>5, <1>a, TruncateKeeps
<1>6. ASSUME NEW w \in Workers, Acquire(w) PROVE SingleInv'
  BY <1>6, <1>a, AcquireKeeps
<1>7. ASSUME NEW w \in Workers, Create(w) PROVE SingleInv'
  BY <1>7, <1>a, CreateKeeps
<1>8. ASSUME NEW w \in Workers, Deal(w) PROVE SingleInv'
  BY <1>8, <1>a, DealKeeps
<1>9. ASSUME NEW w \in Workers, StartPhase(w) PROVE SingleInv'
  BY <1>9, <1>a, StartPhaseKeeps
<1>10. ASSUME NEW w \in Workers, Tick(w) PROVE SingleInv'
  BY <1>10, <1>a, TickKeeps
<1>11. ASSUME NEW w \in Workers, Mirror(w) PROVE SingleInv'
  BY <1>11, <1>a, MirrorKeeps
<1>12. ASSUME NEW w \in Workers, PlayPhase(w) PROVE SingleInv'
  BY <1>12, <1>a, PlayPhaseKeeps
<1>13. ASSUME NEW w \in Workers, ResolvePhase(w) PROVE SingleInv'
  BY <1>13, <1>a, ResolvePhaseKeeps
<1>14. ASSUME NEW w \in Workers, NextPhase(w) PROVE SingleInv'
  BY <1>14, <1>a, NextPhaseKeeps
<1>15. ASSUME NEW w \in Workers, TerminateWithWinner(w) PROVE SingleInv'
  <2>1. proc[w].at = "check" /\ Terminate(w, CheckWin(proc[w].log))
    BY <1>15 DEF TerminateWithWinner
  <2>2. CheckWin(proc[w].log) \in Verdict \cup {"DRAW"}
    BY <1>a, CheckWinType DEF TypeInv, ProcessType
  <2>3. Latest(Replayed(rows)).kind = "resolved"
    BY <2>1, UnderWay DEF Carries, Engaged, Resting
  <2>. QED  BY <2>1, <2>2, <2>3, <1>a, TerminateKeeps
<1>16. ASSUME NEW w \in Workers, TerminateAsDraw(w) PROVE SingleInv'
  <2>1. proc[w].at = "enter" /\ proc[w].phase = Phases + 1 /\ Terminate(w, "DRAW")
    BY <1>16 DEF TerminateAsDraw
  <2>2. Phases + 1 # 1
    BY JournalAssumption
  <2>3. Latest(Replayed(rows)).kind = "resolved"
    BY <2>1, <2>2, UnderWay DEF Carries, Engaged, Resting
  <2>. QED  BY <2>1, <2>3, <1>a, TerminateKeeps
<1>17. ASSUME NEW w \in Workers, Release(w) PROVE SingleInv'
  BY <1>17, <1>a, ReleaseKeeps
<1>18. CASE LeaseExpires \/ ReapLease
  BY <1>18, <1>a, LeaseKeeps
<1>19. CASE UNCHANGED vars
  BY <1>19, <1>a DEF vars, SingleInv, Keeps
<1>. QED  BY <1>1, <1>2, <1>3, <1>4, <1>5, <1>6, <1>7, <1>8, <1>9, <1>10, <1>11, <1>12,
             <1>13, <1>14, <1>15, <1>16, <1>17, <1>18, <1>19 DEF Next

-----------------------------------------------------------------------------
\* What follows from it

\* With one scheduler at a time the persisted log always replays, and reads like a game
\* played without a crash: emit_and_persist, run_resume's truncation, _resume_phase.
THEOREM HistoryAlwaysReadsOnce ==
    ASSUME MaxLive = 1
    PROVE  Spec => []HistoryReadsOnce
<1>1. SingleInv => HistoryReadsOnce
  <2>. SUFFICES ASSUME SingleInv PROVE HistoryReadsOnce
    OBVIOUS
  <2>1. Intact(rows) /\ WellFormed(Replayed(rows))
    BY ReadBack
  <2>. QED  BY <2>1 DEF HistoryReadsOnce, WellFormed, Ev
<1>2. SingleInv /\ [Next]_vars => SingleInv'
  BY SingleStep
<1>. QED  BY <1>1, <1>2, SingleInit, PTL DEF Spec

\* With one scheduler at a time ratings are applied with the GameTerminated row, in its
\* transaction, and a completed game has both.
THEOREM AlwaysRatedWithTheEnd ==
    ASSUME MaxLive = 1
    PROVE  Spec => []RatedWithTheEnd
<1>1. SingleInv => RatedWithTheEnd
  <2>. SUFFICES ASSUME SingleInv PROVE RatedWithTheEnd
    OBVIOUS
  <2>. DEFINE l == Replayed(rows)
              ends == {r \in rows : r[Len(r)].kind = "terminated"}
  <2>1. l \in Log /\ rows = RowsOf(l) /\ WellFormed(l) /\ Len(l) \in Nat
    BY ReadBack DEF Log
  <2>2. Accounts(l, game, proc, faults)
    BY DEF SingleInv, Keeps
  <2>. HIDE DEF l
  <2>3. \A r \in rows : Len(r) \in 1..Len(l) /\ r = Prefix(l, Len(r)) /\ r[Len(r)] = l[Len(r)]
    <3>. SUFFICES ASSUME NEW r \in rows
                  PROVE  Len(r) \in 1..Len(l) /\ r = Prefix(l, Len(r)) /\ r[Len(r)] = l[Len(r)]
      OBVIOUS
    <3>1. Len(r) \in 1..Len(l) /\ r = Prefix(l, Len(r))
      BY <2>1, RowsReadBack
    <3>2. \A i \in 1..Len(r) : Prefix(l, Len(r))[i] = l[i]
      BY <3>1, <2>1, PrefixType
    <3>. QED  BY <3>1, <3>2
  <2>4. \A r \in ends : r = l
    <3>. SUFFICES ASSUME NEW r \in ends PROVE r = l
      OBVIOUS
    <3>1. Len(r) = Len(l)
      BY <2>1, <2>3 DEF WellFormed
    <3>. QED  BY <3>1, <2>1, <2>3, PrefixOfPrefix
  <2>5. CASE Ended(l)
    <3>1. l \in rows
      <4>1. Prefix(l, Len(l)) = l /\ Len(l) \in 1..Len(l)
        BY <2>1, <2>5, PrefixOfPrefix DEF Ended, Log
      <4>. QED  BY <4>1, <2>1 DEF RowsOf
    <3>2. ends = {l}
      BY <3>1, <2>4, <2>5 DEF Ended, Latest
    <3>3. Cardinality(ends) = 1
      BY <3>2, FS_Singleton
    <3>. QED  BY <3>3, <2>2, <2>5 DEF Accounts, RatedWithTheEnd
  <2>6. CASE ~Ended(l)
    <3>1. ends = {}
      <4>. SUFFICES ASSUME NEW r \in ends PROVE FALSE
        OBVIOUS
      <4>1. r = l /\ Len(r) \in 1..Len(l) /\ r[Len(r)].kind = "terminated"
        BY <2>3, <2>4
      <4>2. l # <<>>
        BY <4>1
      <4>. QED  BY <4>1, <4>2, <2>6 DEF Ended, Latest
    <3>2. Cardinality(ends) = 0
      BY <3>1, FS_EmptySet
    <3>. QED  BY <3>2, <2>2, <2>6 DEF Accounts, RatedWithTheEnd
  <2>. QED  BY <2>5, <2>6
<1>2. SingleInv /\ [Next]_vars => SingleInv'
  BY SingleStep
<1>. QED  BY <1>1, <1>2, SingleInit, PTL DEF Spec

\* With one scheduler at a time a game is dead-lettered only by a poison exception, by as
\* many exceptions as one drive of it takes, or because its GameCreated row alone survived a
\* crash.
THEOREM FailuresAlwaysEarned ==
    ASSUME MaxLive = 1
    PROVE  Spec => []FailuresAreEarned
<1>1. SingleInv => FailuresAreEarned
  BY DEF SingleInv, Keeps, Accounts, FailuresAreEarned
<1>2. SingleInv /\ [Next]_vars => SingleInv'
  BY SingleStep
<1>. QED  BY <1>1, <1>2, SingleInit, PTL DEF Spec

\* While a process writes, the rows are its log but for what it still has to mirror.
LEMMA WriterInStep ==
    ASSUME NEW l \in Log, NEW p \in ProcessType, Steady(p), Carries(p, l),
           p.at \in {"deal", "enter", "tick", "mirror", "resolve", "check"}
    PROVE  RowsOf(l) = {Prefix(p.log, n) : n \in DOMAIN p.log \ p.todo}
<1>1. p.log \in Log /\ DOMAIN p.log = 1..Len(p.log) /\ Len(p.log) \in Nat
  BY DEF ProcessType, Log
<1>2. CASE p.at = "mirror"
  <2>1. PICK k \in 1..Len(p.log) : l = Prefix(p.log, k) /\ p.todo = k + 1..Len(p.log)
    BY <1>2 DEF Carries
  <2>2. DOMAIN p.log \ p.todo = 1..k
    BY <1>1, <2>1
  <2>3. Len(l) = k /\ \A n \in 1..k : Prefix(l, n) = Prefix(p.log, n)
    BY <1>1, <2>1, PrefixType, PrefixOfPrefix
  <2>. QED  BY <2>2, <2>3 DEF RowsOf
<1>3. CASE p.at # "mirror"
  <2>1. p.log = l /\ p.todo = {}
    BY <1>3 DEF Carries, Steady
  <2>. QED  BY <1>1, <2>1 DEF RowsOf
<1>. QED  BY <1>2, <1>3

\* A process that leaves another stage than the end behind is in step after its move.
LEMMA InStepAgain ==
    ASSUME SingleInv', NEW w \in Workers,
           proc'[w].at \in {"deal", "enter", "tick", "mirror", "resolve", "check"}
    PROVE  rows' = {Prefix(proc'[w].log, n) : n \in DOMAIN proc'[w].log \ proc'[w].todo}
<1>1. proc'[w] \in ProcessType /\ Steady(proc'[w])
  BY DEF SingleInv, TypeInv
<1>2. rows' = RowsOf(Replayed(rows')) /\ Carries(proc'[w], Replayed(rows'))
  BY DEF SingleInv, Keeps
<1>3. Replayed(rows') \in Log
  <2>1. PICK n \in Nat : \A r \in rows' : Len(r) =< n
    BY DEF SingleInv, TypeInv
  <2>2. rows' \subseteq Log
    BY DEF SingleInv, TypeInv
  <2>. QED  BY <2>1, <2>2, ReplayedType
<1>. QED  BY <1>1, <1>2, <1>3, WriterInStep

\* An insert by emit_and_persist leaves its writer in step.
LEMMA EmitInStep ==
    ASSUME SingleInv, SingleInv', NEW u \in Workers, NEW e, NEW ph,
           NEW stage \in {"deal", "enter", "tick", "mirror", "resolve", "check"},
           Emit(u, e, stage, ph), ~(rows' \subseteq rows), NEW w \in Workers, proc'[w] # proc[w]
    PROVE  rows' = {Prefix(proc'[w].log, n) : n \in DOMAIN proc'[w].log \ proc'[w].todo}
<1>. DEFINE sealed == Append(proc[u].log, e)
            q == [[proc[u] EXCEPT !.at = stage, !.log = sealed] EXCEPT !.phase = ph]
<1>. HIDE DEF sealed
<1>1. proc' = [proc EXCEPT ![u] = q]
  BY DEF Emit, sealed
<1>2. proc \in [Workers -> ProcessType]
  BY DEF SingleInv, TypeInv
<1>3. q.at = stage
  BY <1>2 DEF ProcessType
<1>. HIDE DEF q
<1>4. w = u /\ proc'[w] = q
  BY <1>1, <1>2
<1>. QED  BY <1>3, <1>4, InStepAgain

\* "The in-memory event log and DB rows stay in lockstep": with one scheduler at a time,
\* after every insert the rows are the writer's log, but for what it is still mirroring.
THEOREM AlwaysLockstep ==
    ASSUME MaxLive = 1
    PROVE  Spec => Lockstep
<1>. DEFINE Step == \A w \in Workers :
               proc'[w] # proc[w] /\ ~(rows' \subseteq rows) =>
                  LET p == proc'[w]
                  IN  rows' = {Prefix(p.log, n) : n \in DOMAIN p.log \ p.todo}
<1>1. SingleInv /\ SingleInv' /\ [Next]_vars => [Step]_vars
  <2>. SUFFICES ASSUME SingleInv, SingleInv', Next, ~(rows' \subseteq rows),
                       NEW w \in Workers, proc'[w] # proc[w]
                PROVE  rows' = {Prefix(proc'[w].log, n) : n \in DOMAIN proc'[w].log \ proc'[w].todo}
    OBVIOUS
  <2>a. proc \in [Workers -> ProcessType]
    BY DEF SingleInv, TypeInv
  <2>2. ASSUME NEW u \in Workers, Create(u) \/ Deal(u) \/ StartPhase(u) \/ PlayPhase(u) \/ ResolvePhase(u)
        PROVE  rows' = {Prefix(proc'[w].log, n) : n \in DOMAIN proc'[w].log \ proc'[w].todo}
    <3>1. \E e, ph, stage : /\ stage \in {"deal", "enter", "tick", "mirror", "resolve", "check"}
                            /\ Emit(u, e, stage, ph)
      BY <2>2 DEF Create, Deal, StartPhase, PlayPhase, ResolvePhase
    <3>. QED  BY <3>1, EmitInStep
  <2>3. ASSUME NEW u \in Workers, Mirror(u)
        PROVE  rows' = {Prefix(proc'[w].log, n) : n \in DOMAIN proc'[w].log \ proc'[w].todo}
    <3>1. PICK s : proc[u].at = "mirror" /\ proc' = [proc EXCEPT ![u].todo = @ \ {s}]
      BY <2>3 DEF Mirror
    <3>2. w = u /\ proc'[w].at = "mirror"
      BY <3>1, <2>a DEF ProcessType
    <3>. QED  BY <3>2, InStepAgain
  <2>4. ASSUME NEW u \in Workers, NEW winner \in Verdict \cup {"DRAW"},
               proc[u].at \in {"enter", "check"}, Terminate(u, winner)
        PROVE  rows' = {Prefix(proc'[w].log, n) : n \in DOMAIN proc'[w].log \ proc'[w].todo}
    <3>. DEFINE l == Replayed(rows)
                e == [Ev("terminated", proc[u].phase) EXCEPT !.verdict = winner]
                m == Append(l, e)
                q == [proc[u] EXCEPT !.at = "closed", !.log = m]
    <3>1. /\ proc[u] \in ProcessType /\ proc[u].log = l /\ proc[u].todo = {} /\ l \in Log
          /\ rows = RowsOf(l)
      <4>1. proc[u] \in ProcessType /\ Steady(proc[u])
        BY <2>a DEF SingleInv, TypeInv
      <4>2. Carries(proc[u], l)
        BY DEF SingleInv, Keeps
      <4>. QED  BY <2>4, <4>1, <4>2, ReadBack DEF Carries, Steady
    <3>2. e \in Written
      BY <3>1, <2>4 DEF Ev, Written, Event, ProcessType
    <3>. HIDE DEF e
    <3>3. m \in Log /\ RowsOf(m) = RowsOf(l) \cup {m}
      BY <3>1, <3>2, RowsOfAppend
    <3>. HIDE DEF m
    <3>4. rows' = rows \cup {m} /\ proc' = [proc EXCEPT ![u] = q]
      BY <2>4, <3>1, <2>a DEF Terminate, e, m, ProcessType
    <3>5. q.log = m /\ q.todo = {}
      BY <3>1 DEF ProcessType
    <3>. HIDE DEF q
    <3>6. w = u /\ proc'[w] = q
      BY <3>4, <2>a
    <3>7. DOMAIN m = 1..Len(m)
      BY <3>3 DEF Log
    <3>8. rows' = RowsOf(m)
      BY <3>1, <3>3, <3>4
    <3>. QED  BY <3>5, <3>6, <3>7, <3>8 DEF RowsOf
  <2>5. ASSUME NEW u \in Workers, TerminateWithWinner(u) \/ TerminateAsDraw(u)
        PROVE  \E winner \in Verdict \cup {"DRAW"} :
                  proc[u].at \in {"enter", "check"} /\ Terminate(u, winner)
    <3>1. CheckWin(proc[u].log) \in Verdict \cup {"DRAW"}
      BY <2>a, CheckWinType DEF ProcessType
    <3>. QED  BY <2>5, <3>1 DEF TerminateWithWinner, TerminateAsDraw
  <2>6. \E u \in Workers : \/ Create(u) \/ Deal(u) \/ StartPhase(u) \/ PlayPhase(u) \/ ResolvePhase(u)
                           \/ Mirror(u) \/ TerminateWithWinner(u) \/ TerminateAsDraw(u)
    <3>1. ASSUME NEW u \in Workers,
                 \/ Boot(u) \/ Crash(u) \/ Fault(u) \/ Rehydrate(u) \/ Truncate(u) \/ Acquire(u)
                 \/ Tick(u) \/ NextPhase(u) \/ Release(u)
          PROVE  rows' \subseteq rows
      BY <3>1 DEF Boot, Crash, Fault, Rehydrate, Truncate, Acquire, Tick, NextPhase, Release
    <3>2. ASSUME LeaseExpires \/ ReapLease PROVE rows' \subseteq rows
      BY <3>2 DEF LeaseExpires, ReapLease
    <3>. QED  BY <3>1, <3>2 DEF Next
  <2>. QED  BY <2>2, <2>3, <2>4, <2>5, <2>6
<1>2. SingleInv /\ [Next]_vars => SingleInv'
  BY SingleStep
<1>3. SingleInv /\ [Next]_vars => [Step]_vars
  BY <1>1, <1>2
<1>. QED  BY <1>2, <1>3, SingleInit, PTL DEF Spec, Lockstep

-----------------------------------------------------------------------------
\* The journal implements the history it promises

Marks(l, kind) == {i \in DOMAIN l : l[i].kind = kind}

\* The log l tells the story h: as many phases are resolved as h has verdicts, each of
\* them took effect with its verdict, and at most one more phase is open.
Tells(l, h) ==
    /\ h \in Seq(Verdict)
    /\ IsFiniteSet(Marks(l, "resolved")) /\ Cardinality(Marks(l, "resolved")) = Len(h)
    /\ \A p \in 1..Len(h) : Mentions(l, "resolved", p) /\ Mentions(l, "effect", p)
    /\ \A i \in Marks(l, "effect") :
          \/ l[i].phase \in 1..Len(h) /\ l[i].verdict = h[l[i].phase]
          \/ l[i].phase = Len(h) + 1 /\ i = Len(l)
    /\ \A i \in Marks(l, "started") :
          /\ l[i].phase =< Len(h) + 1
          /\ l[i].phase = Len(h) + 1 =>
                \A j \in i..Len(l) : l[j].phase = Len(h) + 1
                                     /\ l[j].kind \in {"started", "failure", "effect"}
    /\ l # <<>> =>
          /\ Latest(l).kind \in {"created", "roles"} => Len(h) = 0
          /\ Latest(l).kind \in {"started", "failure", "effect"} => Latest(l).phase = Len(h) + 1
          /\ Latest(l).kind = "resolved" => Latest(l).phase = Len(h)
    /\ l = <<>> => h = <<>>

\* The story goes on only where a phase is resolved, with what it left.
Continued(l, h, e) == IF e.kind = "resolved" THEN Append(h, Latest(l).verdict) ELSE h

\* A log tells one story, the one that Resolved reads.
LEMMA OneStory ==
    ASSUME NEW l \in Log, NEW h, Tells(l, h)
    PROVE  Resolved(l) = h
<1>1. h \in Seq(Verdict) /\ Len(h) \in Nat /\ Cardinality(Marks(l, "resolved")) = Len(h)
  BY DEF Tells
<1>2. ASSUME NEW p \in 1..Len(h)
      PROVE  l[CHOOSE i \in DOMAIN l : l[i].kind = "effect" /\ l[i].phase = p].verdict = h[p]
  <2>1. \E i \in DOMAIN l : l[i].kind = "effect" /\ l[i].phase = p
    BY DEF Tells, Mentions
  <2>. PICK i : i = CHOOSE j \in DOMAIN l : l[j].kind = "effect" /\ l[j].phase = p
    OBVIOUS
  <2>2. i \in DOMAIN l /\ l[i].kind = "effect" /\ l[i].phase = p
    BY <2>1
  <2>3. i \in Marks(l, "effect")
    BY <2>2 DEF Marks
  <2>4. \/ l[i].phase \in 1..Len(h) /\ l[i].verdict = h[l[i].phase]
        \/ l[i].phase = Len(h) + 1
    BY <2>3 DEF Tells
  <2>5. p # Len(h) + 1
    BY <1>1
  <2>6. l[i].verdict = h[p]
    BY <2>2, <2>4, <2>5
  <2>. QED  BY <2>6
<1>3. Resolved(l) =
        [p \in 1..Len(h) |->
            l[CHOOSE i \in DOMAIN l : l[i].kind = "effect" /\ l[i].phase = p].verdict]
  BY <1>1 DEF Resolved, Marks
<1>4. h = [p \in 1..Len(h) |-> h[p]]
  BY <1>1
<1>. QED  BY <1>2, <1>3, <1>4

\* An event that follows continues the story.
LEMMA StoryContinues ==
    ASSUME NEW l \in Log, NEW h, Tells(l, h), NEW e \in Written,
           l = <<>> => e = Ev("created", 0),
           l # <<>> => Follows(Latest(l), e) /\ Latest(l).kind # "terminated"
    PROVE  Tells(Append(l, e), Continued(l, h, e))
<1>. PICK m : m = Append(l, e)
  OBVIOUS
<1>. PICK g : g = Continued(l, h, e)
  OBVIOUS
<1>1. /\ m \in Log /\ Len(m) = Len(l) + 1 /\ Latest(m) = e /\ m # <<>>
      /\ \A i \in 1..Len(l) : m[i] = l[i]
  BY RowsOfAppend
<1>2. /\ Len(l) \in Nat /\ DOMAIN l = 1..Len(l) /\ DOMAIN m = 1..Len(l) + 1
      /\ m[Len(l) + 1] = e /\ (l = <<>> <=> Len(l) = 0)
  BY <1>1 DEF Log, Latest
<1>3. h \in Seq(Verdict) /\ Len(h) \in Nat
  BY DEF Tells
<1>4. e \in Event /\ (l # <<>> => Latest(l) \in Written)
  <2>1. l # <<>> => Len(l) \in DOMAIN l
    BY <1>2
  <2>. QED  BY <2>1 DEF Written, Latest, Log
<1>5. \A kind : Marks(m, kind) = IF e.kind = kind THEN Marks(l, kind) \cup {Len(l) + 1}
                                 ELSE Marks(l, kind)
  <2>. SUFFICES ASSUME NEW kind
                PROVE  Marks(m, kind) = IF e.kind = kind THEN Marks(l, kind) \cup {Len(l) + 1}
                                        ELSE Marks(l, kind)
    OBVIOUS
  <2>1. ASSUME NEW i
        PROVE  i \in Marks(m, kind) <=> i \in Marks(l, kind) \/ (i = Len(l) + 1 /\ e.kind = kind)
    BY <1>1, <1>2 DEF Marks
  <2>2. \A i : i \in Marks(m, kind) <=> i \in Marks(l, kind) \/ (i = Len(l) + 1 /\ e.kind = kind)
    BY <2>1
  <2>. QED  BY <2>2
<1>6. \A kind, p : Mentions(m, kind, p) <=> Mentions(l, kind, p) \/ (e.kind = kind /\ e.phase = p)
  BY <1>1, <1>2 DEF Mentions
<1>7. CASE e.kind = "resolved"
  <2>. DEFINE v == Latest(l).verdict
  <2>1. /\ l # <<>> /\ Latest(l).kind = "effect" /\ e = Ev("resolved", Latest(l).phase)
        /\ Latest(l).phase = Len(h) + 1 /\ v \in Verdict
    <3>1. l # <<>>
      BY <1>7 DEF Ev
    <3>2. Latest(l).kind \in {"created", "roles", "started", "failure", "effect", "resolved"}
      BY <3>1, <1>4 DEF Written, Event
    <3>3. Latest(l).kind = "effect" /\ e = Ev("resolved", Latest(l).phase)
      BY <3>1, <3>2, <1>7 DEF Follows, Ev
    <3>. QED  BY <3>1, <3>3, <1>4 DEF Tells, Written
  <2>2. e.phase = Len(h) + 1
    BY <2>1 DEF Ev
  <2>3. g = Append(h, v)
    BY <1>7 DEF Continued
  <2>. HIDE DEF v
  <2>4. /\ g \in Seq(Verdict) /\ Len(g) = Len(h) + 1 /\ g[Len(h) + 1] = v
        /\ \A p \in 1..Len(h) : g[p] = h[p]
    <3>1. h \in Seq(Verdict) /\ v \in Verdict
      BY <2>1, <1>3
    <3>. QED  BY <2>3, <3>1, AppendProperties
  <2>5. IsFiniteSet(Marks(m, "resolved")) /\ Cardinality(Marks(m, "resolved")) = Len(g)
    <3>1. Len(l) + 1 \notin Marks(l, "resolved")
      BY <1>2 DEF Marks
    <3>2. /\ IsFiniteSet(Marks(l, "resolved")) /\ Cardinality(Marks(l, "resolved")) = Len(h)
          /\ Marks(m, "resolved") = Marks(l, "resolved") \cup {Len(l) + 1}
      BY <1>5, <1>7 DEF Tells
    <3>. QED  BY <3>1, <3>2, <2>4, FS_AddElement
  <2>6. ASSUME NEW p \in 1..Len(g)
        PROVE  Mentions(m, "resolved", p) /\ Mentions(m, "effect", p)
    <3>1. CASE p = Len(h) + 1
      <4>1. Mentions(m, "resolved", p)
        BY <3>1, <2>2, <1>6, <1>7
      <4>2. Mentions(l, "effect", p)
        BY <3>1, <2>1, <1>2 DEF Mentions, Latest
      <4>. QED  BY <4>1, <4>2, <1>6
    <3>2. CASE p # Len(h) + 1
      <4>1. p \in 1..Len(h)
        BY <3>2, <2>4, <1>3
      <4>2. Mentions(l, "resolved", p) /\ Mentions(l, "effect", p)
        BY <4>1 DEF Tells
      <4>. QED  BY <4>2, <1>6
    <3>. QED  BY <3>1, <3>2
  <2>7. ASSUME NEW i \in Marks(m, "effect")
        PROVE  m[i].phase \in 1..Len(g) /\ m[i].verdict = g[m[i].phase]
    <3>1. i \in Marks(l, "effect") /\ i \in 1..Len(l) /\ m[i] = l[i]
      BY <1>1, <1>2, <1>5, <1>7 DEF Marks
    <3>2. CASE l[i].phase \in 1..Len(h) /\ l[i].verdict = h[l[i].phase]
      BY <3>1, <3>2, <2>4, <1>3
    <3>3. CASE l[i].phase = Len(h) + 1 /\ i = Len(l)
      BY <3>1, <3>3, <2>4, <1>3 DEF v, Latest
    <3>. QED  BY <3>1, <3>2, <3>3 DEF Tells
  <2>8. ASSUME NEW i \in Marks(m, "started")
        PROVE  m[i].phase =< Len(g) + 1 /\ m[i].phase # Len(g) + 1
    <3>1. i \in Marks(l, "started") /\ i \in 1..Len(l) /\ m[i] = l[i]
      BY <1>1, <1>2, <1>5, <1>7 DEF Marks
    <3>2. l[i].phase =< Len(h) + 1 /\ l[i].phase \in Nat
      <4>1. l[i] \in Event
        BY <3>1 DEF Log, Written
      <4>. QED  BY <4>1, <3>1, JournalAssumption DEF Tells, Event
    <3>. QED  BY <3>1, <3>2, <2>4, <1>3
  <2>9. /\ Latest(m).kind \in {"created", "roles"} => Len(g) = 0
        /\ Latest(m).kind \in {"started", "failure", "effect"} => Latest(m).phase = Len(g) + 1
        /\ Latest(m).kind = "resolved" => Latest(m).phase = Len(g)
    BY <2>2, <2>4, <1>1, <1>7
  <2>. HIDE DEF Marks, Latest, Mentions
  <2>10. \A i \in Marks(m, "effect") : m[i].phase \in 1..Len(g) /\ m[i].verdict = g[m[i].phase]
    BY <2>7
  <2>11. \A i \in Marks(m, "started") : m[i].phase =< Len(g) + 1 /\ m[i].phase # Len(g) + 1
    BY <2>8
  <2>12. Tells(m, g)
    BY <2>4, <2>5, <2>6, <2>9, <2>10, <2>11, <1>1 DEF Tells
  <2>. QED  BY <2>12
<1>8. CASE e.kind # "resolved"
  <2>1. g = h
    BY <1>8 DEF Continued
  <2>2. IsFiniteSet(Marks(m, "resolved")) /\ Cardinality(Marks(m, "resolved")) = Len(h)
    BY <1>5, <1>8 DEF Tells
  <2>3. \A p \in 1..Len(h) : Mentions(m, "resolved", p) /\ Mentions(m, "effect", p)
    <3>1. \A p \in 1..Len(h) : Mentions(l, "resolved", p) /\ Mentions(l, "effect", p)
      BY DEF Tells
    <3>. QED  BY <3>1, <1>6
  <2>4. /\ e.kind \in {"created", "roles"} => Len(h) = 0
        /\ e.kind \in {"started", "failure", "effect"} => e.phase = Len(h) + 1
        /\ e.kind \in {"failure", "effect"} =>
              l # <<>> /\ Latest(l).kind \in {"started", "failure"}
    <3>1. CASE l = <<>>
      BY <3>1 DEF Tells, Ev
    <3>2. CASE l # <<>>
      <4>1. Latest(l).kind \in {"created", "roles", "started", "failure", "effect", "resolved"}
        BY <3>2, <1>4 DEF Written, Event
      <4>2. /\ Latest(l).kind \in {"created", "roles"} => Len(h) = 0
            /\ Latest(l).kind \in {"started", "failure", "effect"} => Latest(l).phase = Len(h) + 1
            /\ Latest(l).kind = "resolved" => Latest(l).phase = Len(h)
        BY <3>2 DEF Tells
      <4>3. Follows(Latest(l), e)
        BY <3>2
      <4>. QED  BY <3>2, <4>1, <4>2, <4>3, <1>8 DEF Follows, Ev
    <3>. QED  BY <3>1, <3>2
  <2>5. ASSUME NEW i \in Marks(m, "effect")
        PROVE  \/ m[i].phase \in 1..Len(h) /\ m[i].verdict = h[m[i].phase]
               \/ m[i].phase = Len(h) + 1 /\ i = Len(m)
    <3>1. CASE i = Len(l) + 1
      <4>1. m[i] = e /\ e.kind = "effect"
        BY <3>1, <1>2 DEF Marks
      <4>. QED  BY <4>1, <3>1, <2>4, <1>1
    <3>2. CASE i # Len(l) + 1
      <4>1. i \in Marks(l, "effect") /\ i \in 1..Len(l) /\ m[i] = l[i]
        BY <3>2, <1>1, <1>2 DEF Marks
      <4>2. i # Len(l)
        <5>. SUFFICES ASSUME i = Len(l) PROVE FALSE
          OBVIOUS
        <5>1. l # <<>> /\ Latest(l).kind = "effect"
          BY <4>1, <1>2 DEF Marks, Latest
        <5>. QED  BY <5>1, <1>8 DEF Follows, Ev
      <4>. QED  BY <4>1, <4>2 DEF Tells
    <3>. QED  BY <3>1, <3>2
  <2>6. ASSUME NEW i \in Marks(m, "started")
        PROVE  /\ m[i].phase =< Len(h) + 1
               /\ m[i].phase = Len(h) + 1 =>
                     \A j \in i..Len(m) : m[j].phase = Len(h) + 1
                                          /\ m[j].kind \in {"started", "failure", "effect"}
    <3>1. CASE i = Len(l) + 1
      <4>1. m[i] = e /\ e.kind = "started"
        BY <3>1, <1>2 DEF Marks
      <4>2. \A j \in i..Len(m) : j = i
        BY <3>1, <1>1, <1>2
      <4>. QED  BY <4>1, <4>2, <2>4, <1>3
    <3>2. CASE i # Len(l) + 1
      <4>1. i \in Marks(l, "started") /\ i \in 1..Len(l) /\ m[i] = l[i]
        BY <3>2, <1>1, <1>2 DEF Marks
      <4>2. l[i].phase =< Len(h) + 1
        BY <4>1 DEF Tells
      <4>3. ASSUME l[i].phase = Len(h) + 1, NEW j \in i..Len(m)
            PROVE  m[j].phase = Len(h) + 1 /\ m[j].kind \in {"started", "failure", "effect"}
        <5>1. \A k \in i..Len(l) : l[k].phase = Len(h) + 1
                                   /\ l[k].kind \in {"started", "failure", "effect"}
          BY <4>1, <4>3 DEF Tells
        <5>2. CASE j \in 1..Len(l)
          <6>1. j \in i..Len(l)
            BY <5>2, <4>1, <1>2
          <6>. QED  BY <5>1, <5>2, <6>1, <1>1
        <5>3. CASE j = Len(l) + 1
          <6>1. l # <<>> /\ Latest(l).kind \in {"started", "failure", "effect"}
            <7>1. Len(l) \in i..Len(l) /\ l # <<>>
              BY <4>1, <1>2
            <7>. QED  BY <5>1, <7>1 DEF Latest
          <6>2. e.kind \in {"failure", "effect"}
            BY <6>1, <1>8 DEF Follows, Ev
          <6>. QED  BY <6>2, <5>3, <2>4, <1>2
        <5>. QED  BY <5>2, <5>3, <4>1, <1>1, <1>2
      <4>. QED  BY <4>1, <4>2, <4>3
    <3>. QED  BY <3>1, <3>2
  <2>. HIDE DEF Marks, Latest, Mentions
  <2>7. Tells(m, h)
    BY <2>2, <2>3, <2>4, <2>5, <2>6, <1>1, <1>3, <1>8 DEF Tells
  <2>. QED  BY <2>1, <2>7
<1>. QED  BY <1>7, <1>8

\* A prefix grows by the next event.
LEMMA PrefixGrows ==
    ASSUME NEW m \in Log, NEW n \in 1..Len(m)
    PROVE  Prefix(m, n) = Append(Prefix(m, n - 1), m[n]) /\ m[n] \in Written
<1>. PICK k : k = Prefix(m, n - 1)
  OBVIOUS
<1>. PICK a : a = Append(k, m[n])
  OBVIOUS
<1>1. /\ Len(m) \in Nat /\ n \in Nat /\ n - 1 \in 0..Len(m) /\ n \in 0..Len(m) /\ n \in DOMAIN m
      /\ m[n] \in Written
  BY DEF Log
<1>2. k \in Log /\ Len(k) = n - 1 /\ \A i \in 1..n - 1 : k[i] = m[i]
  BY <1>1, PrefixType
<1>3. a \in Log /\ Len(a) = Len(k) + 1 /\ Latest(a) = m[n] /\ \A i \in 1..Len(k) : a[i] = k[i]
  BY <1>1, <1>2, RowsOfAppend
<1>4. Len(a) = n /\ a[n] = m[n]
  BY <1>1, <1>2, <1>3 DEF Latest
<1>5. /\ Prefix(m, n) \in Log /\ Len(Prefix(m, n)) = n
      /\ \A i \in 1..n : Prefix(m, n)[i] = m[i]
  BY <1>1, PrefixType
<1>6. \A i \in 1..n : Prefix(m, n)[i] = a[i]
  BY <1>1, <1>2, <1>3, <1>4, <1>5
<1>7. Prefix(m, n) = a
  BY <1>3, <1>4, <1>5, <1>6, SameLog
<1>. QED  BY <1>1, <1>7

\* Every log that reads well tells a story, by induction on its length.
LEMMA EveryLogTells ==
    ASSUME NEW l \in Log, WellFormed(l)
    PROVE  Tells(l, Resolved(l))
<1>. DEFINE Silent(n) == \E m \in Log : Len(m) = n /\ WellFormed(m) /\ ~ \E h : Tells(m, h)
            lengths == {n \in Nat : Silent(n)}
<1>1. lengths = {}
  <2>. SUFFICES ASSUME lengths # {} PROVE FALSE
    OBVIOUS
  <2>1. PICK n \in lengths : \A b \in lengths : ~ (<<b, n>> \in LessOnNat)
    <3>1. IsWellFoundedOn(LessOnNat, Nat)
      BY NatLessThanWellFounded DEF OpToRel, LessOnNat
    <3>2. lengths \subseteq Nat
      OBVIOUS
    <3>. HIDE DEF lengths
    <3>. QED  BY <3>1, <3>2, WFMin
  <2>2. PICK m \in Log : Len(m) = n /\ WellFormed(m) /\ ~ \E h : Tells(m, h)
    BY <2>1
  <2>3. n \in Nat /\ DOMAIN m = 1..n
    BY <2>1, <2>2 DEF Log
  <2>4. CASE n = 0
    <3>1. m = <<>>
      BY <2>2, <2>4 DEF Log
    <3>2. Tells(<<>>, <<>>)
      <4>1. Marks(<<>>, "resolved") = {} /\ Marks(<<>>, "effect") = {} /\ Marks(<<>>, "started") = {}
        BY DEF Marks
      <4>2. <<>> \in Seq(Verdict) /\ Len(<<>>) = 0
        OBVIOUS
      <4>3. IsFiniteSet({}) /\ Cardinality({}) = 0
        BY FS_EmptySet
      <4>4. IsFiniteSet(Marks(<<>>, "resolved")) /\ Cardinality(Marks(<<>>, "resolved")) = Len(<<>>)
        BY <4>1, <4>2, <4>3
      <4>5. \A p \in 1..Len(<<>>) : Mentions(<<>>, "resolved", p) /\ Mentions(<<>>, "effect", p)
        OBVIOUS
      <4>. HIDE DEF Marks
      <4>. QED  BY <4>1, <4>2, <4>4, <4>5 DEF Tells
    <3>. QED  BY <3>1, <3>2, <2>2
  <2>5. CASE n # 0
    <3>. PICK k : k = Prefix(m, n - 1)
      OBVIOUS
    <3>1. n - 1 \in 0..Len(m) /\ n - 1 \in Nat /\ n \in 1..Len(m)
      BY <2>2, <2>3, <2>5
    <3>2. k \in Log /\ Len(k) = n - 1 /\ (\A i \in 1..n - 1 : k[i] = m[i]) /\ WellFormed(k)
      BY <3>1, <2>2, PrefixType, WellFormedPrefix
    <3>3. \E h : Tells(k, h)
      <4>. SUFFICES ASSUME ~ \E h : Tells(k, h) PROVE FALSE
        OBVIOUS
      <4>1. n - 1 \in lengths
        BY <3>1, <3>2
      <4>2. <<n - 1, n>> \in LessOnNat
        BY <3>1, <2>3 DEF LessOnNat
      <4>. QED  BY <4>1, <4>2, <2>1
    <3>4. m[n] \in Written
      BY <2>3, <3>1 DEF Log
    <3>5. m = Append(k, m[n])
      <4>1. Prefix(m, n) = Append(k, m[n])
        BY <3>1, PrefixGrows
      <4>2. Prefix(m, n) = m
        BY <3>1, <2>2, PrefixOfPrefix
      <4>. QED  BY <4>1, <4>2
    <3>6. k = <<>> => m[n] = Ev("created", 0)
      <4>. SUFFICES ASSUME k = <<>> PROVE m[n] = Ev("created", 0)
        OBVIOUS
      <4>1. n = 1 /\ m # <<>>
        BY <3>2, <2>2, <2>3
      <4>. QED  BY <4>1, <2>2 DEF WellFormed
    <3>7. k # <<>> => Follows(Latest(k), m[n]) /\ Latest(k).kind # "terminated"
      <4>. SUFFICES ASSUME k # <<>> PROVE Follows(Latest(k), m[n]) /\ Latest(k).kind # "terminated"
        OBVIOUS
      <4>1. Len(k) # 0
        BY <3>2 DEF Log
      <4>2. n - 1 \in 1..Len(m) - 1 /\ n - 1 \in 1..n - 1 /\ (n - 1) + 1 = n
        BY <4>1, <3>2, <2>2, <2>3
      <4>3. Follows(m[n - 1], m[n]) /\ m[n - 1].kind # "terminated"
        BY <4>2, <2>2 DEF WellFormed
      <4>. QED  BY <4>2, <4>3, <3>2 DEF Latest
    <3>8. PICK h : Tells(k, h)
      BY <3>3
    <3>9. Tells(Append(k, m[n]), Continued(k, h, m[n]))
      BY <3>2, <3>4, <3>6, <3>7, <3>8, StoryContinues
    <3>. QED  BY <3>5, <3>9, <2>2
  <2>. QED  BY <2>4, <2>5
<1>2. Len(l) \in Nat
  BY DEF Log
<1>3. \E h : Tells(l, h)
  BY <1>1, <1>2
<1>. QED  BY <1>3, OneStory

\* Truncating a partial phase takes nothing out of the story.
LEMMA TruncatedStory ==
    ASSUME NEW l \in Log, WellFormed(l), NEW h, Tells(l, h), NEW k, k = Boundary(l), k # 0
    PROVE  Tells(Prefix(l, k), h)
<1>. PICK m : m = Prefix(l, k)
  OBVIOUS
<1>. PICK c : c = CurrentPhase(l)
  OBVIOUS
<1>. Phases \in Nat
  BY JournalAssumption
<1>1. k \in 1..Len(l) - 1 /\ l[k] = Ev("started", c) /\ c \in 1..Phases
  BY PartialPhase
<1>2. h \in Seq(Verdict) /\ Len(h) \in Nat
  BY DEF Tells
<1>3. Len(l) \in Nat /\ DOMAIN l = 1..Len(l) /\ k \in 0..Len(l) /\ k \in DOMAIN l
  BY <1>1 DEF Log
<1>4. /\ m \in Log /\ Len(m) = k /\ DOMAIN m = 1..k /\ (\A i \in 1..k : m[i] = l[i])
      /\ m # <<>> /\ Latest(m) = Ev("started", c)
  BY <1>1, <1>3, PrefixType DEF Latest
<1>5. l[k].kind = "started" /\ l[k].phase = c /\ k \in Marks(l, "started")
  BY <1>1, <1>3 DEF Ev, Marks
<1>6. c = Len(h) + 1
  <2>1. c =< Len(h) + 1
    BY <1>5 DEF Tells
  <2>2. ~Mentions(l, "resolved", c)
    BY DEF Boundary
  <2>3. c \notin 1..Len(h)
    BY <2>2 DEF Tells
  <2>. QED  BY <2>1, <2>3, <1>1, <1>2
<1>7. \A j \in k..Len(l) : l[j].phase = Len(h) + 1 /\ l[j].kind \in {"started", "failure", "effect"}
  BY <1>5, <1>6 DEF Tells
<1>8. Marks(m, "resolved") = Marks(l, "resolved")
  <2>1. ASSUME NEW i \in Marks(l, "resolved") PROVE i \in Marks(m, "resolved")
    <3>1. i \in 1..Len(l) /\ l[i].kind = "resolved"
      BY <1>3 DEF Marks
    <3>2. i \in 1..k
      BY <3>1, <1>7, <1>1, <1>3
    <3>. QED  BY <3>1, <3>2, <1>4 DEF Marks
  <2>2. Marks(m, "resolved") \subseteq Marks(l, "resolved")
    BY <1>1, <1>3, <1>4 DEF Marks
  <2>. QED  BY <2>1, <2>2
<1>9. ASSUME NEW p \in 1..Len(h), NEW kind \in {"resolved", "effect"}
      PROVE  Mentions(m, kind, p)
  <2>1. Mentions(l, kind, p)
    BY DEF Tells
  <2>2. PICK i \in 1..Len(l) : l[i].kind = kind /\ l[i].phase = p
    BY <2>1, <1>3 DEF Mentions
  <2>3. p # Len(h) + 1
    BY <1>2
  <2>4. i \in 1..k
    BY <2>2, <2>3, <1>7, <1>1, <1>3
  <2>. QED  BY <2>2, <2>4, <1>4 DEF Mentions
<1>10. ASSUME NEW i \in Marks(m, "effect")
       PROVE  m[i].phase \in 1..Len(h) /\ m[i].verdict = h[m[i].phase]
  <2>1. i \in 1..k /\ m[i] = l[i] /\ i \in Marks(l, "effect") /\ i # Len(l)
    BY <1>1, <1>3, <1>4 DEF Marks
  <2>. QED  BY <2>1 DEF Tells
<1>11. ASSUME NEW i \in Marks(m, "started")
       PROVE  /\ m[i].phase =< Len(h) + 1
              /\ m[i].phase = Len(h) + 1 =>
                    \A j \in i..Len(m) : m[j].phase = Len(h) + 1
                                         /\ m[j].kind \in {"started", "failure", "effect"}
  <2>1. i \in 1..k /\ m[i] = l[i] /\ i \in Marks(l, "started")
    BY <1>1, <1>3, <1>4 DEF Marks
  <2>2. \A j \in i..Len(m) : j \in i..Len(l) /\ m[j] = l[j]
    BY <2>1, <1>1, <1>3, <1>4
  <2>3. /\ l[i].phase =< Len(h) + 1
        /\ l[i].phase = Len(h) + 1 =>
              \A j \in i..Len(l) : l[j].phase = Len(h) + 1
                                   /\ l[j].kind \in {"started", "failure", "effect"}
    BY <2>1 DEF Tells
  <2>. QED  BY <2>1, <2>2, <2>3
<1>12. Latest(m).kind = "started" /\ Latest(m).phase = Len(h) + 1
  BY <1>4, <1>6 DEF Ev
<1>13. IsFiniteSet(Marks(m, "resolved")) /\ Cardinality(Marks(m, "resolved")) = Len(h)
  BY <1>8 DEF Tells
<1>. HIDE DEF Marks, Latest, Mentions
<1>14. \A p \in 1..Len(h) : Mentions(m, "resolved", p) /\ Mentions(m, "effect", p)
  BY <1>9
<1>. QED  BY <1>2, <1>4, <1>10, <1>11, <1>12, <1>13, <1>14 DEF Tells

\* Right after a phase is resolved, check_win says what the story ends with.
LEMMA LastWord ==
    ASSUME NEW l \in Log, WellFormed(l), l # <<>>, NEW h, Tells(l, h),
           Latest(l).kind = "resolved"
    PROVE  Len(h) # 0 /\ CheckWin(l) = h[Len(h)]
<1>. PICK n : n = Len(l)
  OBVIOUS
<1>1. n \in Nat /\ n # 0 /\ DOMAIN l = 1..n /\ l[n].kind = "resolved" /\ l[n].phase = Len(h)
  BY DEF Log, Latest, Tells
<1>2. n # 1
  BY <1>1 DEF WellFormed, Ev
<1>3. n - 1 \in 1..Len(l) - 1 /\ n - 1 \in 1..n /\ (n - 1) + 1 = n
  BY <1>1, <1>2
<1>4. Follows(l[n - 1], l[n]) /\ l[n - 1].kind # "terminated" /\ l[n - 1] \in Written
  <2>1. Follows(l[n - 1], l[(n - 1) + 1]) /\ l[n - 1].kind # "terminated"
    BY <1>3 DEF WellFormed
  <2>. QED  BY <2>1, <1>1, <1>3 DEF Log
<1>5. l[n - 1].kind = "effect" /\ l[n] = Ev("resolved", l[n - 1].phase)
  <2>1. l[n - 1].kind \in {"created", "roles", "started", "failure", "effect", "resolved"}
    BY <1>4 DEF Written, Event
  <2>. QED  BY <2>1, <1>1, <1>4 DEF Follows, Ev
<1>6. l[n - 1].phase = Len(h)
  BY <1>1, <1>5 DEF Ev
<1>7. n - 1 \in Marks(l, "effect") /\ \A j \in Marks(l, "effect") : j \in 1..n /\ j =< n - 1
  BY <1>1, <1>3, <1>5 DEF Marks
<1>8. Len(h) \in 1..Len(h) /\ l[n - 1].verdict = h[Len(h)]
  <2>1. n - 1 # Len(l)
    BY <1>1
  <2>. QED  BY <2>1, <1>6, <1>7 DEF Tells
<1>9. CheckWin(l) = l[CHOOSE i \in Marks(l, "effect") : \A j \in Marks(l, "effect") : j =< i].verdict
  BY <1>7 DEF CheckWin, Marks
<1>10. (CHOOSE i \in Marks(l, "effect") : \A j \in Marks(l, "effect") : j =< i) = n - 1
  <2>. HIDE DEF Marks
  <2>1. \A i \in Marks(l, "effect") : (\A j \in Marks(l, "effect") : j =< i) => i = n - 1
    BY <1>1, <1>7
  <2>. QED  BY <2>1, <1>7
<1>11. Len(h) # 0
  BY <1>8 DEF Tells
<1>12. CheckWin(l) = l[n - 1].verdict
  BY <1>9, <1>10
<1>. QED  BY <1>8, <1>11, <1>12

\* What the history calls closed, and that only a completed game has a result
Closed == IF game.status = "FAILED" THEN "FAILED" ELSE game.result

ResultInv == game.status = "COMPLETED" <=> game.result # Undecided

\* A game that a process plays is open.
LEMMA OpenWhilePlayed ==
    ASSUME SingleInv, ResultInv, NEW w \in Workers, Engaged(w)
    PROVE  Closed = Undecided
<1>1. ~Terminal(game.status)
  BY UnderWay
<1>. QED  BY <1>1 DEF Terminal, Closed, ResultInv

\* Only the GameTerminated row gives a game its result.
LEMMA ResultStep == SingleInv /\ ResultInv /\ [Next]_vars => ResultInv'
<1>. SUFFICES ASSUME SingleInv, ResultInv, [Next]_vars PROVE ResultInv'
  OBVIOUS
<1>a. TypeInv /\ game \in GameType
  BY DEF SingleInv, TypeInv
<1>1. ASSUME game' = game PROVE ResultInv'
  BY <1>1 DEF ResultInv
<1>2. ASSUME NEW w \in Workers, NEW poison \in BOOLEAN, Raise(w, poison) PROVE ResultInv'
  <2>1. game' = game \/ game' = [game EXCEPT !.status = "FAILED", !.result = Undecided]
    BY <1>2, <1>a, RaiseEnds
  <2>2. CASE game' = [game EXCEPT !.status = "FAILED", !.result = Undecided]
    BY <2>2, <1>a DEF ResultInv, GameType
  <2>. QED  BY <2>1, <2>2, <1>1
<1>3. ASSUME NEW w \in Workers, NEW e, NEW stage, NEW ph, Emit(w, e, stage, ph) PROVE ResultInv'
  <2>1. Raise(w, FALSE) \/ game' = game
    BY <1>3 DEF Emit
  <2>. QED  BY <2>1, <1>1, <1>2
<1>4. ASSUME NEW w \in Workers, Create(w) \/ Deal(w) \/ StartPhase(w) \/ PlayPhase(w) \/ ResolvePhase(w)
      PROVE  ResultInv'
  <2>1. \E e, stage, ph : Emit(w, e, stage, ph)
    BY <1>4 DEF Create, Deal, StartPhase, PlayPhase, ResolvePhase
  <2>. QED  BY <2>1, <1>3
<1>5. ASSUME NEW w \in Workers,
             \/ Fault(w) \/ Rehydrate(w) \/ Truncate(w) \/ Mirror(w)
      PROVE  ResultInv'
  <2>1. game' = game \/ \E poison \in BOOLEAN : Raise(w, poison)
    BY <1>5 DEF Fault, Rehydrate, Truncate, Mirror
  <2>. QED  BY <2>1, <1>1, <1>2
<1>6. ASSUME NEW w \in Workers, Boot(w) \/ Crash(w) \/ Tick(w) \/ NextPhase(w) \/ Release(w)
      PROVE  ResultInv'
  BY <1>6, <1>1 DEF Boot, Crash, Tick, NextPhase, Release
<1>7. ASSUME NEW w \in Workers, Acquire(w) PROVE ResultInv'
  BY <1>7, <1>a DEF Acquire, ResultInv, Terminal, GameType
<1>8. ASSUME NEW w \in Workers, NEW winner, winner # Undecided, Terminate(w, winner) PROVE ResultInv'
  <2>1. CASE game.status = "COMPLETED" \/ ~FenceAllows(w)
    BY <1>8, <2>1, <1>1 DEF Terminate
  <2>2. CASE ~(game.status = "COMPLETED" \/ ~FenceAllows(w))
    <3>1. \/ Raise(w, FALSE)
          \/ game' = [game EXCEPT !.status = "COMPLETED", !.result = winner, !.rated = @ + 1]
      BY <1>8, <2>2 DEF Terminate
    <3>2. CASE game' = [game EXCEPT !.status = "COMPLETED", !.result = winner, !.rated = @ + 1]
      BY <3>2, <1>8, <1>a DEF ResultInv, GameType
    <3>. QED  BY <3>1, <3>2, <1>2
  <2>. QED  BY <2>1, <2>2
<1>9. ASSUME NEW w \in Workers, TerminateWithWinner(w) \/ TerminateAsDraw(w) PROVE ResultInv'
  <2>1. \E winner : winner # Undecided /\ Terminate(w, winner)
    BY <1>9 DEF TerminateWithWinner, TerminateAsDraw, Undecided
  <2>. QED  BY <2>1, <1>8
<1>10. CASE LeaseExpires \/ ReapLease
  BY <1>10, <1>a DEF LeaseExpires, ReapLease, ResultInv, GameType
<1>11. CASE UNCHANGED vars
  BY <1>11, <1>1 DEF vars
<1>. QED  BY <1>4, <1>5, <1>6, <1>7, <1>9, <1>10, <1>11 DEF Next

\* A step of the history, or none
HistoryStep ==
    \/ History!HNext
    \/ /\ Resolved(Replayed(rows))' = Resolved(Replayed(rows))
       /\ Closed' = Closed /\ faults'.late = faults.late

\* What the rows read back as, after a step that leaves the rows of a log
LEMMA NowReads ==
    ASSUME NEW m \in Log, rows' = RowsOf(m)
    PROVE  Replayed(rows') = m /\ Intact(rows')
BY RowsReadBack

\* An exception may give the game up, and changes nothing else of the history.
LEMMA RaiseTells ==
    ASSUME SingleInv, ResultInv, NEW w \in Workers, Engaged(w),
           NEW poison \in BOOLEAN, Raise(w, poison), rows' = rows,
           faults'.late = faults.late
    PROVE  HistoryStep
<1>1. Closed = Undecided /\ TypeInv /\ game \in GameType
  BY OpenWhilePlayed DEF SingleInv, TypeInv
<1>2. game' = game \/ game' = [game EXCEPT !.status = "FAILED", !.result = Undecided]
  BY <1>1, RaiseEnds
<1>3. Resolved(Replayed(rows))' = Resolved(Replayed(rows))
  OBVIOUS
<1>4. CASE game' = game
  BY <1>3, <1>4 DEF HistoryStep, Closed
<1>5. CASE game' = [game EXCEPT !.status = "FAILED", !.result = Undecided]
  <2>1. Closed' = "FAILED"
    BY <1>5, <1>1 DEF Closed, GameType
  <2>2. History!GiveUp
    BY <1>1, <1>3, <2>1 DEF History!GiveUp, Closed
  <2>. QED  BY <2>2 DEF HistoryStep, History!HNext
<1>. QED  BY <1>2, <1>4, <1>5

\* An exception after the end may take the result away, and is counted.
LEMMA LateRaiseTells ==
    ASSUME SingleInv, ResultInv, NEW w \in Workers, Terminal(game.status),
           NEW poison \in BOOLEAN, Raise(w, poison), rows' = rows,
           faults'.late = faults.late + 1
    PROVE  HistoryStep
<1>1. TypeInv /\ game \in GameType
  BY DEF SingleInv, TypeInv
<1>2. game' = game \/ game' = [game EXCEPT !.status = "FAILED", !.result = Undecided]
  BY <1>1, RaiseEnds
<1>3. Resolved(Replayed(rows))' = Resolved(Replayed(rows))
  OBVIOUS
<1>4. Closed # Undecided
  BY DEF Closed, ResultInv, Terminal, Undecided
<1>5. Closed' \in {Closed, "FAILED"}
  BY <1>1, <1>2 DEF Closed, GameType
<1>6. History!Disturb
  BY <1>3, <1>4, <1>5 DEF History!Disturb, Closed
<1>. QED  BY <1>6 DEF HistoryStep, History!HNext

\* One more row continues the story.
LEMMA RowTells ==
    ASSUME SingleInv, SingleInv', NEW e \in Written, rows' = rows \cup {Append(Replayed(rows), e)}
    PROVE  Resolved(Replayed(rows)')
             = Continued(Replayed(rows), Resolved(Replayed(rows)), e)
<1>. PICK l : l = Replayed(rows)
  OBVIOUS
<1>. PICK m : m = Append(l, e)
  OBVIOUS
<1>1. l \in Log /\ rows = RowsOf(l) /\ WellFormed(l) /\ Tells(l, Resolved(l))
  BY ReadBack, EveryLogTells
<1>2. /\ m \in Log /\ Len(m) = Len(l) + 1 /\ Latest(m) = e /\ m # <<>>
      /\ (\A i \in 1..Len(l) : m[i] = l[i]) /\ RowsOf(m) = RowsOf(l) \cup {m}
  BY <1>1, RowsOfAppend
<1>3. rows' = RowsOf(m)
  BY <1>1, <1>2
<1>4. Replayed(rows') = m
  BY <1>2, <1>3, NowReads
<1>5. WellFormed(m)
  BY <1>4 DEF SingleInv, Keeps
<1>6. Len(l) \in Nat /\ (l = <<>> <=> Len(l) = 0) /\ m[Len(l) + 1] = e
  BY <1>1, <1>2 DEF Log, Latest
<1>7. l = <<>> => e = Ev("created", 0)
  BY <1>2, <1>5, <1>6 DEF WellFormed
<1>8. l # <<>> => Follows(Latest(l), e) /\ Latest(l).kind # "terminated"
  <2>1. l # <<>> => Len(l) \in 1..Len(m) - 1 /\ Len(l) \in 1..Len(l)
    BY <1>2, <1>6
  <2>. QED  BY <2>1, <1>2, <1>5, <1>6 DEF WellFormed, Latest
<1>9. Tells(m, Continued(l, Resolved(l), e))
  BY <1>1, <1>7, <1>8, StoryContinues
<1>10. Resolved(m) = Continued(l, Resolved(l), e)
  BY <1>2, <1>9, OneStory
<1>. QED  BY <1>4, <1>10

\* An insert that resolves no phase tells nothing, unless it is refused.
LEMMA EmitTells ==
    ASSUME SingleInv, SingleInv', ResultInv, NEW w \in Workers,
           Engaged(w), NEW e \in Written, NEW stage, NEW ph,
           Emit(w, e, stage, ph), e.kind # "resolved",
           proc[w].log = Replayed(rows) \/ Taken(rows, Len(Append(proc[w].log, e)))
    PROVE  HistoryStep
<1>1. CASE Taken(rows, Len(Append(proc[w].log, e)))
  <2>1. Raise(w, FALSE) /\ rows' = rows /\ faults'.late = faults.late
    BY <1>1 DEF Emit
  <2>. QED  BY <2>1, RaiseTells
<1>2. CASE ~Taken(rows, Len(Append(proc[w].log, e)))
  <2>1. rows' = rows \cup {Append(Replayed(rows), e)} /\ game' = game /\ faults'.late = faults.late
    BY <1>2 DEF Emit
  <2>2. Resolved(Replayed(rows)') = Continued(Replayed(rows), Resolved(Replayed(rows)), e)
    BY <2>1, RowTells
  <2>. QED  BY <2>1, <2>2 DEF HistoryStep, Closed, Continued
<1>. QED  BY <1>1, <1>2

\* The row that resolves a phase adds the verdict of its effect to the history.
LEMMA ResolvePhaseTells ==
    ASSUME SingleInv, SingleInv', ResultInv, NEW w \in Workers, ResolvePhase(w)
    PROVE  HistoryStep
<1>. PICK l : l = Replayed(rows)
  OBVIOUS
<1>. PICK h : h = Resolved(l)
  OBVIOUS
<1>. Phases \in Nat
  BY JournalAssumption
<1>1. /\ proc[w].at = "resolve" /\ Emit(w, Ev("resolved", proc[w].phase), "check", proc[w].phase)
      /\ Engaged(w)
  BY DEF ResolvePhase, Engaged, Resting
<1>2. /\ proc[w].log = l /\ l # <<>> /\ Latest(l).kind = "effect"
      /\ Latest(l).phase = proc[w].phase
  BY <1>1, UnderWay DEF Carries
<1>3. l \in Log /\ Len(l) \in Nat /\ Tells(l, h) /\ \A n \in Nat : Taken(rows, n) <=> n \in 1..Len(l)
  BY ReadBack, EveryLogTells DEF Log
<1>4. proc[w].phase \in 1..Phases
  BY <1>1 DEF SingleInv, TypeInv, Steady
<1>5. Latest(l).phase = Len(h) + 1 /\ h \in Seq(Verdict) /\ Latest(l).verdict \in Verdict
  <2>1. Latest(l) \in Written
    BY <1>2, <1>3 DEF Latest, Log
  <2>. QED  BY <2>1, <1>2, <1>3 DEF Tells, Written
<1>. PICK e : e = Ev("resolved", proc[w].phase)
  OBVIOUS
<1>6. e \in Written /\ e.kind = "resolved"
  <2>1. proc[w].phase \in 0..Phases
    BY <1>4
  <2>. QED  BY <2>1, EventsWritten DEF Ev
<1>7. Len(Append(l, e)) = Len(l) + 1
  BY <1>3, <1>6, RowsOfAppend
<1>8. rows' = rows \cup {Append(l, e)} /\ game' = game /\ faults'.late = faults.late
  <2>1. ~Taken(rows, Len(Append(l, e)))
    BY <1>3, <1>7
  <2>. QED  BY <2>1, <1>1, <1>2 DEF Emit
<1>9. Resolved(Replayed(rows))' = Append(h, Latest(l).verdict)
  BY <1>6, <1>8, RowTells DEF Continued
<1>10. Closed = Undecided /\ Closed' = Closed
  BY <1>1, <1>8, OpenWhilePlayed DEF Closed
<1>11. Len(h) < Phases
  BY <1>2, <1>4, <1>5
<1>12. History!PlayPhase
  BY <1>5, <1>8, <1>9, <1>10, <1>11 DEF History!PlayPhase, Closed
<1>. QED  BY <1>12 DEF HistoryStep, History!HNext

\* Replaying the rows changes none, and what is truncated was no part of the history.
LEMMA TruncateTells ==
    ASSUME SingleInv, SingleInv', NEW w \in Workers, Truncate(w)
    PROVE  HistoryStep
<1>. PICK l : l = Replayed(rows)
  OBVIOUS
<1>. PICK k : k = Boundary(l)
  OBVIOUS
<1>1. proc[w].at = "truncate" /\ Engaged(w)
  BY DEF Truncate, Engaged, Resting
<1>2. proc[w].cut = k /\ k # 0
  BY <1>1, UnderWay DEF Carries
<1>3. l \in Log /\ rows = RowsOf(l) /\ WellFormed(l) /\ Tells(l, Resolved(l)) /\ Len(l) \in Nat
  BY ReadBack, EveryLogTells DEF Log
<1>4. k \in 0..Len(l)
  BY <1>2, <1>3, PartialPhase
<1>. PICK m : m = Prefix(l, k)
  OBVIOUS
<1>5. m \in Log /\ rows' = RowsOf(m)
  <2>1. rows' = {r \in rows : Len(r) =< k}
    BY <1>2 DEF Truncate
  <2>. QED  BY <2>1, <1>3, <1>4, RowsOfPrefix, PrefixType
<1>6. Replayed(rows') = m /\ Intact(rows')
  BY <1>5, NowReads
<1>7. game' = game /\ faults'.late = faults.late
  BY <1>6 DEF Truncate
<1>8. Resolved(m) = Resolved(l)
  <2>1. Tells(m, Resolved(l))
    BY <1>2, <1>3, TruncatedStory
  <2>. QED  BY <2>1, <1>5, OneStory
<1>. QED  BY <1>6, <1>7, <1>8 DEF HistoryStep, Closed

\* A mirrored failure resolves no phase.
LEMMA MirrorTells ==
    ASSUME SingleInv, SingleInv', ResultInv, NEW w \in Workers, Mirror(w)
    PROVE  HistoryStep
<1>. PICK l : l = Replayed(rows)
  OBVIOUS
<1>. PICK m : m = proc[w].log
  OBVIOUS
<1>1. proc[w].at = "mirror" /\ Engaged(w)
  BY DEF Mirror, Engaged, Resting
<1>2. m \in Log /\ DOMAIN m = 1..Len(m) /\ Len(m) \in Nat
  BY DEF SingleInv, TypeInv, ProcessType, Log
<1>3. PICK k \in 1..Len(m) : /\ l = Prefix(m, k) /\ proc[w].todo = k + 1..Len(m)
                             /\ \A i \in k..Len(m) : m[i].kind \in {"started", "failure"}
  BY <1>1, UnderWay DEF Carries
<1>4. PICK s \in k + 1..Len(m) :
         /\ \A q \in k + 1..Len(m) : s =< q
         /\ \/ Raise(w, FALSE) /\ rows' = rows
            \/ rows' = rows \cup {Prefix(m, s)} /\ game' = game
  BY <1>3 DEF Mirror
<1>a. faults'.late = faults.late
  BY DEF Mirror
<1>5. CASE Raise(w, FALSE) /\ rows' = rows
  BY <1>1, <1>5, <1>a, RaiseTells
<1>6. CASE rows' = rows \cup {Prefix(m, s)} /\ game' = game
  <2>1. s = k + 1 /\ s \in 1..Len(m) /\ s - 1 = k /\ s \in k..Len(m)
    BY <1>2, <1>3, <1>4
  <2>2. Prefix(m, s) = Append(l, m[s])
    BY <2>1, <1>2, <1>3, PrefixGrows
  <2>3. m[s] \in Written /\ m[s].kind # "resolved"
    BY <2>1, <1>2, <1>3 DEF Log
  <2>4. Resolved(Replayed(rows)') = Continued(l, Resolved(l), m[s])
    BY <2>2, <2>3, <1>6, RowTells
  <2>. QED  BY <2>3, <2>4, <1>6, <1>a DEF HistoryStep, Closed, Continued
<1>. QED  BY <1>4, <1>5, <1>6

\* The end of a game closes its history, with its last verdict or a draw.
LEMMA TerminateTells ==
    ASSUME SingleInv, SingleInv', ResultInv, NEW w \in Workers,
           TerminateWithWinner(w) \/ TerminateAsDraw(w)
    PROVE  HistoryStep
<1>. PICK l : l = Replayed(rows)
  OBVIOUS
<1>. PICK h : h = Resolved(l)
  OBVIOUS
<1>. Phases \in Nat \ {0}
  BY JournalAssumption
<1>1. /\ proc[w].at \in {"enter", "check"} /\ Engaged(w)
      /\ proc[w].phase \in Nat /\ game \in GameType
  BY DEF TerminateWithWinner, TerminateAsDraw, SingleInv, TypeInv, ProcessType, Engaged, Resting
<1>2. /\ proc[w].log = l /\ l # <<>>
      /\ proc[w].at = "check" => Latest(l).kind = "resolved"
      /\ proc[w].at = "enter" => \/ Latest(l).kind = "roles" /\ proc[w].phase = 1
                                 \/ Latest(l).kind = "resolved" /\ proc[w].phase = Latest(l).phase + 1
  BY <1>1, UnderWay DEF Carries
<1>3. /\ l \in Log /\ Len(l) \in Nat /\ WellFormed(l) /\ Tells(l, h)
      /\ \A n \in Nat : Taken(rows, n) <=> n \in 1..Len(l)
  BY ReadBack, EveryLogTells DEF Log
<1>4. Closed = Undecided
  BY <1>1, OpenWhilePlayed
<1>5. ASSUME NEW winner \in Verdict \cup {"DRAW"}, Terminate(w, winner),
             winner = "DRAW" \/ (winner # Undecided /\ h # <<>> /\ winner = h[Len(h)]),
             winner = "DRAW" => Len(h) = Phases
      PROVE  HistoryStep
  <2>. PICK e : e = [Ev("terminated", proc[w].phase) EXCEPT !.verdict = winner]
    OBVIOUS
  <2>1. e \in Written /\ e.kind = "terminated"
    <3>1. proc[w].phase \in 0..Phases + 1
      BY DEF SingleInv, TypeInv, ProcessType
    <3>. QED  BY <3>1 DEF Ev, Written, Event
  <2>2. Len(Append(l, e)) = Len(l) + 1
    BY <2>1, <1>3, RowsOfAppend
  <2>3. ~Taken(rows, Len(Append(l, e)))
    BY <2>2, <1>3
  <2>4. \/ rows' = rows /\ game' = game
        \/ /\ rows' = rows \cup {Append(l, e)}
           /\ game' = [game EXCEPT !.status = "COMPLETED", !.result = winner, !.rated = @ + 1]
    BY <2>3, <1>2, <1>5 DEF Terminate
  <2>a. faults'.late = faults.late
    BY <1>5 DEF Terminate
  <2>5. CASE rows' = rows /\ game' = game
    BY <2>5, <2>a DEF HistoryStep, Closed
  <2>6. CASE /\ rows' = rows \cup {Append(l, e)}
             /\ game' = [game EXCEPT !.status = "COMPLETED", !.result = winner, !.rated = @ + 1]
    <3>1. Resolved(Replayed(rows))' = h
      BY <2>1, <2>6, RowTells DEF Continued
    <3>2. Closed' = winner
      BY <2>6, <1>1 DEF Closed, GameType
    <3>3. CASE winner = "DRAW"
      <4>1. History!Draw
        BY <3>1, <3>2, <3>3, <2>a, <1>4, <1>5 DEF History!Draw, Closed
      <4>. QED  BY <4>1 DEF HistoryStep, History!HNext
    <3>4. CASE winner # Undecided /\ h # <<>> /\ winner = h[Len(h)]
      <4>1. History!Win
        BY <3>1, <3>2, <3>4, <2>a, <1>4 DEF History!Win, Closed
      <4>. QED  BY <4>1 DEF HistoryStep, History!HNext
    <3>. QED  BY <3>3, <3>4, <1>5
  <2>. QED  BY <2>4, <2>5, <2>6
<1>6. CASE TerminateWithWinner(w)
  <2>1. /\ proc[w].at = "check" /\ CheckWin(l) # Undecided /\ Terminate(w, CheckWin(l))
    BY <1>6, <1>2 DEF TerminateWithWinner
  <2>2. Len(h) # 0 /\ CheckWin(l) = h[Len(h)]
    BY <2>1, <1>2, <1>3, LastWord
  <2>3. h \in Seq(Verdict)
    BY <1>3 DEF Tells
  <2>4. h # <<>> /\ h[Len(h)] \in Verdict
    BY <2>2, <2>3
  <2>5. CheckWin(l) # "DRAW"
    BY <2>2, <2>4, JournalAssumption DEF Verdict, Undecided
  <2>. QED  BY <2>1, <2>2, <2>4, <2>5, <1>5
<1>7. CASE TerminateAsDraw(w)
  <2>1. proc[w].at = "enter" /\ proc[w].phase = Phases + 1 /\ Terminate(w, "DRAW")
    BY <1>7 DEF TerminateAsDraw
  <2>2. Latest(l).kind = "resolved" /\ Latest(l).phase = Len(h)
    BY <2>1, <1>2, <1>3 DEF Tells
  <2>3. Len(h) = Phases
    <3>1. Len(h) \in Nat /\ Phases + 1 # 1
      BY <1>3 DEF Tells
    <3>. QED  BY <3>1, <2>1, <2>2, <1>2
  <2>. QED  BY <2>1, <2>3, <1>5
<1>. QED  BY <1>6, <1>7

\* With one scheduler at a time the journal implements the history it promises: through
\* crashes, retries, truncation and fencing, phases are resolved one after the other, each
\* once and for ever, and a game is closed once, with what its phases say; only an exception
\* after the end can still change how it is closed, to FAILED.
THEOREM JournalImplementsHistory ==
    ASSUME MaxLive = 1
    PROVE  Spec => ResolvedForEver
<1>1. Init => History!HInit
  <2>. SUFFICES ASSUME Init PROVE History!HInit
    OBVIOUS
  <2>1. SingleInv /\ Replayed(rows) = <<>> /\ <<>> \in Log
    BY SingleInit DEF Init, Replayed, Log
  <2>2. WellFormed(<<>>)
    BY DEF WellFormed
  <2>3. Tells(<<>>, Resolved(<<>>))
    BY <2>1, <2>2, EveryLogTells
  <2>4. Resolved(<<>>) = <<>>
    BY <2>3 DEF Tells
  <2>. QED  BY <2>1, <2>4 DEF Init, History!HInit
<1>2. Init => ResultInv
  BY DEF Init, ResultInv
<1>3. SingleInv /\ [Next]_vars => SingleInv'
  BY SingleStep
<1>4. SingleInv /\ SingleInv' /\ ResultInv /\ [Next]_vars => HistoryStep
  <2>. SUFFICES ASSUME SingleInv, SingleInv', ResultInv, [Next]_vars PROVE HistoryStep
    OBVIOUS
  <2>a. proc \in [Workers -> ProcessType] /\ TypeInv
    BY DEF SingleInv, TypeInv
  <2>1. ASSUME rows' = rows, game' = game, faults' = faults PROVE HistoryStep
    BY <2>1 DEF HistoryStep, Closed
  <2>2. ASSUME NEW w \in Workers, Boot(w) \/ Crash(w) \/ Tick(w) \/ NextPhase(w) \/ Release(w)
        PROVE  HistoryStep
    BY <2>1, <2>2 DEF Boot, Crash, Tick, NextPhase, Release
  <2>3. ASSUME NEW w \in Workers, Fault(w) PROVE HistoryStep
    <3>1. PICK poison \in BOOLEAN :
             /\ faults' = [raised |-> faults.raised + 1, poison |-> faults.poison \/ poison,
                           late |-> IF Terminal(game.status) THEN faults.late + 1
                                                             ELSE faults.late]
             /\ Raise(w, poison)
      BY <2>3 DEF Fault
    <3>2. proc[w].at \notin {"down", "over"} /\ rows' = rows
      BY <2>3 DEF Fault, Attempting
    <3>3. CASE Terminal(game.status)
      BY <3>1, <3>2, <3>3, LateRaiseTells
    <3>4. CASE ~Terminal(game.status)
      <4>1. Engaged(w)
        BY <3>2, <3>4 DEF Engaged
      <4>. QED  BY <3>1, <3>2, <3>4, <4>1, RaiseTells
    <3>. QED  BY <3>3, <3>4
  <2>4. ASSUME NEW w \in Workers, Rehydrate(w) PROVE HistoryStep
    <3>1. rows' = rows /\ game' = game /\ faults' = faults
      BY <2>4, ReadBack DEF Rehydrate
    <3>. QED  BY <3>1, <2>1
  <2>5. ASSUME NEW w \in Workers, Truncate(w) PROVE HistoryStep
    BY <2>5, TruncateTells
  <2>6. ASSUME NEW w \in Workers, Acquire(w) PROVE HistoryStep
    <3>1. rows' = rows /\ faults' = faults /\ game \in GameType
      BY <2>6, <2>a DEF Acquire, TypeInv
    <3>2. Closed' = Closed
      BY <3>1, <2>6 DEF Acquire, Closed, Terminal, GameType
    <3>. QED  BY <3>1, <3>2 DEF HistoryStep
  <2>7. ASSUME NEW w \in Workers, Create(w) PROVE HistoryStep
    <3>1. /\ proc[w].at = "create" /\ Emit(w, Ev("created", 0), "deal", 0)
          /\ Engaged(w)
      BY <2>7 DEF Create, Engaged, Resting
    <3>2. proc[w].log = <<>> /\ Replayed(rows) \in {<<>>, <<Ev("created", 0)>>}
      BY <3>1, UnderWay DEF Carries
    <3>3. Ev("created", 0) \in Written /\ Ev("created", 0).kind # "resolved"
      <4>1. 0 \in 0..Phases
        BY JournalAssumption
      <4>. QED  BY <4>1, EventsWritten DEF Ev
    <3>4. Replayed(rows) = <<Ev("created", 0)>> => Taken(rows, 1)
      <4>1. Len(<<Ev("created", 0)>>) = 1
        OBVIOUS
      <4>. QED  BY <4>1, ReadBack
    <3>5. Len(Append(<<>>, Ev("created", 0))) = 1
      OBVIOUS
    <3>6. proc[w].log = Replayed(rows) \/ Taken(rows, Len(Append(proc[w].log, Ev("created", 0))))
      BY <3>2, <3>4, <3>5
    <3>. QED  BY <3>1, <3>3, <3>6, EmitTells
  <2>8. ASSUME NEW w \in Workers, Deal(w) PROVE HistoryStep
    <3>1. /\ proc[w].at = "deal" /\ Emit(w, Ev("roles", 0), "enter", 1)
          /\ Engaged(w)
      BY <2>8 DEF Deal, Engaged, Resting
    <3>2. proc[w].log = Replayed(rows)
      BY <3>1, UnderWay DEF Carries
    <3>3. Ev("roles", 0) \in Written /\ Ev("roles", 0).kind # "resolved"
      <4>1. 0 \in 0..Phases
        BY JournalAssumption
      <4>. QED  BY <4>1, EventsWritten DEF Ev
    <3>. QED  BY <3>1, <3>2, <3>3, EmitTells
  <2>9. ASSUME NEW w \in Workers, StartPhase(w) PROVE HistoryStep
    <3>. PICK ph : ph = proc[w].phase
      OBVIOUS
    <3>1. /\ proc[w].at = "enter" /\ Emit(w, Ev("started", ph), "tick", ph)
          /\ Engaged(w) /\ ph =< Phases
      BY <2>9 DEF StartPhase, Engaged, Resting
    <3>2. proc[w].log = Replayed(rows)
      BY <3>1, UnderWay DEF Carries
    <3>3. ph \in 0..Phases /\ ph # 0
      BY <3>1, <2>a, JournalAssumption DEF TypeInv, Steady, ProcessType
    <3>4. Ev("started", ph) \in Written /\ Ev("started", ph).kind # "resolved"
      BY <3>3, EventsWritten DEF Ev
    <3>. QED  BY <3>1, <3>2, <3>4, EmitTells
  <2>10. ASSUME NEW w \in Workers, Mirror(w) PROVE HistoryStep
    BY <2>10, MirrorTells
  <2>11. ASSUME NEW w \in Workers, PlayPhase(w) PROVE HistoryStep
    <3>. PICK ph : ph = proc[w].phase
      OBVIOUS
    <3>1. proc[w].at = "mirror" /\ proc[w].todo = {} /\ Engaged(w)
      BY <2>11 DEF PlayPhase, Engaged, Resting
    <3>2. PICK verdict \in Verdict :
             Emit(w, [Ev("effect", ph) EXCEPT !.verdict = verdict], "resolve", ph)
      BY <2>11 DEF PlayPhase
    <3>3. proc[w].log \in Log /\ Len(proc[w].log) \in Nat /\ ph \in 0..Phases
      BY <3>1, <2>a, JournalAssumption DEF TypeInv, Steady, ProcessType, Log
    <3>4. PICK k \in 1..Len(proc[w].log) :
             Replayed(rows) = Prefix(proc[w].log, k) /\ proc[w].todo = k + 1..Len(proc[w].log)
      BY <3>1, UnderWay DEF Carries
    <3>5. k = Len(proc[w].log)
      <4>. SUFFICES ASSUME k # Len(proc[w].log) PROVE k + 1 \in proc[w].todo
        BY <3>1
      <4>. QED  BY <3>3, <3>4
    <3>6. proc[w].log = Replayed(rows)
      BY <3>3, <3>4, <3>5, PrefixOfPrefix
    <3>. PICK e : e = [Ev("effect", ph) EXCEPT !.verdict = verdict]
      OBVIOUS
    <3>7. e \in Written /\ e.kind # "resolved"
      BY <3>3, EventsWritten DEF Ev
    <3>. QED  BY <3>1, <3>2, <3>6, <3>7, EmitTells
  <2>12. ASSUME NEW w \in Workers, ResolvePhase(w) PROVE HistoryStep
    BY <2>12, ResolvePhaseTells
  <2>13. ASSUME NEW w \in Workers, TerminateWithWinner(w) \/ TerminateAsDraw(w) PROVE HistoryStep
    BY <2>13, TerminateTells
  <2>14. CASE LeaseExpires \/ ReapLease
    <3>1. rows' = rows /\ Closed' = Closed /\ faults' = faults
      BY <2>14, <2>a DEF LeaseExpires, ReapLease, Closed, TypeInv, GameType
    <3>. QED  BY <3>1 DEF HistoryStep
  <2>15. CASE UNCHANGED vars
    BY <2>15, <2>1 DEF vars
  <2>. QED  BY <2>2, <2>3, <2>4, <2>5, <2>6, <2>7, <2>8, <2>9, <2>10, <2>11, <2>12, <2>13,
               <2>14, <2>15 DEF Next
<1>5. SingleInv /\ ResultInv /\ [Next]_vars => ResultInv'
  BY ResultStep
<1>6. HistoryStep =>
         [History!HNext]_<<Resolved(Replayed(rows)),
                           IF game.status = "FAILED" THEN "FAILED" ELSE game.result,
                           faults.late>>
  BY DEF HistoryStep, Closed
<1>. QED  BY <1>1, <1>2, <1>3, <1>4, <1>5, <1>6, SingleInit, PTL DEF Spec, ResolvedForEver, History!HSpec

-----------------------------------------------------------------------------
\* The public: what a connection has received, what is on its way to it, and the log

LogOK(log) ==
    /\ log \in Seq(StoredEvent) /\ log # <<>> /\ log[1].kind = "private"
    /\ \A i \in DOMAIN log : log[i].sequence = i - 1

Due(s) == IF s.at = "away" THEN {} ELSE s.frames

\* What a connection has received, and what is on its way to it, is the public log so far; a
\* tail has passed over nothing else.
Caught(log, r, s) ==
    /\ InOrder(r) /\ Complete(Range(r) \cup Due(s), log)
    /\ \A e \in Range(r), d \in Due(s) : e.sequence < d.sequence
    /\ s.at # "away" /\ s.tail =>
          /\ s.cursor \in 0..Len(log) - 1
          /\ \A e \in PublicOf(Range(log)) : e.sequence =< s.cursor => e \in Range(r) \cup Due(s)
          /\ \A e \in Range(r) \cup Due(s) : e.sequence =< s.cursor

Away == [at |-> "away"]

StreamRow ==
    [at : {"open", "streaming"}, tail : BOOLEAN, cursor : Int, frames : SUBSET StoredEvent, last : BOOLEAN]

\* Rows are numbered in the order in which they are stored.
LEMMA LogRows ==
    ASSUME NEW log, LogOK(log)
    PROVE  /\ Len(log) \in Nat /\ Len(log) >= 1 /\ DOMAIN log = 1..Len(log)
           /\ Range(log) \subseteq StoredEvent
           /\ \A i \in 1..Len(log) : log[i] \in Range(log) /\ log[i].sequence = i - 1
           /\ \A e \in Range(log) : e.sequence \in 0..Len(log) - 1 /\ e = log[e.sequence + 1]
           /\ \A e, d \in Range(log) : e.sequence = d.sequence => e = d
<1>1. log \in Seq(StoredEvent) /\ log # <<>> /\ \A i \in DOMAIN log : log[i].sequence = i - 1
  BY DEF LogOK
<1>2. Len(log) \in Nat /\ Len(log) >= 1 /\ DOMAIN log = 1..Len(log) /\ \A i \in DOMAIN log : log[i] \in StoredEvent
  BY <1>1
<1>3. Range(log) \subseteq StoredEvent /\ \A i \in 1..Len(log) : log[i] \in Range(log)
  BY <1>2 DEF Range
<1>4. ASSUME NEW e \in Range(log) PROVE e.sequence \in 0..Len(log) - 1 /\ e = log[e.sequence + 1]
  <2>1. PICK i \in 1..Len(log) : e = log[i]
    BY <1>2 DEF Range
  <2>2. e.sequence = i - 1
    BY <1>1, <1>2, <2>1
  <2>3. e.sequence + 1 = i
    BY <2>2, <1>2
  <2>. QED  BY <1>2, <2>1, <2>2, <2>3
<1>5. \A e, d \in Range(log) : e.sequence = d.sequence => e = d
  BY <1>4
<1>. QED  BY <1>1, <1>2, <1>3, <1>4, <1>5

LEMMA LogAppend ==
    ASSUME NEW log, LogOK(log), NEW e \in StoredEvent, e.sequence = Len(log)
    PROVE  /\ LogOK(Append(log, e)) /\ Range(Append(log, e)) = Range(log) \cup {e}
           /\ Len(Append(log, e)) = Len(log) + 1
<1>. PICK m : m = Append(log, e)
  OBVIOUS
<1>1. Len(log) \in Nat /\ Len(log) >= 1 /\ DOMAIN log = 1..Len(log) /\ log \in Seq(StoredEvent)
  BY LogRows DEF LogOK
<1>2. /\ m \in Seq(StoredEvent) /\ Len(m) = Len(log) + 1 /\ DOMAIN m = 1..Len(log) + 1
      /\ m[Len(log) + 1] = e /\ \A i \in 1..Len(log) : m[i] = log[i]
  BY <1>1
<1>3. LogOK(m)
  BY <1>1, <1>2 DEF LogOK
<1>4. Range(m) = Range(log) \cup {e}
  BY <1>1, <1>2 DEF Range
<1>. QED  BY <1>2, <1>3, <1>4

LEMMA LogCutOff ==
    ASSUME NEW log, LogOK(log), NEW n \in 1..Len(log) - 1
    PROVE  LET m == SubSeq(log, 1, n)
           IN  LogOK(m) /\ Len(m) = n /\ Range(m) = {e \in Range(log) : e.sequence < n}
<1>. PICK m : m = SubSeq(log, 1, n)
  OBVIOUS
<1>1. Len(log) \in Nat /\ DOMAIN log = 1..Len(log) /\ log \in Seq(StoredEvent) /\ n \in Nat /\ n < Len(log) /\ 1 =< n
  BY LogRows DEF LogOK
<1>2. m \in Seq(StoredEvent) /\ Len(m) = n /\ DOMAIN m = 1..n /\ \A i \in 1..n : m[i] = log[i]
  BY <1>1
<1>3. LogOK(m)
  <2>1. m # <<>> /\ m[1] = log[1] /\ 1 \in DOMAIN m
    BY <1>1, <1>2
  <2>2. \A i \in DOMAIN m : i \in DOMAIN log /\ m[i] = log[i]
    BY <1>1, <1>2
  <2>. QED  BY <1>2, <2>1, <2>2 DEF LogOK
<1>4. Range(m) = {log[i] : i \in 1..n}
  BY <1>2 DEF Range
<1>5. \A i \in 1..n : log[i] \in Range(log) /\ log[i].sequence < n
  BY <1>1, LogRows
<1>6. \A e \in Range(log) : e.sequence < n => \E i \in 1..n : e = log[i]
  <2>. SUFFICES ASSUME NEW e \in Range(log), e.sequence < n PROVE \E i \in 1..n : e = log[i]
    OBVIOUS
  <2>1. e.sequence \in Nat /\ e = log[e.sequence + 1]
    BY LogRows
  <2>2. e.sequence + 1 \in 1..n
    BY <2>1, <1>1
  <2>. QED  BY <2>1, <2>2
<1>7. Range(m) = {e \in Range(log) : e.sequence < n}
  BY <1>4, <1>5, <1>6
<1>. QED  BY <1>2, <1>3, <1>7

\* A row is stored after everything that anybody has seen.
LEMMA CaughtStore ==
    ASSUME NEW log, LogOK(log), NEW e \in StoredEvent, e.sequence = Len(log), NEW r, NEW s, Caught(log, r, s)
    PROVE  Caught(Append(log, e), r, s)
<1>. PICK m : m = Append(log, e)
  OBVIOUS
<1>. PICK seen : seen = Range(r) \cup Due(s)
  OBVIOUS
<1>1. Range(m) = Range(log) \cup {e} /\ Len(m) = Len(log) + 1
  BY LogAppend
<1>2. /\ Len(log) \in Nat /\ \A d \in Range(log) : d.sequence \in 0..Len(log) - 1
  BY LogRows
<1>3. seen \subseteq PublicOf(Range(log)) /\ \A c \in PublicOf(Range(log)), d \in seen : c.sequence =< d.sequence => c \in seen
  BY DEF Caught, Complete
<1>4. \A c \in PublicOf(Range(m)) : c \in PublicOf(Range(log)) \/ c.sequence = Len(log)
  BY <1>1 DEF PublicOf
<1>5. PublicOf(Range(log)) \subseteq PublicOf(Range(m)) /\ PublicOf(Range(log)) \subseteq Range(log)
  BY <1>1 DEF PublicOf
<1>6. Complete(seen, m)
  <2>1. \A d \in seen : d.sequence \in Nat /\ d.sequence < Len(log)
    BY <1>2, <1>3, <1>5
  <2>. QED  BY <1>2, <1>3, <1>4, <1>5, <2>1 DEF Complete
<1>7. ASSUME s.at # "away", s.tail
      PROVE  /\ s.cursor \in 0..Len(m) - 1
             /\ \A c \in PublicOf(Range(m)) : c.sequence =< s.cursor => c \in seen
             /\ \A c \in seen : c.sequence =< s.cursor
  <2>1. /\ s.cursor \in 0..Len(log) - 1
        /\ \A c \in PublicOf(Range(log)) : c.sequence =< s.cursor => c \in seen
        /\ \A c \in seen : c.sequence =< s.cursor
    BY <1>7 DEF Caught
  <2>2. s.cursor \in 0..Len(m) - 1 /\ s.cursor < Len(log)
    BY <1>1, <1>2, <2>1
  <2>3. ASSUME NEW c \in PublicOf(Range(m)), c.sequence =< s.cursor PROVE c \in seen
    <3>1. c.sequence # Len(log)
      BY <1>2, <2>1, <2>2, <2>3
    <3>. QED  BY <1>4, <2>1, <2>3, <3>1
  <2>. QED  BY <2>1, <2>2, <2>3
<1>8. InOrder(r) /\ \A c \in Range(r), d \in Due(s) : c.sequence < d.sequence
  BY DEF Caught
<1>. QED  BY <1>6, <1>7, <1>8 DEF Caught

\* Nor does cutting the log disturb a connection that is not beyond the cut.
LEMMA CaughtCut ==
    ASSUME NEW log, LogOK(log), NEW n \in 1..Len(log) - 1, NEW r, NEW s, Caught(log, r, s),
           \A e \in Range(r) \cup Due(s) : e.sequence < n, s.at # "away" => s.cursor < n
    PROVE  Caught(SubSeq(log, 1, n), r, s)
<1>. PICK m : m = SubSeq(log, 1, n)
  OBVIOUS
<1>. PICK seen : seen = Range(r) \cup Due(s)
  OBVIOUS
<1>1. Range(m) = {e \in Range(log) : e.sequence < n} /\ Len(m) = n
  BY LogCutOff
<1>2. seen \subseteq PublicOf(Range(log)) /\ \A c \in PublicOf(Range(log)), d \in seen : c.sequence =< d.sequence => c \in seen
  BY DEF Caught, Complete
<1>3. PublicOf(Range(m)) \subseteq PublicOf(Range(log))
  BY <1>1 DEF PublicOf
<1>4. seen \subseteq PublicOf(Range(m))
  BY <1>1, <1>2 DEF PublicOf
<1>5. Complete(seen, m)
  BY <1>2, <1>3, <1>4 DEF Complete
<1>6. s.at # "away" /\ s.tail => s.cursor \in 0..Len(m) - 1
  <2>1. s.at # "away" /\ s.tail => s.cursor \in 0..Len(log) - 1
    BY DEF Caught
  <2>. QED  BY <1>1, <2>1
<1>7. /\ InOrder(r) /\ \A c \in Range(r), d \in Due(s) : c.sequence < d.sequence
      /\ s.at # "away" /\ s.tail =>
            /\ \A e \in PublicOf(Range(m)) : e.sequence =< s.cursor => e \in seen
            /\ \A e \in seen : e.sequence =< s.cursor
  BY <1>3 DEF Caught
<1>. QED  BY <1>5, <1>6, <1>7 DEF Caught

\* Whatever is on its way, what has arrived is complete.
LEMMA CaughtIsComplete ==
    ASSUME NEW log, LogOK(log), NEW r, NEW s, Caught(log, r, s)
    PROVE  Complete(Range(r), log)
<1>1. /\ Range(r) \cup Due(s) \subseteq PublicOf(Range(log))
      /\ \A c \in PublicOf(Range(log)), d \in Range(r) \cup Due(s) :
            c.sequence =< d.sequence => c \in Range(r) \cup Due(s)
      /\ \A e \in Range(r), d \in Due(s) : e.sequence < d.sequence
  BY DEF Caught, Complete
<1>2. \A c \in PublicOf(Range(log)) : c.sequence \in Nat
  BY LogRows DEF PublicOf
<1>. QED  BY <1>1, <1>2 DEF Complete

\* Of some rows there is a first one.
LEMMA FirstRow ==
    ASSUME NEW several \in SUBSET StoredEvent, several # {}
    PROVE  First(several) \in several /\ \A d \in several : First(several).sequence =< d.sequence
<1>. PICK numbers : numbers = {e.sequence : e \in several}
  OBVIOUS
<1>1. PICK n \in numbers : \A m \in numbers : n =< m
  <2>1. numbers \subseteq Nat /\ numbers # {}
    BY DEF StoredEvent
  <2>2. IsWellFoundedOn(LessOnNat, Nat)
    BY NatLessThanWellFounded DEF OpToRel, LessOnNat
  <2>3. PICK n \in numbers : \A m \in numbers : ~ (<<m, n>> \in LessOnNat)
    BY <2>1, <2>2, WFMin
  <2>4. ASSUME NEW m \in numbers PROVE n =< m
    <3>1. m \in Nat /\ n \in Nat /\ <<m, n>> \notin LessOnNat
      BY <2>1, <2>3
    <3>2. <<m, n>> \in Nat \X Nat
      BY <3>1
    <3>3. ~(m < n)
      BY <3>1, <3>2 DEF LessOnNat
    <3>. QED  BY <3>1, <3>3
  <2>. QED  BY <2>3, <2>4
<1>2. PICK e \in several : e.sequence = n
  BY <1>1
<1>3. \A d \in several : e.sequence =< d.sequence
  BY <1>1, <1>2
<1>. QED  BY <1>2, <1>3 DEF First

\* The newest of the rows after a cursor is the last one of the log.
LEMMA NewestRow ==
    ASSUME NEW log, LogOK(log), NEW cursor \in Int, NEW window,
           window = {d \in Range(log) : d.sequence > cursor}, window # {}
    PROVE  Newest(window) = log[Len(log)] /\ Newest(window).sequence = Len(log) - 1
<1>. PICK top : top = log[Len(log)]
  OBVIOUS
<1>1. /\ Len(log) \in Nat /\ top \in Range(log) /\ top.sequence = Len(log) - 1
      /\ \A d \in Range(log) : d.sequence \in 0..Len(log) - 1
      /\ \A c, d \in Range(log) : c.sequence = d.sequence => c = d
  BY LogRows
<1>2. top \in window /\ \A d \in window : d.sequence =< top.sequence
  BY <1>1
<1>3. Newest(window) \in window /\ \A d \in window : d.sequence =< Newest(window).sequence
  BY <1>2 DEF Newest
<1>4. Newest(window).sequence = top.sequence
  BY <1>1, <1>2, <1>3
<1>. QED  BY <1>1, <1>3, <1>4

\* The last event that arrived is the newest.
LEMMA LastArrived ==
    ASSUME NEW r \in Seq(StoredEvent), InOrder(r), r # <<>>
    PROVE  /\ r[Len(r)] \in Range(r) /\ Range(r) \subseteq StoredEvent
           /\ \A e \in Range(r) : e.sequence =< r[Len(r)].sequence
<1>1. Len(r) \in Nat /\ Len(r) >= 1 /\ DOMAIN r = 1..Len(r) /\ \A i \in DOMAIN r : r[i] \in StoredEvent
  OBVIOUS
<1>2. \A i \in DOMAIN r : r[i].sequence =< r[Len(r)].sequence
  <2>. SUFFICES ASSUME NEW i \in DOMAIN r PROVE r[i].sequence =< r[Len(r)].sequence
    OBVIOUS
  <2>1. r[i].sequence \in Nat /\ r[Len(r)].sequence \in Nat
    BY <1>1 DEF StoredEvent
  <2>2. i < Len(r) => r[i].sequence < r[Len(r)].sequence
    BY <1>1 DEF InOrder
  <2>. QED  BY <1>1, <2>1, <2>2
<1>. QED  BY <1>1, <1>2 DEF Range

\* A connection starts with what it still has to see of the log, or as a tail after what it has.
LEMMA CaughtOpen ==
    ASSUME NEW log, LogOK(log), NEW r \in Seq(StoredEvent), InOrder(r), Complete(Range(r), log),
           NEW cursor, cursor = IF r = <<>> THEN NoCursor ELSE r[Len(r)].sequence, NEW s,
           \/ /\ s.at = "open" /\ ~s.tail
              /\ s.frames = PublicOf({e \in Range(log) : e.sequence > cursor})
           \/ s.at = "open" /\ s.tail /\ s.frames = {} /\ s.cursor = TailCursor(cursor)
    PROVE  Caught(log, r, s)
<1>1. /\ Len(log) \in Nat /\ Len(log) >= 1 /\ \A e \in Range(log) : e.sequence \in 0..Len(log) - 1
  BY LogRows
<1>2. /\ Range(r) \subseteq PublicOf(Range(log)) /\ PublicOf(Range(log)) \subseteq Range(log)
      /\ \A e \in PublicOf(Range(log)), d \in Range(r) : e.sequence =< d.sequence => e \in Range(r)
  BY DEF Complete, PublicOf
<1>3. cursor \in -1..Len(log) - 1 /\ \A e \in PublicOf(Range(log)) : e \in Range(r) <=> e.sequence =< cursor
  <2>1. CASE r = <<>>
    <3>1. cursor = -1 /\ Range(r) = {}
      BY <2>1 DEF NoCursor, Range
    <3>. QED  BY <1>1, <1>2, <3>1
  <2>2. CASE r # <<>>
    <3>1. /\ cursor = r[Len(r)].sequence /\ r[Len(r)] \in Range(r)
          /\ \A e \in Range(r) : e.sequence =< cursor
      BY <2>2, LastArrived
    <3>. QED  BY <1>1, <1>2, <3>1
  <2>. QED  BY <2>1, <2>2
<1>4. CASE s.at = "open" /\ ~s.tail /\ s.frames = PublicOf({e \in Range(log) : e.sequence > cursor})
  <2>1. Due(s) = {e \in PublicOf(Range(log)) : e.sequence > cursor}
    BY <1>4 DEF Due, PublicOf
  <2>2. Range(r) \cup Due(s) = PublicOf(Range(log))
    BY <1>1, <1>2, <1>3, <2>1
  <2>3. \A e \in Range(r), d \in Due(s) : e.sequence < d.sequence
    BY <1>1, <1>2, <1>3, <2>1
  <2>. QED  BY <1>4, <2>2, <2>3 DEF Caught, Complete
<1>5. CASE s.at = "open" /\ s.tail /\ s.frames = {} /\ s.cursor = TailCursor(cursor)
  <2>1. Due(s) = {}
    BY <1>5 DEF Due
  <2>2. s.cursor \in 0..Len(log) - 1 /\ s.cursor >= cursor
    BY <1>1, <1>3, <1>5 DEF TailCursor, NoCursor
  <2>3. \A e \in PublicOf(Range(log)) : e.sequence # 0
    <3>1. \A e \in Range(log) : e.sequence = 0 => e = log[1]
      BY LogRows
    <3>. QED  BY <3>1 DEF PublicOf, Public, LogOK
  <2>4. ASSUME NEW e \in PublicOf(Range(log)), e.sequence =< s.cursor PROVE e \in Range(r)
    <3>1. s.cursor = cursor \/ s.cursor = 0
      BY <1>5 DEF TailCursor
    <3>2. e.sequence \in Nat /\ e.sequence # 0
      BY <1>1, <1>2, <2>3
    <3>. QED  BY <1>3, <2>4, <3>1, <3>2
  <2>5. \A e \in Range(r) : e.sequence =< s.cursor
    BY <1>1, <1>2, <1>3, <2>2
  <2>6. Complete(Range(r) \cup Due(s), log)
    BY <2>1
  <2>. QED  BY <2>1, <2>2, <2>4, <2>5, <2>6 DEF Caught
<1>. QED  BY <1>4, <1>5

\* The first frame on its way arrives.
LEMMA CaughtSend ==
    ASSUME NEW log, LogOK(log), NEW r \in Seq(StoredEvent), NEW s, Caught(log, r, s), s.at = "streaming",
           s.frames # {}, NEW z, z.at = "streaming", z.tail = s.tail, z.cursor = s.cursor,
           z.frames = s.frames \ {First(s.frames)}
    PROVE  Caught(log, Append(r, First(s.frames)), z)
<1>. PICK f : f = First(s.frames)
  OBVIOUS
<1>. PICK q : q = Append(r, f)
  OBVIOUS
<1>1. /\ Range(log) \subseteq StoredEvent /\ \A e \in Range(log) : e.sequence \in Nat
      /\ \A e, d \in Range(log) : e.sequence = d.sequence => e = d
  BY LogRows
<1>2. /\ Range(r) \cup s.frames \subseteq PublicOf(Range(log)) /\ PublicOf(Range(log)) \subseteq Range(log)
      /\ Complete(Range(r) \cup s.frames, log) /\ InOrder(r) /\ Due(s) = s.frames
      /\ \A e \in Range(r), d \in s.frames : e.sequence < d.sequence
  BY DEF Caught, Complete, Due, PublicOf
<1>3. f \in s.frames /\ \A d \in s.frames : f.sequence =< d.sequence
  BY <1>1, <1>2, FirstRow
<1>4. f \in StoredEvent /\ Due(z) = s.frames \ {f}
  BY <1>1, <1>2, <1>3 DEF Due
<1>5. /\ q \in Seq(StoredEvent) /\ Len(r) \in Nat /\ DOMAIN r = 1..Len(r) /\ DOMAIN q = 1..Len(r) + 1
      /\ q[Len(r) + 1] = f /\ \A i \in 1..Len(r) : q[i] = r[i]
  BY <1>4
<1>6. Range(q) = Range(r) \cup {f}
  BY <1>5 DEF Range
<1>7. InOrder(q)
  <2>. SUFFICES ASSUME NEW i \in DOMAIN q, NEW j \in DOMAIN q, i < j PROVE q[i].sequence < q[j].sequence
    BY DEF InOrder
  <2>1. CASE j = Len(r) + 1
    <3>1. i \in DOMAIN r /\ q[i] = r[i] /\ q[j] = f
      BY <1>5, <2>1
    <3>. QED  BY <1>2, <1>3, <3>1 DEF Range
  <2>2. CASE j # Len(r) + 1
    <3>1. i \in DOMAIN r /\ j \in DOMAIN r /\ q[i] = r[i] /\ q[j] = r[j]
      BY <1>5, <2>2
    <3>. QED  BY <1>2, <3>1 DEF InOrder
  <2>. QED  BY <2>1, <2>2
<1>8. Range(q) \cup Due(z) = Range(r) \cup s.frames
  BY <1>3, <1>4, <1>6
<1>9. \A e \in Range(q), d \in Due(z) : e.sequence < d.sequence
  <2>. SUFFICES ASSUME NEW e \in Range(q), NEW d \in Due(z) PROVE e.sequence < d.sequence
    OBVIOUS
  <2>1. d \in s.frames /\ d # f /\ d \in Range(log) /\ f \in Range(log)
    BY <1>2, <1>3, <1>4
  <2>2. f.sequence < d.sequence
    BY <1>1, <1>3, <2>1
  <2>. QED  BY <1>2, <1>6, <2>1, <2>2
<1>. QED  BY <1>2, <1>7, <1>8, <1>9 DEF Caught

\* A window of a tail is everything after its cursor.
LEMMA CaughtPoll ==
    ASSUME NEW log, LogOK(log), NEW r \in Seq(StoredEvent), NEW s, Caught(log, r, s), s.at = "streaming",
           s.tail, s.frames = {}, NEW window, window = {e \in Range(log) : e.sequence > s.cursor},
           NEW z, z.at = "streaming", z.tail, z.frames = PublicOf(window),
           z.cursor = IF window = {} THEN s.cursor ELSE Newest(window).sequence
    PROVE  Caught(log, r, z)
<1>1. /\ Len(log) \in Nat /\ Len(log) >= 1 /\ \A e \in Range(log) : e.sequence \in 0..Len(log) - 1
  BY LogRows
<1>2. /\ s.cursor \in 0..Len(log) - 1 /\ InOrder(r) /\ Due(s) = {} /\ Range(r) \subseteq PublicOf(Range(log))
      /\ \A e \in PublicOf(Range(log)) : e.sequence =< s.cursor => e \in Range(r)
      /\ \A e \in Range(r) : e.sequence =< s.cursor
  BY DEF Caught, Complete, Due
<1>3. Due(z) = {e \in PublicOf(Range(log)) : e.sequence > s.cursor} /\ PublicOf(Range(log)) \subseteq Range(log)
  BY DEF Due, PublicOf
<1>4. Range(r) \cup Due(z) = PublicOf(Range(log))
  BY <1>1, <1>2, <1>3
<1>5. \A e \in Range(r), d \in Due(z) : e.sequence < d.sequence
  BY <1>1, <1>2, <1>3
<1>6. z.cursor \in 0..Len(log) - 1 /\ \A e \in Range(log) : e.sequence =< z.cursor
  <2>1. CASE window = {}
    BY <1>1, <1>2, <2>1
  <2>2. CASE window # {}
    <3>1. s.cursor \in Int
      BY <1>2
    <3>2. Newest(window).sequence = Len(log) - 1
      BY <2>2, <3>1, NewestRow, ZenonT(30)
    <3>3. z.cursor = Len(log) - 1
      BY <2>2, <3>2
    <3>4. Len(log) - 1 \in 0..Len(log) - 1
      BY <1>1
    <3>5. \A e \in Range(log) : e.sequence =< Len(log) - 1
      BY <1>1
    <3>. QED  BY <3>3, <3>4, <3>5
  <2>. QED  BY <2>1, <2>2
<1>7. Complete(Range(r) \cup Due(z), log)
  BY <1>4 DEF Complete
<1>. QED  BY <1>2, <1>3, <1>4, <1>5, <1>6, <1>7 DEF Caught

-----------------------------------------------------------------------------
\* What holds of the streams of a game at any time: the log is numbered as it was stored, the
\* counter of the address is the number of its streams, and every connection under which the log
\* was not cut is caught up as far as it got.
ViewsInv ==
    /\ LogOK(stored) /\ status \in {"RUNNING", "COMPLETED"}
    /\ broadcastable \in BOOLEAN /\ broadcastState \in BroadcastState
    /\ written \in Nat /\ misled \subseteq Connections
    /\ stream \in [Connections -> {Away} \cup StreamRow]
    /\ received \in [Connections -> Seq(StoredEvent)]
    /\ active = Cardinality(Streaming)
    /\ \A c \in Connections \ misled : Caught(stored, received[c], stream[c])

\* Whoever is away has a complete prefix of the log, and no more is said of it.
LEMMA CaughtAway ==
    ASSUME NEW log, LogOK(log), NEW r, NEW s, Caught(log, r, s)
    PROVE  Caught(log, r, Away)
<1>1. Due(Away) = {} /\ Away.at = "away"
  BY DEF Due, Away
<1>2. Complete(Range(r), log) /\ InOrder(r)
  BY CaughtIsComplete DEF Caught
<1>3. Range(r) \cup Due(Away) = Range(r)
  BY <1>1
<1>. QED  BY <1>1, <1>2, <1>3 DEF Caught

\* What has not arrived yet is what is caught of a stream that says the same.
LEMMA CaughtSame ==
    ASSUME NEW log, NEW r, NEW s, Caught(log, r, s), NEW z, (z.at = "away") <=> (s.at = "away"),
           z.frames = s.frames, z.tail = s.tail, z.cursor = s.cursor
    PROVE  Caught(log, r, z)
<1>1. Due(z) = Due(s)
  BY DEF Due
<1>. QED  BY <1>1 DEF Caught

LEMMA EmptyIsCaught ==
    ASSUME NEW log
    PROVE  Caught(log, <<>>, Away)
<1>1. Due(Away) = {} /\ Range(<<>>) = {} /\ DOMAIN <<>> = {} /\ Away.at = "away"
  BY DEF Due, Away, Range
<1>. QED  BY <1>1 DEF Caught, Complete, InOrder

LEMMA ViewsBegin ==
    ASSUME ViewsInit
    PROVE  ViewsInv
<1>1. LogOK(stored)
  <2>1. GameCreated \in StoredEvent /\ GameCreated.kind = "private" /\ GameCreated.sequence = 0
    BY DEF StoredEvent, Kind, GameCreated
  <2>2. CASE NewGame
    BY <2>1, <2>2 DEF NewGame, LogOK
  <2>3. CASE OldGame
    <3>. PICK e : e = [sequence |-> 1, kind |-> "end", copy |-> 1]
      OBVIOUS
    <3>1. e \in StoredEvent /\ e.sequence = 1 /\ stored = <<GameCreated, e>>
      BY <2>3 DEF OldGame, StoredEvent, Kind
    <3>. QED  BY <2>1, <3>1 DEF LogOK
  <2>. QED  BY <2>2, <2>3 DEF ViewsInit
<1>2. stream \in [Connections -> {Away} \cup StreamRow] /\ \A c \in Connections : stream[c] = Away
  BY DEF ViewsInit, Away
<1>3. received \in [Connections -> Seq(StoredEvent)] /\ \A c \in Connections : received[c] = <<>>
  BY DEF ViewsInit
<1>4. Streaming = {}
  BY <1>2 DEF Streaming, Away
<1>5. active = Cardinality(Streaming)
  BY <1>4, FS_EmptySet DEF ViewsInit
<1>6. \A c \in Connections : Caught(stored, received[c], stream[c])
  BY <1>2, <1>3, EmptyIsCaught
<1>7. /\ status \in {"RUNNING", "COMPLETED"} /\ broadcastable \in BOOLEAN
      /\ broadcastState \in BroadcastState /\ written \in Nat
  <2>1. CASE NewGame
    BY <2>1 DEF NewGame, BroadcastState
  <2>2. CASE OldGame
    <3>1. /\ status = "COMPLETED" /\ broadcastable = TRUE /\ broadcastState = "RECENT"
          /\ written = 2
      BY <2>2 DEF OldGame
    <3>. QED  BY <3>1 DEF BroadcastState
  <2>. QED  BY <2>1, <2>2 DEF ViewsInit
<1>8. misled \subseteq Connections
  BY DEF ViewsInit
<1>. QED  BY <1>1, <1>2, <1>3, <1>5, <1>6, <1>7, <1>8 DEF ViewsInv

\* append_event
LEMMA StoreEventStep ==
    ASSUME ViewsInv, NEW kind \in Kind, StoreEvent(kind)
    PROVE  ViewsInv'
<1>. PICK e : e = [sequence |-> Len(stored), kind |-> kind, copy |-> written]
  OBVIOUS
<1>1. LogOK(stored) /\ written \in Nat
  BY DEF ViewsInv
<1>2. e \in StoredEvent /\ e.sequence = Len(stored)
  BY <1>1, LogRows DEF StoredEvent
<1>3. stored' = Append(stored, e) /\ written' = written + 1 /\ status' \in {"RUNNING", "COMPLETED"}
      /\ UNCHANGED <<broadcastable, broadcastState, stream, active, received, misled>>
  BY DEF StoreEvent, airing, viewers, ViewsInv
<1>4. LogOK(stored')
  BY <1>1, <1>2, <1>3, LogAppend
<1>5. ASSUME NEW c \in Connections \ misled'
      PROVE  Caught(stored', received'[c], stream'[c])
  <2>1. Caught(stored, received[c], stream[c])
    BY <1>3 DEF ViewsInv
  <2>. QED  BY <1>1, <1>2, <1>3, <2>1, CaughtStore
<1>6. active' = Cardinality(Streaming')
  BY <1>3 DEF ViewsInv, Streaming
<1>. QED  BY <1>1, <1>3, <1>4, <1>5, <1>6 DEF ViewsInv

\* truncate_to_phase_boundary: whoever was not misled by it is before the cut.
LEMMA CutLogStep ==
    ASSUME ViewsInv, CutLog
    PROVE  ViewsInv'
<1>1. PICK n \in 1..Len(stored) - 1 : stored' = SubSeq(stored, 1, n) /\ misled' = misled \cup Beyond(n)
  BY DEF CutLog
<1>2. UNCHANGED <<status, written, broadcastable, broadcastState, stream, active, received>>
  BY DEF CutLog, airing
<1>3. LogOK(stored) /\ LogOK(stored')
  BY <1>1, LogCutOff DEF ViewsInv
<1>4. ASSUME NEW c \in Connections \ misled'
      PROVE  Caught(stored', received'[c], stream'[c])
  <2>1. c \notin misled /\ c \notin Beyond(n)
    BY <1>1
  <2>2. Caught(stored, received[c], stream[c]) /\ received[c] \in Seq(StoredEvent)
        /\ stream[c] \in {Away} \cup StreamRow
    BY <2>1 DEF ViewsInv
  <2>3. /\ \A i \in DOMAIN received[c] : ~(received[c][i].sequence >= n)
        /\ stream[c].at # "away" => ~(stream[c].cursor >= n)
        /\ stream[c].at # "away" => \A e \in stream[c].frames : ~(e.sequence >= n)
    BY <2>1 DEF Beyond
  <2>4. n \in Nat
    OBVIOUS
  <2>5. \A e \in Range(received[c]) : e.sequence < n
    <3>1. \A i \in DOMAIN received[c] : received[c][i] \in StoredEvent
      BY <2>2
    <3>2. \A i \in DOMAIN received[c] : received[c][i].sequence \in Nat
      BY <3>1 DEF StoredEvent
    <3>. QED  BY <2>3, <2>4, <3>2 DEF Range
  <2>6. \A e \in Due(stream[c]) : e.sequence < n
    <3>1. stream[c].at # "away" => stream[c].frames \subseteq StoredEvent
      BY <2>2 DEF StreamRow, Away
    <3>. QED  BY <2>3, <2>4, <3>1 DEF Due, StoredEvent
  <2>7. stream[c].at # "away" => stream[c].cursor < n
    <3>1. stream[c].at # "away" => stream[c].cursor \in Int
      BY <2>2 DEF StreamRow, Away
    <3>. QED  BY <2>3, <2>4, <3>1
  <2>. QED  BY <1>1, <1>2, <1>3, <2>2, <2>5, <2>6, <2>7, CaughtCut
<1>5. misled' \subseteq Connections
  BY <1>1 DEF ViewsInv, Beyond
<1>6. active' = Cardinality(Streaming')
  BY <1>2 DEF ViewsInv, Streaming
<1>. QED  BY <1>2, <1>3, <1>4, <1>5, <1>6 DEF ViewsInv

\* The moderation gate and the broadcast state
LEMMA AiringStep ==
    ASSUME ViewsInv, GoLive \/ GoRecent \/ Hide \/ AskRecap
    PROVE  ViewsInv'
<1>1. /\ UNCHANGED <<stored, status, written, stream, active, received, misled>>
      /\ broadcastable' \in BOOLEAN /\ broadcastState' \in BroadcastState
  BY DEF GoLive, GoRecent, Hide, AskRecap, Airs, viewers, ViewsInv, BroadcastState
<1>2. active' = Cardinality(Streaming')
  BY <1>1 DEF ViewsInv, Streaming
<1>3. \A c \in Connections \ misled' : Caught(stored', received'[c], stream'[c])
  BY <1>1 DEF ViewsInv
<1>. QED  BY <1>1, <1>2, <1>3 DEF ViewsInv

\* What a step of one stream leaves of the invariant: only its own connection has to be looked at.
LEMMA OneStream ==
    ASSUME ViewsInv, UNCHANGED <<stored, status, written, broadcastable, broadcastState>>,
           NEW c \in Connections, NEW z \in {Away} \cup StreamRow, stream' = [stream EXCEPT ![c] = z],
           NEW r \in Seq(StoredEvent), received' = [received EXCEPT ![c] = r],
           misled' \subseteq misled, misled \subseteq misled' \cup {c},
           c \notin misled' => Caught(stored, r, z), active' = Cardinality(Streaming')
    PROVE  ViewsInv'
<1>1. /\ stream \in [Connections -> {Away} \cup StreamRow] /\ received \in [Connections -> Seq(StoredEvent)]
      /\ misled \subseteq Connections
  BY DEF ViewsInv
<1>2. /\ stream' \in [Connections -> {Away} \cup StreamRow] /\ received' \in [Connections -> Seq(StoredEvent)]
      /\ stream'[c] = z /\ received'[c] = r
      /\ \A d \in Connections : d # c => stream'[d] = stream[d] /\ received'[d] = received[d]
  BY <1>1
<1>3. ASSUME NEW d \in Connections \ misled'
      PROVE  Caught(stored', received'[d], stream'[d])
  <2>1. CASE d = c
    BY <1>2, <2>1
  <2>2. CASE d # c
    <3>1. d \in Connections \ misled
      BY <2>2
    <3>. QED  BY <1>2, <2>2, <3>1 DEF ViewsInv
  <2>. QED  BY <2>1, <2>2
<1>4. misled' \subseteq Connections
  BY <1>1
<1>. QED  BY <1>2, <1>3, <1>4 DEF ViewsInv

\* A stream that is counted neither before nor after
LEMMA SameCount ==
    ASSUME ViewsInv, NEW c \in Connections, NEW z, stream' = [stream EXCEPT ![c] = z],
           (z.at = "streaming") <=> (stream[c].at = "streaming"), UNCHANGED active
    PROVE  active' = Cardinality(Streaming')
<1>1. stream \in [Connections -> {Away} \cup StreamRow] /\ active = Cardinality(Streaming)
  BY DEF ViewsInv
<1>2. stream'[c] = z /\ \A d \in Connections : d # c => stream'[d] = stream[d]
  BY <1>1
<1>3. Streaming' = Streaming
  BY <1>2 DEF Streaming
<1>. QED  BY <1>1, <1>3

LEMMA OpenStep ==
    ASSUME ViewsInv, NEW c \in Connections, NEW tail \in BOOLEAN, NEW resume \in BOOLEAN, Open(c, tail, resume)
    PROVE  ViewsInv'
<1>. PICK cursor : cursor = IF resume THEN Resumed(c) ELSE NoCursor
  OBVIOUS
<1>. PICK z : z = IF tail THEN [at |-> "open", tail |-> TRUE, cursor |-> TailCursor(cursor), frames |-> {},
                               last |-> FALSE]
                  ELSE [at |-> "open", tail |-> FALSE, cursor |-> cursor, frames |-> PublicOf(After(cursor)),
                        last |-> TRUE]
  OBVIOUS
<1>. PICK r : r = IF resume THEN received[c] ELSE <<>>
  OBVIOUS
<1>1. /\ LogOK(stored) /\ received \in [Connections -> Seq(StoredEvent)] /\ misled \subseteq Connections
      /\ stream \in [Connections -> {Away} \cup StreamRow]
  BY DEF ViewsInv
<1>2. /\ UNCHANGED <<stored, status, written, broadcastable, broadcastState, active>>
      /\ stream[c].at = "away" /\ stream' = [stream EXCEPT ![c] = z]
  BY DEF Open, streaming, airing
<1>3. received' = [received EXCEPT ![c] = r] /\ misled' = IF resume THEN misled ELSE misled \ {c}
  BY <1>1 DEF Open
<1>4. r \in Seq(StoredEvent) /\ cursor = IF r = <<>> THEN NoCursor ELSE r[Len(r)].sequence
  BY <1>1 DEF Resumed
<1>5. cursor \in Int
  <2>1. r # <<>> => r[Len(r)] \in StoredEvent
    BY <1>4
  <2>. QED  BY <1>4, <2>1 DEF NoCursor, StoredEvent
<1>6. PublicOf(After(cursor)) \subseteq StoredEvent /\ PublicOf(After(cursor)) = PublicOf({e \in Range(stored) : e.sequence > cursor})
  BY <1>1, LogRows DEF PublicOf, After
<1>7. z \in StreamRow
  <2>1. TailCursor(cursor) \in Int
    BY <1>5 DEF TailCursor
  <2>2. CASE tail
    BY <2>1, <2>2 DEF StreamRow
  <2>3. CASE ~tail
    BY <1>5, <1>6, <2>3 DEF StreamRow
  <2>. QED  BY <2>2, <2>3
<1>8. ASSUME c \notin misled' PROVE Caught(stored, r, z)
  <2>1. InOrder(r) /\ Complete(Range(r), stored)
    <3>1. CASE resume
      <4>1. Caught(stored, received[c], stream[c]) /\ r = received[c]
        BY <1>3, <1>8, <3>1 DEF ViewsInv
      <4>. QED  BY <1>1, <4>1, CaughtIsComplete DEF Caught
    <3>2. CASE ~resume
      <4>1. r = <<>> /\ Range(r) = {} /\ DOMAIN r = {}
        BY <3>2 DEF Range
      <4>. QED  BY <4>1 DEF InOrder, Complete
    <3>. QED  BY <3>1, <3>2
  <2>2. \/ /\ z.at = "open" /\ ~z.tail
           /\ z.frames = PublicOf({e \in Range(stored) : e.sequence > cursor})
        \/ z.at = "open" /\ z.tail /\ z.frames = {} /\ z.cursor = TailCursor(cursor)
    <3>1. CASE tail
      BY <3>1
    <3>2. CASE ~tail
      BY <1>6, <3>2
    <3>. QED  BY <3>1, <3>2
  <2>. QED  BY <1>1, <1>4, <2>1, <2>2, CaughtOpen
<1>9. active' = Cardinality(Streaming')
  <2>1. z.at = "open"
    OBVIOUS
  <2>. QED  BY <1>2, <2>1, SameCount
<1>10. misled' \subseteq misled /\ misled \subseteq misled' \cup {c}
  BY <1>3
<1>. QED  BY <1>2, <1>3, <1>4, <1>7, <1>8, <1>9, <1>10, OneStream

\* The body is asked for: the stream is counted.
LEMMA StartStep ==
    ASSUME ViewsInv, NEW c \in Connections, Start(c)
    PROVE  ViewsInv'
<1>. PICK z : z = [stream[c] EXCEPT !.at = "streaming"]
  OBVIOUS
<1>1. /\ stream \in [Connections -> {Away} \cup StreamRow] /\ received \in [Connections -> Seq(StoredEvent)]
      /\ misled \subseteq Connections /\ active = Cardinality(Streaming)
  BY DEF ViewsInv
<1>2. /\ UNCHANGED <<stored, status, written, broadcastable, broadcastState, received, misled>>
      /\ stream[c].at = "open" /\ active' = active + 1
  BY DEF Start, streaming, airing
<1>3. stream' = [stream EXCEPT ![c] = z]
  BY <1>1 DEF Start
<1>4. stream[c] \in StreamRow
  BY <1>1, <1>2 DEF Away
<1>5. z \in StreamRow /\ z.at = "streaming" /\ z.frames = stream[c].frames /\ z.tail = stream[c].tail
      /\ z.cursor = stream[c].cursor
  BY <1>4 DEF StreamRow
<1>6. received' = [received EXCEPT ![c] = received[c]] /\ received[c] \in Seq(StoredEvent)
  BY <1>1, <1>2
<1>7. c \notin misled' => Caught(stored, received[c], z)
  <2>. SUFFICES ASSUME c \notin misled' PROVE Caught(stored, received[c], z)
    OBVIOUS
  <2>1. Caught(stored, received[c], stream[c])
    BY <1>2 DEF ViewsInv
  <2>. QED  BY <1>2, <1>5, <2>1, CaughtSame
<1>8. active' = Cardinality(Streaming')
  <2>1. Streaming' = Streaming \cup {c} /\ c \notin Streaming
    BY <1>1, <1>2, <1>3, <1>5 DEF Streaming
  <2>2. IsFiniteSet(Streaming)
    BY ConnectionsAssumption, FS_Subset DEF Streaming
  <2>3. Cardinality(Streaming \cup {c}) = Cardinality(Streaming) + 1
    BY <2>1, <2>2, FS_AddElement
  <2>. QED  BY <1>1, <1>2, <2>1, <2>3
<1>. QED  BY <1>2, <1>3, <1>5, <1>6, <1>7, <1>8, OneStream

LEMMA SendFrameStep ==
    ASSUME ViewsInv, NEW c \in Connections, SendFrame(c)
    PROVE  ViewsInv'
<1>. PICK s : s = stream[c]
  OBVIOUS
<1>. PICK f : f = First(s.frames)
  OBVIOUS
<1>. PICK z : z = [s EXCEPT !.frames = @ \ {f}, !.last = @ \/ (s.tail /\ f.kind = "end")]
  OBVIOUS
<1>1. /\ LogOK(stored) /\ received \in [Connections -> Seq(StoredEvent)] /\ misled \subseteq Connections
      /\ stream \in [Connections -> {Away} \cup StreamRow]
  BY DEF ViewsInv
<1>2. /\ UNCHANGED <<stored, status, written, broadcastable, broadcastState, active, misled>>
      /\ s.at = "streaming" /\ s.frames # {} /\ stream' = [stream EXCEPT ![c] = z]
  BY DEF SendFrame, streaming, airing
<1>3. received' = [received EXCEPT ![c] = Append(received[c], f)] /\ received[c] \in Seq(StoredEvent)
  BY <1>1 DEF SendFrame
<1>4. s \in StreamRow
  BY <1>1, <1>2 DEF Away
<1>5. f \in StoredEvent
  <2>1. s.frames \in SUBSET StoredEvent
    BY <1>4 DEF StreamRow
  <2>2. f \in s.frames
    BY <1>2, <2>1, FirstRow
  <2>. QED  BY <2>1, <2>2
<1>6. z \in StreamRow /\ z.at = "streaming" /\ z.tail = s.tail /\ z.cursor = s.cursor /\ z.frames = s.frames \ {f}
  BY <1>2, <1>4 DEF StreamRow
<1>7. c \notin misled' => Caught(stored, Append(received[c], f), z)
  <2>. SUFFICES ASSUME c \notin misled' PROVE Caught(stored, Append(received[c], f), z)
    OBVIOUS
  <2>1. Caught(stored, received[c], s)
    BY <1>2 DEF ViewsInv
  <2>. QED  BY <1>1, <1>2, <1>3, <1>6, <2>1, CaughtSend
<1>8. active' = Cardinality(Streaming')
  BY <1>2, <1>6, SameCount
<1>9. Append(received[c], f) \in Seq(StoredEvent)
  BY <1>3, <1>5
<1>. QED  BY <1>2, <1>3, <1>6, <1>7, <1>8, <1>9, OneStream

LEMMA PollStep ==
    ASSUME ViewsInv, NEW c \in Connections, Poll(c)
    PROVE  ViewsInv'
<1>. PICK s : s = stream[c]
  OBVIOUS
<1>. PICK window : window = After(s.cursor)
  OBVIOUS
<1>0. PICK z : z = IF ~broadcastable THEN [s EXCEPT !.last = TRUE]
                  ELSE [s EXCEPT !.frames = PublicOf(window),
                                 !.cursor = IF window = {} THEN @ ELSE Newest(window).sequence,
                                 !.last = status = "COMPLETED" \/ broadcastState = "RECENT"]
  OBVIOUS
<1>1. /\ LogOK(stored) /\ received \in [Connections -> Seq(StoredEvent)] /\ misled \subseteq Connections
      /\ stream \in [Connections -> {Away} \cup StreamRow]
  BY DEF ViewsInv
<1>2. /\ UNCHANGED <<stored, status, written, broadcastable, broadcastState, active, received, misled>>
      /\ s.at = "streaming" /\ s.tail /\ s.frames = {} /\ stream' = [stream EXCEPT ![c] = z]
  BY <1>0 DEF Poll, streaming, airing
<1>3. s \in StreamRow
  BY <1>1, <1>2 DEF Away
<1>4. window = {e \in Range(stored) : e.sequence > s.cursor}
  BY DEF After
<1>5. window # {} => Newest(window).sequence \in Int
  <2>1. s.cursor \in Int /\ Len(stored) \in Nat
    BY <1>1, <1>3, LogRows DEF StreamRow
  <2>2. window # {} => Newest(window).sequence = Len(stored) - 1
    BY <1>1, <1>4, <2>1, NewestRow
  <2>. QED  BY <2>1, <2>2
<1>6. PublicOf(window) \subseteq StoredEvent
  BY <1>1, <1>4, LogRows DEF PublicOf
<1>7. z \in StreamRow /\ z.at = "streaming" /\ (c \notin misled => Caught(stored, received[c], z))
  <2>1. CASE ~broadcastable
    <3>1. z = [s EXCEPT !.last = TRUE]
      BY <1>0, <2>1
    <3>2. /\ z \in StreamRow /\ z.at = s.at /\ z.frames = s.frames /\ z.tail = s.tail
          /\ z.cursor = s.cursor
      BY <1>3, <3>1 DEF StreamRow
    <3>3. ASSUME c \notin misled PROVE Caught(stored, received[c], z)
      <4>1. Caught(stored, received[c], s)
        BY <3>3 DEF ViewsInv
      <4>2. (z.at = "away") <=> (s.at = "away")
        BY <3>2
      <4>. QED  BY <3>2, <4>1, <4>2, CaughtSame
    <3>. QED  BY <1>2, <3>2, <3>3
  <2>2. CASE broadcastable
    <3>1. z = [s EXCEPT !.frames = PublicOf(window),
                        !.cursor = IF window = {} THEN @ ELSE Newest(window).sequence,
                        !.last = status = "COMPLETED" \/ broadcastState = "RECENT"]
      BY <1>0, <2>2
    <3>2. /\ z \in StreamRow /\ z.at = "streaming" /\ z.tail = s.tail /\ z.frames = PublicOf(window)
          /\ z.cursor = IF window = {} THEN s.cursor ELSE Newest(window).sequence
      BY <1>2, <1>3, <1>5, <1>6, <3>1 DEF StreamRow
    <3>3. ASSUME c \notin misled PROVE Caught(stored, received[c], z)
      <4>1. Caught(stored, received[c], s) /\ received[c] \in Seq(StoredEvent)
        BY <1>1, <3>3 DEF ViewsInv
      <4>2. LogOK(stored) /\ s.at = "streaming" /\ s.tail /\ s.frames = {} /\ z.tail
        BY <1>1, <1>2, <3>2
      <4>. QED  BY <1>4, <3>2, <4>1, <4>2, CaughtPoll
    <3>. QED  BY <3>2, <3>3
  <2>. QED  BY <2>1, <2>2
<1>8. active' = Cardinality(Streaming')
  BY <1>2, <1>7, SameCount
<1>9. received' = [received EXCEPT ![c] = received[c]] /\ received[c] \in Seq(StoredEvent)
  BY <1>1, <1>2
<1>. QED  BY <1>2, <1>7, <1>8, <1>9, OneStream

LEMMA CloseStep ==
    ASSUME ViewsInv, NEW c \in Connections, Close(c)
    PROVE  ViewsInv'
<1>1. /\ LogOK(stored) /\ received \in [Connections -> Seq(StoredEvent)] /\ misled \subseteq Connections
      /\ stream \in [Connections -> {Away} \cup StreamRow] /\ active = Cardinality(Streaming)
  BY DEF ViewsInv
<1>2. /\ UNCHANGED <<stored, status, written, broadcastable, broadcastState, received, misled>>
      /\ stream[c].at # "away" /\ stream' = [stream EXCEPT ![c] = Away]
      /\ active' = IF stream[c].at = "open" THEN active ELSE active - 1
  BY DEF Close, streaming, airing, Away
<1>3. Away.at = "away"
  BY DEF Away
<1>4. active' = Cardinality(Streaming')
  <2>1. CASE stream[c].at = "open"
    BY <1>2, <1>3, <2>1, SameCount
  <2>2. CASE stream[c].at = "streaming"
    <3>1. Streaming' = Streaming \ {c} /\ c \in Streaming
      BY <1>1, <1>2, <1>3, <2>2 DEF Streaming
    <3>2. IsFiniteSet(Streaming)
      BY ConnectionsAssumption, FS_Subset DEF Streaming
    <3>3. Cardinality(Streaming \ {c}) = Cardinality(Streaming) - 1
      BY <3>1, <3>2, FS_RemoveElement
    <3>. QED  BY <1>1, <1>2, <2>2, <3>1, <3>3
  <2>. QED  BY <1>1, <1>2, <2>1, <2>2 DEF StreamRow, Away
<1>5. received' = [received EXCEPT ![c] = received[c]] /\ received[c] \in Seq(StoredEvent)
  BY <1>1, <1>2
<1>6. c \notin misled' => Caught(stored, received[c], Away)
  <2>. SUFFICES ASSUME c \notin misled' PROVE Caught(stored, received[c], Away)
    OBVIOUS
  <2>1. Caught(stored, received[c], stream[c])
    BY <1>2 DEF ViewsInv
  <2>. QED  BY <1>1, <2>1, CaughtAway
<1>. QED  BY <1>2, <1>4, <1>5, <1>6, OneStream

\* Every step of the game, of the broadcast and of a stream keeps the invariant of the streams.
THEOREM StreamsKeepTheirInvariant == ViewsSpec => []ViewsInv
<1>1. ViewsInit => ViewsInv
  BY ViewsBegin
<1>2. ViewsInv /\ [ViewsNext]_viewVars => ViewsInv'
  <2>. SUFFICES ASSUME ViewsInv, [ViewsNext]_viewVars PROVE ViewsInv'
    OBVIOUS
  <2>1. CASE \E kind \in Kind : StoreEvent(kind)
    BY <2>1, StoreEventStep
  <2>2. CASE CutLog
    BY <2>2, CutLogStep
  <2>3. CASE GoLive \/ GoRecent \/ Hide \/ AskRecap
    BY <2>3, AiringStep
  <2>4. CASE \E c \in Connections : \E tail, resume \in BOOLEAN : Open(c, tail, resume)
    BY <2>4, OpenStep
  <2>5. CASE \E c \in Connections : Start(c)
    BY <2>5, StartStep
  <2>6. CASE \E c \in Connections : SendFrame(c)
    BY <2>6, SendFrameStep
  <2>7. CASE \E c \in Connections : Poll(c)
    BY <2>7, PollStep
  <2>8. CASE \E c \in Connections : Close(c)
    BY <2>8, CloseStep
  <2>9. CASE UNCHANGED viewVars
    <3>1. UNCHANGED <<stored, status, written, broadcastable, broadcastState, stream, active, received, misled>>
      BY <2>9 DEF viewVars
    <3>2. active' = Cardinality(Streaming')
      BY <3>1 DEF ViewsInv, Streaming
    <3>3. \A c \in Connections \ misled' : Caught(stored', received'[c], stream'[c])
      BY <3>1 DEF ViewsInv
    <3>. QED  BY <3>1, <3>2, <3>3 DEF ViewsInv
  <2>. QED  BY <2>1, <2>2, <2>3, <2>4, <2>5, <2>6, <2>7, <2>8, <2>9 DEF ViewsNext
<1>. QED  BY <1>1, <1>2, PTL DEF ViewsSpec

\* A finished log has its end; and of a game that was over when it became RECENT the log is
\* finished, and what is stored of its analytics is of that log.
RecapInv ==
    /\ analytics \in Seq(StoredEvent) /\ settled \in BOOLEAN
    /\ status = "COMPLETED" => ResultIn(stored) = {"result"}
    /\ settled => status = "COMPLETED" /\ analytics \in {NoPayload, stored}

LEMMA RecapBegins == ViewsInit => RecapInv
<1>. SUFFICES ASSUME ViewsInit PROVE RecapInv
  OBVIOUS
<1>1. CASE NewGame
  <2>1. analytics = <<>> /\ status = "RUNNING" /\ settled = FALSE
    BY <1>1 DEF ViewsInit, NewGame, NoPayload
  <2>2. analytics \in Seq(StoredEvent)
    BY <2>1
  <2>. QED  BY <2>1, <2>2 DEF RecapInv
<1>2. CASE OldGame
  <2>. PICK e : e = [sequence |-> 1, kind |-> "end", copy |-> 1]
    OBVIOUS
  <2>1. stored = <<GameCreated, e>> /\ e.kind = "end"
    BY <1>2 DEF OldGame
  <2>2. ResultIn(stored) = {"result"}
    <3>1. 2 \in DOMAIN stored /\ stored[2] = e
      BY <2>1
    <3>. QED  BY <2>1, <3>1 DEF ResultIn
  <2>. QED  BY <1>2, <2>2 DEF ViewsInit, OldGame, RecapInv, NoPayload
<1>. QED  BY <1>1, <1>2 DEF ViewsInit

\* The log grows and is cut only while the game runs, and what is stored of it when the game
\* becomes RECENT, or is asked for, is all of it.
LEMMA RecapStep == ViewsInv /\ RecapInv /\ [ViewsNext]_viewVars => RecapInv'
<1>. SUFFICES ASSUME ViewsInv, RecapInv, [ViewsNext]_viewVars PROVE RecapInv'
  OBVIOUS
<1>a. LogOK(stored) /\ stored \in Seq(StoredEvent) /\ status \in {"RUNNING", "COMPLETED"}
  BY DEF ViewsInv, LogOK
<1>1. ASSUME NEW kind \in Kind, StoreEvent(kind) PROVE RecapInv'
  <2>. PICK e : e = [sequence |-> Len(stored), kind |-> kind, copy |-> written]
    OBVIOUS
  <2>1. /\ status = "RUNNING" /\ stored' = Append(stored, e) /\ e.kind = kind
        /\ status' = IF kind = "end" THEN "COMPLETED" ELSE status
        /\ analytics' = analytics /\ settled' = settled
    BY <1>1 DEF StoreEvent, airing
  <2>2. ~settled
    BY <2>1 DEF RecapInv
  <2>3. kind = "end" => ResultIn(stored') = {"result"}
    <3>1. Len(stored) + 1 \in DOMAIN stored' /\ stored'[Len(stored) + 1] = e
      BY <2>1, <1>a
    <3>. QED  BY <2>1, <3>1 DEF ResultIn
  <2>. QED  BY <2>1, <2>2, <2>3 DEF RecapInv
<1>2. CASE CutLog
  BY <1>2 DEF CutLog, airing, RecapInv
<1>3. CASE GoLive \/ Hide
  BY <1>3 DEF GoLive, Hide, Airs, RecapInv
<1>4. CASE GoRecent
  BY <1>4, <1>a DEF GoRecent, Airs, RecapInv
<1>5. CASE AskRecap
  BY <1>5, <1>a DEF AskRecap, Airs, RecapInv
<1>6. ASSUME NEW c \in Connections,
             \/ \E tail, resume \in BOOLEAN : Open(c, tail, resume)
             \/ Start(c) \/ SendFrame(c) \/ Poll(c) \/ Close(c)
      PROVE  RecapInv'
  <2>1. UNCHANGED streaming
    BY <1>6 DEF Open, Start, SendFrame, Poll, Close
  <2>. QED  BY <2>1 DEF streaming, airing, RecapInv
<1>7. CASE UNCHANGED viewVars
  BY <1>7 DEF viewVars, RecapInv
<1>. QED  BY <1>1, <1>2, <1>3, <1>4, <1>5, <1>6, <1>7 DEF ViewsNext

\* The rows of the game, of its broadcast and of its streams are what PublicViews says.
THEOREM StreamsTyped == ViewsSpec => []ViewsTypeOK
<1>1. ViewsInv /\ RecapInv => ViewsTypeOK
  <2>. SUFFICES ASSUME ViewsInv, RecapInv PROVE ViewsTypeOK
    OBVIOUS
  <2>1. \A i \in DOMAIN stored : stored[i] \in StoredEvent /\ stored[i].sequence = i - 1
    BY DEF ViewsInv, LogOK
  <2>2. active \in 0..Cardinality(Connections)
    <3>1. Streaming \subseteq Connections /\ IsFiniteSet(Connections)
      BY ConnectionsAssumption DEF Streaming
    <3>2. IsFiniteSet(Streaming) /\ Cardinality(Streaming) =< Cardinality(Connections)
      BY <3>1, FS_Subset
    <3>3. Cardinality(Streaming) \in Nat /\ Cardinality(Connections) \in Nat
      BY <3>1, <3>2, FS_CardinalityType
    <3>. QED  BY <3>2, <3>3 DEF ViewsInv
  <2>. QED  BY <2>1, <2>2 DEF ViewsInv, RecapInv, ViewsTypeOK
<1>. QED  BY <1>1, StreamsKeepTheirInvariant, RecapBegins, RecapStep, PTL DEF ViewsSpec

\* However the streams of a game are opened, resumed and closed while it is stored, each has
\* received the PUBLIC events in order and without a gap or a repetition, unless the log was cut
\* under it, and the counter of the address is the number of its streams (public_game_live_sse,
\* stream_live_tail).
THEOREM StreamsAlwaysFollowTheLog == ViewsSpec => []StreamsFollowTheLog
<1>1. ViewsInv => StreamsFollowTheLog
  <2>. SUFFICES ASSUME ViewsInv PROVE StreamsFollowTheLog
    OBVIOUS
  <2>1. ASSUME NEW c \in Connections \ misled
        PROVE  InOrder(received[c]) /\ Complete(Range(received[c]), stored)
    <3>1. Caught(stored, received[c], stream[c]) /\ LogOK(stored)
      BY DEF ViewsInv
    <3>. QED  BY <3>1, CaughtIsComplete DEF Caught
  <2>2. active = Cardinality(Streaming)
    BY DEF ViewsInv
  <2>. QED  BY <2>1, <2>2 DEF StreamsFollowTheLog
<1>. QED  BY <1>1, StreamsKeepTheirInvariant, PTL

\* A game that was over when it became RECENT is shown by every page out of the whole of its log,
\* and index, recap and reveal agree that it has a result, whatever was stored of it before; and
\* while it is LIVE no page has the result or the seats (mark_recent, materialize_game_analytics,
\* public_game_analytics).
THEOREM PagesAlwaysAgreeOnTheEnd == ViewsSpec => []PagesAgreeOnTheEnd
<1>1. ViewsInv /\ RecapInv => PagesAgreeOnTheEnd
  <2>. SUFFICES ASSUME ViewsInv, RecapInv, NEW p \in Pages
                PROVE  /\ broadcastState = "LIVE" => p.tells \cap {"result", "seats"} = {}
                       /\ broadcastState = "RECENT" /\ settled =>
                             /\ p.log = stored
                             /\ p.of \in {"recent", "analytics", "reveal"} => "result" \in p.tells
    BY DEF PagesAgreeOnTheEnd
  <2>1. p \in LiveIndex \/ p \in RecentIndex \/ p \in AnalyticsPage \/ p \in CompositionPage \/ p \in RevealPage
    BY DEF Pages
  <2>2. broadcastState = "LIVE" => p.tells \in {{}, {"board"}}
    BY <2>1 DEF LiveIndex, RecentIndex, AnalyticsPage, CompositionPage, RevealPage, PageOf
  <2>3. ASSUME broadcastState = "RECENT", settled
        PROVE  /\ p.log = stored
               /\ p.of \in {"recent", "analytics", "reveal"} => "result" \in p.tells
    <3>1. Result = {"result"} /\ ResultIn(stored) = {"result"}
      BY <2>3 DEF RecapInv, Result
    <3>2. CASE p \in AnalyticsPage
      <4>1. p = PageOf("analytics", {"board"} \cup ResultIn(stored), stored)
        BY <2>3, <3>2 DEF AnalyticsPage, RecapInv
      <4>. QED  BY <3>1, <4>1 DEF PageOf
    <3>3. CASE p \notin AnalyticsPage
      BY <2>1, <2>3, <3>1, <3>3 DEF LiveIndex, RecentIndex, CompositionPage, RevealPage, PageOf
    <3>. QED  BY <3>2, <3>3
  <2>. QED  BY <2>2, <2>3
<1>. QED  BY <1>1, StreamsKeepTheirInvariant, RecapBegins, RecapStep, PTL DEF ViewsSpec

=============================================================================
