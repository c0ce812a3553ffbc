--------------------------- MODULE SchedulerProofs ---------------------------
(***************************************************************************)
(* Proofs about GauntletScheduler, for any number of workers, gauntlets    *)
(* and games, any slot cap and any bounds.                                 *)
(*                                                                         *)
(* A game changes hands only by a lease that ran out.  So the invariant    *)
(* says, for as long as none has, what belongs to whoever is busy with a   *)
(* game: the lease and the slot while it plays and until the slot is back, *)
(* and, if nothing else raised, an undecided row until the attempt is      *)
(* retried or dead-lettered.                                               *)
(***************************************************************************)
EXTENDS GauntletScheduler, FiniteSetTheorems, TLAPS

\* Only a process with a claimed gauntlet has children.
RestHasNoChildren ==
    \A w \in Workers : at[w] # "drive" => child[w] = NoChildren

\* The slot that the run of game x by worker w claims
OwnSlot(w, x) == [game |-> x, worker |-> w]

Holds(w, x) == game[x].holder = w /\ game[x].leased

RunningIsLeased ==
    expiries = 0 =>
        \A x \in Games : game[x].status = "RUNNING" => game[x].leased

PlayersHold ==
    expiries = 0 =>
        \A w \in Workers, x \in Games :
            child[w][x] \in {"playing", "closed", "raised"}
            => Holds(w, x) /\ OwnSlot(w, x) \in slots

\* A run that has not ended its game holds it until it tries again or gives the game up.
OpenRunsHold ==
    expiries = 0 /\ strays = 0 =>
        \A w \in Workers, x \in Games :
            child[w][x] \in {"playing", "raised", "caught", "doomed"}
            => Holds(w, x) /\ ~Terminal(x)

DoneIsOver ==
    \A g \in Gauntlets : gauntlet[g].status = "COMPLETED" =>
        \A x \in Children(g) : Terminal(x)

SchedulerInv ==
    /\ TypeOK
    /\ IsFiniteSet(slots)
    /\ RestHasNoChildren
    /\ RunningIsLeased
    /\ PlayersHold
    /\ OpenRunsHold
    /\ DoneIsOver
    /\ SlotsComeBack

-----------------------------------------------------------------------------
(* Rows and stages *)

\* Rows may go and the cap still holds: every release keeps both conjuncts about slots.
LEMMA FewerSlots ==
    ASSUME IsFiniteSet(slots), Cardinality(slots) =< SlotCap, NEW T, T \subseteq slots
    PROVE  IsFiniteSet(T) /\ Cardinality(T) =< SlotCap
<1>1. IsFiniteSet(T) /\ Cardinality(T) =< Cardinality(slots)
  BY FS_Subset
<1>2. Cardinality(T) \in Nat /\ Cardinality(slots) \in Nat /\ SlotCap \in Nat
  BY <1>1, FS_CardinalityType, SchedulerAssumption
<1> QED
  BY <1>1, <1>2

\* What the steps of one child share: only that child's stage moves, and it moves to a stage.
LEMMA MoveTyped ==
    ASSUME child \in [Workers -> [Games -> ChildStage]],
           NEW w \in Workers, NEW x \in Games, NEW stage \in ChildStage,
           Moves(w, x, stage)
    PROVE  /\ child' \in [Workers -> [Games -> ChildStage]]
           /\ child'[w][x] = stage
           /\ \A v \in Workers, y \in Games :
                 <<v, y>> # <<w, x>> => child'[v][y] = child[v][y]
  BY DEF Moves

\* A step of the scheduler keeps every row and every process well typed, and the slots finite
\* and within the cap: the admission is the one step that adds a slot.
LEMMA TypeStep ==
    ASSUME TypeOK, IsFiniteSet(slots), [Next]_vars
    PROVE  TypeOK' /\ IsFiniteSet(slots)'
<1> USE SchedulerAssumption
<1> USE DEF rowVars, bounds
<1>1. CASE UNCHANGED vars
  BY <1>1 DEF TypeOK, vars
<1>2. ASSUME NEW w \in Workers, Boot(w)
      PROVE  TypeOK' /\ IsFiniteSet(slots)'
  <2>1. gauntlet' \in [Gauntlets -> GauntletRow]
    BY <1>2 DEF Boot, TypeOK, GauntletRow
  <2> QED
    BY <1>2, <2>1 DEF Boot, TypeOK, Live
<1>3. ASSUME NEW w \in Workers, Crash(w)
      PROVE  TypeOK' /\ IsFiniteSet(slots)'
  <2>1. NoChildren \in [Games -> ChildStage]
    BY DEF NoChildren, ChildStage
  <2> QED
    BY <1>3, <2>1 DEF Crash, TypeOK, Live
<1>4. ASSUME NEW w \in Workers, Reap(w)
      PROVE  TypeOK' /\ IsFiniteSet(slots)'
  <2>1. game' \in [Games -> GameRow]
    <3>1. \A r \in GameRow : [r EXCEPT !.holder = NoWorker] \in GameRow
      BY DEF GameRow
    <3> QED
      BY <1>4, <3>1 DEF Reap, TypeOK
  <2>2. slots' \subseteq slots
    BY <1>4 DEF Reap, SlotsWithout
  <2>3. IsFiniteSet(slots') /\ Cardinality(slots') =< SlotCap
    BY <2>2, FewerSlots DEF TypeOK
  <2> QED
    BY <1>4, <2>1, <2>2, <2>3 DEF Reap, TypeOK
<1>5. ASSUME NEW w \in Workers, Claim(w)
      PROVE  TypeOK' /\ IsFiniteSet(slots)'
  <2>1. PICK g \in Claimable(w) :
          /\ gauntlet' = [gauntlet EXCEPT ![g] = [status |-> "RUNNING", beat |-> "fresh"]]
          /\ driving' = [driving EXCEPT ![w] = g]
          /\ child' = [child EXCEPT ![w] =
                [x \in Games |-> IF x \in Children(g) /\ ~Terminal(x) THEN "attempt" ELSE "idle"]]
    BY <1>5 DEF Claim
  <2>2. g \in Gauntlets
    BY DEF Claimable
  <2>3. child' \in [Workers -> [Games -> ChildStage]]
    BY <2>1 DEF TypeOK, ChildStage
  <2>4. tries' \in [Workers -> [Games -> 0..MaxAttempts]]
    BY <1>5 DEF Claim, TypeOK
  <2>5. gauntlet' \in [Gauntlets -> GauntletRow]
    BY <2>1, <2>2 DEF TypeOK, GauntletRow
  <2> QED
    BY <1>5, <2>1, <2>2, <2>3, <2>4, <2>5 DEF Claim, TypeOK
<1>6. ASSUME NEW w \in Workers, IdlePoll(w)
      PROVE  TypeOK' /\ IsFiniteSet(slots)'
  BY <1>6 DEF IdlePoll, TypeOK
<1>7. ASSUME NEW w \in Workers, Beat(w)
      PROVE  TypeOK' /\ IsFiniteSet(slots)'
  <2>1. gauntlet' \in [Gauntlets -> GauntletRow]
    <3>1. \A r \in GauntletRow : [r EXCEPT !.beat = "fresh"] \in GauntletRow
      BY DEF GauntletRow
    <3> QED
      BY <1>7, <3>1 DEF Beat, WithBeat, TypeOK
  <2> QED
    BY <1>7, <2>1 DEF Beat, TypeOK
<1>8. ASSUME NEW w \in Workers, SettlePending(w) \/ SettleDone(w)
      PROVE  TypeOK' /\ IsFiniteSet(slots)'
  <2>1. Returns(w) /\ driving[w] \in Gauntlets
    BY <1>8 DEF SettlePending, SettleDone, Returns, TypeOK
  <2>2. child' \in [Workers -> [Games -> ChildStage]]
    BY <2>1 DEF Returns, NoChildren, ChildStage, TypeOK
  <2>3. gauntlet' \in [Gauntlets -> GauntletRow]
    <3>1. /\ [status |-> "PENDING", beat |-> "none"] \in GauntletRow
          /\ [status |-> "COMPLETED", beat |-> "none"] \in GauntletRow
      BY DEF GauntletRow
    <3>2. gauntlet \in [Gauntlets -> GauntletRow]
      BY DEF TypeOK
    <3>3. CASE SettlePending(w)
      BY <3>1, <3>2, <3>3 DEF SettlePending
    <3>4. CASE SettleDone(w)
      BY <3>1, <3>2, <3>4 DEF SettleDone, WithCompleted
    <3> QED
      BY <1>8, <3>3, <3>4
  <2>4. paused' \in [Workers -> SUBSET Gauntlets]
    <3>1. CASE SettlePending(w)
      <4>1. paused \in [Workers -> SUBSET Gauntlets]
        BY DEF TypeOK
      <4>2. paused' = [paused EXCEPT ![w] = @ \cup {driving[w]}]
        BY <3>1 DEF SettlePending
      <4> QED
        BY <2>1, <4>1, <4>2
    <3>2. CASE SettleDone(w)
      BY <3>2 DEF SettleDone, TypeOK
    <3> QED
      BY <1>8, <3>1, <3>2
  <2> QED
    BY <2>1, <2>2, <2>3, <2>4 DEF Returns, TypeOK
<1>9. ASSUME NEW w \in Workers, NEW x \in Games, Admit(w, x)
      PROVE  TypeOK' /\ IsFiniteSet(slots)'
  <2>1. child' \in [Workers -> [Games -> ChildStage]]
    BY <1>9, MoveTyped DEF Admit, TypeOK, ChildStage
  <2>2. game' \in [Games -> GameRow]
    BY <1>9 DEF Admit, TypeOK, GameRow
  <2>3. OtherSlots(x) \subseteq slots
    BY DEF OtherSlots, SlotsWithout
  <2>4. IsFiniteSet(OtherSlots(x)) /\ Cardinality(OtherSlots(x)) \in Nat
    BY <2>3, FewerSlots, FS_CardinalityType DEF TypeOK
  <2>5. /\ IsFiniteSet(slots')
        /\ Cardinality(slots') =< Cardinality(OtherSlots(x)) + 1
    <3> DEFINE S == OtherSlots(x)
               s == [game |-> x, worker |-> w]
    <3>1. slots' = S \cup {s} /\ IsFiniteSet(S) /\ Cardinality(S) \in Nat
      BY <1>9, <2>4 DEF Admit
    <3> HIDE DEF S, s
    <3>2. IsFiniteSet(S \cup {s}) /\ Cardinality(S \cup {s}) =< Cardinality(S) + 1
      <4>1. IsFiniteSet(S)
        BY <3>1
      <4>2. /\ IsFiniteSet(S \cup {s})
            /\ Cardinality(S \cup {s}) = IF s \in S THEN Cardinality(S) ELSE Cardinality(S) + 1
        BY <4>1, FS_AddElement
      <4> QED
        BY <3>1, <4>2
    <3> QED
      BY <3>1, <3>2 DEF S
  <2>6. Cardinality(slots') =< SlotCap
    <3>1. Cardinality(slots') \in Nat /\ Cardinality(OtherSlots(x)) \in Nat
      BY <2>4, <2>5, FS_CardinalityType
    <3>2. spent \in Nat /\ ~(spent + Cardinality(OtherSlots(x)) >= SlotCap)
      BY <1>9 DEF Admit, Exhausted, TypeOK
    <3> QED
      BY <2>5, <3>1, <3>2
  <2>7. slots' \subseteq SlotRow
    BY <1>9, <2>3 DEF Admit, TypeOK, SlotRow
  <2> QED
    BY <1>9, <2>1, <2>2, <2>5, <2>6, <2>7 DEF Admit, TypeOK
<1>10. ASSUME NEW w \in Workers, NEW x \in Games, BudgetHalt(w, x)
       PROVE  TypeOK' /\ IsFiniteSet(slots)'
  <2>1. child' \in [Workers -> [Games -> ChildStage]]
    BY <1>10, MoveTyped DEF BudgetHalt, TypeOK, ChildStage
  <2>2. game' \in [Games -> GameRow]
    BY <1>10 DEF BudgetHalt, TypeOK, GameRow
  <2>3. slots' \subseteq slots
    BY <1>10 DEF BudgetHalt, OtherSlots, SlotsWithout
  <2>4. IsFiniteSet(slots') /\ Cardinality(slots') =< SlotCap
    BY <2>3, FewerSlots DEF TypeOK
  <2> QED
    BY <1>10, <2>1, <2>2, <2>3, <2>4 DEF BudgetHalt, TypeOK
<1>11. ASSUME NEW w \in Workers, NEW x \in Games, Finish(w, x) \/ MarkFailed(w, x)
       PROVE  TypeOK' /\ IsFiniteSet(slots)'
  <2>1. child' \in [Workers -> [Games -> ChildStage]]
    BY <1>11, MoveTyped DEF Finish, MarkFailed, TypeOK, ChildStage
  <2>2. game' \in [Games -> GameRow]
    <3>1. \A r \in GameRow, over \in {"COMPLETED", "FAILED"} :
             [r EXCEPT !.status = over] \in GameRow
      BY DEF GameRow
    <3>2. CASE game' = game
      BY <3>2 DEF TypeOK
    <3>3. CASE game' = [game EXCEPT ![x].status = "COMPLETED"]
      BY <3>1, <3>3 DEF TypeOK
    <3>4. CASE game' = [game EXCEPT ![x].status = "FAILED"]
      BY <3>1, <3>4 DEF TypeOK
    <3> QED
      BY <1>11, <3>2, <3>3, <3>4 DEF Finish, MarkFailed
  <2> QED
    BY <1>11, <2>1, <2>2 DEF Finish, MarkFailed, TypeOK
<1>12. ASSUME NEW w \in Workers, NEW x \in Games, Release(w, x)
       PROVE  TypeOK' /\ IsFiniteSet(slots)'
  <2>1. child' \in [Workers -> [Games -> ChildStage]]
    BY <1>12, MoveTyped DEF Release, TypeOK, ChildStage
  <2>2. slots' \subseteq slots
    BY <1>12 DEF Release, SlotReleased
  <2>3. IsFiniteSet(slots') /\ Cardinality(slots') =< SlotCap
    BY <2>2, FewerSlots DEF TypeOK
  <2> QED
    BY <1>12, <2>1, <2>2, <2>3 DEF Release, TypeOK
<1>13. ASSUME NEW w \in Workers, NEW x \in Games, Retry(w, x)
       PROVE  TypeOK' /\ IsFiniteSet(slots)'
  <2>1. child' \in [Workers -> [Games -> ChildStage]]
    BY <1>13, MoveTyped DEF Retry, TypeOK, ChildStage
  <2>2. tries' \in [Workers -> [Games -> 0..MaxAttempts]]
    BY <1>13 DEF Retry, TypeOK
  <2> QED
    BY <1>13, <2>1, <2>2 DEF Retry, TypeOK
<1>14. ASSUME NEW w \in Workers, NEW x \in Games,
              LeaseDenied(w, x) \/ GiveUp(w, x) \/ Fault(w, x) \/ Stray(w, x)
       PROVE  TypeOK' /\ IsFiniteSet(slots)'
  <2>1. child' \in [Workers -> [Games -> ChildStage]]
    BY <1>14, MoveTyped DEF LeaseDenied, GiveUp, Fault, Stray, TypeOK, ChildStage
  <2> QED
    BY <1>14, <2>1 DEF LeaseDenied, GiveUp, Fault, Stray, TypeOK
<1>15. ASSUME NEW g \in Gauntlets, BeatAges(g)
       PROVE  TypeOK' /\ IsFiniteSet(slots)'
  <2>1. gauntlet' \in [Gauntlets -> GauntletRow]
    <3>1. \A r \in GauntletRow : [r EXCEPT !.beat = "stale"] \in GauntletRow
      BY DEF GauntletRow
    <3> QED
      BY <1>15, <3>1 DEF BeatAges, TypeOK
  <2> QED
    BY <1>15, <2>1 DEF BeatAges, TypeOK
<1>16. ASSUME NEW x \in Games, LeaseExpires(x)
       PROVE  TypeOK' /\ IsFiniteSet(slots)'
  <2>1. game' \in [Games -> GameRow]
    <3>1. \A r \in GameRow : [r EXCEPT !.leased = FALSE] \in GameRow
      BY DEF GameRow
    <3> QED
      BY <1>16, <3>1 DEF LeaseExpires, TypeOK
  <2> QED
    BY <1>16, <2>1 DEF LeaseExpires, TypeOK
<1>17. ASSUME NEW w \in Workers, NEW x \in Games, Spend(w, x)
       PROVE  TypeOK' /\ IsFiniteSet(slots)'
  BY <1>17 DEF Spend, TypeOK
<1> QED
  BY <1>1, <1>2, <1>3, <1>4, <1>5, <1>6, <1>7, <1>8, <1>9, <1>10, <1>11, <1>12, <1>13, <1>14,
     <1>15, <1>16, <1>17
  DEF Next, LoopStep, ChildStep

-----------------------------------------------------------------------------
(* Who holds a game *)

\* Nobody but its holder can lease a game whose lease still runs.
LEMMA HeldIsNotLeasable ==
    ASSUME NEW v \in Workers, NEW w \in Workers, NEW x \in Games, v # w, Holds(v, x)
    PROVE  ~Leasable(w, x)
  BY SchedulerAssumption DEF Holds, Leasable, HeldByOther

\* A game that is over stays over: every step that changes a status asks for an open row, or
\* writes a terminal one.
LEMMA TerminalStays ==
    ASSUME TypeOK, [Next]_vars, NEW x \in Games, Terminal(x)
    PROVE  Terminal(x)'
<1> USE DEF rowVars
<1>1. CASE UNCHANGED game
  BY <1>1 DEF Terminal
<1>2. ASSUME NEW w \in Workers, Reap(w)
      PROVE  Terminal(x)'
  BY <1>2 DEF Reap, Stale, Terminal, TypeOK
<1>3. ASSUME NEW w \in Workers, NEW y \in Games,
             Admit(w, y) \/ BudgetHalt(w, y) \/ Finish(w, y) \/ MarkFailed(w, y)
      PROVE  Terminal(x)'
  <2>1. CASE y = x /\ (Admit(w, y) \/ BudgetHalt(w, y))
    BY <2>1 DEF Admit, BudgetHalt, Leasable
  <2>2. CASE y = x /\ (Finish(w, y) \/ MarkFailed(w, y))
    BY <2>2 DEF Finish, MarkFailed, Terminal, TypeOK, GameRow
  <2>3. CASE y # x
    <3>1. game'[x] = game[x]
      BY <1>3, <2>3 DEF Admit, BudgetHalt, Finish, MarkFailed, TypeOK
    <3> QED
      BY <3>1 DEF Terminal
  <2> QED
    BY <1>3, <2>1, <2>2, <2>3
<1>4. ASSUME NEW y \in Games, LeaseExpires(y)
      PROVE  Terminal(x)'
  BY <1>4 DEF LeaseExpires, Terminal, TypeOK
<1> QED
  BY <1>1, <1>2, <1>3, <1>4
  DEF Next, LoopStep, ChildStep, Boot, Crash, Claim, IdlePoll, Beat, SettlePending, SettleDone,
      Returns, LeaseDenied, Spend, Release, Retry, GiveUp, Fault, Stray, BeatAges, vars

\* A process is without children wherever it is not driving.
LEMMA RestStep ==
    ASSUME TypeOK, RestHasNoChildren, [Next]_vars
    PROVE  RestHasNoChildren'
<1> USE DEF RestHasNoChildren
<1>1. CASE UNCHANGED <<at, child>>
  BY <1>1
<1>2. ASSUME NEW w \in Workers,
             Boot(w) \/ Crash(w) \/ Claim(w) \/ SettlePending(w) \/ SettleDone(w)
      PROVE  RestHasNoChildren'
  BY <1>2 DEF Boot, Crash, Claim, SettlePending, SettleDone, Returns, Live, TypeOK
<1>3. ASSUME NEW w \in Workers, NEW x \in Games, ChildStep(w, x) \/ Fault(w, x) \/ Stray(w, x)
      PROVE  RestHasNoChildren'
  <2>1. child[w][x] # "idle" /\ at' = at /\ \E stage : Moves(w, x, stage)
    BY <1>3
    DEF ChildStep, LeaseDenied, Admit, BudgetHalt, Finish, Release, Retry, GiveUp, MarkFailed,
        Fault, Stray
  <2>2. at[w] = "drive"
    BY <2>1 DEF NoChildren
  <2> QED
    BY <2>1, <2>2 DEF Moves, TypeOK
<1> QED
  BY <1>1, <1>2, <1>3
  DEF Next, LoopStep, Reap, IdlePoll, Beat, Spend, BeatAges, LeaseExpires, vars

\* The three parts of the invariant about who holds a game need each other: a dead letter
\* would close a game under its player if its sender did not hold it, and the reaper would
\* take it if a running game could be without a lease.
LEMMA HoldStep ==
    ASSUME TypeOK, RestHasNoChildren, RunningIsLeased, PlayersHold, OpenRunsHold, [Next]_vars
    PROVE  RunningIsLeased' /\ PlayersHold' /\ OpenRunsHold'
<1> USE SchedulerAssumption
<1> DEFINE Kept == RunningIsLeased' /\ PlayersHold' /\ OpenRunsHold'
<1>1. ASSUME UNCHANGED <<game, slots, expiries, strays>>,
             \A v \in Workers, y \in Games :
                child'[v][y] = child[v][y]
                \/ child'[v][y] \notin {"playing", "closed", "raised", "caught", "doomed"}
      PROVE  Kept
  BY <1>1 DEF RunningIsLeased, PlayersHold, OpenRunsHold, Holds, OwnSlot, Terminal
<1>2. ASSUME NEW w \in Workers, Reap(w)
      PROVE  Kept
  <2>1. CASE expiries = 0
    BY <1>2, <2>1 DEF Reap, Stale, RunningIsLeased
  <2>2. CASE expiries # 0
    BY <1>2, <2>2 DEF Reap, bounds, RunningIsLeased, PlayersHold, OpenRunsHold
  <2> QED
    BY <2>1, <2>2
<1>3. ASSUME NEW w \in Workers, Boot(w) \/ Beat(w) \/ IdlePoll(w)
      PROVE  Kept
  BY <1>1, <1>3 DEF Boot, Beat, IdlePoll, rowVars, bounds
<1>4. ASSUME NEW w \in Workers,
             Crash(w) \/ Claim(w) \/ SettlePending(w) \/ SettleDone(w)
      PROVE  Kept
  <2>1. \A y \in Games : child'[w][y] \in {"idle", "attempt"}
    BY <1>4 DEF Crash, Claim, SettlePending, SettleDone, Returns, NoChildren, TypeOK
  <2>2. \A v \in Workers \ {w} : child'[v] = child[v]
    BY <1>4 DEF Crash, Claim, SettlePending, SettleDone, Returns, TypeOK
  <2>3. UNCHANGED <<game, slots, expiries, strays>>
    BY <1>4 DEF Crash, Claim, SettlePending, SettleDone, Returns, rowVars, bounds
  <2> QED
    BY <1>1, <2>1, <2>2, <2>3
<1>5. ASSUME NEW w \in Workers, NEW x \in Games, LeaseDenied(w, x) \/ Retry(w, x)
      PROVE  Kept
  <2>1. child'[w][x] \in {"ended", "attempt"}
        /\ \A v \in Workers, y \in Games : <<v, y>> # <<w, x>> => child'[v][y] = child[v][y]
    BY <1>5, MoveTyped DEF LeaseDenied, Retry, TypeOK, ChildStage
  <2> QED
    BY <1>1, <1>5, <2>1 DEF LeaseDenied, Retry, rowVars, bounds
<1>6. ASSUME NEW w \in Workers, NEW x \in Games, Admit(w, x)
      PROVE  Kept
  <2>1. /\ Leasable(w, x)
        /\ game' = [game EXCEPT ![x] = [status |-> "RUNNING", holder |-> w, leased |-> TRUE]]
        /\ slots' = OtherSlots(x) \cup {OwnSlot(w, x)}
        /\ child'[w][x] = "playing"
        /\ UNCHANGED <<expiries, strays>>
    BY <1>6, MoveTyped DEF Admit, OwnSlot, bounds, TypeOK, ChildStage
  <2>2. \A v \in Workers, y \in Games : <<v, y>> # <<w, x>> => child'[v][y] = child[v][y]
    BY <1>6, MoveTyped DEF Admit, TypeOK, ChildStage
  <2>3. game'[x].status = "RUNNING" /\ game'[x].holder = w /\ game'[x].leased
    BY <2>1 DEF TypeOK
  <2>4. \A y \in Games \ {x} : game'[y] = game[y]
    BY <2>1 DEF TypeOK
  <2>5. \A v \in Workers, y \in Games \ {x} : OwnSlot(v, y) \in slots => OwnSlot(v, y) \in slots'
    BY <2>1 DEF OtherSlots, SlotsWithout, OwnSlot
  <2>6. \A v \in Workers \ {w} : ~Holds(v, x)
    BY <2>1, HeldIsNotLeasable
  <2>7. RunningIsLeased'
    BY <2>1, <2>3, <2>4 DEF RunningIsLeased
  <2>8. PlayersHold'
    BY <2>1, <2>2, <2>3, <2>4, <2>5, <2>6 DEF PlayersHold, Holds
  <2>9. OpenRunsHold'
    BY <2>1, <2>2, <2>3, <2>4, <2>6 DEF OpenRunsHold, Holds, Terminal
  <2> QED
    BY <2>7, <2>8, <2>9
<1>7. ASSUME NEW w \in Workers, NEW x \in Games, BudgetHalt(w, x)
      PROVE  Kept
  <2>1. /\ Leasable(w, x)
        /\ game' = [game EXCEPT ![x] =
                      [status |-> "CREATED", holder |-> NoWorker, leased |-> FALSE]]
        /\ slots' = OtherSlots(x)
        /\ child'[w][x] = "halted"
        /\ UNCHANGED <<expiries, strays>>
    BY <1>7, MoveTyped DEF BudgetHalt, bounds, TypeOK, ChildStage
  <2>2. \A v \in Workers, y \in Games : <<v, y>> # <<w, x>> => child'[v][y] = child[v][y]
    BY <1>7, MoveTyped DEF BudgetHalt, TypeOK, ChildStage
  <2>3. game'[x].status = "CREATED"
    BY <2>1 DEF TypeOK
  <2>4. \A y \in Games \ {x} : game'[y] = game[y]
    BY <2>1 DEF TypeOK
  <2>5. \A v \in Workers, y \in Games \ {x} : OwnSlot(v, y) \in slots => OwnSlot(v, y) \in slots'
    BY <2>1 DEF OtherSlots, SlotsWithout, OwnSlot
  <2>6. \A v \in Workers \ {w} : ~Holds(v, x)
    BY <2>1, HeldIsNotLeasable
  <2>7. RunningIsLeased'
    BY <2>1, <2>3, <2>4 DEF RunningIsLeased
  <2>8. PlayersHold'
    BY <2>1, <2>2, <2>4, <2>5, <2>6 DEF PlayersHold, Holds
  <2>9. OpenRunsHold'
    BY <2>1, <2>2, <2>4, <2>6 DEF OpenRunsHold, Holds, Terminal
  <2> QED
    BY <2>7, <2>8, <2>9
<1>8. ASSUME NEW w \in Workers, NEW x \in Games, Finish(w, x)
      PROVE  Kept
  <2>1. child[w][x] = "playing" /\ child'[w][x] = "closed"
        /\ UNCHANGED <<slots, expiries, strays>>
    BY <1>8, MoveTyped DEF Finish, bounds, TypeOK, ChildStage
  <2>2. \A v \in Workers, y \in Games : <<v, y>> # <<w, x>> => child'[v][y] = child[v][y]
    BY <1>8, MoveTyped DEF Finish, TypeOK, ChildStage
  <2>3. \A y \in Games : game'[y].holder = game[y].holder /\ game'[y].leased = game[y].leased
    BY <1>8 DEF Finish, TypeOK, GameRow
  <2>4. \A y \in Games : game'[y] = game[y] \/ (y = x /\ game'[y].status = "COMPLETED")
    BY <1>8 DEF Finish, TypeOK, GameRow
  <2>5. RunningIsLeased'
    BY <2>1, <2>3, <2>4 DEF RunningIsLeased
  <2>6. PlayersHold'
    BY <2>1, <2>2, <2>3 DEF PlayersHold, Holds, OwnSlot
  <2>7. OpenRunsHold'
    BY <2>1, <2>2, <2>3, <2>4 DEF OpenRunsHold, Holds, Terminal
  <2> QED
    BY <2>5, <2>6, <2>7
<1>9. ASSUME NEW w \in Workers, NEW x \in Games, MarkFailed(w, x)
      PROVE  Kept
  <2>1. child[w][x] = "doomed" /\ child'[w][x] = "failed"
        /\ UNCHANGED <<slots, expiries, strays>>
    BY <1>9, MoveTyped DEF MarkFailed, bounds, TypeOK, ChildStage
  <2>2. \A v \in Workers, y \in Games : <<v, y>> # <<w, x>> => child'[v][y] = child[v][y]
    BY <1>9, MoveTyped DEF MarkFailed, TypeOK, ChildStage
  <2>3. \A y \in Games : game'[y].holder = game[y].holder /\ game'[y].leased = game[y].leased
    BY <1>9 DEF MarkFailed, TypeOK, GameRow
  <2>4. \A y \in Games : game'[y] = game[y] \/ (y = x /\ game'[y].status = "FAILED")
    BY <1>9 DEF MarkFailed, TypeOK, GameRow
  <2>5. RunningIsLeased'
    BY <2>1, <2>3, <2>4 DEF RunningIsLeased
  <2>6. PlayersHold'
    BY <2>1, <2>2, <2>3 DEF PlayersHold, Holds, OwnSlot
  <2>7. OpenRunsHold'
    BY <2>1, <2>2, <2>3, <2>4 DEF OpenRunsHold, Holds, Terminal
  <2> QED
    BY <2>5, <2>6, <2>7
<1>10. ASSUME NEW w \in Workers, NEW x \in Games, Release(w, x)
       PROVE  Kept
  <2>1. /\ child[w][x] \in {"closed", "raised"}
        /\ child'[w][x] \in {"ended", "caught"}
        /\ child'[w][x] = "caught" => child[w][x] = "raised"
        /\ slots' = slots \ {OwnSlot(w, x)}
        /\ UNCHANGED <<game, expiries, strays>>
    BY <1>10, MoveTyped DEF Release, SlotReleased, OwnSlot, bounds, TypeOK, ChildStage
  <2>2. \A v \in Workers, y \in Games : <<v, y>> # <<w, x>> => child'[v][y] = child[v][y]
    BY <1>10, MoveTyped DEF Release, TypeOK, ChildStage
  <2>3. \A v \in Workers, y \in Games : <<v, y>> # <<w, x>> => OwnSlot(v, y) # OwnSlot(w, x)
    BY DEF OwnSlot
  <2>4. RunningIsLeased'
    BY <2>1 DEF RunningIsLeased
  <2>5. PlayersHold'
    BY <2>1, <2>2, <2>3 DEF PlayersHold, Holds
  <2>6. OpenRunsHold'
    BY <2>1, <2>2 DEF OpenRunsHold, Holds, Terminal
  <2> QED
    BY <2>4, <2>5, <2>6
<1>11. ASSUME NEW w \in Workers, NEW x \in Games, GiveUp(w, x) \/ Fault(w, x)
       PROVE  Kept
  <2>1. /\ \/ child[w][x] = "caught" /\ child'[w][x] = "doomed"
           \/ child[w][x] = "playing" /\ child'[w][x] = "raised"
        /\ UNCHANGED <<game, slots, expiries, strays>>
    BY <1>11, MoveTyped DEF GiveUp, Fault, rowVars, bounds, TypeOK, ChildStage
  <2>2. \A v \in Workers, y \in Games : <<v, y>> # <<w, x>> => child'[v][y] = child[v][y]
    BY <1>11, MoveTyped DEF GiveUp, Fault, TypeOK, ChildStage
  <2>3. RunningIsLeased'
    BY <2>1 DEF RunningIsLeased
  <2>4. PlayersHold'
    BY <2>1, <2>2 DEF PlayersHold, Holds, OwnSlot
  <2>5. OpenRunsHold'
    BY <2>1, <2>2 DEF OpenRunsHold, Holds, Terminal
  <2> QED
    BY <2>3, <2>4, <2>5
<1>12. ASSUME NEW w \in Workers, NEW x \in Games, Stray(w, x)
       PROVE  Kept
  <2>1. /\ child'[w][x] = "caught"
        /\ strays' # 0
        /\ UNCHANGED <<game, slots, expiries>>
    BY <1>12, MoveTyped DEF Stray, rowVars, TypeOK, ChildStage
  <2>2. \A v \in Workers, y \in Games : <<v, y>> # <<w, x>> => child'[v][y] = child[v][y]
    BY <1>12, MoveTyped DEF Stray, TypeOK, ChildStage
  <2>3. RunningIsLeased' /\ OpenRunsHold'
    BY <2>1 DEF RunningIsLeased, OpenRunsHold
  <2>4. PlayersHold'
    BY <2>1, <2>2 DEF PlayersHold, Holds, OwnSlot
  <2> QED
    BY <2>3, <2>4
<1>13. ASSUME NEW g \in Gauntlets, BeatAges(g)
       PROVE  Kept
  BY <1>1, <1>13 DEF BeatAges, bounds
<1>14. ASSUME NEW x \in Games, LeaseExpires(x)
       PROVE  Kept
  <2>1. expiries' # 0
    BY <1>14 DEF LeaseExpires, TypeOK
  <2> QED
    BY <2>1 DEF RunningIsLeased, PlayersHold, OpenRunsHold
<1>15. ASSUME NEW w \in Workers, NEW x \in Games, Spend(w, x)
       PROVE  Kept
  BY <1>1, <1>15 DEF Spend, bounds
<1>16. CASE UNCHANGED vars
  BY <1>1, <1>16 DEF vars, bounds
<1> QED
  BY <1>2, <1>3, <1>4, <1>5, <1>6, <1>7, <1>8, <1>9, <1>10, <1>11, <1>12, <1>13, <1>14, <1>15,
     <1>16
  DEF Next, LoopStep, ChildStep

\* A gauntlet becomes COMPLETED only over rows that are terminal, and those stay so.
LEMMA DoneStep ==
    ASSUME TypeOK, DoneIsOver, [Next]_vars
    PROVE  DoneIsOver'
<1> USE SchedulerAssumption
<1>1. \A x \in Games : Terminal(x) => Terminal(x)'
  BY TerminalStays
<1>2. ASSUME NEW g \in Gauntlets, gauntlet'[g].status = "COMPLETED",
             gauntlet[g].status # "COMPLETED"
      PROVE  AllGamesTerminal(g)
  <2>1. PICK w \in Workers : SettleDone(w)
    <3>1. CASE UNCHANGED gauntlet
      BY <1>2, <3>1
    <3>2. ASSUME NEW w \in Workers,
                 Boot(w) \/ Claim(w) \/ Beat(w) \/ SettlePending(w)
          PROVE  FALSE
      <4>1. CASE Boot(w)
        BY <1>2, <4>1 DEF Boot
      <4>2. CASE Claim(w)
        BY <1>2, <4>2 DEF Claim, TypeOK
      <4>3. CASE Beat(w)
        BY <1>2, <4>3 DEF Beat, WithBeat, TypeOK, GauntletRow
      <4>4. CASE SettlePending(w)
        BY <1>2, <4>4 DEF SettlePending, TypeOK
      <4> QED
        BY <3>2, <4>1, <4>2, <4>3, <4>4
    <3>3. ASSUME NEW h \in Gauntlets, BeatAges(h)
          PROVE  FALSE
      BY <1>2, <3>3 DEF BeatAges, TypeOK, GauntletRow
    <3> QED
      BY <3>1, <3>2, <3>3
      DEF Next, LoopStep, ChildStep, Crash, Reap, IdlePoll, LeaseDenied, Admit, BudgetHalt,
          Spend, Finish, Release, Retry, GiveUp, MarkFailed, Fault, Stray, LeaseExpires, rowVars,
          vars
  <2>2. gauntlet' = WithCompleted(driving[w]) /\ MayFinalize(driving[w])
    BY <1>2, <2>1 DEF SettleDone
  <2>3. g = driving[w]
    BY <1>2, <2>2 DEF WithCompleted, TypeOK
  <2> QED
    BY <2>2, <2>3 DEF MayFinalize
<1> QED
  BY <1>1, <1>2 DEF DoneIsOver, AllGamesTerminal, Children

\* The slots that nobody plays under grow by one at most, when a release raises; the runs
\* that end otherwise give their slot back first.
LEMMA BackedStep ==
    ASSUME TypeOK, IsFiniteSet(slots), RestHasNoChildren, SlotsComeBack, [Next]_vars
    PROVE  SlotsComeBack'
<1> DEFINE Left == slots \ Plays
<1> USE DEF Plays, SlotRow
<1>1. IsFiniteSet(Left) /\ Cardinality(Left) \in Nat
  BY FS_Subset, FS_CardinalityType
<1>2. ASSUME Left' \subseteq Left, UNCHANGED <<crashes, strays>>
      PROVE  SlotsComeBack'
  <2> HIDE DEF Left
  <2>1. IsFiniteSet(Left') /\ Cardinality(Left') =< Cardinality(Left)
    BY <1>1, <1>2, FS_Subset
  <2>2. Cardinality(Left') \in Nat
    BY <2>1, FS_CardinalityType
  <2>3. crashes' = 0 => Cardinality(Left) =< strays'
    BY <1>2 DEF SlotsComeBack, Left
  <2>4. crashes' = 0 => Cardinality(Left') =< strays'
    BY <1>1, <1>2, <2>1, <2>2, <2>3 DEF TypeOK
  <2> QED
    BY <2>4 DEF SlotsComeBack, Left
<1>3. ASSUME slots' \subseteq slots, UNCHANGED <<crashes, strays>>,
             \A v \in Workers, y \in Games :
                child'[v][y] = child[v][y]
                \/ child[v][y] \notin {"playing", "closed", "raised"}
      PROVE  SlotsComeBack'
  BY <1>2, <1>3
<1>4. ASSUME NEW w \in Workers, Crash(w)
      PROVE  SlotsComeBack'
  BY <1>4 DEF Crash, SlotsComeBack, TypeOK
<1>5. ASSUME NEW w \in Workers, Boot(w) \/ Reap(w) \/ IdlePoll(w) \/ Beat(w)
      PROVE  SlotsComeBack'
  BY <1>3, <1>5 DEF Boot, Reap, IdlePoll, Beat, SlotsWithout, rowVars, bounds
<1>6. ASSUME NEW w \in Workers, Claim(w) \/ SettlePending(w) \/ SettleDone(w)
      PROVE  SlotsComeBack'
  <2>1. \A y \in Games : child[w][y] \notin {"playing", "closed", "raised"}
    BY <1>6 DEF Claim, SettlePending, SettleDone, Returns, Settled, RestHasNoChildren, NoChildren
  <2>2. \A v \in Workers \ {w} : child'[v] = child[v]
    BY <1>6 DEF Claim, SettlePending, SettleDone, Returns, TypeOK
  <2> QED
    BY <1>3, <1>6, <2>1, <2>2 DEF Claim, SettlePending, SettleDone, Returns, bounds
<1>7. ASSUME NEW w \in Workers, NEW x \in Games,
             LeaseDenied(w, x) \/ BudgetHalt(w, x) \/ Retry(w, x) \/ GiveUp(w, x)
             \/ MarkFailed(w, x)
      PROVE  SlotsComeBack'
  <2>1. child[w][x] \in {"attempt", "caught", "doomed"} /\ \E stage \in ChildStage : Moves(w, x, stage)
    BY <1>7 DEF LeaseDenied, BudgetHalt, Retry, GiveUp, MarkFailed, ChildStage
  <2>2. \A v \in Workers, y \in Games : <<v, y>> # <<w, x>> => child'[v][y] = child[v][y]
    BY <2>1, MoveTyped DEF TypeOK
  <2>3. slots' \subseteq slots /\ UNCHANGED <<crashes, strays>>
    BY <1>7
    DEF LeaseDenied, BudgetHalt, Retry, GiveUp, MarkFailed, OtherSlots, SlotsWithout, rowVars,
        bounds
  <2> QED
    BY <1>3, <2>1, <2>2, <2>3
<1>8. ASSUME NEW w \in Workers, NEW x \in Games,
             Admit(w, x) \/ Finish(w, x) \/ Fault(w, x)
      PROVE  SlotsComeBack'
  <2>1. child'[w][x] \in {"playing", "closed", "raised"}
        /\ \A v \in Workers, y \in Games : <<v, y>> # <<w, x>> => child'[v][y] = child[v][y]
    BY <1>8, MoveTyped DEF Admit, Finish, Fault, TypeOK, ChildStage
  <2>2. slots' \subseteq slots \cup {OwnSlot(w, x)} /\ UNCHANGED <<crashes, strays>>
    BY <1>8 DEF Admit, Finish, Fault, OtherSlots, SlotsWithout, OwnSlot, rowVars, bounds
  <2>3. Plays \subseteq Plays' /\ OwnSlot(w, x) \in Plays'
    BY <2>1 DEF OwnSlot
  <2> QED
    BY <1>2, <2>2, <2>3
<1>9. ASSUME NEW w \in Workers, NEW x \in Games, Release(w, x)
      PROVE  SlotsComeBack'
  <2>1. \A v \in Workers, y \in Games : <<v, y>> # <<w, x>> => child'[v][y] = child[v][y]
    BY <1>9, MoveTyped DEF Release, TypeOK, ChildStage
  <2>2. slots' = slots \ {OwnSlot(w, x)} /\ UNCHANGED <<crashes, strays>>
    BY <1>9 DEF Release, SlotReleased, OwnSlot, bounds
  <2>3. Plays \subseteq Plays' \cup {OwnSlot(w, x)}
    BY <2>1 DEF OwnSlot
  <2> QED
    BY <1>2, <2>2, <2>3
<1>10. ASSUME NEW w \in Workers, NEW x \in Games, Stray(w, x)
       PROVE  SlotsComeBack'
  <2>1. \A v \in Workers, y \in Games : <<v, y>> # <<w, x>> => child'[v][y] = child[v][y]
    BY <1>10, MoveTyped DEF Stray, TypeOK, ChildStage
  <2>2. slots' = slots /\ crashes' = crashes /\ strays' = strays + 1
    BY <1>10 DEF Stray, rowVars
  <2>3. Plays \subseteq Plays' \cup {OwnSlot(w, x)}
    BY <2>1 DEF OwnSlot
  <2>4. Left' \subseteq Left \cup {OwnSlot(w, x)}
    BY <2>2, <2>3
  <2>5. /\ IsFiniteSet(Left \cup {OwnSlot(w, x)})
        /\ Cardinality(Left \cup {OwnSlot(w, x)}) =< Cardinality(Left) + 1
    <3> DEFINE L == slots \ Plays
    <3>1. IsFiniteSet(L) /\ Cardinality(L) \in Nat
      BY <1>1
    <3> HIDE DEF L
    <3>2. /\ IsFiniteSet(L \cup {OwnSlot(w, x)})
          /\ Cardinality(L \cup {OwnSlot(w, x)}) =
                IF OwnSlot(w, x) \in L THEN Cardinality(L) ELSE Cardinality(L) + 1
      BY <3>1, FS_AddElement
    <3>3. Cardinality(L \cup {OwnSlot(w, x)}) =< Cardinality(L) + 1
      BY <3>1, <3>2
    <3> QED
      BY <3>2, <3>3 DEF L
  <2>6. /\ IsFiniteSet(Left')
        /\ Cardinality(Left') =< Cardinality(Left \cup {OwnSlot(w, x)})
    BY <2>4, <2>5, FS_Subset
  <2>7. Cardinality(Left') \in Nat /\ Cardinality(Left \cup {OwnSlot(w, x)}) \in Nat
    BY <2>5, <2>6, FS_CardinalityType
  <2>8. strays \in Nat /\ (crashes = 0 => Cardinality(Left) =< strays)
    BY DEF SlotsComeBack, TypeOK
  <2>9. crashes' = 0 => Cardinality(Left') =< strays'
    <3> HIDE DEF Left
    <3> QED
      BY <1>1, <2>2, <2>5, <2>6, <2>7, <2>8
  <2> QED
    BY <2>9 DEF SlotsComeBack
<1>11. ASSUME NEW g \in Gauntlets, BeatAges(g)
       PROVE  SlotsComeBack'
  BY <1>3, <1>11 DEF BeatAges, bounds
<1>12. ASSUME NEW x \in Games, LeaseExpires(x)
       PROVE  SlotsComeBack'
  BY <1>3, <1>12 DEF LeaseExpires
<1>13. ASSUME NEW w \in Workers, NEW x \in Games, Spend(w, x)
       PROVE  SlotsComeBack'
  BY <1>3, <1>13 DEF Spend, bounds
<1>14. CASE UNCHANGED vars
  BY <1>3, <1>14 DEF vars, bounds
<1> QED
  BY <1>4, <1>5, <1>6, <1>7, <1>8, <1>9, <1>10, <1>11, <1>12, <1>13, <1>14
  DEF Next, LoopStep, ChildStep

-----------------------------------------------------------------------------
(* The invariant and what follows *)

\* SchedulerInv holds of every reachable state.
THEOREM Invariance == Spec => []SchedulerInv
<1> USE SchedulerAssumption
<1>1. Init => SchedulerInv
  <2> SUFFICES ASSUME Init PROVE SchedulerInv
    OBVIOUS
  <2>1. IsFiniteSet(slots) /\ Cardinality(slots) = 0
    BY FS_EmptySet DEF Init
  <2>2. TypeOK
    BY <2>1
    DEF Init, TypeOK, GauntletRow, GameRow, SlotRow, NoChildren, ChildStage
  <2>3. RestHasNoChildren /\ RunningIsLeased /\ DoneIsOver
    BY DEF Init, RestHasNoChildren, RunningIsLeased, DoneIsOver
  <2>4. PlayersHold /\ OpenRunsHold
    BY DEF Init, NoChildren, PlayersHold, OpenRunsHold
  <2>5. SlotsComeBack
    <3>1. slots \ Plays = {} /\ strays = 0
      BY DEF Init
    <3> QED
      BY <3>1, FS_EmptySet DEF SlotsComeBack
  <2> QED
    BY <2>1, <2>2, <2>3, <2>4, <2>5 DEF SchedulerInv
<1>2. SchedulerInv /\ [Next]_vars => SchedulerInv'
  BY TypeStep, RestStep, HoldStep, DoneStep, BackedStep DEF SchedulerInv
<1> QED
  BY <1>1, <1>2, PTL DEF Spec

\* The scheduler's rows and processes are always well typed, and the live slots never exceed
\* the cap, whatever is admitted, released, reaped or left behind.
THEOREM SchedulerTyped == Spec => []TypeOK
<1>1. SchedulerInv => TypeOK
  BY DEF SchedulerInv
<1> QED
  BY <1>1, Invariance, PTL

\* Whoever plays a game holds a live slot of its own for it, nobody else plays it, and no more
\* games are played than the budget has slots, unless a lease ran out.
THEOREM PlayAlwaysPaidFor == Spec => []PlayIsPaidFor
<1>1. SchedulerInv => PlayIsPaidFor
  <2> SUFFICES ASSUME SchedulerInv, expiries = 0
               PROVE  /\ Plays \subseteq slots
                      /\ \A p, q \in Plays : p.game = q.game => p = q
                      /\ Cardinality(Plays) =< SlotCap
    BY DEF PlayIsPaidFor
  <2>1. \A p \in Plays : p = OwnSlot(p.worker, p.game) /\ p.worker \in Workers /\ p.game \in Games
    BY DEF Plays, SlotRow, OwnSlot
  <2>2. \A p \in Plays : p \in slots /\ game[p.game].holder = p.worker
    BY <2>1 DEF SchedulerInv, PlayersHold, Holds, Plays
  <2>3. \A p, q \in Plays : p.game = q.game => p = q
    BY <2>1, <2>2
  <2>4. Cardinality(Plays) =< SlotCap
    BY <2>2, FewerSlots DEF SchedulerInv, TypeOK
  <2> QED
    BY <2>2, <2>3, <2>4
<1> QED
  BY <1>1, Invariance, PTL

\* Without a crash, a slot outlives the run that claimed it only if its release failed.
THEOREM SlotsAlwaysComeBack == Spec => []SlotsComeBack
<1>1. SchedulerInv => SlotsComeBack
  BY DEF SchedulerInv
<1> QED
  BY <1>1, Invariance, PTL

\* A COMPLETED gauntlet has only terminal games, and nobody plays one of them unless a lease
\* ran out or something outside of play raised.
THEOREM CompletedAlwaysOver == Spec => []CompletedIsOver
<1>1. SchedulerInv => CompletedIsOver
  <2> SUFFICES ASSUME SchedulerInv,
                      NEW g \in Gauntlets, gauntlet[g].status = "COMPLETED",
                      NEW x \in Children(g)
               PROVE  /\ Terminal(x)
                      /\ (\E w \in Workers : child[w][x] = "playing") => expiries + strays > 0
    BY DEF CompletedIsOver
  <2>1. Terminal(x) /\ x \in Games
    BY DEF SchedulerInv, DoneIsOver, Children
  <2>2. expiries \in Nat /\ strays \in Nat
    BY DEF SchedulerInv, TypeOK
  <2>3. ASSUME NEW w \in Workers, child[w][x] = "playing"
        PROVE  ~(expiries = 0 /\ strays = 0)
    BY <2>1, <2>3 DEF SchedulerInv, OpenRunsHold
  <2> QED
    BY <2>1, <2>2, <2>3
<1> QED
  BY <1>1, Invariance, PTL

\* No step overturns the result of a child game that ended well, unless a lease ran out or
\* something outside of play raised: a dead letter is written only by who holds an open game.
THEOREM CompletedAlwaysStay == Spec => CompletedGamesStay
<1> DEFINE Step == \A x \in Games :
                      game[x].status = "COMPLETED" /\ expiries = 0 /\ strays = 0
                      => game'[x].status = "COMPLETED"
<1>1. SchedulerInv /\ [Next]_vars => [Step]_vars
  <2> SUFFICES ASSUME SchedulerInv, Next, NEW x \in Games, game[x].status = "COMPLETED",
                      expiries = 0, strays = 0
               PROVE  game'[x].status = "COMPLETED"
    OBVIOUS
  <2>1. TypeOK /\ Terminal(x)
    BY DEF SchedulerInv, Terminal
  <2>2. CASE game'[x] = game[x]
    BY <2>2
  <2>3. ASSUME NEW w \in Workers, MarkFailed(w, x)
        PROVE  FALSE
    BY <2>1, <2>3 DEF MarkFailed, SchedulerInv, OpenRunsHold
  <2>4. ASSUME NEW w \in Workers, Admit(w, x) \/ BudgetHalt(w, x)
        PROVE  FALSE
    BY <2>1, <2>4 DEF Admit, BudgetHalt, Leasable
  <2>5. ASSUME NEW w \in Workers, Finish(w, x)
        PROVE  game'[x].status = "COMPLETED"
    BY <2>1, <2>5 DEF Finish, TypeOK, GameRow
  <2>6. ASSUME NEW w \in Workers, NEW y \in Games \ {x},
               Admit(w, y) \/ BudgetHalt(w, y) \/ Finish(w, y) \/ MarkFailed(w, y)
        PROVE  game'[x] = game[x]
    BY <2>1, <2>6 DEF Admit, BudgetHalt, Finish, MarkFailed, TypeOK
  <2>7. ASSUME NEW w \in Workers, Reap(w)
        PROVE  game'[x] = game[x]
    BY <2>1, <2>7 DEF Reap, Stale, TypeOK
  <2>8. ASSUME NEW y \in Games, LeaseExpires(y)
        PROVE  game'[x] = game[x]
    BY <2>1, <2>8 DEF LeaseExpires, TypeOK
  <2> QED
    BY <2>2, <2>3, <2>4, <2>5, <2>6, <2>7, <2>8
    DEF Next, LoopStep, ChildStep, Boot, Crash, Claim, IdlePoll, Beat, SettlePending, SettleDone,
        Returns, LeaseDenied, Spend, Release, Retry, GiveUp, Fault, Stray, BeatAges, rowVars
<1> QED
  BY <1>1, Invariance, PTL DEF Spec, CompletedGamesStay

=============================================================================
