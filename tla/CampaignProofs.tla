--------------------------- MODULE CampaignProofs ---------------------------
(***************************************************************************)
(* Proofs about Campaigns, for any number of drivers, campaigns and cells, *)
(* any batch size, number of attempts and amount of trouble.               *)
(*                                                                         *)
(* Most of what holds of a cell holds whatever goes wrong: the number of   *)
(* gauntlets it has got, which of them it points to, what its legs and its *)
(* rating say of each other.  Two parts have a proviso: that a gauntlet    *)
(* has one driver, unless it was taken for stale while it was driven; and  *)
(* that a failed leg is on its way to the cell, unless a drive was cut     *)
(* short.                                                                  *)
(***************************************************************************)
EXTENDS Campaigns, FiniteSetTheorems, TLAPS

\* The gauntlets that a cell has got
Bought(x) == Cardinality(GauntletsOf(x, children))

Ordinals == Nat \ {0}

GauntletRows == [status : {"PENDING", "RUNNING", "COMPLETED"},
                 legs : [Legs -> {"open", "COMPLETED", "FAILED"}]]

DriveRows == [of : Cells \X Nat \cup {<<0, 0>>},
              stage : {"idle", "play", "finalize", "report"}, failed : SUBSET Legs]

Busy(w) == drive[w].stage # "idle"

CampaignTables ==
    /\ campaign \in [CampaignIds -> CampaignRows]
    /\ cell \in [Cells -> CellRows]
    /\ children \in [DOMAIN children -> GauntletRows]
    /\ DOMAIN children \subseteq Cells \X Ordinals
    /\ rated \subseteq Cells
    /\ drive \in [Drivers -> DriveRows]
    /\ \A w \in Drivers : IF Busy(w) THEN drive[w].of \in DOMAIN children ELSE drive[w] = Nothing

\* A cell's gauntlets are numbered without a gap, it points to the last one unless it failed,
\* and it has one for each failure and one more while it is open or done.
CellAddsUp(x) ==
    /\ IsFiniteSet(GauntletsOf(x, children))
    /\ \A g \in GauntletsOf(x, children) : g[2] =< Bought(x)
    /\ IF cell[x].status = "PENDING" THEN cell[x].nth = 0
       ELSE cell[x].nth = Bought(x) /\ <<x, cell[x].nth>> \in DOMAIN children
    /\ IF cell[x].status \in {"PENDING", "DEAD_LETTER"} THEN Bought(x) = cell[x].failures
       ELSE Bought(x) = cell[x].failures + 1
    /\ cell[x].status # "DEAD_LETTER" => cell[x].failures < CellAttempts

\* Unless a gauntlet was taken for stale while it was driven, it has one driver at a time,
\* and its row says how far that one is.
DrivenAlone ==
    mishap # "overlap" =>
        \A w \in Drivers : Busy(w) =>
            /\ children[drive[w].of].status =
                  IF drive[w].stage = "report" THEN "COMPLETED" ELSE "RUNNING"
            /\ \A v \in Drivers : Busy(v) /\ drive[v].of = drive[w].of => v = w

DoneCellsAreDone ==
    mishap # "overlap" =>
        \A x \in Cells : cell[x].status = "COMPLETED" =>
            children[<<x, cell[x].nth>>].status = "COMPLETED"

DoneCampaignsAreDone ==
    mishap # "overlap" =>
        \A c \in CampaignIds : campaign[c].status = "COMPLETED" =>
            \A x \in CellsOf(c) : TerminalCell(cell[x])

AllWell(g) == \A l \in Legs : children[g].legs[l] = "COMPLETED"

\* What is known of the legs, whatever has gone wrong: a driver remembers only legs that
\* failed, a COMPLETED gauntlet has no open ones, a cell has failed only with a leg of one of
\* its gauntlets, and its pair is rated exactly if its one gauntlet ended well.
LegsAddUp ==
    /\ \A w \in Drivers : Busy(w) =>
          \A l \in drive[w].failed : children[drive[w].of].legs[l] = "FAILED"
    /\ \A g \in DOMAIN children : children[g].status = "COMPLETED" => OpenLegs(g) = {}
    /\ \A x \in Cells : cell[x].failures > 0 =>
          \E g \in GauntletsOf(x, children), l \in Legs : children[g].legs[l] = "FAILED"

RatedAddsUp ==
    \A x \in Cells :
        x \in rated <=> Bought(x) = 1 /\ \A g \in GauntletsOf(x, children) : AllWell(g)

\* Until a drive is cut short, a leg that failed is either remembered by the driver that
\* plays its gauntlet, or has cost the cell that gauntlet.
FailuresReported ==
    mishap \in {"none", "lapse"} =>
        \A g \in DOMAIN children, l \in Legs : children[g].legs[l] = "FAILED" =>
            \/ \E w \in Drivers : drive[w].of = g /\ drive[w].stage = "play" /\ l \in drive[w].failed
            \/ cell[g[1]].nth = g[2] => cell[g[1]].status = "DEAD_LETTER"

CellsAddUp == \A x \in Cells : CellAddsUp(x)

CampaignInv ==
    /\ CampaignTables
    /\ CellsAddUp
    /\ DrivenAlone
    /\ DoneCellsAreDone
    /\ DoneCampaignsAreDone
    /\ LegsAddUp
    /\ RatedAddsUp
    /\ FailuresReported

-----------------------------------------------------------------------------
(* The tick *)

\* What a tick may do: it buys a gauntlet for each pending cell of a batch, completes cells
\* whose gauntlet is, and completes campaigns whose cells are all terminal.
Buys(batch) ==
    /\ \A x \in batch : /\ cell[x].status = "PENDING"
                        /\ cell'[x].status = "MATERIALIZED"
                        /\ cell'[x].nth = Bought(x) + 1
                        /\ cell'[x].failures = cell[x].failures
    /\ \A x \in Cells \ batch :
          \/ cell'[x] = cell[x]
          \/ /\ cell[x].status = "MATERIALIZED"
             /\ <<x, cell[x].nth>> \in DOMAIN children
             /\ children[<<x, cell[x].nth>>].status = "COMPLETED"
             /\ cell'[x] = [cell[x] EXCEPT !.status = "COMPLETED"]
    /\ cell' \in [Cells -> CellRows]
    /\ children' = [g \in DOMAIN children \cup {<<x, Bought(x) + 1>> : x \in batch} |->
                       IF g \in DOMAIN children THEN children[g]
                       ELSE [status |-> "PENDING", legs |-> [l \in Legs |-> "open"]]]
    /\ campaign' \in [CampaignIds -> CampaignRows]
    /\ \A c \in CampaignIds : campaign'[c].status = "COMPLETED" =>
          \/ campaign[c].status = "COMPLETED"
          \/ \A x \in CellsOf(c) : TerminalCell(cell'[x])
    /\ UNCHANGED <<rated, drive, mishap>>

\* finalize_campaign_if_done completes one campaign at most, and only over terminal cells.
LEMMA FinalizedTyped ==
    ASSUME NEW c \in CampaignIds, NEW table \in [CampaignIds -> CampaignRows],
           NEW rows \in [Cells -> CellRows]
    PROVE  /\ Finalized(c, table, rows) \in [CampaignIds -> CampaignRows]
           /\ \A d \in CampaignIds : Finalized(c, table, rows)[d].status = "COMPLETED" =>
                 \/ table[d].status = "COMPLETED"
                 \/ \A x \in CellsOf(d) : TerminalCell(rows[x])
<1>1. [status |-> "COMPLETED", holder |-> NoDriver, leased |-> FALSE] \in CampaignRows
  BY DEF CampaignRows
<1> QED
  BY <1>1 DEF Finalized

\* No tick takes a row of a gauntlet away or gives a number twice.
LEMMA TickBuys ==
    ASSUME CampaignTables, CellsAddUp, NEW w \in Drivers, NEW admitted \in BOOLEAN,
           CampaignTick(w, admitted)
    PROVE  \E batch \in SUBSET Cells : Buys(batch)
<1> USE CampaignAssumption
<1> DEFINE reset == ResetStaleCampaigns
<1>1. PICK c \in Runnable(w, reset) :
        LET denied == Before(w, reset)[c] \cup (IF admitted THEN {} ELSE {c})
            table == [d \in CampaignIds |->
                IF d \in denied THEN Freed
                ELSE IF d = c THEN [status |-> "RUNNING", holder |-> w, leased |-> TRUE]
                ELSE reset[d]]
            batch == IF admitted THEN NextBatch(c) ELSE {}
            rows == Reconciled(c, Materialized(batch))
        IN  IF admitted
            THEN /\ cell' = rows
                 /\ children' = WithGauntlets(batch, rows)
                 /\ campaign' = Finalized(c, table, rows)
            ELSE campaign' = table /\ UNCHANGED <<cell, children>>
  BY DEF CampaignTick
<1> DEFINE denied == Before(w, reset)[c] \cup (IF admitted THEN {} ELSE {c})
           table == [d \in CampaignIds |->
                IF d \in denied THEN Freed
                ELSE IF d = c THEN [status |-> "RUNNING", holder |-> w, leased |-> TRUE]
                ELSE reset[d]]
           batch == NextBatch(c)
           rows == Reconciled(c, Materialized(batch))
<1>2. c \in CampaignIds /\ UNCHANGED <<rated, drive, mishap>>
  BY DEF CampaignTick, Runnable
<1>3. /\ table \in [CampaignIds -> CampaignRows]
      /\ \A d \in CampaignIds : table[d].status = "COMPLETED" => campaign[d].status = "COMPLETED"
  <2>1. /\ Freed \in CampaignRows /\ Freed.status = "PENDING"
        /\ [status |-> "RUNNING", holder |-> w, leased |-> TRUE] \in CampaignRows
    BY DEF Freed, CampaignRows
  <2>2. /\ reset \in [CampaignIds -> CampaignRows]
        /\ \A d \in CampaignIds : reset[d].status = "COMPLETED" => campaign[d].status = "COMPLETED"
    BY <2>1 DEF ResetStaleCampaigns, CampaignTables
  <2> HIDE DEF reset, denied
  <2> QED
    BY <2>1, <2>2
<1>4. CASE ~admitted
  <2>1. campaign' = table /\ UNCHANGED <<cell, children>>
    BY <1>1, <1>4
  <2>2. cell' \in [Cells -> CellRows] /\ children' = [g \in DOMAIN children |-> children[g]]
    BY <2>1 DEF CampaignTables
  <2>3. children' = [g \in DOMAIN children \cup {<<x, Bought(x) + 1>> : x \in {}} |->
                       IF g \in DOMAIN children THEN children[g]
                       ELSE [status |-> "PENDING", legs |-> [l \in Legs |-> "open"]]]
    BY <2>2
  <2> HIDE DEF table
  <2>4. Buys({})
    BY <1>2, <1>3, <2>1, <2>2, <2>3 DEF Buys
  <2> QED
    BY <2>4
<1>5. CASE admitted
  <2>1. /\ cell' = rows
        /\ children' = WithGauntlets(batch, rows)
        /\ campaign' = Finalized(c, table, rows)
    BY <1>1, <1>5
  <2>2. batch \subseteq Cells /\ \A x \in batch : cell[x].status = "PENDING"
    BY DEF NextBatch, PendingCells, CellsOf
  <2> HIDE DEF batch, table
  <2> DEFINE bought == Materialized(batch)
  <2>3. /\ \A x \in batch : bought[x] = [cell[x] EXCEPT !.status = "MATERIALIZED", !.nth = Bought(x) + 1]
        /\ \A x \in Cells \ batch : bought[x] = cell[x]
    BY <2>2 DEF Materialized, Bought
  <2>4. \A x \in batch : /\ bought[x].status = "MATERIALIZED"
                         /\ bought[x].nth = Bought(x) + 1
                         /\ bought[x].failures = cell[x].failures
                         /\ bought[x] \in CellRows
    <3> SUFFICES ASSUME NEW x \in batch
                 PROVE  /\ bought[x].status = "MATERIALIZED"
                        /\ bought[x].nth = Bought(x) + 1
                        /\ bought[x].failures = cell[x].failures
                        /\ bought[x] \in CellRows
      OBVIOUS
    <3>1. cell[x] \in CellRows /\ Bought(x) = cell[x].failures /\ cell[x].failures < CellAttempts
      BY <2>2 DEF CampaignTables, CellsAddUp, CellAddsUp
    <3>2. Bought(x) + 1 \in 0..CellAttempts
      BY <3>1 DEF CellRows
    <3> QED
      BY <2>3, <3>1, <3>2 DEF CellRows
  <2>5. \A x \in batch : <<x, Bought(x) + 1>> \notin DOMAIN children
    <3> SUFFICES ASSUME NEW x \in batch, <<x, Bought(x) + 1>> \in DOMAIN children
                 PROVE  FALSE
      OBVIOUS
    <3>1. <<x, Bought(x) + 1>> \in GauntletsOf(x, children)
      BY DEF GauntletsOf
    <3>2. Bought(x) + 1 =< Bought(x) /\ Bought(x) \in Nat
      BY <2>2, <3>1, FS_CardinalityType DEF CellsAddUp, CellAddsUp, Bought
    <3> QED
      BY <3>2
  <2> HIDE DEF bought
  <2>6. \A x \in Cells : rows[x] = IF /\ x \in CellsOf(c) /\ bought[x].status = "MATERIALIZED"
                                      /\ <<x, bought[x].nth>> \in DOMAIN children
                                      /\ children[<<x, bought[x].nth>>].status = "COMPLETED"
                                   THEN [bought[x] EXCEPT !.status = "COMPLETED"] ELSE bought[x]
    BY DEF Reconciled, bought
  <2>7. \A x \in batch : rows[x] = bought[x]
    BY <2>2, <2>4, <2>5, <2>6
  <2>8. \A x \in Cells \ batch :
          \/ rows[x] = cell[x]
          \/ /\ cell[x].status = "MATERIALIZED"
             /\ <<x, cell[x].nth>> \in DOMAIN children
             /\ children[<<x, cell[x].nth>>].status = "COMPLETED"
             /\ rows[x] = [cell[x] EXCEPT !.status = "COMPLETED"]
    BY <2>3, <2>6
  <2>9. rows \in [Cells -> CellRows]
    <3>1. rows = [x \in Cells |-> rows[x]]
      BY DEF Reconciled
    <3>2. \A r \in CellRows : [r EXCEPT !.status = "COMPLETED"] \in CellRows
      BY DEF CellRows
    <3>3. \A x \in batch : rows[x] \in CellRows
      BY <2>4, <2>7
    <3>4. \A x \in Cells \ batch : rows[x] \in CellRows
      <4> SUFFICES ASSUME NEW x \in Cells \ batch PROVE rows[x] \in CellRows
        OBVIOUS
      <4>1. cell[x] \in CellRows
        BY DEF CampaignTables
      <4>2. rows[x] = cell[x] \/ rows[x] = [cell[x] EXCEPT !.status = "COMPLETED"]
        BY <2>8
      <4> HIDE DEF rows
      <4> QED
        BY <3>2, <4>1, <4>2
    <3> HIDE DEF rows
    <3> QED
      BY <3>1, <3>3, <3>4
  <2> HIDE DEF rows
  <2>10. children' = [g \in DOMAIN children \cup {<<x, Bought(x) + 1>> : x \in batch} |->
                        IF g \in DOMAIN children THEN children[g]
                        ELSE [status |-> "PENDING", legs |-> [l \in Legs |-> "open"]]]
    <3>1. {<<x, rows[x].nth>> : x \in batch} = {<<x, Bought(x) + 1>> : x \in batch}
      BY <2>4, <2>7
    <3> QED
      BY <2>1, <3>1 DEF WithGauntlets
  <2>11. /\ campaign' \in [CampaignIds -> CampaignRows]
         /\ \A d \in CampaignIds : campaign'[d].status = "COMPLETED" =>
               \/ campaign[d].status = "COMPLETED"
               \/ \A x \in CellsOf(d) : TerminalCell(cell'[x])
    BY <1>2, <1>3, <2>1, <2>9, FinalizedTyped
  <2>12. Buys(batch)
    BY <1>2, <2>1, <2>2, <2>4, <2>7, <2>8, <2>9, <2>10, <2>11 DEF Buys
  <2> QED
    BY <2>2, <2>12
<1> QED
  BY <1>4, <1>5


\* With the same gauntlets, every cell has got as many as before.
LEMMA SameGauntlets ==
    ASSUME DOMAIN children' = DOMAIN children, NEW x
    PROVE  GauntletsOf(x, children)' = GauntletsOf(x, children) /\ Bought(x)' = Bought(x)
BY DEF GauntletsOf, Bought

\* A cell of the batch has one gauntlet more, with the next number; every other has as many
\* as before.
LEMMA BuysCount ==
    ASSUME CampaignTables, CellsAddUp, NEW batch \in SUBSET Cells, Buys(batch), NEW x \in Cells
    PROVE  /\ x \in batch =>
                /\ GauntletsOf(x, children)' = GauntletsOf(x, children) \cup {<<x, Bought(x) + 1>>}
                /\ IsFiniteSet(GauntletsOf(x, children)')
                /\ Bought(x)' = Bought(x) + 1
                /\ <<x, Bought(x) + 1>> \notin DOMAIN children
           /\ x \notin batch =>
                /\ GauntletsOf(x, children)' = GauntletsOf(x, children)
                /\ Bought(x)' = Bought(x)
           /\ Bought(x) \in Nat
<1> DEFINE old == GauntletsOf(x, children)
           new == GauntletsOf(x, children)'
           g == <<x, Bought(x) + 1>>
<1>1. DOMAIN children' = DOMAIN children \cup {<<y, Bought(y) + 1>> : y \in batch}
  BY DEF Buys
<1>2. IsFiniteSet(old) /\ Bought(x) \in Nat /\ Bought(x) = Cardinality(old)
  BY FS_CardinalityType DEF CellsAddUp, CellAddsUp, Bought
<1>3. Bought(x)' = Cardinality(new)
  BY DEF Bought
<1>4. CASE x \in batch
  <2>1. new = old \cup {g}
    BY <1>1, <1>4 DEF GauntletsOf
  <2>2. g \notin old
    <3> SUFFICES ASSUME g \in old PROVE FALSE
      OBVIOUS
    <3>1. Bought(x) + 1 =< Bought(x)
      BY DEF CellsAddUp, CellAddsUp
    <3> QED
      BY <1>2, <3>1
  <2>3. g \notin DOMAIN children
    BY <2>2 DEF GauntletsOf
  <2> HIDE DEF old, new, g
  <2>4. IsFiniteSet(new) /\ Cardinality(new) = Cardinality(old) + 1
    BY <1>2, <2>1, <2>2, FS_AddElement
  <2> USE DEF old, new, g
  <2> QED
    BY <1>2, <1>3, <1>4, <2>1, <2>3, <2>4
<1>5. CASE x \notin batch
  <2>1. new = old
    BY <1>1, <1>5 DEF GauntletsOf
  <2> QED
    BY <1>2, <1>3, <1>5, <2>1
<1> QED
  BY <1>4, <1>5

\* The tick keeps the tables, and what the cells have got.
LEMMA TickAddsUp ==
    ASSUME CampaignTables, CellsAddUp, NEW batch \in SUBSET Cells, Buys(batch)
    PROVE  CampaignTables' /\ CellsAddUp'
<1> USE CampaignAssumption
<1>1. CellsAddUp'
  <2> SUFFICES ASSUME NEW x \in Cells PROVE CellAddsUp(x)'
    BY DEF CellsAddUp
  <2>1. CellAddsUp(x)
    BY DEF CellsAddUp
  <2>2. Bought(x) \in Nat /\ DOMAIN children \subseteq DOMAIN children'
    BY BuysCount DEF Buys
  <2>3. CASE x \in batch
    <3>1. /\ GauntletsOf(x, children)' = GauntletsOf(x, children) \cup {<<x, Bought(x) + 1>>}
          /\ IsFiniteSet(GauntletsOf(x, children)')
          /\ Bought(x)' = Bought(x) + 1
      BY <2>3, BuysCount
    <3>2. /\ cell[x].status = "PENDING" /\ cell'[x].status = "MATERIALIZED"
          /\ cell'[x].nth = Bought(x) + 1 /\ cell'[x].failures = cell[x].failures
          /\ <<x, Bought(x) + 1>> \in DOMAIN children'
      BY <2>3 DEF Buys
    <3>3. Bought(x) = cell[x].failures /\ cell[x].failures < CellAttempts
      BY <2>1, <3>2 DEF CellAddsUp
    <3>4. \A g \in GauntletsOf(x, children)' : g[2] =< Bought(x) + 1
      <4> SUFFICES ASSUME NEW g \in GauntletsOf(x, children)' PROVE g[2] =< Bought(x) + 1
        OBVIOUS
      <4>1. CASE g = <<x, Bought(x) + 1>>
        BY <2>2, <4>1
      <4>2. CASE g \in GauntletsOf(x, children)
        <5>1. g[2] =< Bought(x) /\ g[2] \in Nat
          BY <2>1, <4>2 DEF CellAddsUp, GauntletsOf, CampaignTables, Ordinals
        <5> QED
          BY <2>2, <5>1
      <4> QED
        BY <3>1, <4>1, <4>2
    <3> QED
      BY <3>1, <3>2, <3>3, <3>4 DEF CellAddsUp
  <2>4. CASE x \notin batch
    <3>1. GauntletsOf(x, children)' = GauntletsOf(x, children) /\ Bought(x)' = Bought(x)
      BY <2>4, BuysCount
    <3>2. CASE cell'[x] = cell[x]
      BY <2>1, <2>2, <3>1, <3>2 DEF CellAddsUp
    <3>3. CASE /\ cell[x].status = "MATERIALIZED"
               /\ cell'[x] = [cell[x] EXCEPT !.status = "COMPLETED"]
      <4>1. /\ cell'[x].status = "COMPLETED" /\ cell'[x].nth = cell[x].nth
            /\ cell'[x].failures = cell[x].failures
        BY <3>3 DEF CampaignTables, CellRows
      <4> QED
        BY <2>1, <2>2, <3>1, <3>3, <4>1 DEF CellAddsUp
    <3> QED
      BY <2>4, <3>2, <3>3 DEF Buys
  <2> QED
    BY <2>3, <2>4
<1>2. DOMAIN children' \subseteq Cells \X Ordinals
  <2>1. \A x \in batch : Bought(x) + 1 \in Ordinals
    <3> SUFFICES ASSUME NEW x \in batch PROVE Bought(x) + 1 \in Ordinals
      OBVIOUS
    <3>1. Bought(x) \in Nat
      BY BuysCount
    <3> QED
      BY <3>1 DEF Ordinals
  <2> QED
    BY <2>1 DEF Buys, CampaignTables
<1>3. children' \in [DOMAIN children' -> GauntletRows]
  <2>1. [status |-> "PENDING", legs |-> [l \in Legs |-> "open"]] \in GauntletRows
    BY DEF GauntletRows
  <2> QED
    BY <2>1 DEF Buys, CampaignTables
<1>4. /\ drive' \in [Drivers -> DriveRows] /\ rated' \subseteq Cells
      /\ \A w \in Drivers : IF Busy(w)' THEN drive'[w].of \in DOMAIN children' ELSE drive'[w] = Nothing
  BY DEF Buys, CampaignTables, Busy
<1> QED
  BY <1>1, <1>2, <1>3, <1>4 DEF CampaignTables, Buys

-----------------------------------------------------------------------------
(* The steps of a drive *)

\* A driver that moves on keeps what it drives; one that stops forgets it.
LEMMA DrivesOn ==
    ASSUME CampaignTables, NEW w \in Drivers, NEW from \in {"play", "finalize", "report"},
           NEW to \in {"idle", "play", "finalize", "report"}, Drives(w, from, to),
           DOMAIN children' = DOMAIN children
    PROVE  /\ drive' \in [Drivers -> DriveRows]
           /\ \A v \in Drivers : IF Busy(v)' THEN drive'[v].of \in DOMAIN children' ELSE drive'[v] = Nothing
           /\ \A v \in Drivers : v # w => drive'[v] = drive[v]
           /\ drive[w].stage = from /\ Busy(w) /\ drive[w].of \in DOMAIN children
           /\ to = "idle" => drive'[w] = Nothing
           /\ to # "idle" => /\ drive'[w].stage = to /\ drive'[w].of = drive[w].of
                             /\ drive'[w].failed = drive[w].failed
<1>1. \A d \in DriveRows : [d EXCEPT !.stage = to] \in DriveRows
  BY DEF DriveRows
<1>2. Nothing \in DriveRows /\ Nothing.stage = "idle"
  BY DEF Nothing, DriveRows
<1>3. drive[w] \in DriveRows /\ drive[w].stage = from
  BY DEF CampaignTables, Drives
<1>4. drive'[w] = IF to = "idle" THEN Nothing ELSE [drive[w] EXCEPT !.stage = to]
  BY DEF Drives, CampaignTables
<1>5. \A v \in Drivers : v # w => drive'[v] = drive[v]
  BY DEF Drives, CampaignTables
<1>6. drive'[w] \in DriveRows
  BY <1>1, <1>2, <1>3, <1>4
<1>7. drive' \in [Drivers -> DriveRows]
  <2>1. drive' = [v \in Drivers |-> drive'[v]]
    BY DEF Drives, CampaignTables
  <2>2. \A v \in Drivers : drive'[v] \in DriveRows
    BY <1>5, <1>6 DEF CampaignTables
  <2> QED
    BY <2>1, <2>2
<1>8. Busy(w) /\ drive[w].of \in DOMAIN children
  BY <1>3 DEF CampaignTables, Busy
<1>9. to # "idle" => /\ drive'[w].stage = to /\ drive'[w].of = drive[w].of
                     /\ drive'[w].failed = drive[w].failed
  BY <1>3, <1>4 DEF DriveRows
<1>10. \A v \in Drivers : IF Busy(v)' THEN drive'[v].of \in DOMAIN children' ELSE drive'[v] = Nothing
  <2> SUFFICES ASSUME NEW v \in Drivers
               PROVE  IF Busy(v)' THEN drive'[v].of \in DOMAIN children' ELSE drive'[v] = Nothing
    OBVIOUS
  <2>1. CASE v # w
    BY <1>5, <2>1 DEF CampaignTables, Busy
  <2>2. CASE v = w /\ to = "idle"
    BY <1>2, <1>4, <2>2 DEF Busy
  <2>3. CASE v = w /\ to # "idle"
    BY <1>8, <1>9, <2>3 DEF Busy
  <2> QED
    BY <2>1, <2>2, <2>3
<1> QED
  BY <1>3, <1>4, <1>5, <1>7, <1>8, <1>9, <1>10

\* A driver that has nothing takes a gauntlet, or one that dies leaves it.
LEMMA DriveTyped ==
    ASSUME CampaignTables, NEW w \in Drivers, NEW d \in DriveRows,
           drive' = [drive EXCEPT ![w] = d], DOMAIN children' = DOMAIN children,
           IF d.stage # "idle" THEN d.of \in DOMAIN children ELSE d = Nothing
    PROVE  /\ drive' \in [Drivers -> DriveRows]
           /\ \A v \in Drivers : IF Busy(v)' THEN drive'[v].of \in DOMAIN children' ELSE drive'[v] = Nothing
           /\ drive'[w] = d
           /\ \A v \in Drivers : v # w => drive'[v] = drive[v]
<1>1. drive'[w] = d /\ \A v \in Drivers : v # w => drive'[v] = drive[v]
  BY DEF CampaignTables
<1>2. drive' \in [Drivers -> DriveRows]
  BY DEF CampaignTables
<1>3. \A v \in Drivers : IF Busy(v)' THEN drive'[v].of \in DOMAIN children' ELSE drive'[v] = Nothing
  <2> SUFFICES ASSUME NEW v \in Drivers
               PROVE  IF Busy(v)' THEN drive'[v].of \in DOMAIN children' ELSE drive'[v] = Nothing
    OBVIOUS
  <2>1. CASE v # w
    BY <1>1, <2>1 DEF CampaignTables, Busy
  <2>2. CASE v = w
    BY <1>1, <2>2 DEF Busy
  <2> QED
    BY <2>1, <2>2
<1> QED
  BY <1>1, <1>2, <1>3

\* A gauntlet's status changes, and nothing else of it or of another.
LEMMA StatusMoves ==
    ASSUME CampaignTables, NEW g \in DOMAIN children, NEW s \in {"PENDING", "RUNNING", "COMPLETED"},
           children' = [children EXCEPT ![g].status = s]
    PROVE  /\ children' \in [DOMAIN children' -> GauntletRows]
           /\ DOMAIN children' = DOMAIN children
           /\ children'[g].status = s
           /\ \A h \in DOMAIN children : children'[h].legs = children[h].legs
           /\ \A h \in DOMAIN children : h # g => children'[h] = children[h]
<1>1. \A r \in GauntletRows : /\ [r EXCEPT !.status = s] \in GauntletRows
                              /\ [r EXCEPT !.status = s].status = s
                              /\ [r EXCEPT !.status = s].legs = r.legs
  BY DEF GauntletRows
<1>2. children' = [children EXCEPT ![g] = [children[g] EXCEPT !.status = s]]
  OBVIOUS
<1>3. children[g] \in GauntletRows
  BY DEF CampaignTables
<1>4. /\ children'[g] = [children[g] EXCEPT !.status = s]
      /\ \A h \in DOMAIN children : h # g => children'[h] = children[h]
      /\ DOMAIN children' = DOMAIN children
  BY <1>2 DEF CampaignTables
<1>5. children' \in [DOMAIN children' -> GauntletRows]
  BY <1>1, <1>2, <1>3 DEF CampaignTables
<1> QED
  BY <1>1, <1>3, <1>4, <1>5

\* What the end of a leg changes: that leg, its driver's memory, its cell's rating.
LEMMA PlayMoves ==
    ASSUME CampaignTables, NEW w \in Drivers, NEW l \in Legs, NEW outcome \in {"COMPLETED", "FAILED"},
           PlayLeg(w, l, outcome)
    PROVE  /\ drive[w].of \in DOMAIN children /\ Busy(w) /\ drive[w].stage = "play"
           /\ children[drive[w].of].legs[l] = "open"
           /\ DOMAIN children' = DOMAIN children
           /\ children' \in [DOMAIN children' -> GauntletRows]
           /\ \A h \in DOMAIN children : children'[h].status = children[h].status
           /\ \A h \in DOMAIN children, k \in Legs :
                 children'[h].legs[k] = IF h = drive[w].of /\ k = l THEN outcome ELSE children[h].legs[k]
           /\ drive' \in [Drivers -> DriveRows]
           /\ \A v \in Drivers : IF Busy(v)' THEN drive'[v].of \in DOMAIN children' ELSE drive'[v] = Nothing
           /\ \A v \in Drivers : /\ drive'[v].of = drive[v].of /\ drive'[v].stage = drive[v].stage
                                 /\ v # w => drive'[v].failed = drive[v].failed
           /\ outcome = "FAILED" => drive'[w].failed = drive[w].failed \cup {l}
           /\ outcome # "FAILED" => drive'[w].failed = drive[w].failed
<1> DEFINE g == drive[w].of
           row == [children[g] EXCEPT !.legs[l] = outcome]
<1>1. g \in DOMAIN children /\ Busy(w) /\ drive[w].stage = "play" /\ children[g].legs[l] = "open"
  BY DEF CampaignTables, PlayLeg, Busy
<1>2. children[g] \in GauntletRows
  BY <1>1 DEF CampaignTables
<1>3. /\ row \in GauntletRows
      /\ row.status = children[g].status
      /\ \A k \in Legs : row.legs[k] = IF k = l THEN outcome ELSE children[g].legs[k]
  BY <1>2 DEF GauntletRows
<1>4. children' = [children EXCEPT ![g] = row]
  BY DEF PlayLeg
<1> HIDE DEF g, row
<1>5. /\ children'[g] = row
      /\ DOMAIN children' = DOMAIN children
      /\ \A h \in DOMAIN children : h # g => children'[h] = children[h]
      /\ children' \in [DOMAIN children' -> GauntletRows]
  BY <1>1, <1>3, <1>4 DEF CampaignTables
<1>6. \A h \in DOMAIN children : children'[h].status = children[h].status
  BY <1>3, <1>5
<1>7. \A h \in DOMAIN children, k \in Legs :
          children'[h].legs[k] = IF h = g /\ k = l THEN outcome ELSE children[h].legs[k]
  BY <1>3, <1>5
<1>8. /\ drive' \in [Drivers -> DriveRows]
      /\ \A v \in Drivers : /\ drive'[v].of = drive[v].of /\ drive'[v].stage = drive[v].stage
                            /\ v # w => drive'[v] = drive[v]
      /\ drive'[w].failed = IF outcome = "FAILED" THEN drive[w].failed \cup {l} ELSE drive[w].failed
  <2>1. CASE outcome # "FAILED"
    BY <2>1 DEF PlayLeg, CampaignTables
  <2>2. CASE outcome = "FAILED"
    <3>1. drive[w] \in DriveRows
      BY DEF CampaignTables
    <3> DEFINE d == [drive[w] EXCEPT !.failed = drive[w].failed \cup {l}]
    <3>2. /\ d \in DriveRows /\ d.of = drive[w].of /\ d.stage = drive[w].stage
          /\ d.failed = drive[w].failed \cup {l}
      BY <3>1 DEF DriveRows
    <3>3. drive' = [drive EXCEPT ![w] = d]
      BY <2>2 DEF PlayLeg
    <3> HIDE DEF d
    <3>4. drive'[w] = d /\ \A v \in Drivers : v # w => drive'[v] = drive[v]
      BY <3>3 DEF CampaignTables
    <3>5. drive' \in [Drivers -> DriveRows]
      BY <3>2, <3>3 DEF CampaignTables
    <3> QED
      BY <2>2, <3>2, <3>4, <3>5
  <2> QED
    BY <2>1, <2>2
<1>9. \A v \in Drivers : IF Busy(v)' THEN drive'[v].of \in DOMAIN children' ELSE drive'[v] = Nothing
  <2> SUFFICES ASSUME NEW v \in Drivers
               PROVE  IF Busy(v)' THEN drive'[v].of \in DOMAIN children' ELSE drive'[v] = Nothing
    OBVIOUS
  <2>1. CASE v # w
    BY <1>5, <1>8, <2>1 DEF CampaignTables, Busy
  <2>2. CASE v = w
    BY <1>1, <1>5, <1>8, <2>2 DEF Busy, g
  <2> QED
    BY <2>1, <2>2
<1> USE DEF g
<1> QED
  BY <1>1, <1>5, <1>6, <1>7, <1>8, <1>9

\* A failure is recorded with the cell that points to the gauntlet: the cell dies, or is
\* pending again without a gauntlet.
LEMMA RecordMoves ==
    ASSUME CampaignTables, CellsAddUp, NEW w \in Drivers, NEW poison \in BOOLEAN,
           RecordCellFailure(w, poison)
    PROVE  /\ cell' \in [Cells -> CellRows]
           /\ \A x \in Cells : cell'[x] # cell[x] =>
                 /\ drive[w].failed # {} /\ drive[w].of = <<x, cell[x].nth>>
                 /\ cell[x].status \notin {"PENDING", "DEAD_LETTER"}
                 /\ cell'[x].failures = cell[x].failures + 1
                 /\ \/ cell'[x].status = "DEAD_LETTER" /\ cell'[x].nth = cell[x].nth
                    \/ /\ cell'[x].status = "PENDING" /\ cell'[x].nth = 0
                       /\ cell'[x].failures < CellAttempts
           /\ \A x \in Cells : drive[w].failed # {} /\ drive[w].of[1] = x /\ cell'[x].nth = drive[w].of[2]
                                  => cell'[x].status = "DEAD_LETTER"
<1> USE CampaignAssumption
<1> DEFINE g == drive[w].of
           counts(x) == drive[w].failed # {} /\ PointsTo(x, g) /\ cell[x].status # "DEAD_LETTER"
           row(x) == IF ~counts(x) THEN cell[x]
                     ELSE IF poison \/ cell[x].failures + 1 >= CellAttempts
                     THEN [cell[x] EXCEPT !.failures = @ + 1, !.status = "DEAD_LETTER"]
                     ELSE [status |-> "PENDING", nth |-> 0, failures |-> cell[x].failures + 1]
<1>1. cell' = [x \in Cells |-> row(x)]
  BY DEF RecordCellFailure
<1>2. g \in DOMAIN children /\ g \in Cells \X Ordinals
  <2>1. drive[w].stage = "play"
    BY DEF RecordCellFailure, Drives
  <2> QED
    BY <2>1 DEF CampaignTables, Busy
<1>3. ASSUME NEW x \in Cells, counts(x)
      PROVE  /\ row(x) \in CellRows
             /\ g = <<x, cell[x].nth>>
             /\ cell[x].status \notin {"PENDING", "DEAD_LETTER"}
             /\ row(x).failures = cell[x].failures + 1
             /\ \/ row(x).status = "DEAD_LETTER" /\ row(x).nth = cell[x].nth
                \/ /\ row(x).status = "PENDING" /\ row(x).nth = 0
                   /\ row(x).failures < CellAttempts
  <2>1. cell[x] \in CellRows /\ CellAddsUp(x)
    BY DEF CampaignTables, CellsAddUp
  <2>2. g = <<x, cell[x].nth>> /\ cell[x].status # "DEAD_LETTER"
    BY <1>3 DEF PointsTo
  <2>3. cell[x].nth # 0
    BY <1>2, <2>2 DEF Ordinals
  <2>4. cell[x].status # "PENDING" /\ cell[x].failures < CellAttempts
    BY <2>1, <2>2, <2>3 DEF CellAddsUp
  <2>5. cell[x].failures + 1 \in 0..CellAttempts /\ cell[x].failures \in Nat
    BY <2>1, <2>4 DEF CellRows
  <2>6. CASE poison \/ cell[x].failures + 1 >= CellAttempts
    <3>1. row(x) = [cell[x] EXCEPT !.failures = cell[x].failures + 1, !.status = "DEAD_LETTER"]
      BY <1>3, <2>1, <2>6 DEF CellRows
    <3> HIDE DEF row, counts, g
    <3>2. row(x) \in CellRows
      BY <2>1, <2>5, <3>1 DEF CellRows
    <3>3. row(x).failures = cell[x].failures + 1 /\ row(x).status = "DEAD_LETTER"
      BY <2>1, <3>1 DEF CellRows
    <3>4. row(x).nth = cell[x].nth
      BY <2>1, <3>1 DEF CellRows
    <3> QED
      BY <2>2, <2>4, <3>2, <3>3, <3>4
  <2>7. CASE ~(poison \/ cell[x].failures + 1 >= CellAttempts)
    <3>1. row(x) = [status |-> "PENDING", nth |-> 0, failures |-> cell[x].failures + 1]
      BY <1>3, <2>7
    <3> HIDE DEF row, counts, g
    <3> QED
      BY <2>1, <2>2, <2>4, <2>5, <2>7, <3>1 DEF CellRows
  <2> QED
    BY <2>6, <2>7
<1>4. \A x \in Cells : ~counts(x) => row(x) = cell[x]
  OBVIOUS
<1>5. \A x \in Cells : counts(x) => drive[w].failed # {}
  OBVIOUS
<1>6. \A x \in Cells : drive[w].failed # {} /\ g = <<x, cell[x].nth>> /\ ~counts(x)
                          => cell[x].status = "DEAD_LETTER"
  BY DEF PointsTo
<1> HIDE DEF row, counts
<1>7. \A x \in Cells : cell'[x] = row(x)
  BY <1>1
<1>8. cell' \in [Cells -> CellRows]
  BY <1>1, <1>3, <1>4 DEF CampaignTables
<1>9. \A x \in Cells : drive[w].failed # {} /\ g[1] = x /\ cell'[x].nth = g[2]
                          => cell'[x].status = "DEAD_LETTER"
  <2> SUFFICES ASSUME NEW x \in Cells, drive[w].failed # {}, g[1] = x, cell'[x].nth = g[2]
               PROVE  cell'[x].status = "DEAD_LETTER"
    OBVIOUS
  <2>1. g = <<x, g[2]>> /\ g[2] # 0
    BY <1>2 DEF Ordinals
  <2>2. CASE counts(x)
    BY <1>3, <1>7, <2>1, <2>2
  <2>3. CASE ~counts(x)
    BY <1>4, <1>6, <1>7, <2>1, <2>3
  <2> QED
    BY <2>2, <2>3
<1>10. \A x \in Cells : cell'[x] # cell[x] =>
                 /\ drive[w].failed # {} /\ drive[w].of = <<x, cell[x].nth>>
                 /\ cell[x].status \notin {"PENDING", "DEAD_LETTER"}
                 /\ cell'[x].failures = cell[x].failures + 1
                 /\ \/ cell'[x].status = "DEAD_LETTER" /\ cell'[x].nth = cell[x].nth
                    \/ /\ cell'[x].status = "PENDING" /\ cell'[x].nth = 0
                       /\ cell'[x].failures < CellAttempts
  BY <1>3, <1>4, <1>5, <1>7
<1> QED
  BY <1>8, <1>9, <1>10

\* mark_materialized_cell_completed completes the one cell that points to the gauntlet.
LEMMA CompleteMoves ==
    ASSUME CampaignTables, NEW w \in Drivers, CompleteCell(w)
    PROVE  /\ cell' \in [Cells -> CellRows]
           /\ \A x \in Cells : cell'[x] # cell[x] =>
                 /\ drive[w].of = <<x, cell[x].nth>>
                 /\ cell[x].status = "MATERIALIZED" /\ cell'[x].status = "COMPLETED"
                 /\ cell'[x].nth = cell[x].nth /\ cell'[x].failures = cell[x].failures
           /\ campaign' \in [CampaignIds -> CampaignRows]
           /\ \A c \in CampaignIds : campaign'[c].status = "COMPLETED" =>
                 \/ campaign[c].status = "COMPLETED"
                 \/ \A x \in CellsOf(c) : TerminalCell(cell'[x])
<1> USE CampaignAssumption
<1> DEFINE g == drive[w].of
           hit(x) == PointsTo(x, g) /\ cell[x].status = "MATERIALIZED"
<1>1. cell' = [x \in Cells |-> IF hit(x) THEN [cell[x] EXCEPT !.status = "COMPLETED"] ELSE cell[x]]
  BY DEF CompleteCell
<1>2. \A r \in CellRows : LET s == [r EXCEPT !.status = "COMPLETED"]
                          IN  s \in CellRows /\ s.status = "COMPLETED" /\ s.nth = r.nth /\ s.failures = r.failures
  BY DEF CellRows
<1>3. \A x \in Cells : hit(x) => g = <<x, cell[x].nth>> /\ cell[x].status = "MATERIALIZED"
  BY DEF PointsTo
<1> HIDE DEF hit
<1>4. \A x \in Cells : cell[x] \in CellRows
  BY DEF CampaignTables
<1>5. cell' \in [Cells -> CellRows]
  BY <1>1, <1>2, <1>4
<1>6. \A x \in Cells : cell'[x] # cell[x] =>
                 /\ drive[w].of = <<x, cell[x].nth>>
                 /\ cell[x].status = "MATERIALIZED" /\ cell'[x].status = "COMPLETED"
                 /\ cell'[x].nth = cell[x].nth /\ cell'[x].failures = cell[x].failures
  BY <1>1, <1>2, <1>3, <1>4
<1>7. g \in DOMAIN children /\ g[1] \in Cells
  <2>1. drive[w].stage = "report"
    BY DEF CompleteCell, Drives
  <2> QED
    BY <2>1 DEF CampaignTables, Busy
<1>8. CampaignOf[g[1]] \in CampaignIds /\ campaign \in [CampaignIds -> CampaignRows]
  BY <1>7 DEF CampaignTables
<1>9. campaign' = IF PointsTo(g[1], g) THEN Finalized(CampaignOf[g[1]], campaign, cell') ELSE campaign
  BY DEF CompleteCell
<1> HIDE DEF g
<1>10. /\ Finalized(CampaignOf[g[1]], campaign, cell') \in [CampaignIds -> CampaignRows]
       /\ \A d \in CampaignIds : Finalized(CampaignOf[g[1]], campaign, cell')[d].status = "COMPLETED" =>
                 \/ campaign[d].status = "COMPLETED"
                 \/ \A x \in CellsOf(d) : TerminalCell(cell'[x])
  BY <1>5, <1>8, FinalizedTyped
<1> QED
  BY <1>5, <1>6, <1>8, <1>9, <1>10

\* A cell that is as far as it was, or went from open to done, adds up as before.
LEMMA StillAddsUp ==
    ASSUME CampaignTables, CellsAddUp, DOMAIN children' = DOMAIN children,
           \A x \in Cells : cell'[x] # cell[x] =>
               /\ cell[x].status = "MATERIALIZED" /\ cell'[x].status = "COMPLETED"
               /\ cell'[x].nth = cell[x].nth /\ cell'[x].failures = cell[x].failures
    PROVE  CellsAddUp'
<1> SUFFICES ASSUME NEW x \in Cells PROVE CellAddsUp(x)'
  BY DEF CellsAddUp
<1>1. GauntletsOf(x, children)' = GauntletsOf(x, children) /\ Bought(x)' = Bought(x)
  BY SameGauntlets
<1>2. CellAddsUp(x)
  BY DEF CellsAddUp
<1>3. CASE cell'[x] = cell[x]
  BY <1>1, <1>2, <1>3 DEF CellAddsUp
<1>4. CASE cell'[x] # cell[x]
  BY <1>1, <1>2, <1>4 DEF CellAddsUp
<1> QED
  BY <1>3, <1>4

\* A recorded failure makes up for the gauntlet it cost.
LEMMA FailureAddsUp ==
    ASSUME CampaignTables, CellsAddUp, NEW w \in Drivers, NEW poison \in BOOLEAN,
           RecordCellFailure(w, poison)
    PROVE  CellsAddUp'
<1> SUFFICES ASSUME NEW x \in Cells PROVE CellAddsUp(x)'
  BY DEF CellsAddUp
<1>1. DOMAIN children' = DOMAIN children
  BY DEF RecordCellFailure
<1>2. GauntletsOf(x, children)' = GauntletsOf(x, children) /\ Bought(x)' = Bought(x)
  BY <1>1, SameGauntlets
<1>3. CellAddsUp(x) /\ cell[x] \in CellRows
  BY DEF CellsAddUp, CampaignTables
<1>4. CASE cell'[x] = cell[x]
  BY <1>1, <1>2, <1>3, <1>4 DEF CellAddsUp
<1>5. CASE cell'[x] # cell[x]
  <2>1. /\ cell[x].status \notin {"PENDING", "DEAD_LETTER"}
        /\ cell'[x].failures = cell[x].failures + 1
        /\ \/ cell'[x].status = "DEAD_LETTER" /\ cell'[x].nth = cell[x].nth
           \/ /\ cell'[x].status = "PENDING" /\ cell'[x].nth = 0
              /\ cell'[x].failures < CellAttempts
    BY <1>5, RecordMoves
  <2> QED
    BY <1>1, <1>2, <1>3, <2>1 DEF CellAddsUp
<1> QED
  BY <1>4, <1>5

\* Every step keeps the tables, and what the cells have got.
LEMMA TablesStand ==
    ASSUME CampaignTables, CellsAddUp, CampaignNext
    PROVE  CampaignTables' /\ CellsAddUp'
<1> USE CampaignAssumption
<1>1. ASSUME NEW w \in Drivers, NEW yes \in BOOLEAN, CampaignTick(w, yes)
      PROVE  CampaignTables' /\ CellsAddUp'
  BY <1>1, TickBuys, TickAddsUp
<1>2. ASSUME NEW w \in Drivers, NEW yes \in BOOLEAN, RecordCellFailure(w, yes)
      PROVE  CampaignTables' /\ CellsAddUp'
  <2>1. UNCHANGED <<campaign, children, rated>> /\ Drives(w, "play", "finalize")
    BY <1>2 DEF RecordCellFailure
  <2>2. /\ drive' \in [Drivers -> DriveRows]
        /\ \A v \in Drivers : IF Busy(v)' THEN drive'[v].of \in DOMAIN children' ELSE drive'[v] = Nothing
    BY <2>1, DrivesOn
  <2>3. cell' \in [Cells -> CellRows] /\ CellsAddUp'
    BY <1>2, RecordMoves, FailureAddsUp
  <2> QED
    BY <2>1, <2>2, <2>3 DEF CampaignTables
<1>3. ASSUME NEW w \in Drivers, NEW yes \in BOOLEAN, FinalizeGauntlet(w, yes)
      PROVE  CampaignTables' /\ CellsAddUp'
  <2>1. PICK to \in {"report", "idle"} : Drives(w, "finalize", to)
    BY <1>3 DEF FinalizeGauntlet
  <2>2. UNCHANGED <<campaign, cell>> /\ rated' \subseteq rated \cup {drive[w].of[1]}
    BY <1>3 DEF FinalizeGauntlet, RatedNow
  <2>3. drive[w].of \in DOMAIN children
    BY <2>1 DEF Drives, CampaignTables, Busy
  <2>4. /\ children' \in [DOMAIN children' -> GauntletRows]
        /\ DOMAIN children' = DOMAIN children
    <3>1. CASE children' = children
      BY <3>1 DEF CampaignTables
    <3>2. CASE children' = [children EXCEPT ![drive[w].of].status = "COMPLETED"]
      BY <2>3, <3>2, StatusMoves
    <3> QED
      BY <1>3, <3>1, <3>2 DEF FinalizeGauntlet
  <2>5. /\ drive' \in [Drivers -> DriveRows]
        /\ \A v \in Drivers : IF Busy(v)' THEN drive'[v].of \in DOMAIN children' ELSE drive'[v] = Nothing
    BY <2>1, <2>4, DrivesOn
  <2>6. CellsAddUp'
    BY <2>2, <2>4, StillAddsUp
  <2>7. rated' \subseteq Cells
    BY <2>2, <2>3 DEF CampaignTables
  <2> QED
    BY <2>2, <2>4, <2>5, <2>6, <2>7 DEF CampaignTables
<1>4. ASSUME NEW w \in Drivers, NEW g \in DOMAIN children, ClaimGauntlet(w, g)
      PROVE  CampaignTables' /\ CellsAddUp'
  <2>1. /\ UNCHANGED <<campaign, cell, rated>>
        /\ children' = [children EXCEPT ![g].status = "RUNNING"]
        /\ drive' = [drive EXCEPT ![w] = [of |-> g, stage |-> "play", failed |-> {}]]
    BY <1>4 DEF ClaimGauntlet
  <2>2. /\ children' \in [DOMAIN children' -> GauntletRows]
        /\ DOMAIN children' = DOMAIN children
    BY <2>1, StatusMoves
  <2>3. [of |-> g, stage |-> "play", failed |-> {}] \in DriveRows
    BY DEF DriveRows, CampaignTables, Ordinals
  <2>4. /\ drive' \in [Drivers -> DriveRows]
        /\ \A v \in Drivers : IF Busy(v)' THEN drive'[v].of \in DOMAIN children' ELSE drive'[v] = Nothing
    BY <2>1, <2>2, <2>3, DriveTyped
  <2>5. CellsAddUp'
    BY <2>1, <2>2, StillAddsUp
  <2> QED
    BY <2>1, <2>2, <2>4, <2>5 DEF CampaignTables
<1>5. ASSUME NEW w \in Drivers, NEW l \in Legs, NEW outcome \in {"COMPLETED", "FAILED"},
             PlayLeg(w, l, outcome)
      PROVE  CampaignTables' /\ CellsAddUp'
  <2>1. UNCHANGED <<campaign, cell>> /\ rated' \subseteq rated \cup {drive[w].of[1]}
    BY <1>5 DEF PlayLeg, RatedNow
  <2>2. /\ drive[w].of \in DOMAIN children
        /\ DOMAIN children' = DOMAIN children
        /\ children' \in [DOMAIN children' -> GauntletRows]
        /\ drive' \in [Drivers -> DriveRows]
        /\ \A v \in Drivers : IF Busy(v)' THEN drive'[v].of \in DOMAIN children' ELSE drive'[v] = Nothing
    BY <1>5, PlayMoves
  <2>3. CellsAddUp'
    BY <2>1, <2>2, StillAddsUp
  <2>4. rated' \subseteq Cells
    BY <2>1, <2>2 DEF CampaignTables
  <2> QED
    BY <2>1, <2>2, <2>3, <2>4 DEF CampaignTables
<1>6. ASSUME NEW w \in Drivers, HaltDrive(w)
      PROVE  CampaignTables' /\ CellsAddUp'
  <2>1. /\ UNCHANGED <<campaign, cell, rated>> /\ Drives(w, "play", "idle")
        /\ children' = [children EXCEPT ![drive[w].of].status = "PENDING"]
    BY <1>6 DEF HaltDrive
  <2>2. drive[w].of \in DOMAIN children
    BY <2>1 DEF Drives, CampaignTables, Busy
  <2>3. /\ children' \in [DOMAIN children' -> GauntletRows]
        /\ DOMAIN children' = DOMAIN children
    BY <2>1, <2>2, StatusMoves
  <2>4. /\ drive' \in [Drivers -> DriveRows]
        /\ \A v \in Drivers : IF Busy(v)' THEN drive'[v].of \in DOMAIN children' ELSE drive'[v] = Nothing
    BY <2>1, <2>3, DrivesOn
  <2>5. CellsAddUp'
    BY <2>1, <2>3, StillAddsUp
  <2> QED
    BY <2>1, <2>3, <2>4, <2>5 DEF CampaignTables
<1>7. ASSUME NEW w \in Drivers, CompleteCell(w)
      PROVE  CampaignTables' /\ CellsAddUp'
  <2>1. UNCHANGED <<children, rated>> /\ Drives(w, "report", "idle")
    BY <1>7 DEF CompleteCell
  <2>2. /\ drive' \in [Drivers -> DriveRows]
        /\ \A v \in Drivers : IF Busy(v)' THEN drive'[v].of \in DOMAIN children' ELSE drive'[v] = Nothing
    BY <2>1, DrivesOn
  <2>3. cell' \in [Cells -> CellRows] /\ campaign' \in [CampaignIds -> CampaignRows]
    BY <1>7, CompleteMoves
  <2>4. \A x \in Cells : cell'[x] # cell[x] =>
            /\ cell[x].status = "MATERIALIZED" /\ cell'[x].status = "COMPLETED"
            /\ cell'[x].nth = cell[x].nth /\ cell'[x].failures = cell[x].failures
    BY <1>7, CompleteMoves
  <2>5. CellsAddUp'
    BY <2>1, <2>4, StillAddsUp
  <2> QED
    BY <2>1, <2>2, <2>3, <2>5 DEF CampaignTables
<1>8. ASSUME NEW w \in Drivers, DriverDies(w)
      PROVE  CampaignTables' /\ CellsAddUp'
  <2>1. UNCHANGED <<campaign, cell, children, rated>> /\ drive' = [drive EXCEPT ![w] = Nothing]
    BY <1>8 DEF DriverDies
  <2>2. Nothing \in DriveRows /\ Nothing.stage = "idle"
    BY DEF Nothing, DriveRows
  <2>3. /\ drive' \in [Drivers -> DriveRows]
        /\ \A v \in Drivers : IF Busy(v)' THEN drive'[v].of \in DOMAIN children' ELSE drive'[v] = Nothing
    BY <2>1, <2>2, DriveTyped
  <2>4. CellsAddUp'
    BY <2>1, StillAddsUp
  <2> QED
    BY <2>1, <2>3, <2>4 DEF CampaignTables
<1>9. ASSUME NEW g \in DOMAIN children, RecoverGauntlet(g)
      PROVE  CampaignTables' /\ CellsAddUp'
  <2>1. /\ UNCHANGED <<campaign, cell, rated, drive>>
        /\ children' = [children EXCEPT ![g].status = "PENDING"]
    BY <1>9 DEF RecoverGauntlet
  <2>2. /\ children' \in [DOMAIN children' -> GauntletRows]
        /\ DOMAIN children' = DOMAIN children
    BY <2>1, StatusMoves
  <2>3. CellsAddUp'
    BY <2>1, <2>2, StillAddsUp
  <2>4. CampaignTables'
    BY <2>1, <2>2 DEF CampaignTables, Busy
  <2> QED
    BY <2>3, <2>4
<1>10. ASSUME NEW c \in CampaignIds, LeaseRunsOut(c)
       PROVE  CampaignTables' /\ CellsAddUp'
  <2>1. /\ UNCHANGED <<cell, children, rated, drive>>
        /\ campaign' = [campaign EXCEPT ![c].leased = FALSE]
    BY <1>10 DEF LeaseRunsOut
  <2>2. campaign' \in [CampaignIds -> CampaignRows]
    <3>1. [campaign[c] EXCEPT !.leased = FALSE] \in CampaignRows
      BY DEF CampaignTables, CampaignRows
    <3> QED
      BY <2>1, <3>1 DEF CampaignTables
  <2>3. CellsAddUp'
    BY <2>1, StillAddsUp
  <2> QED
    BY <2>1, <2>2, <2>3 DEF CampaignTables, Busy
<1> QED
  BY <1>1, <1>2, <1>3, <1>4, <1>5, <1>6, <1>7, <1>8, <1>9, <1>10 DEF CampaignNext

-----------------------------------------------------------------------------
(* One driver at a time, and what is done stays done *)

SoleDriver(w) ==
    Busy(w) => /\ children[drive[w].of].status =
                     IF drive[w].stage = "report" THEN "COMPLETED" ELSE "RUNNING"
               /\ \A v \in Drivers : Busy(v) /\ drive[v].of = drive[w].of => v = w

\* Once a gauntlet was taken for stale while it was driven, that stays known.
LEMMA OverlapIsKept ==
    ASSUME CampaignNext
    PROVE  mishap' # "overlap" => mishap # "overlap"
BY DEF CampaignNext, CampaignTick, RecordCellFailure, FinalizeGauntlet, ClaimGauntlet, PlayLeg,
       HaltDrive, CompleteCell, DriverDies, RecoverGauntlet, LeaseRunsOut, GoesWrong

\* Who drives what stays a matter of one driver, and no gauntlet comes back from COMPLETED.
LEMMA AloneStands ==
    ASSUME CampaignTables, CellsAddUp, \A v \in Drivers : SoleDriver(v), CampaignNext,
           mishap' # "overlap"
    PROVE  /\ \A v \in Drivers : SoleDriver(v)'
           /\ \A h \in DOMAIN children : children[h].status = "COMPLETED" => children'[h].status = "COMPLETED"
<1> DEFINE Goal == /\ \A v \in Drivers : SoleDriver(v)'
                   /\ \A h \in DOMAIN children :
                         children[h].status = "COMPLETED" => children'[h].status = "COMPLETED"
<1>1. ASSUME NEW w \in Drivers, NEW yes \in BOOLEAN, CampaignTick(w, yes)
      PROVE  Goal
  <2>1. PICK batch \in SUBSET Cells : Buys(batch)
    BY <1>1, TickBuys
  <2>2. \A h \in DOMAIN children : h \in DOMAIN children' /\ children'[h] = children[h]
    BY <2>1 DEF Buys
  <2>3. UNCHANGED drive
    BY <2>1 DEF Buys
  <2> QED
    BY <2>2, <2>3 DEF SoleDriver, Busy, CampaignTables
<1>2. ASSUME NEW w \in Drivers, NEW yes \in BOOLEAN, RecordCellFailure(w, yes)
      PROVE  Goal
  <2>1. UNCHANGED children /\ Drives(w, "play", "finalize")
    BY <1>2 DEF RecordCellFailure
  <2>2. /\ \A v \in Drivers : v # w => drive'[v] = drive[v]
        /\ drive[w].stage = "play" /\ Busy(w)
        /\ drive'[w].stage = "finalize" /\ drive'[w].of = drive[w].of
    BY <2>1, DrivesOn
  <2> QED
    BY <2>1, <2>2 DEF SoleDriver, Busy
<1>3. ASSUME NEW w \in Drivers, NEW yes \in BOOLEAN, FinalizeGauntlet(w, yes)
      PROVE  Goal
  <2>1. CASE Drives(w, "finalize", "idle") /\ children' = children
    <3>1. /\ \A v \in Drivers : v # w => drive'[v] = drive[v]
          /\ drive'[w] = Nothing
      BY <2>1, DrivesOn
    <3> QED
      BY <2>1, <3>1 DEF SoleDriver, Busy, Nothing
  <2>2. CASE /\ Drives(w, "finalize", "report")
             /\ children' = [children EXCEPT ![drive[w].of].status = "COMPLETED"]
    <3>1. drive[w].of \in DOMAIN children /\ drive[w].stage = "finalize" /\ Busy(w)
      BY <2>2 DEF Drives, CampaignTables, Busy
    <3>2. /\ DOMAIN children' = DOMAIN children
          /\ children'[drive[w].of].status = "COMPLETED"
          /\ \A h \in DOMAIN children : h # drive[w].of => children'[h] = children[h]
      BY <2>2, <3>1, StatusMoves
    <3>3. /\ \A v \in Drivers : v # w => drive'[v] = drive[v]
          /\ drive'[w].stage = "report" /\ drive'[w].of = drive[w].of
      BY <2>2, <3>2, DrivesOn
    <3> QED
      BY <3>1, <3>2, <3>3 DEF SoleDriver, Busy, CampaignTables
  <2> QED
    BY <1>3, <2>1, <2>2 DEF FinalizeGauntlet
<1>4. ASSUME NEW w \in Drivers, NEW g \in DOMAIN children, ClaimGauntlet(w, g)
      PROVE  Goal
  <2>1. /\ children[g].status = "PENDING"
        /\ children' = [children EXCEPT ![g].status = "RUNNING"]
        /\ drive' = [drive EXCEPT ![w] = [of |-> g, stage |-> "play", failed |-> {}]]
    BY <1>4 DEF ClaimGauntlet
  <2>2. /\ DOMAIN children' = DOMAIN children
        /\ children'[g].status = "RUNNING"
        /\ \A h \in DOMAIN children : h # g => children'[h] = children[h]
    BY <2>1, StatusMoves
  <2>3. /\ \A v \in Drivers : v # w => drive'[v] = drive[v]
        /\ drive'[w].of = g /\ drive'[w].stage = "play"
    BY <2>1 DEF CampaignTables
  <2>4. \A v \in Drivers : Busy(v) => drive[v].of # g
    BY <2>1 DEF SoleDriver
  <2> QED
    BY <2>1, <2>2, <2>3, <2>4 DEF SoleDriver, Busy, CampaignTables
<1>5. ASSUME NEW w \in Drivers, NEW l \in Legs, NEW outcome \in {"COMPLETED", "FAILED"},
             PlayLeg(w, l, outcome)
      PROVE  Goal
  <2>1. /\ \A h \in DOMAIN children : children'[h].status = children[h].status
        /\ \A v \in Drivers : drive'[v].of = drive[v].of /\ drive'[v].stage = drive[v].stage
    BY <1>5, PlayMoves
  <2> QED
    BY <2>1 DEF SoleDriver, Busy, CampaignTables
<1>6. ASSUME NEW w \in Drivers, HaltDrive(w)
      PROVE  Goal
  <2>1. /\ Drives(w, "play", "idle")
        /\ children' = [children EXCEPT ![drive[w].of].status = "PENDING"]
    BY <1>6 DEF HaltDrive
  <2>2. drive[w].of \in DOMAIN children /\ drive[w].stage = "play" /\ Busy(w)
    BY <2>1 DEF Drives, CampaignTables, Busy
  <2>3. /\ DOMAIN children' = DOMAIN children
        /\ \A h \in DOMAIN children : h # drive[w].of => children'[h] = children[h]
    BY <2>1, <2>2, StatusMoves
  <2>4. /\ \A v \in Drivers : v # w => drive'[v] = drive[v]
        /\ drive'[w] = Nothing
    BY <2>1, <2>3, DrivesOn
  <2>5. children[drive[w].of].status = "RUNNING"
    BY <2>2 DEF SoleDriver
  <2>6. ~Busy(w)'
    BY <2>4 DEF Busy, Nothing
  <2>7. \A v \in Drivers : v # w /\ Busy(v) => drive[v].of # drive[w].of
    BY <2>2 DEF SoleDriver
  <2> QED
    BY <2>2, <2>3, <2>4, <2>6, <2>7 DEF SoleDriver, Busy, CampaignTables
<1>7. ASSUME NEW w \in Drivers, CompleteCell(w)
      PROVE  Goal
  <2>1. UNCHANGED children /\ Drives(w, "report", "idle")
    BY <1>7 DEF CompleteCell
  <2>2. /\ \A v \in Drivers : v # w => drive'[v] = drive[v]
        /\ drive'[w] = Nothing
    BY <2>1, DrivesOn
  <2> QED
    BY <2>1, <2>2 DEF SoleDriver, Busy, Nothing
<1>8. ASSUME NEW w \in Drivers, DriverDies(w)
      PROVE  Goal
  <2>1. UNCHANGED children /\ drive' = [drive EXCEPT ![w] = Nothing]
    BY <1>8 DEF DriverDies
  <2>2. /\ \A v \in Drivers : v # w => drive'[v] = drive[v]
        /\ drive'[w] = Nothing
    BY <2>1 DEF CampaignTables
  <2> QED
    BY <2>1, <2>2 DEF SoleDriver, Busy, Nothing
<1>9. ASSUME NEW g \in DOMAIN children, RecoverGauntlet(g)
      PROVE  Goal
  <2>1. /\ children[g].status = "RUNNING" /\ ~Driven(g) /\ UNCHANGED drive
        /\ children' = [children EXCEPT ![g].status = "PENDING"]
    BY <1>9 DEF RecoverGauntlet, GoesWrong
  <2>2. /\ DOMAIN children' = DOMAIN children
        /\ \A h \in DOMAIN children : h # g => children'[h] = children[h]
    BY <2>1, StatusMoves
  <2>3. \A v \in Drivers : drive[v].of # g
    BY <2>1 DEF Driven
  <2> QED
    BY <2>1, <2>2, <2>3 DEF SoleDriver, Busy, CampaignTables
<1>10. ASSUME NEW c \in CampaignIds, LeaseRunsOut(c)
       PROVE  Goal
  BY <1>10 DEF LeaseRunsOut, SoleDriver, Busy
<1> HIDE DEF Goal
<1>11. Goal
  BY <1>1, <1>2, <1>3, <1>4, <1>5, <1>6, <1>7, <1>8, <1>9, <1>10 DEF CampaignNext
<1> QED
  BY <1>11 DEF Goal

\* A finished cell is one whose gauntlet is, and a finished campaign one whose cells are,
\* after every step that leaves every gauntlet to one driver.
LEMMA DoneStands ==
    ASSUME CampaignTables, CellsAddUp, DrivenAlone, DoneCellsAreDone, DoneCampaignsAreDone,
           CampaignNext
    PROVE  DrivenAlone' /\ DoneCellsAreDone' /\ DoneCampaignsAreDone'
<1> SUFFICES ASSUME mishap' # "overlap"
             PROVE  /\ \A v \in Drivers : SoleDriver(v)'
                    /\ \A x \in Cells : cell'[x].status = "COMPLETED" =>
                          children'[<<x, cell'[x].nth>>].status = "COMPLETED"
                    /\ \A c \in CampaignIds : campaign'[c].status = "COMPLETED" =>
                          \A x \in CellsOf(c) : TerminalCell(cell'[x])
  BY DEF DrivenAlone, SoleDriver, DoneCellsAreDone, DoneCampaignsAreDone
<1> USE CampaignAssumption
<1>1. mishap # "overlap"
  BY OverlapIsKept
<1>2. /\ \A v \in Drivers : SoleDriver(v)
      /\ \A x \in Cells : cell[x].status = "COMPLETED" =>
            children[<<x, cell[x].nth>>].status = "COMPLETED"
      /\ \A c \in CampaignIds : campaign[c].status = "COMPLETED" =>
            \A x \in CellsOf(c) : TerminalCell(cell[x])
  BY <1>1 DEF DrivenAlone, SoleDriver, DoneCellsAreDone, DoneCampaignsAreDone
<1>3. /\ \A v \in Drivers : SoleDriver(v)'
      /\ \A h \in DOMAIN children : children[h].status = "COMPLETED" => children'[h].status = "COMPLETED"
  BY <1>2, AloneStands
<1>4. \A x \in Cells : cell[x].status # "PENDING" => <<x, cell[x].nth>> \in DOMAIN children
  BY DEF CellsAddUp, CellAddsUp
<1> DEFINE Moved == \A x \in Cells :
               /\ TerminalCell(cell[x]) => TerminalCell(cell'[x])
               /\ cell'[x].status = "COMPLETED" =>
                     \/ cell'[x] = cell[x]
                     \/ children'[<<x, cell'[x].nth>>].status = "COMPLETED"
           Ended == \A c \in CampaignIds : campaign'[c].status = "COMPLETED" =>
                       \/ campaign[c].status = "COMPLETED"
                       \/ \A x \in CellsOf(c) : TerminalCell(cell'[x])
<1>5. ASSUME UNCHANGED <<cell, campaign>> PROVE Moved /\ Ended
  BY <1>5
<1>6. ASSUME NEW w \in Drivers, NEW yes \in BOOLEAN, CampaignTick(w, yes)
      PROVE  Moved /\ Ended
  <2>1. PICK batch \in SUBSET Cells : Buys(batch)
    BY <1>6, TickBuys
  <2>2. Ended
    BY <2>1 DEF Buys
  <2>3. ASSUME NEW x \in Cells
        PROVE  /\ TerminalCell(cell[x]) => TerminalCell(cell'[x])
               /\ cell'[x].status = "COMPLETED" =>
                     \/ cell'[x] = cell[x]
                     \/ children'[<<x, cell'[x].nth>>].status = "COMPLETED"
    <3>1. CASE x \in batch
      BY <2>1, <3>1 DEF Buys, TerminalCell
    <3>2. CASE cell'[x] = cell[x]
      BY <3>2
    <3>3. CASE /\ cell[x].status = "MATERIALIZED"
               /\ <<x, cell[x].nth>> \in DOMAIN children
               /\ children[<<x, cell[x].nth>>].status = "COMPLETED"
               /\ cell'[x] = [cell[x] EXCEPT !.status = "COMPLETED"]
      <4>1. cell'[x].nth = cell[x].nth
        BY <3>3 DEF CampaignTables, CellRows
      <4> QED
        BY <1>3, <3>3, <4>1 DEF TerminalCell
    <3> QED
      BY <2>1, <3>1, <3>2, <3>3 DEF Buys
  <2> QED
    BY <2>2, <2>3
<1>7. ASSUME NEW w \in Drivers, NEW yes \in BOOLEAN, RecordCellFailure(w, yes)
      PROVE  Moved /\ Ended
  <2>1. UNCHANGED campaign /\ drive[w].stage = "play"
    BY <1>7 DEF RecordCellFailure, Drives
  <2>2. children[drive[w].of].status = "RUNNING"
    BY <1>2, <2>1 DEF SoleDriver, Busy
  <2>3. ASSUME NEW x \in Cells, cell'[x] # cell[x]
        PROVE  ~TerminalCell(cell[x]) /\ cell'[x].status # "COMPLETED"
    <3>1. /\ drive[w].of = <<x, cell[x].nth>>
          /\ cell[x].status \notin {"PENDING", "DEAD_LETTER"}
          /\ cell'[x].status \in {"PENDING", "DEAD_LETTER"}
      BY <1>7, <2>3, RecordMoves
    <3>2. cell[x].status # "COMPLETED"
      BY <1>2, <2>2, <3>1
    <3> QED
      BY <3>1, <3>2 DEF TerminalCell
  <2> QED
    BY <2>1, <2>3
<1>8. ASSUME NEW w \in Drivers, CompleteCell(w)
      PROVE  Moved /\ Ended
  <2>1. UNCHANGED children /\ drive[w].stage = "report"
    BY <1>8 DEF CompleteCell, Drives
  <2>2. children[drive[w].of].status = "COMPLETED"
    BY <1>2, <2>1 DEF SoleDriver, Busy
  <2>3. Ended
    BY <1>8, CompleteMoves
  <2>4. ASSUME NEW x \in Cells, cell'[x] # cell[x]
        PROVE  ~TerminalCell(cell[x]) /\ children'[<<x, cell'[x].nth>>].status = "COMPLETED"
    <3>1. /\ drive[w].of = <<x, cell[x].nth>>
          /\ cell[x].status = "MATERIALIZED" /\ cell'[x].nth = cell[x].nth
      BY <1>8, <2>4, CompleteMoves
    <3> QED
      BY <2>1, <2>2, <3>1 DEF TerminalCell
  <2> QED
    BY <2>3, <2>4
<1>9. ASSUME NEW c \in CampaignIds, LeaseRunsOut(c)
      PROVE  Moved /\ Ended
  <2>1. UNCHANGED cell /\ campaign' = [campaign EXCEPT ![c].leased = FALSE]
    BY <1>9 DEF LeaseRunsOut
  <2>2. \A d \in CampaignIds : campaign'[d].status = campaign[d].status
    <3>1. [campaign[c] EXCEPT !.leased = FALSE].status = campaign[c].status
      BY DEF CampaignTables, CampaignRows
    <3> QED
      BY <2>1, <3>1 DEF CampaignTables
  <2> QED
    BY <2>1, <2>2
<1>10. Moved /\ Ended
  <2> HIDE DEF Moved, Ended
  <2> QED
    BY <1>5, <1>6, <1>7, <1>8, <1>9 DEF CampaignNext, FinalizeGauntlet, ClaimGauntlet, PlayLeg,
       HaltDrive, DriverDies, RecoverGauntlet
<1>11. \A x \in Cells : cell'[x].status = "COMPLETED" => children'[<<x, cell'[x].nth>>].status = "COMPLETED"
  BY <1>2, <1>3, <1>4, <1>10
<1>12. \A c \in CampaignIds : campaign'[c].status = "COMPLETED" =>
           \A x \in CellsOf(c) : TerminalCell(cell'[x])
  <2>1. \A c \in CampaignIds : CellsOf(c) \subseteq Cells
    BY DEF CellsOf
  <2> QED
    BY <1>2, <1>10, <2>1
<1> QED
  BY <1>3, <1>11, <1>12

-----------------------------------------------------------------------------
(* The legs *)

\* A step ends at most a leg: no gauntlet is lost, and no leg that has ended changes.
LEMMA LegsOnlyEnd ==
    ASSUME CampaignTables, CellsAddUp, CampaignNext
    PROVE  \A h \in DOMAIN children :
              /\ h \in DOMAIN children'
              /\ \A k \in Legs : children[h].legs[k] # "open" =>
                    children'[h].legs[k] = children[h].legs[k]
<1> DEFINE Goal == \A h \in DOMAIN children :
              /\ h \in DOMAIN children'
              /\ \A k \in Legs : children[h].legs[k] # "open" =>
                    children'[h].legs[k] = children[h].legs[k]
<1>1. ASSUME NEW w \in Drivers, NEW yes \in BOOLEAN, CampaignTick(w, yes)
      PROVE  Goal
  <2>1. PICK batch \in SUBSET Cells : Buys(batch)
    BY <1>1, TickBuys
  <2> QED
    BY <2>1 DEF Buys
<1>2. ASSUME NEW g \in DOMAIN children, NEW s \in {"PENDING", "RUNNING", "COMPLETED"},
             children' = [children EXCEPT ![g].status = s]
      PROVE  Goal
  BY <1>2, StatusMoves
<1>3. ASSUME NEW w \in Drivers, NEW l \in Legs, NEW outcome \in {"COMPLETED", "FAILED"},
             PlayLeg(w, l, outcome)
      PROVE  Goal
  <2>1. /\ children[drive[w].of].legs[l] = "open"
        /\ DOMAIN children' = DOMAIN children
        /\ \A h \in DOMAIN children, k \in Legs :
              children'[h].legs[k] = IF h = drive[w].of /\ k = l THEN outcome ELSE children[h].legs[k]
    BY <1>3, PlayMoves
  <2> QED
    BY <2>1
<1>4. ASSUME UNCHANGED children PROVE Goal
  BY <1>4
<1>5. ASSUME NEW w \in Drivers, NEW yes \in BOOLEAN, FinalizeGauntlet(w, yes)
      PROVE  Goal
  <2>1. drive[w].of \in DOMAIN children
    BY <1>5 DEF FinalizeGauntlet, Drives, CampaignTables, Busy
  <2>2. children' = children \/ children' = [children EXCEPT ![drive[w].of].status = "COMPLETED"]
    BY <1>5 DEF FinalizeGauntlet
  <2> HIDE DEF Goal
  <2> QED
    BY <1>2, <1>4, <2>1, <2>2
<1>6. ASSUME NEW w \in Drivers, HaltDrive(w)
      PROVE  Goal
  <2>1. drive[w].of \in DOMAIN children
    BY <1>6 DEF HaltDrive, Drives, CampaignTables, Busy
  <2>2. children' = [children EXCEPT ![drive[w].of].status = "PENDING"]
    BY <1>6 DEF HaltDrive
  <2> HIDE DEF Goal
  <2> QED
    BY <1>2, <2>1, <2>2
<1> HIDE DEF Goal
<1>7. Goal
  BY <1>1, <1>2, <1>3, <1>4, <1>5, <1>6 DEF CampaignNext, RecordCellFailure, ClaimGauntlet,
     CompleteCell, DriverDies, RecoverGauntlet, LeaseRunsOut
<1> QED
  BY <1>7 DEF Goal

\* What a driver remembers did fail.
MemoryIsTrue(v) == Busy(v) => \A l \in drive[v].failed : children[drive[v].of].legs[l] = "FAILED"

\* Every step keeps what is known of the legs.
LEMMA LegsStand ==
    ASSUME CampaignTables, CellsAddUp, LegsAddUp, CampaignNext
    PROVE  LegsAddUp'
<1> USE CampaignAssumption
<1>1. \A h \in DOMAIN children :
              /\ h \in DOMAIN children'
              /\ \A k \in Legs : children[h].legs[k] # "open" =>
                    children'[h].legs[k] = children[h].legs[k]
  BY LegsOnlyEnd
<1>2. \A v \in Drivers : drive[v].failed \subseteq Legs /\ (Busy(v) => drive[v].of \in DOMAIN children)
  BY DEF CampaignTables, DriveRows
<1>3. \A v \in Drivers : MemoryIsTrue(v)
  BY DEF LegsAddUp, MemoryIsTrue
<1>4. ASSUME NEW v \in Drivers, drive'[v].of = drive[v].of, drive'[v].stage = drive[v].stage,
             drive'[v].failed = drive[v].failed
      PROVE  MemoryIsTrue(v)'
  <2>1. MemoryIsTrue(v)
    BY <1>3
  <2> QED
    BY <1>1, <1>2, <1>4, <2>1 DEF MemoryIsTrue, Busy
<1>5. ASSUME NEW w \in Drivers, NEW to \in {"idle", "play", "finalize", "report"},
             NEW from \in {"play", "finalize", "report"}, Drives(w, from, to),
             DOMAIN children' = DOMAIN children
      PROVE  \A v \in Drivers : MemoryIsTrue(v)'
  <2>1. /\ \A v \in Drivers : v # w => drive'[v] = drive[v]
        /\ Busy(w) /\ drive[w].of \in DOMAIN children
        /\ to = "idle" => drive'[w] = Nothing
        /\ to # "idle" => drive'[w].of = drive[w].of /\ drive'[w].failed = drive[w].failed
    BY <1>5, DrivesOn
  <2>2. MemoryIsTrue(w)'
    <3>1. MemoryIsTrue(w)
      BY <1>3
    <3>2. CASE to = "idle"
      BY <2>1, <3>2 DEF MemoryIsTrue, Busy, Nothing
    <3>3. CASE to # "idle"
      BY <1>1, <1>2, <2>1, <3>1, <3>3 DEF MemoryIsTrue, Busy
    <3> QED
      BY <3>2, <3>3
  <2>3. \A v \in Drivers : v # w => MemoryIsTrue(v)'
    BY <1>4, <2>1
  <2> QED
    BY <2>2, <2>3
<1>6. \A v \in Drivers : MemoryIsTrue(v)'
  <2>1. ASSUME NEW w \in Drivers, NEW yes \in BOOLEAN, CampaignTick(w, yes)
        PROVE  \A v \in Drivers : MemoryIsTrue(v)'
    <3>1. UNCHANGED drive
      BY <2>1 DEF CampaignTick
    <3> QED
      BY <1>4, <3>1
  <2>2. ASSUME NEW w \in Drivers, NEW yes \in BOOLEAN, RecordCellFailure(w, yes)
        PROVE  \A v \in Drivers : MemoryIsTrue(v)'
    <3>1. Drives(w, "play", "finalize") /\ DOMAIN children' = DOMAIN children
      BY <2>2 DEF RecordCellFailure
    <3> QED
      BY <1>5, <3>1
  <2>3. ASSUME NEW w \in Drivers, NEW yes \in BOOLEAN, FinalizeGauntlet(w, yes)
        PROVE  \A v \in Drivers : MemoryIsTrue(v)'
    <3>1. PICK to \in {"report", "idle"} : Drives(w, "finalize", to)
      BY <2>3 DEF FinalizeGauntlet
    <3>2. DOMAIN children' = DOMAIN children
      <4>1. drive[w].of \in DOMAIN children
        BY <3>1 DEF Drives, CampaignTables, Busy
      <4> QED
        BY <2>3, <4>1, StatusMoves DEF FinalizeGauntlet
    <3> QED
      BY <1>5, <3>1, <3>2
  <2>4. ASSUME NEW w \in Drivers, NEW g \in DOMAIN children, ClaimGauntlet(w, g)
        PROVE  \A v \in Drivers : MemoryIsTrue(v)'
    <3>1. drive' = [drive EXCEPT ![w] = [of |-> g, stage |-> "play", failed |-> {}]]
      BY <2>4 DEF ClaimGauntlet
    <3>2. drive'[w].failed = {} /\ \A v \in Drivers : v # w => drive'[v] = drive[v]
      BY <3>1 DEF CampaignTables
    <3>3. MemoryIsTrue(w)'
      BY <3>2 DEF MemoryIsTrue
    <3> QED
      BY <1>4, <3>2, <3>3
  <2>5. ASSUME NEW w \in Drivers, NEW l \in Legs, NEW outcome \in {"COMPLETED", "FAILED"},
               PlayLeg(w, l, outcome)
        PROVE  \A v \in Drivers : MemoryIsTrue(v)'
    <3>1. /\ drive[w].of \in DOMAIN children /\ Busy(w)
          /\ \A h \in DOMAIN children, k \in Legs :
                 children'[h].legs[k] = IF h = drive[w].of /\ k = l THEN outcome ELSE children[h].legs[k]
      BY <2>5, PlayMoves
    <3>2. \A v \in Drivers : /\ drive'[v].of = drive[v].of /\ drive'[v].stage = drive[v].stage
                             /\ v # w => drive'[v].failed = drive[v].failed
      BY <2>5, PlayMoves
    <3>3. /\ outcome = "FAILED" => drive'[w].failed = drive[w].failed \cup {l}
          /\ outcome # "FAILED" => drive'[w].failed = drive[w].failed
      BY <2>5, PlayMoves
    <3>4. MemoryIsTrue(w)'
      <4> SUFFICES ASSUME NEW k \in drive'[w].failed
                   PROVE  children'[drive'[w].of].legs[k] = "FAILED"
        BY DEF MemoryIsTrue
      <4>1. CASE k \in drive[w].failed
        BY <1>1, <1>2, <1>3, <3>1, <3>2, <4>1 DEF MemoryIsTrue
      <4>2. CASE k = l /\ outcome = "FAILED"
        BY <3>1, <3>2, <4>2
      <4> QED
        BY <3>3, <4>1, <4>2
    <3>5. \A v \in Drivers : v # w => MemoryIsTrue(v)'
      BY <1>4, <3>2
    <3> QED
      BY <3>4, <3>5
  <2>6. ASSUME NEW w \in Drivers, HaltDrive(w)
        PROVE  \A v \in Drivers : MemoryIsTrue(v)'
    <3>1. Drives(w, "play", "idle")
      BY <2>6 DEF HaltDrive
    <3>2. DOMAIN children' = DOMAIN children
      <4>1. drive[w].of \in DOMAIN children
        BY <3>1 DEF Drives, CampaignTables, Busy
      <4> QED
        BY <2>6, <4>1, StatusMoves DEF HaltDrive
    <3> QED
      BY <1>5, <3>1, <3>2
  <2>7. ASSUME NEW w \in Drivers, CompleteCell(w)
        PROVE  \A v \in Drivers : MemoryIsTrue(v)'
    <3>1. Drives(w, "report", "idle") /\ DOMAIN children' = DOMAIN children
      BY <2>7 DEF CompleteCell
    <3> QED
      BY <1>5, <3>1
  <2>8. ASSUME NEW w \in Drivers, DriverDies(w)
        PROVE  \A v \in Drivers : MemoryIsTrue(v)'
    <3>1. drive' = [drive EXCEPT ![w] = Nothing]
      BY <2>8 DEF DriverDies
    <3>2. drive'[w] = Nothing /\ \A v \in Drivers : v # w => drive'[v] = drive[v]
      BY <3>1 DEF CampaignTables
    <3>3. MemoryIsTrue(w)'
      BY <3>2 DEF MemoryIsTrue, Nothing
    <3> QED
      BY <1>4, <3>2, <3>3
  <2>9. ASSUME UNCHANGED drive
        PROVE  \A v \in Drivers : MemoryIsTrue(v)'
    BY <1>4, <2>9
  <2> QED
    BY <2>1, <2>2, <2>3, <2>4, <2>5, <2>6, <2>7, <2>8, <2>9
       DEF CampaignNext, RecoverGauntlet, LeaseRunsOut
<1>7. \A h \in DOMAIN children' : children'[h].status = "COMPLETED" =>
          \A k \in Legs : children'[h].legs[k] # "open"
  <2>1. \A h \in DOMAIN children : children[h].status = "COMPLETED" =>
          \A k \in Legs : children[h].legs[k] # "open"
    BY DEF LegsAddUp, OpenLegs
  <2> DEFINE Goal == \A h \in DOMAIN children' : children'[h].status = "COMPLETED" =>
                        \A k \in Legs : children'[h].legs[k] # "open"
  <2>2. ASSUME \A h \in DOMAIN children' : children'[h].status = "COMPLETED" =>
                  h \in DOMAIN children /\ children[h].status = "COMPLETED"
        PROVE  Goal
    BY <1>1, <2>1, <2>2
  <2>3. ASSUME NEW w \in Drivers, NEW yes \in BOOLEAN, CampaignTick(w, yes)
        PROVE  Goal
    <3>1. PICK batch \in SUBSET Cells : Buys(batch)
      BY <2>3, TickBuys
    <3> QED
      BY <2>2, <3>1 DEF Buys
  <2>4. ASSUME NEW g \in DOMAIN children, NEW s \in {"PENDING", "RUNNING"},
               children' = [children EXCEPT ![g].status = s]
        PROVE  Goal
    <3>1. /\ DOMAIN children' = DOMAIN children
          /\ children'[g].status = s
          /\ \A h \in DOMAIN children : h # g => children'[h] = children[h]
      BY <2>4, StatusMoves
    <3> QED
      BY <2>2, <3>1
  <2>5. ASSUME NEW w \in Drivers, NEW yes \in BOOLEAN, FinalizeGauntlet(w, yes)
        PROVE  Goal
    <3>1. drive[w].of \in DOMAIN children
      BY <2>5 DEF FinalizeGauntlet, Drives, CampaignTables, Busy
    <3>2. CASE children' = children
      BY <2>1, <3>2
    <3>3. CASE /\ OpenLegs(drive[w].of) = {}
               /\ children' = [children EXCEPT ![drive[w].of].status = "COMPLETED"]
      <4>1. /\ DOMAIN children' = DOMAIN children
            /\ \A h \in DOMAIN children : children'[h].legs = children[h].legs
            /\ \A h \in DOMAIN children : h # drive[w].of => children'[h] = children[h]
        BY <3>1, <3>3, StatusMoves
      <4>2. \A k \in Legs : children[drive[w].of].legs[k] # "open"
        BY <3>3 DEF OpenLegs
      <4> QED
        BY <2>1, <4>1, <4>2
    <3> QED
      BY <2>5, <3>2, <3>3 DEF FinalizeGauntlet
  <2>6. ASSUME NEW w \in Drivers, NEW l \in Legs, NEW outcome \in {"COMPLETED", "FAILED"},
               PlayLeg(w, l, outcome)
        PROVE  Goal
    <3>1. /\ DOMAIN children' = DOMAIN children
          /\ \A h \in DOMAIN children : children'[h].status = children[h].status
      BY <2>6, PlayMoves
    <3> QED
      BY <2>2, <3>1
  <2>7. ASSUME NEW w \in Drivers, HaltDrive(w)
        PROVE  Goal
    <3>1. drive[w].of \in DOMAIN children
      BY <2>7 DEF HaltDrive, Drives, CampaignTables, Busy
    <3>2. children' = [children EXCEPT ![drive[w].of].status = "PENDING"]
      BY <2>7 DEF HaltDrive
    <3> HIDE DEF Goal
    <3> QED
      BY <2>4, <3>1, <3>2
  <2>8. ASSUME UNCHANGED children PROVE Goal
    BY <2>1, <2>8
  <2> HIDE DEF Goal
  <2>9. Goal
    BY <2>3, <2>4, <2>5, <2>6, <2>7, <2>8 DEF CampaignNext, RecordCellFailure, ClaimGauntlet,
       CompleteCell, DriverDies, RecoverGauntlet, LeaseRunsOut
  <2> QED
    BY <2>9 DEF Goal
<1>8. \A x \in Cells : cell'[x].failures > 0 =>
          \E g \in GauntletsOf(x, children)', l \in Legs : children'[g].legs[l] = "FAILED"
  <2> DEFINE Failed(x) == \E g \in GauntletsOf(x, children), l \in Legs : children[g].legs[l] = "FAILED"
             FailedNow(x) == \E g \in GauntletsOf(x, children)', l \in Legs : children'[g].legs[l] = "FAILED"
  <2>1. \A x \in Cells : Failed(x) => FailedNow(x)
    BY <1>1 DEF GauntletsOf
  <2>2. \A x \in Cells : cell[x].failures > 0 => Failed(x)
    BY DEF LegsAddUp
  <2>3. ASSUME NEW x \in Cells
        PROVE  cell'[x].failures = cell[x].failures \/ Failed(x)
    <3>1. ASSUME NEW w \in Drivers, NEW yes \in BOOLEAN, CampaignTick(w, yes)
          PROVE  cell'[x].failures = cell[x].failures
      <4>1. PICK batch \in SUBSET Cells : Buys(batch)
        BY <3>1, TickBuys
      <4>2. cell[x] \in CellRows
        BY DEF CampaignTables
      <4>3. \A r \in CellRows : [r EXCEPT !.status = "COMPLETED"].failures = r.failures
        BY DEF CellRows
      <4> QED
        BY <4>1, <4>2, <4>3 DEF Buys
    <3>2. ASSUME NEW w \in Drivers, NEW yes \in BOOLEAN, RecordCellFailure(w, yes), cell'[x] # cell[x]
          PROVE  Failed(x)
      <4>1. drive[w].failed # {} /\ drive[w].of = <<x, cell[x].nth>>
        BY <3>2, RecordMoves
      <4>2. Busy(w)
        BY <3>2 DEF RecordCellFailure, Drives, Busy
      <4>3. PICK l \in drive[w].failed : l \in Legs
        BY <1>2, <4>1
      <4>4. drive[w].of \in GauntletsOf(x, children)
        BY <1>2, <4>1, <4>2 DEF GauntletsOf
      <4>5. children[drive[w].of].legs[l] = "FAILED"
        BY <1>3, <4>2 DEF MemoryIsTrue
      <4> QED
        BY <4>3, <4>4, <4>5
    <3>3. ASSUME NEW w \in Drivers, CompleteCell(w)
          PROVE  cell'[x].failures = cell[x].failures
      BY <3>3, CompleteMoves
    <3> HIDE DEF Failed
    <3> QED
      BY <3>1, <3>2, <3>3 DEF CampaignNext, FinalizeGauntlet, ClaimGauntlet, PlayLeg, HaltDrive,
         DriverDies, RecoverGauntlet, LeaseRunsOut
  <2> HIDE DEF Failed, FailedNow
  <2>4. \A x \in Cells : cell'[x].failures > 0 => FailedNow(x)
    BY <2>1, <2>2, <2>3
  <2> QED
    BY <2>4 DEF FailedNow
<1>9. \A h \in DOMAIN children' : children'[h].status = "COMPLETED" => OpenLegs(h)' = {}
  BY <1>7 DEF OpenLegs
<1> QED
  BY <1>6, <1>8, <1>9 DEF LegsAddUp, MemoryIsTrue

-----------------------------------------------------------------------------
(* The rating of a cell's pair *)

RatedFits(x) == x \in rated <=> Bought(x) = 1 /\ \A g \in GauntletsOf(x, children) : AllWell(g)

\* A cell that keeps its gauntlets, their legs and its rating stays rated rightly.
LEMMA RatedKept ==
    ASSUME NEW x \in Cells, RatedFits(x), x \in rated' <=> x \in rated,
           GauntletsOf(x, children)' = GauntletsOf(x, children), Bought(x)' = Bought(x),
           \A g \in GauntletsOf(x, children), k \in Legs : children'[g].legs[k] = children[g].legs[k]
    PROVE  RatedFits(x)'
BY DEF RatedFits, AllWell

\* Every step rates a cell's pair if that is due, and in no other case.
LEMMA RatedStands ==
    ASSUME CampaignTables, CellsAddUp, LegsAddUp, RatedAddsUp, CampaignNext
    PROVE  RatedAddsUp'
<1> USE CampaignAssumption
<1>1. \A x \in Cells : RatedFits(x)
  BY DEF RatedAddsUp, RatedFits
<1>2. ASSUME rated' = rated, DOMAIN children' = DOMAIN children,
             \A h \in DOMAIN children, k \in Legs : children'[h].legs[k] = children[h].legs[k]
      PROVE  \A x \in Cells : RatedFits(x)'
  <2> SUFFICES ASSUME NEW x \in Cells PROVE RatedFits(x)'
    OBVIOUS
  <2>1. GauntletsOf(x, children)' = GauntletsOf(x, children) /\ Bought(x)' = Bought(x)
    BY <1>2, SameGauntlets
  <2>2. GauntletsOf(x, children) \subseteq DOMAIN children
    BY DEF GauntletsOf
  <2> QED
    BY <1>1, <1>2, <2>1, <2>2, RatedKept
<1>3. ASSUME NEW w \in Drivers, NEW yes \in BOOLEAN, CampaignTick(w, yes)
      PROVE  \A x \in Cells : RatedFits(x)'
  <2>1. PICK batch \in SUBSET Cells : Buys(batch)
    BY <1>3, TickBuys
  <2>2. rated' = rated /\ \A h \in DOMAIN children : children'[h] = children[h]
    BY <2>1 DEF Buys
  <2> SUFFICES ASSUME NEW x \in Cells PROVE RatedFits(x)'
    OBVIOUS
  <2>3. Bought(x) \in Nat /\ GauntletsOf(x, children) \subseteq DOMAIN children
    BY <2>1, BuysCount DEF GauntletsOf
  <2>4. CASE x \notin batch
    <3>1. GauntletsOf(x, children)' = GauntletsOf(x, children) /\ Bought(x)' = Bought(x)
      BY <2>1, <2>4, BuysCount
    <3> QED
      BY <1>1, <2>2, <2>3, <3>1, RatedKept
  <2>5. CASE x \in batch
    <3>0. PICK g : g = <<x, Bought(x) + 1>>
      OBVIOUS
    <3>1. /\ g \in GauntletsOf(x, children)' /\ g \notin DOMAIN children
          /\ Bought(x)' = Bought(x) + 1
      BY <2>1, <2>5, <3>0, BuysCount
    <3>2. g \in DOMAIN children' /\ children'[g].legs = [l \in Legs |-> "open"]
      BY <2>1, <2>5, <3>0, <3>1 DEF Buys
    <3>3. ~AllWell(g)'
      BY <3>2 DEF AllWell, Legs
    <3>4. x \notin rated
      <4>1. CASE Bought(x) = 0
        BY <1>1, <4>1 DEF RatedFits
      <4>2. CASE Bought(x) # 0
        <5>1. cell[x].failures > 0
          <6>1. cell[x].status = "PENDING" /\ CellAddsUp(x)
            BY <2>1, <2>5 DEF Buys, CellsAddUp
          <6> QED
            BY <2>3, <4>2, <6>1 DEF CellAddsUp
        <5>2. PICK h \in GauntletsOf(x, children), l \in Legs : children[h].legs[l] = "FAILED"
          BY <5>1 DEF LegsAddUp
        <5>3. ~AllWell(h)
          BY <5>2 DEF AllWell
        <5> QED
          BY <1>1, <5>3 DEF RatedFits
      <4> QED
        BY <4>1, <4>2
    <3> QED
      BY <2>2, <3>1, <3>3, <3>4 DEF RatedFits
  <2> QED
    BY <2>4, <2>5
<1>4. ASSUME NEW w \in Drivers, NEW l \in Legs, NEW outcome \in {"COMPLETED", "FAILED"},
             PlayLeg(w, l, outcome)
      PROVE  \A x \in Cells : RatedFits(x)'
  <2> DEFINE g == drive[w].of
  <2>1. g \in DOMAIN children /\ children[g].legs[l] = "open" /\ DOMAIN children' = DOMAIN children
    BY <1>4, PlayMoves
  <2>2. \A h \in DOMAIN children, k \in Legs :
                 children'[h].legs[k] = IF h = g /\ k = l THEN outcome ELSE children[h].legs[k]
    BY <1>4, PlayMoves
  <2>3. rated' = RatedNow(g[1], children')
    BY <1>4 DEF PlayLeg
  <2> HIDE DEF g
  <2> SUFFICES ASSUME NEW x \in Cells PROVE RatedFits(x)'
    OBVIOUS
  <2>4. /\ GauntletsOf(x, children)' = GauntletsOf(x, children) /\ Bought(x)' = Bought(x)
        /\ GauntletsOf(x, children) \subseteq DOMAIN children
    BY <2>1, SameGauntlets DEF GauntletsOf
  <2>5. CASE x # g[1]
    <3>1. x \in rated' <=> x \in rated
      BY <2>3, <2>5 DEF RatedNow
    <3>2. g \notin GauntletsOf(x, children)
      BY <2>5 DEF GauntletsOf
    <3>3. \A h \in GauntletsOf(x, children), k \in Legs : children'[h].legs[k] = children[h].legs[k]
      BY <2>2, <2>4, <3>2
    <3> QED
      BY <1>1, <2>4, <3>1, <3>3, RatedKept
  <2>6. CASE x = g[1]
    <3>1. g \in GauntletsOf(x, children) /\ ~AllWell(g)
      BY <2>1, <2>6 DEF GauntletsOf, AllWell
    <3>2. x \notin rated
      BY <1>1, <3>1 DEF RatedFits
    <3>3. x \in rated' <=> /\ Cardinality(GauntletsOf(x, children')) = 1
                           /\ \A h \in GauntletsOf(x, children') : \A k \in Legs :
                                 children'[h].legs[k] = "COMPLETED"
      BY <2>3, <2>6, <3>2 DEF RatedNow
    <3>4. GauntletsOf(x, children') = GauntletsOf(x, children)' /\ Cardinality(GauntletsOf(x, children')) = Bought(x)'
      BY DEF GauntletsOf, Bought
    <3> QED
      BY <3>3, <3>4 DEF RatedFits, AllWell
  <2> QED
    BY <2>5, <2>6
<1>5. ASSUME NEW g \in DOMAIN children, NEW s \in {"PENDING", "RUNNING", "COMPLETED"},
             children' = [children EXCEPT ![g].status = s], rated' = rated
      PROVE  \A x \in Cells : RatedFits(x)'
  <2>1. /\ DOMAIN children' = DOMAIN children
        /\ \A h \in DOMAIN children : children'[h].legs = children[h].legs
    BY <1>5, StatusMoves
  <2> QED
    BY <1>2, <1>5, <2>1
<1>6. ASSUME NEW w \in Drivers, NEW yes \in BOOLEAN, FinalizeGauntlet(w, yes)
      PROVE  \A x \in Cells : RatedFits(x)'
  <2>1. drive[w].of \in DOMAIN children
    BY <1>6 DEF FinalizeGauntlet, Drives, CampaignTables, Busy
  <2>2. drive[w].of[1] \in Cells
    BY <2>1 DEF CampaignTables
  <2>3. rated' = RatedNow(drive[w].of[1], children)
    BY <1>6 DEF FinalizeGauntlet
  <2>4. rated' = rated
    BY <1>1, <2>2, <2>3 DEF RatedNow, RatedFits, AllWell, Bought
  <2>5. children' = children \/ children' = [children EXCEPT ![drive[w].of].status = "COMPLETED"]
    BY <1>6 DEF FinalizeGauntlet
  <2> QED
    BY <1>2, <1>5, <2>1, <2>4, <2>5
<1>7. ASSUME NEW w \in Drivers, HaltDrive(w)
      PROVE  \A x \in Cells : RatedFits(x)'
  <2>1. drive[w].of \in DOMAIN children
    BY <1>7 DEF HaltDrive, Drives, CampaignTables, Busy
  <2>2. children' = [children EXCEPT ![drive[w].of].status = "PENDING"] /\ rated' = rated
    BY <1>7 DEF HaltDrive
  <2> QED
    BY <1>5, <2>1, <2>2
<1>8. ASSUME UNCHANGED <<children, rated>>
      PROVE  \A x \in Cells : RatedFits(x)'
  BY <1>2, <1>8
<1>9. \A x \in Cells : RatedFits(x)'
  BY <1>3, <1>4, <1>5, <1>6, <1>7, <1>8 DEF CampaignNext, RecordCellFailure, ClaimGauntlet,
     CompleteCell, DriverDies, RecoverGauntlet, LeaseRunsOut
<1> QED
  BY <1>9 DEF RatedAddsUp, RatedFits

-----------------------------------------------------------------------------
(* The way of a failure to its cell *)

Remembered(g, l) == \E v \in Drivers : drive[v].of = g /\ drive[v].stage = "play" /\ l \in drive[v].failed

PaidFor(g) == cell[g[1]].nth = g[2] => cell[g[1]].status = "DEAD_LETTER"

\* Until a drive is cut short, every step passes a failure on.
LEMMA FailuresStand ==
    ASSUME CampaignTables, CellsAddUp, FailuresReported, CampaignNext
    PROVE  FailuresReported'
<1> USE CampaignAssumption
<1> DEFINE Goal == \A h \in DOMAIN children', k \in Legs :
                      children'[h].legs[k] = "FAILED" => Remembered(h, k)' \/ PaidFor(h)'
<1> SUFFICES ASSUME mishap' \in {"none", "lapse"} PROVE Goal
  BY DEF FailuresReported, Remembered, PaidFor
<1>1. mishap \in {"none", "lapse"}
  <2>1. \/ UNCHANGED mishap
        \/ \E what \in {"lapse", "halt", "death", "overlap"} : GoesWrong(what)
    BY DEF CampaignNext, CampaignTick, RecordCellFailure, FinalizeGauntlet, ClaimGauntlet, PlayLeg,
           HaltDrive, CompleteCell, DriverDies, RecoverGauntlet, LeaseRunsOut
  <2> QED
    BY <2>1 DEF GoesWrong
<1>2. \A h \in DOMAIN children, k \in Legs :
          children[h].legs[k] = "FAILED" => Remembered(h, k) \/ PaidFor(h)
  BY <1>1 DEF FailuresReported, Remembered, PaidFor
<1>3. DOMAIN children \subseteq Cells \X Ordinals
  BY DEF CampaignTables
<1>4. ASSUME UNCHANGED cell, DOMAIN children' = DOMAIN children,
             \A h \in DOMAIN children, k \in Legs : children'[h].legs[k] = "FAILED" =>
                 children[h].legs[k] = "FAILED" \/ Remembered(h, k)',
             \A h \in DOMAIN children, k \in Legs : Remembered(h, k) => Remembered(h, k)'
      PROVE  Goal
  BY <1>2, <1>4 DEF PaidFor
<1>5. ASSUME NEW w \in Drivers, NEW yes \in BOOLEAN, CampaignTick(w, yes)
      PROVE  Goal
  <2>1. PICK batch \in SUBSET Cells : Buys(batch)
    BY <1>5, TickBuys
  <2>2. UNCHANGED drive
    BY <2>1 DEF Buys
  <2> SUFFICES ASSUME NEW h \in DOMAIN children', NEW k \in Legs, children'[h].legs[k] = "FAILED"
               PROVE  Remembered(h, k)' \/ PaidFor(h)'
    OBVIOUS
  <2>3. h \in DOMAIN children /\ children'[h] = children[h]
    BY <2>1 DEF Buys
  <2>4. CASE Remembered(h, k)
    BY <2>2, <2>4 DEF Remembered
  <2>5. CASE PaidFor(h)
    <3>1. PICK x \in Cells : x = h[1]
      BY <1>3, <2>3
    <3>2. CASE x \in batch
      <4>1. h \in GauntletsOf(x, children)
        BY <2>3, <3>1 DEF GauntletsOf
      <4>2. h[2] =< Bought(x) /\ Bought(x) \in Nat /\ h[2] \in Nat
        BY <1>3, <2>1, <2>3, <4>1, BuysCount DEF CellsAddUp, CellAddsUp, Ordinals
      <4>3. cell'[x].nth = Bought(x) + 1
        BY <2>1, <3>2 DEF Buys
      <4> QED
        BY <3>1, <4>2, <4>3 DEF PaidFor
    <3>3. CASE cell'[x] = cell[x]
      BY <2>5, <3>1, <3>3 DEF PaidFor
    <3>4. CASE cell[x].status = "MATERIALIZED" /\ cell'[x] = [cell[x] EXCEPT !.status = "COMPLETED"]
      <4>1. cell'[x].nth = cell[x].nth
        BY <3>4 DEF CampaignTables, CellRows
      <4> QED
        BY <2>5, <3>1, <3>4, <4>1 DEF PaidFor
    <3> QED
      BY <2>1, <3>2, <3>3, <3>4 DEF Buys
  <2> QED
    BY <1>2, <2>3, <2>4, <2>5
<1>6. ASSUME NEW w \in Drivers, NEW yes \in BOOLEAN, RecordCellFailure(w, yes)
      PROVE  Goal
  <2>1. UNCHANGED children /\ Drives(w, "play", "finalize")
    BY <1>6 DEF RecordCellFailure
  <2>2. \A v \in Drivers : v # w => drive'[v] = drive[v]
    BY <2>1, DrivesOn
  <2> SUFFICES ASSUME NEW h \in DOMAIN children, NEW k \in Legs, children[h].legs[k] = "FAILED"
               PROVE  Remembered(h, k)' \/ PaidFor(h)'
    BY <2>1
  <2>3. PICK x \in Cells : x = h[1] /\ h[2] # 0
    BY <1>3 DEF Ordinals
  <2>4. CASE Remembered(h, k)
    <3>1. PICK v \in Drivers : drive[v].of = h /\ drive[v].stage = "play" /\ k \in drive[v].failed
      BY <2>4 DEF Remembered
    <3>2. CASE v # w
      BY <2>2, <3>1, <3>2 DEF Remembered
    <3>3. CASE v = w
      <4>1. cell'[x].nth = h[2] => cell'[x].status = "DEAD_LETTER"
        BY <1>6, <2>3, <3>1, <3>3, RecordMoves
      <4> QED
        BY <2>3, <4>1 DEF PaidFor
    <3> QED
      BY <3>2, <3>3
  <2>5. CASE PaidFor(h)
    <3>1. CASE cell'[x] = cell[x]
      BY <2>3, <2>5, <3>1 DEF PaidFor
    <3>2. CASE cell'[x] # cell[x]
      <4>1. \/ cell'[x].status = "DEAD_LETTER"
            \/ cell'[x].nth = 0
        BY <1>6, <3>2, RecordMoves
      <4> QED
        BY <2>3, <4>1 DEF PaidFor
    <3> QED
      BY <3>1, <3>2
  <2> QED
    BY <1>2, <2>4, <2>5
<1>7. ASSUME NEW w \in Drivers, NEW yes \in BOOLEAN, FinalizeGauntlet(w, yes)
      PROVE  Goal
  <2>1. UNCHANGED cell /\ drive[w].of \in DOMAIN children /\ drive[w].stage = "finalize"
    BY <1>7 DEF FinalizeGauntlet, Drives, CampaignTables, Busy
  <2>2. /\ DOMAIN children' = DOMAIN children
        /\ \A h \in DOMAIN children : children'[h].legs = children[h].legs
    <3>1. children' = children \/ children' = [children EXCEPT ![drive[w].of].status = "COMPLETED"]
      BY <1>7 DEF FinalizeGauntlet
    <3> QED
      BY <2>1, <3>1, StatusMoves
  <2>3. \A v \in Drivers : v # w => drive'[v] = drive[v]
    BY <1>7 DEF FinalizeGauntlet, Drives, CampaignTables
  <2>4. \A h \in DOMAIN children, k \in Legs : Remembered(h, k) => Remembered(h, k)'
    BY <2>1, <2>3 DEF Remembered
  <2> HIDE DEF Goal
  <2> QED
    BY <1>4, <2>1, <2>2, <2>4
<1>8. ASSUME NEW w \in Drivers, NEW g \in DOMAIN children, ClaimGauntlet(w, g)
      PROVE  Goal
  <2>1. /\ UNCHANGED cell /\ drive[w] = Nothing
        /\ children' = [children EXCEPT ![g].status = "RUNNING"]
    BY <1>8 DEF ClaimGauntlet
  <2>2. /\ DOMAIN children' = DOMAIN children
        /\ \A h \in DOMAIN children : children'[h].legs = children[h].legs
    BY <2>1, StatusMoves
  <2>3. \A v \in Drivers : v # w => drive'[v] = drive[v]
    BY <1>8 DEF ClaimGauntlet, CampaignTables
  <2>4. \A h \in DOMAIN children, k \in Legs : Remembered(h, k) => Remembered(h, k)'
    BY <2>1, <2>3 DEF Remembered, Nothing
  <2> HIDE DEF Goal
  <2> QED
    BY <1>4, <2>1, <2>2, <2>4
<1>9. ASSUME NEW w \in Drivers, NEW l \in Legs, NEW outcome \in {"COMPLETED", "FAILED"},
             PlayLeg(w, l, outcome)
      PROVE  Goal
  <2>1. UNCHANGED cell
    BY <1>9 DEF PlayLeg
  <2>2. /\ drive[w].stage = "play" /\ DOMAIN children' = DOMAIN children
        /\ \A h \in DOMAIN children, k \in Legs :
              children'[h].legs[k] = IF h = drive[w].of /\ k = l THEN outcome ELSE children[h].legs[k]
    BY <1>9, PlayMoves
  <2>3. \A v \in Drivers : /\ drive'[v].of = drive[v].of /\ drive'[v].stage = drive[v].stage
                           /\ v # w => drive'[v].failed = drive[v].failed
    BY <1>9, PlayMoves
  <2>4. /\ outcome = "FAILED" => drive'[w].failed = drive[w].failed \cup {l}
        /\ outcome # "FAILED" => drive'[w].failed = drive[w].failed
    BY <1>9, PlayMoves
  <2>5. drive[w].failed \subseteq drive'[w].failed
    BY <2>4
  <2>6. \A h \in DOMAIN children, k \in Legs : Remembered(h, k) => Remembered(h, k)'
    BY <2>3, <2>5 DEF Remembered
  <2>7. ASSUME NEW h \in DOMAIN children, NEW k \in Legs, children'[h].legs[k] = "FAILED"
        PROVE  children[h].legs[k] = "FAILED" \/ Remembered(h, k)'
    <3>1. CASE h = drive[w].of /\ k = l
      <4>1. outcome = "FAILED"
        BY <2>2, <2>7, <3>1
      <4> QED
        BY <2>2, <2>3, <2>4, <3>1, <4>1 DEF Remembered
    <3>2. CASE ~(h = drive[w].of /\ k = l)
      BY <2>2, <2>7, <3>2
    <3> QED
      BY <3>1, <3>2
  <2> HIDE DEF Goal
  <2> QED
    BY <1>4, <2>1, <2>2, <2>6, <2>7
<1>10. ASSUME NEW w \in Drivers, CompleteCell(w)
       PROVE  Goal
  <2>1. UNCHANGED children /\ drive[w].stage = "report"
    BY <1>10 DEF CompleteCell, Drives
  <2>2. \A v \in Drivers : v # w => drive'[v] = drive[v]
    BY <1>10 DEF CompleteCell, Drives, CampaignTables
  <2>3. \A h \in DOMAIN children, k \in Legs : Remembered(h, k) => Remembered(h, k)'
    BY <2>1, <2>2 DEF Remembered
  <2>4. ASSUME NEW h \in DOMAIN children, PaidFor(h)
        PROVE  PaidFor(h)'
    <3>1. PICK x \in Cells : x = h[1]
      BY <1>3
    <3>2. CASE cell'[x] = cell[x]
      BY <2>4, <3>1, <3>2 DEF PaidFor
    <3>3. CASE cell'[x] # cell[x]
      <4>1. cell[x].status = "MATERIALIZED" /\ cell'[x].nth = cell[x].nth
        BY <1>10, <3>3, CompleteMoves
      <4> QED
        BY <2>4, <3>1, <4>1 DEF PaidFor
    <3> QED
      BY <3>2, <3>3
  <2> QED
    BY <1>2, <2>1, <2>3, <2>4
<1>11. ASSUME NEW g \in DOMAIN children, RecoverGauntlet(g)
       PROVE  Goal
  <2>1. /\ UNCHANGED <<cell, drive>>
        /\ children' = [children EXCEPT ![g].status = "PENDING"]
    BY <1>11 DEF RecoverGauntlet
  <2>2. /\ DOMAIN children' = DOMAIN children
        /\ \A h \in DOMAIN children : children'[h].legs = children[h].legs
    BY <2>1, StatusMoves
  <2>3. \A h \in DOMAIN children, k \in Legs : Remembered(h, k) => Remembered(h, k)'
    BY <2>1 DEF Remembered
  <2> HIDE DEF Goal
  <2> QED
    BY <1>4, <2>1, <2>2, <2>3
<1>12. ASSUME NEW c \in CampaignIds, LeaseRunsOut(c)
       PROVE  Goal
  <2>1. UNCHANGED <<cell, drive, children>>
    BY <1>12 DEF LeaseRunsOut
  <2> QED
    BY <1>2, <2>1 DEF Remembered, PaidFor
<1>13. ASSUME NEW w \in Drivers, HaltDrive(w) \/ DriverDies(w)
       PROVE  FALSE
  BY <1>13 DEF HaltDrive, DriverDies, GoesWrong
<1> HIDE DEF Goal
<1> QED
  BY <1>5, <1>6, <1>7, <1>8, <1>9, <1>10, <1>11, <1>12, <1>13 DEF CampaignNext

-----------------------------------------------------------------------------
(* The theorems *)

\* The programme's state when it starts, before any tick
LEMMA CampaignsStart == CampaignInit => CampaignInv
<1> USE CampaignAssumption
<1> SUFFICES ASSUME CampaignInit PROVE CampaignInv
  OBVIOUS
<1>1. /\ DOMAIN children = {} /\ rated = {} /\ mishap = "none"
      /\ drive \in [Drivers -> {Nothing}]
      /\ \A x \in Cells : cell[x] = [status |-> "PENDING", nth |-> 0, failures |-> 0]
      /\ \A c \in CampaignIds : campaign[c].status = "PENDING"
  BY DEF CampaignInit
<1>2. Nothing \in DriveRows /\ Nothing.stage = "idle"
  BY DEF Nothing, DriveRows
<1>3. CampaignTables
  <2>1. campaign \in [CampaignIds -> CampaignRows]
    BY DEF CampaignInit, CampaignRows
  <2>2. cell \in [Cells -> CellRows]
    BY DEF CampaignInit, CellRows
  <2>3. children \in [DOMAIN children -> GauntletRows]
    BY <1>1 DEF CampaignInit
  <2> QED
    BY <1>1, <1>2, <2>1, <2>2, <2>3 DEF CampaignTables, Busy
<1>4. \A x \in Cells : GauntletsOf(x, children) = {} /\ Bought(x) = 0 /\ IsFiniteSet(GauntletsOf(x, children))
  <2>1. \A x \in Cells : GauntletsOf(x, children) = {}
    BY <1>1 DEF GauntletsOf
  <2> QED
    BY <2>1, FS_EmptySet DEF Bought
<1>5. CellsAddUp
  BY <1>1, <1>4 DEF CellsAddUp, CellAddsUp
<1>6. DrivenAlone /\ DoneCellsAreDone /\ DoneCampaignsAreDone
  <2>1. \A w \in Drivers : ~Busy(w)
    BY <1>1, <1>2 DEF Busy
  <2>2. DrivenAlone
    BY <2>1 DEF DrivenAlone
  <2>3. \A x \in Cells : cell[x].status = "PENDING"
    BY <1>1
  <2>4. DoneCellsAreDone
    BY <2>3 DEF DoneCellsAreDone
  <2>5. DoneCampaignsAreDone
    BY <1>1 DEF DoneCampaignsAreDone
  <2> QED
    BY <2>2, <2>4, <2>5
<1>7. LegsAddUp
  <2>1. \A w \in Drivers : ~Busy(w)
    BY <1>1, <1>2 DEF Busy
  <2>2. \A x \in Cells : ~(cell[x].failures > 0)
    BY <1>1
  <2> QED
    BY <1>1, <2>1, <2>2 DEF LegsAddUp
<1>8. RatedAddsUp
  BY <1>1, <1>4 DEF RatedAddsUp
<1>9. FailuresReported
  BY <1>1 DEF FailuresReported
<1> QED
  BY <1>3, <1>5, <1>6, <1>7, <1>8, <1>9 DEF CampaignInv

\* No step of a driver, a tick or a mishap leads out of the invariant.
LEMMA CampaignsStep == CampaignInv /\ [CampaignNext]_campaignVars => CampaignInv'
<1> SUFFICES ASSUME CampaignInv, [CampaignNext]_campaignVars PROVE CampaignInv'
  OBVIOUS
<1>1. CASE CampaignNext
  BY <1>1, TablesStand, DoneStands, LegsStand, RatedStands, FailuresStand DEF CampaignInv
<1>2. CASE UNCHANGED campaignVars
  <2>1. CampaignTables' /\ DrivenAlone' /\ DoneCellsAreDone' /\ DoneCampaignsAreDone'
    BY <1>2 DEF campaignVars, CampaignInv, CampaignTables, DrivenAlone, DoneCellsAreDone,
       DoneCampaignsAreDone, Busy
  <2>2. \A x : GauntletsOf(x, children)' = GauntletsOf(x, children) /\ Bought(x)' = Bought(x)
    BY <1>2, SameGauntlets DEF campaignVars
  <2>3. CellsAddUp'
    BY <1>2, StillAddsUp DEF campaignVars, CampaignInv
  <2>4. LegsAddUp'
    BY <1>2, <2>2 DEF campaignVars, CampaignInv, LegsAddUp, Busy, OpenLegs
  <2>5. RatedAddsUp'
    BY <1>2, <2>2 DEF campaignVars, CampaignInv, RatedAddsUp, AllWell
  <2>6. FailuresReported'
    BY <1>2 DEF campaignVars, CampaignInv, FailuresReported
  <2> QED
    BY <2>1, <2>3, <2>4, <2>5, <2>6 DEF CampaignInv
<1> QED
  BY <1>1, <1>2

\* Whatever goes wrong, the rows of campaigns, cells and gauntlets agree: with each other
\* always, and with the drivers as far as nothing cut a drive short.
THEOREM CampaignsInvariant == CampaignSpec => []CampaignInv
BY CampaignsStart, CampaignsStep, PTL DEF CampaignSpec

\* Any number of drivers may tick, claim, halt, die and be taken for dead: a cell is not
\* bought twice (CampaignResultsStand), a finished campaign has only terminal cells, and a
\* completed cell was played to its end and is rated if its first gauntlet did it.
THEOREM ResultsAlwaysStand == CampaignSpec => []CampaignResultsStand
<1> USE CampaignAssumption
<1>1. CampaignInv => CampaignResultsStand
  <2> SUFFICES ASSUME CampaignInv PROVE CampaignResultsStand
    OBVIOUS
  <2> USE DEF CampaignInv
  <2>1. ASSUME NEW x \in Cells
        PROVE  /\ Bought(x) =< cell[x].failures + 1
               /\ Bought(x) =< CellAttempts
    <3>1. CellAddsUp(x) /\ cell[x] \in CellRows
      BY DEF CellsAddUp, CampaignTables
    <3>2. cell[x].failures \in 0..CellAttempts
      BY <3>1 DEF CellRows
    <3> QED
      BY <3>1, <3>2 DEF CellAddsUp
  <2>2. mishap # "overlap" =>
          \A c \in CampaignIds : campaign[c].status = "COMPLETED" =>
              \A x \in CellsOf(c) : TerminalCell(cell[x])
    BY DEF DoneCampaignsAreDone
  <2>3. ASSUME mishap \in {"none", "lapse"}, NEW x \in Cells, cell[x].status = "COMPLETED"
        PROVE  /\ \A l \in Legs : children[<<x, cell[x].nth>>].legs[l] = "COMPLETED"
               /\ x \in rated <=> cell[x].nth = 1
    <3>1. PICK g : g = <<x, cell[x].nth>>
      OBVIOUS
    <3>2. g \in DOMAIN children /\ cell[x].nth = Bought(x) /\ IsFiniteSet(GauntletsOf(x, children))
      BY <2>3, <3>1 DEF CellsAddUp, CellAddsUp
    <3>3. children[g].status = "COMPLETED"
      BY <2>3, <3>1 DEF DoneCellsAreDone
    <3>4. \A l \in Legs : children[g].legs[l] # "open"
      BY <3>2, <3>3 DEF LegsAddUp, OpenLegs
    <3>5. \A w \in Drivers : ~(drive[w].of = g /\ drive[w].stage = "play")
      BY <2>3, <3>3 DEF DrivenAlone, Busy
    <3>6. \A l \in Legs : children[g].legs[l] # "FAILED"
      BY <2>3, <3>1, <3>2, <3>5 DEF FailuresReported
    <3>7. children[g].legs \in [Legs -> {"open", "COMPLETED", "FAILED"}]
      BY <3>2 DEF CampaignTables, GauntletRows
    <3>8. AllWell(g)
      BY <3>4, <3>6, <3>7 DEF AllWell
    <3>9. ASSUME Bought(x) = 1 PROVE \A h \in GauntletsOf(x, children) : AllWell(h)
      <4>1. g \in GauntletsOf(x, children)
        BY <3>1, <3>2 DEF GauntletsOf
      <4>2. PICK h \in GauntletsOf(x, children) : GauntletsOf(x, children) = {h}
        BY <3>2, <3>9, <4>1, FS_Singleton DEF Bought
      <4> QED
        BY <3>8, <4>1, <4>2
    <3>10. x \in rated <=> Bought(x) = 1
      BY <3>9 DEF RatedAddsUp
    <3> QED
      BY <3>1, <3>2, <3>8, <3>10 DEF AllWell
  <2> QED
    BY <2>1, <2>2, <2>3 DEF CampaignResultsStand, Bought
<1> QED
  BY <1>1, CampaignsInvariant, PTL

=============================================================================
