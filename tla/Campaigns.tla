------------------------------ MODULE Campaigns ------------------------------
(***************************************************************************)
(* Benchmark campaigns: the cells of db/repositories/campaigns.py, the     *)
(* tick of scheduler/campaign_tick.py that turns them into gauntlets, and  *)
(* what _drive_gauntlet of runner/scheduler.py reports back to them.       *)
(*                                                                         *)
(* A tick is one transaction over the campaign it has locked.  A drive is  *)
(* GauntletScheduler's with its parts taken together: its children come    *)
(* back, then failures, pair rating, finalization and the cell commit one  *)
(* after the other.  A cell's gauntlet has one mirror pair of games; the   *)
(* pair id is derived from the campaign's seed and the cell's index, so    *)
(* all gauntlets of a cell share it.                                       *)
(***************************************************************************)
EXTENDS Integers, FiniteSets

CONSTANTS
    Drivers,        \* scheduler processes
    CampaignIds,    \* numbered by created_at
    Cells,          \* cell indexes
    CampaignOf,     \* cell -> its campaign
    BatchSize,      \* padrino_campaign_materialize_batch_size
    CellAttempts,   \* padrino_campaign_cell_max_attempts
    MaxTrouble      \* bound: games that are dead-lettered, and mishaps, of which one may happen

NoDriver == "no driver"

ASSUME CampaignAssumption ==
    /\ NoDriver \notin Drivers
    /\ CampaignIds \subseteq Nat /\ Cells \subseteq Nat
    /\ CampaignOf \in [Cells -> CampaignIds]
    /\ {BatchSize, CellAttempts} \subseteq Nat \ {0}
    /\ MaxTrouble \in Nat

VARIABLES
    campaign,       \* campaign -> its row: status, holder of the lease, leased until it expires
    cell,           \* cell -> its row: status, nth (the attempt whose gauntlet it points to, 0
                    \* for none), failures (attempt_count)
    children,       \* <<cell, n>> -> the n-th gauntlet of the cell: status, and a status per leg
    rated,          \* cells whose mirror pair has rating events
    drive,          \* driver -> what it drives, how far it is, the legs it dead-lettered
    mishap          \* the budget halted a drive, its process died, its gauntlet was taken for
                    \* stale while it was driven, or a campaign's lease ran out

campaignVars == <<campaign, cell, children, rated, drive, mishap>>

Legs == {0, 1}

Nothing == [of |-> <<0, 0>>, stage |-> "idle", failed |-> {}]

CampaignInit ==
    /\ campaign = [c \in CampaignIds |-> [status |-> "PENDING", holder |-> NoDriver, leased |-> FALSE]]
    /\ cell = [x \in Cells |-> [status |-> "PENDING", nth |-> 0, failures |-> 0]]
    /\ children = [g \in {} |-> 0]
    /\ rated = {}
    /\ drive = [w \in Drivers |-> Nothing]
    /\ mishap = "none"

CellsOf(c) == {x \in Cells : CampaignOf[x] = c}

GauntletsOf(x, table) == {g \in DOMAIN table : g[1] = x}

TerminalCell(row) == row.status \in {"COMPLETED", "DEAD_LETTER"}

FailedLegs == {p \in (DOMAIN children) \X Legs : children[p[1]].legs[p[2]] = "FAILED"}

Trouble == Cardinality(FailedLegs) + (IF mishap = "none" THEN 0 ELSE 1)

GoesWrong(kind) == mishap = "none" /\ Trouble < MaxTrouble /\ mishap' = kind

-----------------------------------------------------------------------------
\* The tick

Freed == [status |-> "PENDING", holder |-> NoDriver, leased |-> FALSE]

\* reset_stale_campaigns
ResetStaleCampaigns ==
    [c \in CampaignIds |-> IF campaign[c].status = "RUNNING" /\ ~campaign[c].leased
                           THEN Freed ELSE campaign[c]]

\* claim_or_heartbeat_campaign: a driver's own campaign before any other, then the oldest
Runnable(w, table) ==
    {c \in CampaignIds : \/ table[c].status = "PENDING"
                         \/ table[c].status = "RUNNING" /\ table[c].holder = w}

Before(w, table) ==
    LET Own(c) == table[c].status = "RUNNING"
    IN  [c \in Runnable(w, table) |-> {d \in Runnable(w, table) :
            (Own(d) /\ ~Own(c)) \/ ((Own(d) <=> Own(c)) /\ d < c)}]

PendingCells(c) == {x \in CellsOf(c) : cell[x].status = "PENDING"}

\* materialize_next_batch
NextBatch(c) == {x \in PendingCells(c) : Cardinality({y \in PendingCells(c) : y < x}) < BatchSize}

Materialized_Slip(batch) ==
    [x \in Cells |-> IF x \in batch THEN [cell[x] EXCEPT !.nth = Cardinality(GauntletsOf(x, children)) + 1]
                                    ELSE cell[x]]

Materialized(batch) ==
    [x \in Cells |-> IF x \in batch
                     THEN [cell[x] EXCEPT !.status = "MATERIALIZED",
                                          !.nth = Cardinality(GauntletsOf(x, children)) + 1]
                     ELSE cell[x]]

\* create_paired_gauntlet
WithGauntlets(batch, rows) ==
    [g \in DOMAIN children \cup {<<x, rows[x].nth>> : x \in batch} |->
        IF g \in DOMAIN children THEN children[g]
        ELSE [status |-> "PENDING", legs |-> [l \in Legs |-> "open"]]]

\* reconcile_completed_materialized_cells
Reconciled(c, rows) ==
    [x \in Cells |-> IF /\ x \in CellsOf(c) /\ rows[x].status = "MATERIALIZED"
                        /\ <<x, rows[x].nth>> \in DOMAIN children
                        /\ children[<<x, rows[x].nth>>].status = "COMPLETED"
                     THEN [rows[x] EXCEPT !.status = "COMPLETED"] ELSE rows[x]]

\* finalize_campaign_if_done
Finalized(c, table, rows) ==
    IF /\ table[c].status # "COMPLETED"
       /\ CellsOf(c) # {}
       /\ \A x \in CellsOf(c) : TerminalCell(rows[x])
    THEN [table EXCEPT ![c] = [status |-> "COMPLETED", holder |-> NoDriver, leased |-> FALSE]]
    ELSE table

\* run_campaign_tick: campaigns before c, and c unless it is admitted, are paused for want of
\* budget.
CampaignTick(w, admitted) ==
    /\ drive[w] = Nothing
    /\ LET reset == ResetStaleCampaigns
       IN  \E c \in Runnable(w, reset) :
             LET denied == Before(w, reset)[c] \cup (IF admitted THEN {} ELSE {c})
                 table == [d \in CampaignIds |->
                     IF d \in denied THEN Freed
                     ELSE IF d = c THEN [status |-> "RUNNING", holder |-> w, leased |-> TRUE]
                     ELSE reset[d]]
                 batch == IF admitted THEN NextBatch(c) ELSE {}
                 rows == Reconciled(c, Materialized(batch))
             IN  IF admitted
                 THEN /\ cell' = rows
                      /\ children' = WithGauntlets(batch, rows)
                      /\ campaign' = Finalized(c, table, rows)
                 ELSE campaign' = table /\ UNCHANGED <<cell, children>>
    /\ UNCHANGED <<rated, drive, mishap>>

LeaseRunsOut(c) ==
    /\ campaign[c].leased
    /\ GoesWrong("lapse")
    /\ campaign' = [campaign EXCEPT ![c].leased = FALSE]
    /\ UNCHANGED <<cell, children, rated, drive>>

-----------------------------------------------------------------------------
\* The drive of a child gauntlet

Drives(w, from, to) ==
    /\ drive[w].stage = from
    /\ drive' = [drive EXCEPT ![w] = IF to = "idle" THEN Nothing ELSE [@ EXCEPT !.stage = to]]

\* claim_oldest_pending; the order of creation is left open
ClaimGauntlet(w, g) ==
    /\ drive[w] = Nothing
    /\ children[g].status = "PENDING"
    /\ children' = [children EXCEPT ![g].status = "RUNNING"]
    /\ drive' = [drive EXCEPT ![w] = [of |-> g, stage |-> "play", failed |-> {}]]
    /\ UNCHANGED <<campaign, cell, rated, mishap>>

\* update_ratings_for_completed_pair: a pair is the two games that carry its id.
RatedNow(x, table) ==
    IF /\ Cardinality(GauntletsOf(x, table)) = 1
       /\ \A g \in GauntletsOf(x, table) : \A l \in Legs : table[g].legs[l] = "COMPLETED"
    THEN rated \cup {x} ELSE rated

\* A child ends well, and rates the pair with its own terminal write if it is the second
\* leg; or it is dead-lettered.
PlayLeg(w, l, outcome) ==
    LET g == drive[w].of
    IN  /\ drive[w].stage = "play"
        /\ children[g].legs[l] = "open"
        /\ outcome = "FAILED" => Trouble < MaxTrouble
        /\ children' = [children EXCEPT ![g].legs[l] = outcome]
        /\ drive' = IF outcome = "FAILED" THEN [drive EXCEPT ![w].failed = @ \cup {l}] ELSE drive
        /\ rated' = RatedNow(g[1], children')
        /\ UNCHANGED <<campaign, cell, mishap>>

OpenLegs(g) == {l \in Legs : children[g].legs[l] = "open"}

\* The budget halts a child: the gauntlet goes back, and the failures are forgotten.
HaltDrive(w) ==
    /\ Drives(w, "play", "idle")
    /\ OpenLegs(drive[w].of) # {}
    /\ children' = [children EXCEPT ![drive[w].of].status = "PENDING"]
    /\ GoesWrong("halt")
    /\ UNCHANGED <<campaign, cell, rated>>

PointsTo(x, g) == g = <<x, cell[x].nth>>

\* All children are back - one that is leased to another process, or to a dead one, comes
\* back as if it had gone well - and record_materialized_cell_failure.
RecordCellFailure(w, poison) ==
    /\ Drives(w, "play", "finalize")
    /\ OpenLegs(drive[w].of) = {} \/ mishap \in {"death", "overlap"}
    /\ drive[w].failed = {} => ~poison
    /\ cell' = [x \in Cells |->
          IF drive[w].failed = {} \/ ~PointsTo(x, drive[w].of) \/ cell[x].status = "DEAD_LETTER"
          THEN cell[x]
          ELSE IF poison \/ cell[x].failures + 1 >= CellAttempts
          THEN [cell[x] EXCEPT !.failures = @ + 1, !.status = "DEAD_LETTER"]
          ELSE [status |-> "PENDING", nth |-> 0, failures |-> cell[x].failures + 1]]
    /\ UNCHANGED <<campaign, children, rated, mishap>>

\* _rate_completed_pairs_for_gauntlet, and then finalize_gauntlet_if_done: the balance gate,
\* asked only if no child failed, may refuse.
FinalizeGauntlet(w, balanced) ==
    LET g == drive[w].of
        failed == \E l \in Legs : children[g].legs[l] = "FAILED"
        done == OpenLegs(g) = {} /\ (failed \/ balanced)
    IN  /\ Drives(w, "finalize", IF done THEN "report" ELSE "idle")
        /\ children' = IF done THEN [children EXCEPT ![g].status = "COMPLETED"] ELSE children
        /\ rated' = RatedNow(g[1], children)
        /\ UNCHANGED <<campaign, cell, mishap>>

\* mark_materialized_cell_completed and finalize_campaign_if_done, in one transaction
CompleteCell(w) ==
    LET g == drive[w].of
    IN  /\ Drives(w, "report", "idle")
        /\ cell' = [x \in Cells |->
              IF PointsTo(x, g) /\ cell[x].status = "MATERIALIZED"
              THEN [cell[x] EXCEPT !.status = "COMPLETED"] ELSE cell[x]]
        /\ campaign' = IF PointsTo(g[1], g) THEN Finalized(CampaignOf[g[1]], campaign, cell') ELSE campaign
        /\ UNCHANGED <<children, rated, mishap>>

DriverDies(w) ==
    /\ drive[w] # Nothing
    /\ GoesWrong("death")
    /\ drive' = [drive EXCEPT ![w] = Nothing]
    /\ UNCHANGED <<campaign, cell, children, rated>>

Driven(g) == \E w \in Drivers : drive[w].of = g

\* _recover_stale_running, by a process that starts
RecoverGauntlet(g) ==
    /\ children[g].status = "RUNNING"
    /\ IF Driven(g) THEN GoesWrong("overlap") ELSE UNCHANGED mishap
    /\ children' = [children EXCEPT ![g].status = "PENDING"]
    /\ UNCHANGED <<campaign, cell, rated, drive>>

CampaignNext ==
    \/ \E w \in Drivers :
          \/ \E yes \in BOOLEAN :
                CampaignTick(w, yes) \/ RecordCellFailure(w, yes) \/ FinalizeGauntlet(w, yes)
          \/ \E g \in DOMAIN children : ClaimGauntlet(w, g)
          \/ \E l \in Legs, outcome \in {"COMPLETED", "FAILED"} : PlayLeg(w, l, outcome)
          \/ HaltDrive(w) \/ CompleteCell(w) \/ DriverDies(w)
    \/ \E g \in DOMAIN children : RecoverGauntlet(g)
    \/ \E c \in CampaignIds : LeaseRunsOut(c)

CampaignSpec == CampaignInit /\ [][CampaignNext]_campaignVars

-----------------------------------------------------------------------------
CampaignRows == [status : {"PENDING", "RUNNING", "COMPLETED"},
                 holder : Drivers \cup {NoDriver}, leased : BOOLEAN]

CellRows == [status : {"PENDING", "MATERIALIZED", "COMPLETED", "DEAD_LETTER"},
             nth : 0..CellAttempts, failures : 0..CellAttempts]

CampaignTypeOK ==
    /\ campaign \in [CampaignIds -> CampaignRows]
    /\ cell \in [Cells -> CellRows]
    /\ \A g \in DOMAIN children : children[g].legs \in [Legs -> {"open", "COMPLETED", "FAILED"}]
    /\ \A w \in Drivers : drive[w].stage \in {"idle", "play", "finalize", "report"}

\* A cell is never bought twice: it gets one gauntlet more than it has failed, whichever
\* drivers tick at once, lose their campaign's lease, are halted or die between two reports.
\* A finished campaign has only terminal cells.  A cell that completed was played to its end,
\* and its pair counts for the ratings exactly if it needed no second gauntlet - unless a
\* drive was halted or died before it had reported, or two drives of a gauntlet overlapped.
CampaignResultsStand ==
    /\ \A x \in Cells :
          /\ Cardinality(GauntletsOf(x, children)) =< cell[x].failures + 1
          /\ Cardinality(GauntletsOf(x, children)) =< CellAttempts
    /\ mishap # "overlap" =>
          \A c \in CampaignIds : campaign[c].status = "COMPLETED" =>
              \A x \in CellsOf(c) : TerminalCell(cell[x])
    /\ mishap \in {"none", "lapse"} =>
          \A x \in Cells : cell[x].status = "COMPLETED" =>
              /\ \A l \in Legs : children[<<x, cell[x].nth>>].legs[l] = "COMPLETED"
              /\ x \in rated <=> cell[x].nth = 1
=============================================================================
