---------------------------- MODULE GameHistory ----------------------------
(***************************************************************************)
(* What a durable benchmark game promises, whatever crashes and retries    *)
(* happen underneath: its phases are resolved one after the other, each    *)
(* once and for ever, and it is closed, with the verdict of the last       *)
(* resolved phase, with a draw when the schedule has run out, or as        *)
(* FAILED.  A closed game stays as it is, but for an exception that comes  *)
(* after the end, which may leave it FAILED: it is closed without asking   *)
(* how it ended.                                                           *)
(***************************************************************************)
EXTENDS Integers, Sequences

CONSTANTS
    Phases,     \* how many phases the schedule has
    Verdicts,   \* what check_win can say of the board after a phase
    Undecided   \* its None

VARIABLES
    history,    \* the verdict that each resolved phase left, in order
    closed,     \* the winner, "DRAW", "FAILED", or Undecided while the game is open
    disturbed   \* how many exceptions came after the end

HInit == history = <<>> /\ closed = Undecided /\ disturbed = 0

PlayPhase ==
    /\ closed = Undecided
    /\ Len(history) < Phases
    /\ \E verdict \in Verdicts : history' = Append(history, verdict)
    /\ UNCHANGED <<closed, disturbed>>

Win ==
    /\ closed = Undecided
    /\ history # <<>>
    /\ history[Len(history)] # Undecided
    /\ closed' = history[Len(history)]
    /\ UNCHANGED <<history, disturbed>>

Draw ==
    /\ closed = Undecided
    /\ Len(history) = Phases
    /\ closed' = "DRAW"
    /\ UNCHANGED <<history, disturbed>>

GiveUp ==
    /\ closed = Undecided
    /\ closed' = "FAILED"
    /\ UNCHANGED <<history, disturbed>>

Disturb ==
    /\ closed # Undecided
    /\ disturbed' = disturbed + 1
    /\ closed' \in {closed, "FAILED"}
    /\ UNCHANGED history

HNext == PlayPhase \/ Win \/ Draw \/ GiveUp \/ Disturb

HSpec == HInit /\ [][HNext]_<<history, closed, disturbed>>
=============================================================================
