------------------------------ MODULE GameLoop ------------------------------
(***************************************************************************)
(* drive_game_loop of runner/game_runner.py, live (no crash), with the     *)
(* reducer that folds every emitted event into the game state.             *)
(*                                                                         *)
(* One pass of the loop is: start the phase, run the tick (one answer per  *)
(* eligible seat), emit the submissions, emit the resolution and           *)
(* PhaseResolved, check the win conditions.  The control that the code     *)
(* keeps in its program counter is the variable stage.                     *)
(***************************************************************************)
EXTENDS NightMatrix, Sequences

CONSTANTS
    Games,      \* the games that may be configured: [role, conditions] records, the role
                \* assignment that the seed produces and the ruleset's win conditions
    ShotCap     \* JANITOR_CLEAN_SHOT_CAP = FRAMER_FRAME_SHOT_CAP

Condition ==
    [kind : {"TARGET_FACTIONS_ELIMINATED", "FACTION_PARITY", "SOLO_LAST_ALIVE",
             "ALT_TRIGGER", "DAY_CAP"},
     winner : Faction \cup {"DRAW"}, factions : SUBSET Faction,
     opponents : SUBSET Faction, blockedBy : SUBSET Faction]

ASSUME GamesAssumption ==
    /\ Games \subseteq [role : [Players -> Role], conditions : Seq(Condition)]
    /\ ShotCap \in Nat

VARIABLES
    st,         \* the folded GameState
    cur,        \* the local current_phase of the loop
    stage,      \* where the loop is
    responses,  \* seats that answered this tick -> Action
    outcome     \* GameTerminated's winner, the phase it is stamped with, or Undecided

vars == <<st, cur, stage, responses, outcome>>

Stage == {"setup", "start", "tick", "resolve", "check", "done"}

Setup == Phase("SETUP", 0, 0)

PhaseSpace == [kind : PhaseKind, day : 0..MaxDays, round : 0..Rounds]

GameState ==
    [phase : PhaseSpace, alive : SUBSET Players, role : [Players -> Role],
     lastProtected : [Players -> Target], shots : [Players -> 0..ShotCap],
     jesterOut : BOOLEAN, conditions : Seq(Condition)]

NoOutcome == [winner |-> Undecided, phase |-> Setup]

\* What the seats have answered so far.
Answered == DOMAIN responses

Pending == EligibleSeats(st) \ Answered

NoResponses == [p \in {} |-> Bare("NOOP")]

-----------------------------------------------------------------------------
\* The reducer, event by event

\* initial_state, with what RolesAssigned is going to say of the seats
NewGame(g) ==
    [phase |-> Setup, alive |-> {}, role |-> g.role,
     lastProtected |-> [p \in Players |-> NoPlayer],
     shots |-> [p \in Players |-> IF g.role[p] \in {"JANITOR", "FRAMER"} THEN ShotCap ELSE 0],
     jesterOut |-> FALSE, conditions |-> g.conditions]

ApplyRolesAssigned(s) == [s EXCEPT !.alive = Players]

\* Every ruleset deals a board on which nobody has won yet, and calls DRAW only at its cap.
ASSUME DealAssumption ==
    \A g \in Games :
        /\ CheckWin(ApplyRolesAssigned(NewGame(g))) = Undecided
        /\ \A i \in DOMAIN g.conditions :
              g.conditions[i].winner = "DRAW" <=> g.conditions[i].kind = "DAY_CAP"

\* What the rulesets use each kind of condition for (core/rulesets): all threats that were
\* dealt are gone, the Mafia at parity with the town and no solo killer in its way, the one
\* solo killer alone, and first of all the Jester voted out.
ASSUME RulesetAssumption ==
    \A g \in Games :
        LET dealt == {FactionOf(g.role[p]) : p \in Players}
        IN  /\ \A i \in DOMAIN g.conditions :
                  LET c == g.conditions[i]
                  IN  /\ c.winner = "TOWN" =>
                            /\ c.kind = "TARGET_FACTIONS_ELIMINATED"
                            /\ c.factions \subseteq {"MAFIA", "SERIAL_KILLER"}
                            /\ {"MAFIA"} \cup (dealt \cap {"SERIAL_KILLER"}) \subseteq c.factions
                      /\ c.winner = "MAFIA" =>
                            /\ c.kind = "FACTION_PARITY"
                            /\ c.factions = {"MAFIA"} /\ c.opponents = {"TOWN"}
                            /\ dealt \cap {"SERIAL_KILLER"} \subseteq c.blockedBy
                      /\ c.winner = "SERIAL_KILLER" =>
                            c.kind = "SOLO_LAST_ALIVE" /\ c.factions = {"SERIAL_KILLER"}
                      /\ c.winner = "JESTER" <=> c.kind = "ALT_TRIGGER"
            /\ \E i \in DOMAIN g.conditions : g.conditions[i].winner = "TOWN"
            /\ "JESTER" \in dealt => 1 \in DOMAIN g.conditions /\ g.conditions[1].winner = "JESTER"
            /\ \A p, q \in Players :
                  g.role[p] = "SERIAL_KILLER" /\ g.role[q] = "SERIAL_KILLER" => p = q

ApplyPhaseStarted(s, ph) == [s EXCEPT !.phase = ph]

ApplyProtects(s, acts) ==
    [s EXCEPT !.lastProtected =
        [p \in Players |-> IF p \in DOMAIN acts /\ acts[p].type = "PROTECT"
                           THEN acts[p].target ELSE s.lastProtected[p]]]

ApplyDayEliminations(s, dead) ==
    [s EXCEPT !.alive = @ \ dead,
              !.jesterOut = @ \/ \E p \in dead : s.role[p] = "JESTER"]

ApplyNightResolved(s, spent) ==
    [s EXCEPT !.shots = [p \in Players |->
        IF p \in spent /\ s.shots[p] > 0 THEN s.shots[p] - 1 ELSE s.shots[p]]]

ApplyNightEliminations(s, dead) == [s EXCEPT !.alive = @ \ dead]

-----------------------------------------------------------------------------
\* The tick: every eligible seat gets one answer, in seat order; a timeout, an invalid
\* output or an illegal action counts as the safe action of the phase.

TickAnswers(s, p) == LegalActions(s, p) \cup {SafeAction(s)}

\* The state after the submission events, and after the events of the resolution.
AfterSubmissions(s, acts) ==
    IF s.phase.kind = "NIGHT_ACTIONS" THEN ApplyProtects(s, acts) ELSE s

AfterDayVote(s, acts) == ApplyDayEliminations(s, DayVoteEliminated(s, acts))

AfterNight(s, acts) ==
    LET night == ResolveNight(s, IntentsOf(acts))
    IN  ApplyNightEliminations(ApplyNightResolved(s, night.spent), night.eliminated)

AfterPhase(s, acts) ==
    CASE s.phase.kind = "DAY_VOTE" -> AfterDayVote(s, acts)
      [] s.phase.kind = "NIGHT_ACTIONS" -> AfterNight(s, acts)
      [] OTHER -> s

-----------------------------------------------------------------------------
Init ==
    /\ \E g \in Games : st = NewGame(g)
    /\ cur = Setup
    /\ stage = "setup"
    /\ responses = NoResponses
    /\ outcome = NoOutcome

\* GameCreated and RolesAssigned
CreateGame ==
    /\ stage = "setup"
    /\ st' = ApplyRolesAssigned(st)
    /\ cur' = NextPhase(st.phase)
    /\ stage' = "start"
    /\ UNCHANGED <<responses, outcome>>

StartPhase ==
    /\ stage = "start"
    /\ cur.kind # "TERMINAL"
    /\ st' = ApplyPhaseStarted(st, cur)
    /\ stage' = "tick"
    /\ UNCHANGED <<cur, responses, outcome>>

SeatAnswers(p) ==
    /\ stage = "tick"
    /\ p \in Pending
    /\ \A q \in Pending : p =< q
    /\ \E answer \in TickAnswers(st, p) :
          responses' = [q \in Answered \cup {p} |-> IF q = p THEN answer ELSE responses[q]]
    /\ UNCHANGED <<st, cur, stage, outcome>>

EmitSubmissions ==
    /\ stage = "tick"
    /\ Pending = {}
    /\ st' = AfterSubmissions(st, responses)
    /\ stage' = "resolve"
    /\ UNCHANGED <<cur, responses, outcome>>

\* The resolution events of a vote or a night, then PhaseResolved
ResolvePhase ==
    /\ stage = "resolve"
    /\ st' = AfterPhase(st, responses)
    /\ responses' = NoResponses
    /\ stage' = "check"
    /\ UNCHANGED <<cur, outcome>>

Terminate(winner) ==
    /\ outcome' = [winner |-> winner, phase |-> cur]
    /\ stage' = "done"
    /\ UNCHANGED <<st, cur, responses>>

TerminateWithWinner ==
    /\ stage = "check"
    /\ CheckWin(st) # Undecided
    /\ Terminate(CheckWin(st))

AdvancePhase_Slip ==
    /\ stage = "check"
    /\ cur' = NextPhase(cur)
    /\ stage' = "start"
    /\ UNCHANGED <<st, responses, outcome>>

AdvancePhase ==
    /\ stage = "check"
    /\ CheckWin(st) = Undecided
    /\ cur' = NextPhase(cur)
    /\ stage' = "start"
    /\ UNCHANGED <<st, responses, outcome>>

\* The schedule ran out: MAX_DAYS_REACHED, with no further check_win
TerminateAsDraw ==
    /\ stage = "start"
    /\ cur.kind = "TERMINAL"
    /\ Terminate("DRAW")

Next ==
    \/ CreateGame
    \/ StartPhase
    \/ \E p \in Players : SeatAnswers(p)
    \/ EmitSubmissions
    \/ ResolvePhase
    \/ TerminateWithWinner
    \/ AdvancePhase
    \/ TerminateAsDraw

Spec == Init /\ [][Next]_vars

\* wait_for bounds every answer and nothing else in the loop waits on anyone.
FairSpec == Spec /\ WF_vars(Next)

-----------------------------------------------------------------------------
\* Properties

\* Every variable keeps the shape the code gives it: the days and rounds stay inside the
\* ruleset's schedule, shots never go negative, only an answer the phase takes is kept.
TypeOK ==
    /\ st \in GameState
    /\ cur \in PhaseSpace
    /\ stage \in Stage
    /\ Answered \subseteq Players
    /\ responses \in [Answered -> Action]
    /\ outcome \in [winner : Faction \cup {"DRAW", Undecided}, phase : PhaseSpace]

\* A game is never played past its decision: as long as a phase is to start or is being
\* played no win condition holds, and a draw is stamped only on an undecided game.
NoPlayPastDecision ==
    \/ stage \in {"start", "tick", "resolve"}
    \/ outcome.winner = "DRAW"
    => CheckWin(st) = Undecided

\* What else is true whenever NoPlayPastDecision is: the game is one that was dealt, and
\* nobody has announced an outcome before the loop is done.
DealtGame ==
    \E g \in Games :
        /\ st.role = g.role
        /\ st.conditions = g.conditions
        /\ stage = "setup" => st = NewGame(g)

OutcomeIsLast == stage # "done" => outcome.winner = Undecided

DecisionInv == TypeOK /\ DealtGame /\ OutcomeIsLast /\ NoPlayPastDecision

\* What a winner means, told from the living alone: the town wins over a board without
\* threats, the mafia at parity with no third faction in the way, a solo killer alone,
\* and a draw leaves both sides standing on the last day.  A Jester who is voted out ends the
\* game at the check of that very vote, before any other condition, and a Jester killed at
\* night does not win.
WinnerIsEarned ==
    LET mafia == Cardinality(AliveIn(st, {"MAFIA"}))
        town  == Cardinality(AliveIn(st, {"TOWN"}))
        solo  == Cardinality(AliveIn(st, {"SERIAL_KILLER"}))
    IN  /\ outcome.winner = "TOWN" => mafia = 0 /\ solo = 0
        /\ outcome.winner = "MAFIA" => mafia > 0 /\ mafia >= town /\ solo = 0
        /\ outcome.winner = "SERIAL_KILLER" => solo = 1 /\ Cardinality(st.alive) = 1
        /\ outcome.winner = "JESTER" => \E p \in Players \ st.alive : st.role[p] = "JESTER"
        /\ outcome.winner = "DRAW" => outcome.phase.day = MaxDays /\ mafia + solo > 0
        /\ st.jesterOut => stage \in {"check", "done"} /\ cur.kind = "DAY_VOTE"
        /\ st.jesterOut /\ stage = "done" => outcome.winner = "JESTER"
        /\ outcome.winner = "JESTER" => st.jesterOut

\* No step brings a seat back or kills outside a vote or a night; a vote takes at most one
\* seat, and a night takes no more than its killing factions, never a Mafia seat by the
\* Mafia's own vote.
DeathsAreLegal ==
    [][LET dead == st.alive \ st'.alive
       IN  stage # "setup" =>
             /\ st'.alive \subseteq st.alive
             /\ dead # {} => st.phase.kind \in {"DAY_VOTE", "NIGHT_ACTIONS"}
             /\ st.phase.kind = "DAY_VOTE" => Cardinality(dead) =< 1
             /\ st.phase.kind = "NIGHT_ACTIONS" =>
                   /\ Cardinality(dead) =<
                        Cardinality({IsMafia(st, p) : p \in
                          {q \in st.alive : IsMafia(st, q) \/ st.role[q] = "SERIAL_KILLER"}})
                   /\ AliveIn(st, {"SERIAL_KILLER"}) = {} => \A p \in dead : ~IsMafia(st, p)
      ]_st

\* The loop of drive_game_loop always comes to its end, whatever the seats answer or fail to
\* answer: no phase waits for ever and the schedule is finite.
GameTerminates == <>(stage = "done")

\* "Doctor protection blocks kill" (prd.md:1081, and prd.md:213): a target the Mafia
\* alone and unanimously aims at survives the night when a living, unblocked Doctor
\* protected it by a legal submission.
ProtectionBlocksKill ==
    [][stage = "resolve" /\ st.phase.kind = "NIGHT_ACTIONS" =>
         \A d \in Answered : responses[d].type = "PROTECT" =>
             \/ \E r \in Answered : responses[r] = [type |-> "ROLEBLOCK", target |-> d]
             \/ IsCommuter(st, responses[d].target)
             \/ responses[d].target \in st'.alive]_vars

=============================================================================
