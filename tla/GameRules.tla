----------------------------- MODULE GameRules -----------------------------
(***************************************************************************)
(* The pure rules of one game: phase schedule, legal actions, coercion of  *)
(* a bad answer, the day vote and the ordered win conditions.              *)
(*                                                                         *)
(* A game state is a record                                                *)
(*   phase         : [kind, day, round]                                    *)
(*   alive         : the living seats                                      *)
(*   role          : seat -> role                                          *)
(*   lastProtected : seat -> the Doctor's previous target, or NoPlayer     *)
(*   shots         : seat -> remaining cleans (Janitor) or frames (Framer) *)
(*   jesterOut     : the only win_condition_trigger the reducer ever sets  *)
(*   conditions    : WIN_CONDITIONS of the game's ruleset, a sequence      *)
(* Seats are numbered by seat_index, so "seat order" is the order of Nat.  *)
(***************************************************************************)
EXTENDS Naturals, FiniteSets, FiniteSetsExt

CONSTANTS
    Players,          \* the seat numbers of the ruleset, a finite set of positive numbers
    MaxDays,          \* ruleset.MAX_DAYS
    Rounds            \* ruleset.DISCUSSION_ROUNDS_PER_DAY

ASSUME PlayersAssumption ==
    Players \subseteq Nat \ {0} /\ IsFiniteSet(Players)

ASSUME ScheduleAssumption ==
    MaxDays \in Nat \ {0} /\ Rounds \in Nat \ {0}

NoPlayer == 0

Target == Players \cup {NoPlayer}

Faction == {"TOWN", "MAFIA", "SERIAL_KILLER", "JESTER"}

MafiaRole ==
    {"MAFIA_GOON", "NINJA", "GODFATHER", "MAFIA_ROLEBLOCKER", "FRAMER", "JANITOR"}

Role ==
    MafiaRole \cup
    {"DETECTIVE", "DOCTOR", "TRACKER", "WATCHER", "MAYOR", "COMMUTER", "MASON",
     "SERIAL_KILLER", "JESTER", "VILLAGER"}

\* ROLE_FACTIONS, the same for a role in every ruleset that has it.
FactionOf(role) ==
    CASE role \in MafiaRole -> "MAFIA"
      [] role \in {"SERIAL_KILLER", "JESTER"} -> role
      [] OTHER -> "TOWN"

IsMafia(s, p) == FactionOf(s.role[p]) = "MAFIA"

AliveIn(s, factions) == {p \in s.alive : FactionOf(s.role[p]) \in factions}

-----------------------------------------------------------------------------
\* Phase schedule

Phase(kind, day, round) == [kind |-> kind, day |-> day, round |-> round]

PhaseKind ==
    {"SETUP", "NIGHT_0_MAFIA_INTRO", "DAY_DISCUSSION", "DAY_VOTE",
     "NIGHT_MAFIA_DISCUSSION", "NIGHT_ACTIONS", "TERMINAL"}

\* Seeded faults (this one, and every operator below that ends in _Slip): a definition as
\* a plausible bug would leave it, to show that a property notices.
NextPhaseLate_Slip(ph) ==
    CASE ph.kind = "SETUP" -> Phase("NIGHT_0_MAFIA_INTRO", 0, 0)
      [] ph.kind = "NIGHT_0_MAFIA_INTRO" -> Phase("DAY_DISCUSSION", 1, 1)
      [] ph.kind = "DAY_DISCUSSION" -> Phase("DAY_VOTE", ph.day, 0)
      [] ph.kind = "DAY_VOTE" -> Phase("NIGHT_MAFIA_DISCUSSION", ph.day, 0)
      [] ph.kind = "NIGHT_MAFIA_DISCUSSION" -> Phase("NIGHT_ACTIONS", ph.day, 0)
      [] ph.kind = "NIGHT_ACTIONS" /\ ph.day =< MaxDays -> Phase("DAY_DISCUSSION", ph.day + 1, 1)
      [] OTHER -> Phase("TERMINAL", ph.day, 0)

NextPhaseStuck_Slip(ph) ==
    IF ph.kind = "DAY_DISCUSSION" /\ ph.round =< Rounds THEN ph ELSE NextPhaseLate_Slip(ph)

NextPhase(ph) ==
    CASE ph.kind = "SETUP" -> Phase("NIGHT_0_MAFIA_INTRO", 0, 0)
      [] ph.kind = "NIGHT_0_MAFIA_INTRO" -> Phase("DAY_DISCUSSION", 1, 1)
      [] ph.kind = "DAY_DISCUSSION" /\ ph.round < Rounds ->
            Phase("DAY_DISCUSSION", ph.day, ph.round + 1)
      [] ph.kind = "DAY_DISCUSSION" /\ ph.round >= Rounds -> Phase("DAY_VOTE", ph.day, 0)
      [] ph.kind = "DAY_VOTE" -> Phase("NIGHT_MAFIA_DISCUSSION", ph.day, 0)
      [] ph.kind = "NIGHT_MAFIA_DISCUSSION" -> Phase("NIGHT_ACTIONS", ph.day, 0)
      [] ph.kind = "NIGHT_ACTIONS" /\ ph.day < MaxDays ->
            Phase("DAY_DISCUSSION", ph.day + 1, 1)
      [] OTHER -> Phase("TERMINAL", ph.day, 0)

-----------------------------------------------------------------------------
\* Legal actions

NightAction ==
    [MAFIA_GOON |-> "MAFIA_KILL", NINJA |-> "MAFIA_KILL", GODFATHER |-> "MAFIA_KILL",
     DOCTOR |-> "PROTECT", DETECTIVE |-> "INVESTIGATE", MAFIA_ROLEBLOCKER |-> "ROLEBLOCK",
     FRAMER |-> "FRAME", TRACKER |-> "TRACK", WATCHER |-> "WATCH", JANITOR |-> "CLEAN",
     SERIAL_KILLER |-> "SERIAL_KILL"]

ActionType == {NightAction[r] : r \in DOMAIN NightAction} \cup {"NOOP", "ABSTAIN", "VOTE"}

Action == [type : ActionType, target : Target]

Bare(type) == [type |-> type, target |-> NoPlayer]

OutOfShots(s, p) == s.role[p] \in {"JANITOR", "FRAMER"} /\ s.shots[p] = 0

NightTypes(s, p) ==
    IF s.role[p] \in DOMAIN NightAction /\ ~OutOfShots(s, p)
    THEN {NightAction[s.role[p]]}
    ELSE {"NOOP"}

\* legal_actions_for(...).allowed_action_types
AllowedTypes(s, p) ==
    CASE p \notin s.alive -> {}
      [] p \in s.alive /\ s.phase.kind = "DAY_DISCUSSION" -> {"NOOP"}
      [] p \in s.alive /\ s.phase.kind = "DAY_VOTE" -> {"VOTE", "ABSTAIN"}
      [] p \in s.alive /\ s.phase.kind = "NIGHT_ACTIONS" -> NightTypes(s, p)
      [] p \in s.alive /\ s.phase.kind \in {"NIGHT_0_MAFIA_INTRO", "NIGHT_MAFIA_DISCUSSION"} ->
            IF IsMafia(s, p) THEN {"NOOP"} ELSE {}
      [] OTHER -> {}

\* legal_actions_for(...).legal_targets, for an action that takes one
LegalTargets(s, p, type) ==
    CASE type = "MAFIA_KILL" -> {q \in s.alive : ~IsMafia(s, q)}
      [] type = "PROTECT" -> s.alive \ {s.lastProtected[p]}
      [] type \in {"NOOP", "ABSTAIN"} -> {NoPlayer}
      [] OTHER -> s.alive \ {p}

LegalActions(s, p) ==
    UNION {{[type |-> t, target |-> q] : q \in LegalTargets(s, p, t)} : t \in AllowedTypes(s, p)}

EligibleSeats(s) == {p \in s.alive : AllowedTypes(s, p) # {}}

\* coerce_to_safe_action: what a timeout, an invalid output or an illegal action becomes
SafeAction(s) == Bare(IF s.phase.kind = "DAY_VOTE" THEN "ABSTAIN" ELSE "NOOP")

-----------------------------------------------------------------------------
\* Day vote.  acts : the seats that answered -> Action

VoteWeight(s, p) == IF s.role[p] = "MAYOR" THEN 2 ELSE 1

Voters(s, acts, q) ==
    {p \in s.alive \cap DOMAIN acts :
        acts[p].type = "VOTE" /\ acts[p].target = q /\ q # p /\ q \in s.alive}

Tally(s, acts, q) == MapThenSumSet(LAMBDA p : VoteWeight(s, p), Voters(s, acts, q))

\* The targets with the most (positive) weight; eliminated only when unique.
Leaders(S, count(_)) ==
    {q \in S : count(q) > 0 /\ \A r \in S : count(r) =< count(q)}

Unique(S) == IF Cardinality(S) = 1 THEN S ELSE {}

DayVoteEliminated_Slip(s, acts) == Leaders(s.alive, LAMBDA q : Tally(s, acts, q))

DayVoteEliminated(s, acts) ==
    Unique(Leaders(s.alive, LAMBDA q : Tally(s, acts, q)))

-----------------------------------------------------------------------------
\* Win conditions, in the order the ruleset declares them

ConditionHolds_Slip(c, s) ==
    CASE c.kind = "TARGET_FACTIONS_ELIMINATED" -> AliveIn(s, c.factions) = {}
      [] c.kind = "FACTION_PARITY" ->
            Cardinality(AliveIn(s, c.factions)) >= Cardinality(AliveIn(s, c.opponents))
      [] c.kind = "SOLO_LAST_ALIVE" -> s.alive # {} /\ AliveIn(s, c.factions) = s.alive
      [] OTHER -> c.kind = "ALT_TRIGGER" /\ s.jesterOut

ConditionHolds(c, s) ==
    CASE c.kind = "TARGET_FACTIONS_ELIMINATED" ->
            c.factions # {} /\ AliveIn(s, c.factions) = {}
      [] c.kind = "FACTION_PARITY" ->
            /\ AliveIn(s, c.blockedBy) = {}
            /\ AliveIn(s, c.factions) # {}
            /\ Cardinality(AliveIn(s, c.factions)) >= Cardinality(AliveIn(s, c.opponents))
      [] c.kind = "SOLO_LAST_ALIVE" -> s.alive # {} /\ AliveIn(s, c.factions) = s.alive
      [] c.kind = "ALT_TRIGGER" -> s.jesterOut
      [] c.kind = "DAY_CAP" -> s.phase.day > MaxDays
      [] OTHER -> FALSE

Matching(s) == {i \in DOMAIN s.conditions : ConditionHolds(s.conditions[i], s)}

Undecided == "NONE"

\* check_win: the winner of the first condition that holds
CheckWin(s) ==
    IF Matching(s) = {} THEN Undecided ELSE s.conditions[Min(Matching(s))].winner

=============================================================================
