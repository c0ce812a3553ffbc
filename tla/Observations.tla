---------------------------- MODULE Observations ----------------------------
(***************************************************************************)
(* What a seat and a spectator are shown of a game that is being played.   *)
(* Two worlds are played side by side: they differ in the roles of the     *)
(* other seats and in who is a human, what the others do in private is     *)
(* done in the first, and they share whatever the viewer may know.  What   *)
(* build_observation and the spectator's projection show must not tell     *)
(* them apart; the sequence numbers of the entries are left out (they      *)
(* count what is hidden too).                                              *)
(***************************************************************************)
EXTENDS GameRules, Sequences, Functions

CONSTANTS
    Casts,          \* the roles the seats may have: functions from Players
    Humans,         \* the seats of which one may be a human's
    RecentLimit,    \* PUBLIC_TRANSCRIPT_RECENT_MESSAGE_LIMIT
    MaxShown,       \* bound: events of either world's log
    MaxSecrets      \* bound: events that only the first world has

ASSUME CastsAssumption == Casts \subseteq [Players -> Role]

VARIABLES
    viewer,         \* the seat that looks, or Spectator
    identityMode,   \* Game.identity_mode, as the column reads
    worlds          \* the two worlds: the game state, who sits where, and the event log

observationVars == <<viewer, identityMode, worlds>>

Spectator == 0

World == {1, 2}

\* coerce_identity_mode: only an explicit TRANSPARENT opts out.
Anonymous == identityMode # "TRANSPARENT"

-----------------------------------------------------------------------------
\* Events: a payload is a function from the keys that matter

PublicTypes == {"PublicMessageSubmitted", "PlayerEliminated", "GameTerminated"}

\* ProtectSubmitted stands for all that seats submit at night.
PrivateTypes ==
    {"PrivateMessageSubmitted", "ProtectSubmitted", "NightFeedbackDelivered",
     "DetectiveResultDelivered"}

SystemTypes == {"RolesAssigned", "PhaseStarted", "ActionTimedOut", "SeatTakenOver"}

VisibilityOf(type) ==
    CASE type \in PublicTypes -> "PUBLIC"
      [] type \in PrivateTypes -> "PRIVATE"
      [] type \in SystemTypes -> "SYSTEM"

GameEvent(type, actor, payload) == [type |-> type, actor |-> actor, payload |-> payload]

OneKey(key, value) == [k \in {key} |-> value]

\* FORBIDDEN_PAYLOAD_KEYS and IDENTITY_MARKER_KEYS, one of each kind
IdentityMarkerKeys == {"seat_kind", "model_id"}

ForbiddenPayloadKeys == {"role", "faction", "rating"} \cup IdentityMarkerKeys

Without(payload, keys) == Restrict(payload, DOMAIN payload \ keys)

-----------------------------------------------------------------------------
\* build_observation

\* _entry_from_stored
Entry_Slip(e) == e

Entry(e) ==
    IF e.type = "PlayerEliminated"
    THEN [e EXCEPT !.payload = Without(@, {"role", "faction"})] ELSE e

\* _hydrate_entry: the approved text of a human's message, in place of the empty one
Hydrated(e) ==
    IF "content_ref" \in DOMAIN e.payload
    THEN [e EXCEPT !.payload = [@ EXCEPT !["text"] = "hello"]] ELSE e

\* A list made from a log: what f says of the positions in its domain, numbered in order
Listed(f) == {<<Cardinality({j \in DOMAIN f : j =< i}), f[i]>> : i \in DOMAIN f}

Entries(list) == {x[2] : x \in list}

AsEntries(w, positions) == Listed([i \in positions |-> Hydrated(Entry(w.log[i]))])

Public(w) == {i \in DOMAIN w.log : VisibilityOf(w.log[i].type) = "PUBLIC"}

\* Its own, and a Mafia seat those of its team
Private(w, p) ==
    {i \in DOMAIN w.log : /\ VisibilityOf(w.log[i].type) = "PRIVATE"
                          /\ w.log[i].actor = p \/ (IsMafia(w, p) /\ IsMafia(w, w.log[i].actor))}

\* The last RecentLimit public events
PublicEvents(w) ==
    {x \in AsEntries(w, Public(w)) : x[1] > Cardinality(Public(w)) - RecentLimit}

PrivateEvents(w, p) == AsEntries(w, Private(w, p))

DeadPlayers(w) ==
    LET deaths == {i \in DOMAIN w.log : w.log[i].type = "PlayerEliminated"}
    IN  Listed([i \in deaths |-> w.log[i].payload["public_player_id"]])

Own(w, p, type) ==
    LET own == {i \in DOMAIN w.log : w.log[i].type = type /\ w.log[i].actor = p}
    IN  Listed([i \in own |-> w.log[i]])

InspectionHistory(w, p) ==
    IF w.role[p] = "DETECTIVE" THEN Own(w, p, "DetectiveResultDelivered") ELSE {}

RoleFeedback(w, p) == Own(w, p, "NightFeedbackDelivered")

MafiaTeammates(w, p) == IF IsMafia(w, p) THEN {q \in Players \ {p} : IsMafia(w, q)} ELSE {}

MasonPartners(w, p) ==
    IF w.role[p] = "MASON" THEN {q \in Players \ {p} : w.role[q] = "MASON"} ELSE {}

PreviousProtected(w, p) == IF w.role[p] = "DOCTOR" THEN w.lastProtected[p] ELSE NoPlayer

\* The identity_disclosure of build_observation_for_mode: no role, no faction
SeatIdentities(w) == IF Anonymous THEN {} ELSE {<<p, w.kind[p]>> : p \in Players}

Observation(w, p) ==
    [phase |-> w.phase, you |-> w.role[p], alivePlayers |-> w.alive, deadPlayers |-> DeadPlayers(w),
     publicEvents |-> PublicEvents(w), privateEvents |-> PrivateEvents(w, p),
     legalActions |-> LegalActions(w, p), mafiaTeammates |-> MafiaTeammates(w, p),
     masonPartners |-> MasonPartners(w, p), previousProtected |-> PreviousProtected(w, p),
     inspectionHistory |-> InspectionHistory(w, p), roleFeedback |-> RoleFeedback(w, p),
     identityDisclosure |-> SeatIdentities(w)]

\* _return_notice_for_seat, next to the observation of a human's stream
ReturnNotice(w, p) == w.kind[p] = "AI_TAKEOVER"

Forbidden(entries) == {e \in entries : DOMAIN e.payload \cap ForbiddenPayloadKeys # {}}

\* assert_ranked_observation_safe raises when there is one.
Findings(w, p) == Forbidden(Entries(PublicEvents(w) \cup PrivateEvents(w, p)))

\* audit_ranked_observations, over the whole log and without the texts of humans
AuditFindings(w, p) == Forbidden({Entry(w.log[i]) : i \in Public(w) \cup Private(w, p)})

\* project_event_for_spectator_mode
SpectatorView(w) ==
    LET keys == IF Anonymous THEN ForbiddenPayloadKeys ELSE ForbiddenPayloadKeys \ IdentityMarkerKeys
    IN  Listed([i \in Public(w) |-> [w.log[i] EXCEPT !.payload = Without(@, keys)]])

\* project_seat_reveal: who finished the game in the seat, and a model only for an AI
SeatReveal(w, p) ==
    [seat |-> p, role |-> w.role[p], human |-> w.kind[p] = "HUMAN",
     model |-> IF w.kind[p] = "HUMAN" THEN "none" ELSE "some"]

Over(w) == \E i \in DOMAIN w.log : w.log[i].type = "GameTerminated"

\* build_participant_reveal: a conflict before the end
EndgameReveal(w) == IF Over(w) THEN {SeatReveal(w, p) : p \in Players} ELSE {}

-----------------------------------------------------------------------------
\* The two worlds

Team(w, p) == IF IsMafia(w, p) THEN {q \in Players : IsMafia(w, q)} ELSE {p}

\* What the viewer knows of a cast from the start: its own role and its team.
Alike(one, two, p) ==
    p # Spectator =>
        /\ one[p] = two[p]
        /\ FactionOf(one[p]) = "MAFIA" =>
              \A q \in Players : FactionOf(one[q]) = "MAFIA" <=> FactionOf(two[q]) = "MAFIA"
        /\ one[p] = "MASON" => \A q \in Players : one[q] = "MASON" <=> two[q] = "MASON"

\* A world at its start, with a human in one of the seats or in none
StartOf(cast, human) ==
    [role |-> cast, kind |-> [p \in Players |-> IF p = human THEN "HUMAN" ELSE "AI"],
     alive |-> Players, phase |-> Phase("DAY_DISCUSSION", 1, 1),
     lastProtected |-> [p \in Players |-> NoPlayer], shots |-> [p \in Players |-> 1],
     log |-> <<GameEvent("RolesAssigned", NoPlayer, OneKey("role", cast))>>]

ObservationsInit ==
    /\ viewer \in Players \cup {Spectator}
    /\ identityMode \in {"TRANSPARENT", "NULL"}
    /\ \E one, two \in Casts, human, other \in Humans \cup {NoPlayer} :
          /\ Alike(one, two, viewer)
          /\ identityMode = "TRANSPARENT" => human = other
          /\ viewer # Spectator => (human = viewer <=> other = viewer)
          /\ worlds = <<StartOf(one, human), StartOf(two, other)>>

Room(n) == Len(worlds[n].log) < MaxShown

Logged(w, e) == [w EXCEPT !.log = Append(@, e)]

Secrets == Len(worlds[1].log) - Len(worlds[2].log)

\* The same step in both worlds
Both(step(_)) ==
    /\ \A n \in World : Room(n) /\ ~Over(worlds[n])
    /\ worlds' = [n \in World |-> step(worlds[n])]
    /\ UNCHANGED <<viewer, identityMode>>

\* An AI's message has its text; the event of a human's has a reference to the sidecar instead.
MessagePayload(w, p) ==
    IF w.kind[p] = "HUMAN" THEN [k \in {"text", "content_ref"} |-> IF k = "text" THEN "" ELSE "sha256"]
    ELSE OneKey("text", "hello")

Say(p) ==
    Both(LAMBDA w : Logged(w, GameEvent("PublicMessageSubmitted", p, MessagePayload(w, p))))

\* PlayerEliminated has the role and the faction, unless a Janitor cleaned the death.
Eliminate(q, cleaned) ==
    /\ q \in worlds[1].alive
    /\ Both(LAMBDA w : [Logged(w, GameEvent("PlayerEliminated", NoPlayer,
              [k \in {"public_player_id", "role", "faction"} |->
                 CASE k = "public_player_id" -> q
                   [] k = "role" -> IF cleaned THEN "None" ELSE w.role[q]
                   [] OTHER -> IF cleaned THEN "None" ELSE FactionOf(w.role[q])]))
            EXCEPT !.alive = @ \ {q}])

\* The submission of a Doctor is folded into the state.
Acts(w, p, type, payload) ==
    [Logged(w, GameEvent(type, p, payload)) EXCEPT !.lastProtected[p] =
        IF type = "ProtectSubmitted" /\ w.role[p] = "DOCTOR" THEN p ELSE @]

\* A seat of the viewer's team acts in private, or is told something.
ActWithViewer(p, type) ==
    /\ viewer # Spectator /\ \A n \in World : p \in Team(worlds[n], viewer)
    /\ Both(LAMBDA w : Acts(w, p, type, OneKey("target", NoPlayer)))

\* The first world goes on by itself.
Secretly(step(_)) ==
    /\ Room(1) /\ ~Over(worlds[1]) /\ Secrets < MaxSecrets
    /\ worlds' = [worlds EXCEPT ![1] = step(@)]
    /\ UNCHANGED <<viewer, identityMode>>

\* Any other seat does so, or any seat's call times out.
ActInSecret(p, type) ==
    /\ viewer # Spectator /\ type # "ActionTimedOut" => p \notin Team(worlds[1], viewer)
    /\ Secretly(LAMBDA w : Acts(w, p, type, OneKey("target", p)))

TakenOver(w, p) ==
    [Logged(w, GameEvent("SeatTakenOver", p, OneKey("seat_kind", "AI_TAKEOVER")))
     EXCEPT !.kind[p] = "AI_TAKEOVER"]

\* An AI takes over the seat of a human: in both worlds the viewer's, and any seat's when
\* identities are disclosed.
TakeOver(p) ==
    /\ worlds[1].kind[p] = "HUMAN"
    /\ IF p = viewer \/ ~Anonymous
       THEN Both(LAMBDA w : TakenOver(w, p)) ELSE Secretly(LAMBDA w : TakenOver(w, p))

EnterPhase(kind) ==
    /\ worlds[1].phase.kind # kind
    /\ Both(LAMBDA w : [Logged(w, GameEvent("PhaseStarted", NoPlayer, OneKey("phase_kind", kind)))
                        EXCEPT !.phase = Phase(kind, 1, 0)])

EndGame == Both(LAMBDA w : Logged(w, GameEvent("GameTerminated", NoPlayer, OneKey("winner", "TOWN"))))

ObservationsNext ==
    \/ \E p \in Players : Say(p)
    \/ \E q \in Players, cleaned \in BOOLEAN : Eliminate(q, cleaned)
    \/ \E p \in Players, type \in PrivateTypes : ActWithViewer(p, type)
    \/ \E p \in Players :
          \/ \E type \in PrivateTypes \cup {"ActionTimedOut"} : ActInSecret(p, type)
          \/ TakeOver(p)
    \/ \E kind \in {"NIGHT_MAFIA_DISCUSSION", "NIGHT_ACTIONS"} : EnterPhase(kind)
    \/ EndGame

ObservationsSpec == ObservationsInit /\ [][ObservationsNext]_observationVars

-----------------------------------------------------------------------------
\* What the viewer sees of a world
ViewOf(w) ==
    IF viewer = Spectator THEN [spectator |-> SpectatorView(w)]
    ELSE [seat |-> Observation(w, viewer), notice |-> ReturnNotice(w, viewer),
          reveal |-> EndgameReveal(w)]

\* The same world, had the message of a human been stored like that of an AI
Plain(e) ==
    [e EXCEPT !.payload = IF "content_ref" \in DOMAIN @ THEN OneKey("text", "hello") ELSE @]

Unmarked(w) == [w EXCEPT !.log = [i \in DOMAIN @ |-> Plain(@[i])]]

\* A seat and a spectator cannot tell two worlds apart that differ only in what is not theirs to
\* know: the roles of the others, their private actions and results, a cleaned death, the
\* Doctor's memory, who times out and who is taken over.  Nothing that is shown carries a key
\* the ranked guard forbids, so the guard and the audit at the end stay silent.  After the end
\* the participants see the reveal.
SecretsStayHidden ==
    /\ Over(worlds[1]) \/ ViewOf(Unmarked(worlds[1])) = ViewOf(Unmarked(worlds[2]))
    /\ \A n \in World, p \in Players : Findings(worlds[n], p) \cup AuditFindings(worlds[n], p) = {}

\* In an anonymous game nobody can tell before the end who is a human.
SeatsAreAnonymous ==
    Anonymous /\ ~Over(worlds[1]) => ViewOf(worlds[1]) = ViewOf(worlds[2])
=============================================================================
