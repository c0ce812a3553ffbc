------------------------------ MODULE Lobbies ------------------------------
(***************************************************************************)
(* Private lobbies and what admitting people to them costs: the routes of  *)
(* api/routes/lobbies.py, the solo match of api/routes/human.py, the       *)
(* launch handoff of api/lobby_launch.py and the admission slots of        *)
(* economics/human_cost_governance.py, within one UTC day.                 *)
(*                                                                         *)
(* A request is one transaction: it loads the lobby row once, and commits  *)
(* at the end.  Most are taken as one step; a launch, a lifecycle          *)
(* reconciliation and a join may also be begun, and commit later with the  *)
(* row they loaded then.  A claim of a slot is where a unique index        *)
(* serialises the transactions, so it sees what is committed.  Money is    *)
(* counted in whole reservations; ready flags, which nothing reads but the *)
(* roster, are left out, and a released slot is simply gone.               *)
(***************************************************************************)
EXTENDS Integers, FiniteSets

CONSTANTS
    Principals,     \* humans
    LobbyIds,       \* bound: lobbies that are ever created
    GameCap,        \* padrino_human_max_games_per_user_per_day
    JoinCap,        \* padrino_human_max_joins_per_user_per_day
    UserBudget,     \* reservations that one human's daily $ cap holds
    GlobalBudget,   \* reservations that the global breaker holds
    MaxSpend,       \* bound: reservations' worth of LLM calls all games are charged
    MaxSilences,    \* bound: times that a member falls silent
    MaxHanded       \* bound: lobbies whose host ever changes

NoOne == "no one"

ASSUME LobbyAssumption ==
    /\ NoOne \notin Principals
    /\ LobbyIds \subseteq Nat
    /\ {GameCap, JoinCap, UserBudget, GlobalBudget, MaxSpend, MaxSilences, MaxHanded} \subseteq Nat

VARIABLES
    lobby,      \* lobby id -> its row: status, host, active (updated_at is recent),
                \* game (game_id is set), seat (the member that the HUMAN seat is kept for)
    members,    \* lobby id -> its member rows: principal -> "present" or "absent"
    claims,     \* the live slots: HumanCostAdmission and HumanInferenceReservation rows
    launches,   \* the games rows: lobby, occupant of the HUMAN seat, who launched it
    spent,      \* lobby id -> what its games have been charged
    begun,      \* requests that have loaded their lobby row and not committed
    raced,      \* history: lobbies on which a request committed with an outdated row
    handed,     \* history: lobbies whose host has changed
    silences    \* times that a member has fallen silent

lobbyVars == <<lobby, members, claims, launches, spent, begun, raced, handed, silences>>

Unborn == [status |-> "UNBORN", host |-> NoOne, active |-> FALSE, game |-> FALSE, seat |-> NoOne]

LobbyInit ==
    /\ lobby = [l \in LobbyIds |-> Unborn]
    /\ members = [l \in LobbyIds |-> <<>>]
    /\ claims = {}
    /\ launches = {}
    /\ spent = [l \in LobbyIds |-> 0]
    /\ begun = {}
    /\ raced = {}
    /\ handed = {}
    /\ silences = 0

-----------------------------------------------------------------------------
\* Admission

Held(p, kind, table) == {c \in table : c.who = p /\ c.kind = kind}

\* _principal_games_today and _principal_joins_today: games and memberships that exist
\* count beside the slots
GamesToday(p) == Cardinality({g \in launches : g.occupant = p})

JoinsToday(p) == Cardinality({l \in LobbyIds : p \in DOMAIN members[l]})

Spend(ls) ==
    LET total[s \in SUBSET ls] ==
            IF s = {} THEN 0 ELSE LET l == CHOOSE x \in s : TRUE IN spent[l] + total[s \ {l}]
    IN  total[ls]

OccupiedBy(p) == {g.lobby : g \in {x \in launches : x.occupant = p}}

\* _claim_admission_slot: what has been used and what is held share the cap.
HasRoom(used, live, cap) == used + Cardinality(live) < cap

\* _implicit_budget_used: what was spent takes up whole reservations, the whole budget at most.
Implicit(spend, budget) == IF spend < budget THEN spend ELSE budget

\* _claim_inference_slot
HasBudget(spend, live, budget) == Implicit(spend, budget) + Cardinality(live) < budget

\* admit_human, over the slots in table
Admits(p, action, table) ==
    /\ HasBudget(Spend(LobbyIds), {c \in table : c.kind = "global"}, GlobalBudget)
    /\ HasBudget(Spend(OccupiedBy(p)), Held(p, "dollars", table), UserBudget)
    /\ IF action = "join" THEN HasRoom(JoinsToday(p), Held(p, "join", table), JoinCap)
                          ELSE HasRoom(GamesToday(p), Held(p, "game", table), GameCap)

\* The slots of one decision, bound to the lobby and the member that came of it
Slots(p, action, l) ==
    {[who |-> p, kind |-> k, lobby |-> l] :
        k \in {"global", "dollars", IF action = "join" THEN "join" ELSE "game"}}

OfLobby(l) == {c \in claims : c.lobby = l}

OfMember(p, l) == {c \in OfLobby(l) : c.who = p}

-----------------------------------------------------------------------------
\* Creating

Create(p, l) ==
    /\ lobby[l] = Unborn
    /\ \A k \in LobbyIds : k < l => lobby[k] # Unborn
    /\ Admits(p, "create", claims)
    /\ lobby' = [lobby EXCEPT ![l] = [status |-> "OPEN", host |-> p, active |-> TRUE,
                                      game |-> FALSE, seat |-> p]]
    /\ members' = [members EXCEPT ![l] = [x \in {p} |-> "present"]]
    /\ claims' = claims \cup Slots(p, "create", l)
    /\ UNCHANGED <<launches, spent, begun, raced, handed, silences>>

NewGame(p, l, seat) ==
    [lobby |-> l, occupant |-> seat, by |-> p,
     nth |-> Cardinality({g \in launches : g.lobby = l})]

\* post_match: create, lock and launch in one transaction; the create slots are released
\* before the launch is admitted.
SoloMatch(p, l) ==
    /\ lobby[l] = Unborn
    /\ \A k \in LobbyIds : k < l => lobby[k] # Unborn
    /\ Admits(p, "create", claims)
    /\ Admits(p, "launch", claims)
    /\ lobby' = [lobby EXCEPT ![l] = [status |-> "LAUNCHED", host |-> p, active |-> TRUE,
                                      game |-> TRUE, seat |-> p]]
    /\ members' = [members EXCEPT ![l] = [x \in {p} |-> "present"]]
    /\ claims' = claims \cup {c \in Slots(p, "launch", l) : c.kind = "game"}
    /\ launches' = launches \cup {NewGame(p, l, p)}
    /\ UNCHANGED <<spent, begun, raced, handed, silences>>

-----------------------------------------------------------------------------
\* Requests that may commit with an outdated row

Commits(l, row) == raced' = IF row = lobby[l] THEN raced ELSE raced \cup {l}

\* join_lobby: membership only, no seat.  A member's second join is a heartbeat.
JoinWith(p, l, row) ==
    /\ p \notin DOMAIN members[l]
    /\ row.status = "OPEN"
    /\ Admits(p, "join", claims)
    /\ members' = [members EXCEPT ![l] = [x \in DOMAIN @ \cup {p} |->
                                             IF x = p THEN "present" ELSE @[x]]]
    /\ lobby' = [lobby EXCEPT ![l].active = TRUE]
    /\ claims' = claims \cup Slots(p, "join", l)
    /\ Commits(l, row)
    /\ UNCHANGED <<launches, spent, handed, silences>>

\* launch_lobby without its look at the status
LaunchWith_Slip(p, l, row) ==
    /\ row.host = p
    /\ p \in DOMAIN members[l]
    /\ lobby' = [lobby EXCEPT ![l].status = "LAUNCHED", ![l].game = TRUE]
    /\ launches' = launches \cup {NewGame(p, l, lobby[l].seat)}
    /\ claims' = (claims \ OfLobby(l)) \cup {c \in Slots(p, "launch", l) : c.kind = "game"}
    /\ Commits(l, row)
    /\ UNCHANGED <<members, spent, handed, silences>>

\* launch: the lobby's slots are released, then the host is admitted, then launch_lobby
\* looks at the row; what it does not find LOCKED, or cannot fill, gives the new slots back.
LaunchWith(p, l, row) ==
    /\ row.host = p
    /\ p \in DOMAIN members[l]
    /\ ~(row.status = "LAUNCHED" /\ row.game)
    /\ LET freed == claims \ OfLobby(l)
       IN  /\ Admits(p, "launch", freed)
           /\ \E filled \in BOOLEAN :      \* the curated pool covers the empty AI seats
                 IF row.status = "LOCKED" /\ filled
                 THEN /\ lobby' = [lobby EXCEPT ![l].status = "LAUNCHED", ![l].game = TRUE]
                      /\ launches' = launches \cup {NewGame(p, l, lobby[l].seat)}
                      /\ claims' = freed \cup {c \in Slots(p, "launch", l) : c.kind = "game"}
                 ELSE claims' = freed /\ UNCHANGED <<lobby, launches>>
    /\ Commits(l, row)
    /\ UNCHANGED <<members, spent, handed, silences>>

Absent(l) == {x \in DOMAIN members[l] : members[l][x] = "absent"}

\* Stale members go; the host never does.
Evicted(l) == {x \in Absent(l) : x # lobby[l].host}

\* lobby_seats.member_id is ON DELETE SET NULL.
WithoutMembers(l, gone) ==
    [lobby EXCEPT ![l].seat = IF @ \in gone THEN NoOne ELSE @]

Keep(l, gone) == [members EXCEPT ![l] = [x \in DOMAIN @ \ gone |-> @[x]]]

Released_Slip(l, gone) == claims

Released(l, gone) == claims \ UNION {OfMember(x, l) : x \in gone}

\* _reconcile_lifecycle, on every read of a lobby by a member
ReconcileWith(l, row) ==
    /\ row.status \in {"OPEN", "LOCKED"}
    /\ IF ~row.active \/ Absent(l) = DOMAIN members[l]
       THEN /\ lobby' = [lobby EXCEPT ![l].status = "CLOSED", ![l].active = TRUE]
            /\ claims' = claims \ OfLobby(l)
            /\ UNCHANGED members
       ELSE /\ Evicted(l) # {}
            /\ lobby' = WithoutMembers(l, Evicted(l))
            /\ members' = Keep(l, Evicted(l))
            /\ claims' = Released(l, Evicted(l))
    /\ Commits(l, row)
    /\ UNCHANGED <<launches, spent, handed, silences>>

Request == {"join", "launch", "read"}

Begin(p, l, op) ==
    /\ begun = {} /\ raced = {}
    /\ lobby[l] # Unborn
    /\ op = "join" \/ p \in DOMAIN members[l]
    /\ begun' = {[who |-> p, lobby |-> l, op |-> op, row |-> lobby[l]]}
    /\ UNCHANGED <<lobby, members, claims, launches, spent, raced, handed, silences>>

Abandon(r) ==
    /\ begun' = begun \ {r}
    /\ UNCHANGED <<lobby, members, claims, launches, spent, raced, handed, silences>>

Finish(r) ==
    /\ begun' = begun \ {r}
    /\ \/ r.op = "join" /\ JoinWith(r.who, r.lobby, r.row)
       \/ r.op = "launch" /\ LaunchWith(r.who, r.lobby, r.row)
       \/ r.op = "read" /\ ReconcileWith(r.lobby, r.row)

AtOnce(p, l) ==
    /\ UNCHANGED begun
    /\ \/ JoinWith(p, l, lobby[l])
       \/ LaunchWith(p, l, lobby[l])
       \/ p \in DOMAIN members[l] /\ ReconcileWith(l, lobby[l])

-----------------------------------------------------------------------------
\* Requests of members

\* heartbeat, set_ready and a member's second join
Touch(p, l) ==
    /\ p \in DOMAIN members[l]
    /\ members[l][p] = "absent" \/ ~lobby[l].active
    /\ members' = [members EXCEPT ![l][p] = "present"]
    /\ lobby' = [lobby EXCEPT ![l].active = TRUE]
    /\ UNCHANGED <<claims, launches, spent, begun, raced, handed, silences>>

Hosts(p, l) == p \in DOMAIN members[l] /\ lobby[l].host = p

Lock(p, l) ==
    /\ Hosts(p, l)
    /\ lobby[l].status = "OPEN"
    /\ lobby' = [lobby EXCEPT ![l].status = "LOCKED", ![l].active = TRUE]
    /\ UNCHANGED <<members, claims, launches, spent, begun, raced, handed, silences>>

\* kick_member, in whatever status the lobby is
Kick(p, l, other) ==
    /\ Hosts(p, l)
    /\ other \in DOMAIN members[l] \ {p}
    /\ lobby' = [WithoutMembers(l, {other}) EXCEPT ![l].active = TRUE]
    /\ members' = Keep(l, {other})
    /\ claims' = claims \ OfMember(other, l)
    /\ UNCHANGED <<launches, spent, begun, raced, handed, silences>>

\* transfer_host: the HUMAN seat stays the former host's.
Transfer(p, l, other) ==
    /\ Hosts(p, l)
    /\ other \in DOMAIN members[l] \ {p}
    /\ l \in handed \/ Cardinality(handed) < MaxHanded
    /\ lobby' = [lobby EXCEPT ![l].host = other, ![l].active = TRUE]
    /\ handed' = handed \cup {l}
    /\ UNCHANGED <<members, claims, launches, spent, begun, raced, silences>>

-----------------------------------------------------------------------------
\* Time and money

GoQuiet(p, l) ==
    /\ p \in DOMAIN members[l]
    /\ members[l][p] = "present"
    /\ silences < MaxSilences
    /\ members' = [members EXCEPT ![l][p] = "absent"]
    /\ silences' = silences + 1
    /\ UNCHANGED <<lobby, claims, launches, spent, begun, raced, handed>>

\* The idle window is longer than the presence window.
Idle(l) ==
    /\ lobby[l].active
    /\ lobby[l].status \in {"OPEN", "LOCKED"}
    /\ Absent(l) = DOMAIN members[l]
    /\ lobby' = [lobby EXCEPT ![l].active = FALSE]
    /\ UNCHANGED <<members, claims, launches, spent, begun, raced, handed, silences>>

\* LLM calls of a launched game are charged.
Charge(l) ==
    /\ lobby[l].game
    /\ Spend(LobbyIds) < MaxSpend
    /\ spent' = [spent EXCEPT ![l] = @ + 1]
    /\ UNCHANGED <<lobby, members, claims, launches, begun, raced, handed, silences>>

LobbyNext ==
    \/ \E l \in LobbyIds :
          \/ \E p \in Principals :
                \/ Create(p, l) \/ SoloMatch(p, l) \/ AtOnce(p, l)
                \/ Touch(p, l) \/ Lock(p, l) \/ GoQuiet(p, l)
                \/ \E op \in Request : Begin(p, l, op)
                \/ \E other \in Principals : Kick(p, l, other) \/ Transfer(p, l, other)
          \/ Idle(l) \/ Charge(l)
    \/ \E r \in begun : Finish(r) \/ Abandon(r)

LobbySpec == LobbyInit /\ [][LobbyNext]_lobbyVars

-----------------------------------------------------------------------------
\* lobbies, with the one row of lobby_seats that is a human's
LobbyRows == [status : {"UNBORN", "OPEN", "LOCKED", "LAUNCHED", "CLOSED"},
              host : Principals \cup {NoOne}, active : BOOLEAN,
              game : BOOLEAN, seat : Principals \cup {NoOne}]

MemberRows(l) == [DOMAIN members[l] -> {"present", "absent"}]

CountSlots == [who : Principals, kind : {"join", "game"}, lobby : LobbyIds]

DollarSlots == [who : Principals, kind : {"global", "dollars"}, lobby : LobbyIds]

LobbyTypeOK ==
    /\ lobby \in [LobbyIds -> LobbyRows]
    /\ \A l \in LobbyIds : DOMAIN members[l] \subseteq Principals /\ members[l] \in MemberRows(l)
    /\ claims \subseteq CountSlots \cup DollarSlots
    /\ spent \in [LobbyIds -> 0..MaxSpend]
    /\ raced \subseteq LobbyIds /\ handed \subseteq LobbyIds

\* A lobby becomes one game and stays launched (launch is single-fire), and a closed lobby
\* has none, unless a request committed over a row that had changed since it was read.  The
\* HUMAN seat of a launched game belongs to the human who made the lobby: eviction and kicks
\* cannot empty it before the host has been changed.
LaunchedOnce ==
    \A l \in LobbyIds \ raced :
        LET games == {g \in launches : g.lobby = l}
        IN  /\ Cardinality(games) =< 1
            /\ games # {} <=> lobby[l].status = "LAUNCHED"
            /\ l \notin handed => \A g \in games : g.occupant \in Principals

\* Slots follow what they were claimed for: a closed lobby holds none, a launched one only
\* the count slot of the human who launched it, and nobody holds a slot in a lobby that he
\* has left.  Nobody gets himself into more games a day than the cap, whatever creates,
\* transfers, kicks, idle lobbies and outdated requests release in between.
SlotsFollowLobbies ==
    /\ \A l \in LobbyIds \ raced :
          /\ lobby[l].status = "CLOSED" => OfLobby(l) = {}
          /\ lobby[l].status = "LAUNCHED" =>
                \A c \in OfLobby(l) :
                    c.kind = "game" /\ \E g \in launches : g.lobby = l /\ g.by = c.who
          /\ \A c \in OfLobby(l) : c.who \in DOMAIN members[l]
    /\ \A p \in Principals :
          Cardinality({g \in launches : g.by = p /\ g.occupant = p}) =< GameCap
=============================================================================
