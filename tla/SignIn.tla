-------------------------------- MODULE SignIn --------------------------------
(***************************************************************************)
(* Guests, accounts and their sessions: the guest and OAuth routes of      *)
(* api/routes/human.py over principals, human_sessions, oauth_identities   *)
(* and oauth_consumed_flows.                                               *)
(*                                                                         *)
(* A callback claims its flow and, if need be, releases it in transactions *)
(* of their own; the rest is one transaction, which reads the guest and    *)
(* the identity first and writes later.  The provider is external: it may  *)
(* redeem a code any number of times, fail transiently or for good, and    *)
(* name any subject.  The signed state, the nonce and the id token are     *)
(* abstracted to the flow that they carry and the session it is bound to.  *)
(***************************************************************************)
EXTENDS Integers, FiniteSets

CONSTANTS
    Browsers,       \* cookie jars
    Subjects,       \* identities that the provider vouches for
    FlowTtl,        \* _OAUTH_FLOW_TTL_SECONDS, in ticks of the clock
    MaxClock,       \* bound: the clock
    MaxGuests,      \* bound: guest sessions
    MaxFlows,       \* bound: authorization flows
    MaxCallbacks    \* bound: callbacks under way at a time

ASSUME SignInAssumption ==
    {FlowTtl, MaxClock, MaxGuests, MaxFlows, MaxCallbacks} \subseteq Nat

VARIABLES
    clock,
    principals,     \* id -> kind and whether deleted_at is set
    sessions,       \* token -> principal, the flow that minted it (0 for a guest's) and its subject
    lapsed,         \* tokens past expires_at
    identities,     \* subject -> principal id
    consumed,       \* oauth_consumed_flows: flow -> consumed_at
    flows,          \* flow -> the token it is bound to and when it started
    jar,            \* browser -> its session cookie and its flow cookie, 0 for none
    callbacks,      \* callbacks that hold their flow
    crossed,        \* history: guests that a callback wrote after another had changed them
    overdue         \* history: flows submitted later than FlowTtl after their start

signInVars == <<clock, principals, sessions, lapsed, identities, consumed, flows, jar, callbacks, crossed, overdue>>

NoSubject == "no subject"

SignInInit ==
    /\ clock = 0
    /\ principals = <<>> /\ sessions = <<>> /\ lapsed = {}
    /\ identities = [s \in {} |-> 0]
    /\ consumed = <<>> /\ flows = <<>>
    /\ jar = [b \in Browsers |-> [session |-> 0, flow |-> 0]]
    /\ callbacks = {} /\ crossed = {} /\ overdue = {}

With(f, k, v) == [x \in DOMAIN f \cup {k} |-> IF x = k THEN v ELSE f[x]]

Fresh(f) == Cardinality(DOMAIN f) + 1

Session(p, f, s) == [principal |-> p, flow |-> f, subject |-> s]

\* create_guest
Guest(b) ==
    /\ Cardinality({t \in DOMAIN sessions : sessions[t].flow = 0}) < MaxGuests
    /\ principals' = With(principals, Fresh(principals), [kind |-> "guest", deleted |-> FALSE])
    /\ sessions' = With(sessions, Fresh(sessions), Session(Fresh(principals), 0, NoSubject))
    /\ jar' = [jar EXCEPT ![b].session = Fresh(sessions)]
    /\ UNCHANGED <<clock, lapsed, identities, consumed, flows, callbacks, crossed, overdue>>

\* oauth_start: the state is bound to the session cookie of the moment.
StartFlow(b) ==
    /\ Fresh(flows) =< MaxFlows
    /\ flows' = With(flows, Fresh(flows), [binding |-> jar[b].session, started |-> clock])
    /\ jar' = [jar EXCEPT ![b].flow = Fresh(flows)]
    /\ UNCHANGED <<clock, principals, sessions, lapsed, identities, consumed, callbacks, crossed, overdue>>

\* prune_expired, for the flows of the sample
Pruned(due) ==
    [f \in {g \in DOMAIN consumed : ~(due /\ consumed[g] < clock - FlowTtl)} |-> consumed[f]]

Claimable_Slip(f, ledger) == TRUE

\* try_consume_flow: the insert wins or finds the row.
Claimable(f, ledger) == f \notin DOMAIN ledger

\* validate_authorization_state: the state was issued to this session.  Nothing in it tells its
\* age, and nothing but max_age takes the flow cookie from a browser.
Valid(b) ==
    /\ jar[b].flow # 0
    /\ flows[jar[b].flow].binding = jar[b].session

\* Callbacks of one flow under way at a time are told apart by a number, the least free one.
NextOf(f) ==
    LET taken == {0} \cup {c.nth : c \in {d \in callbacks : d.flow = f}}
    IN  {n \in 1..MaxCallbacks : n \notin taken /\ n - 1 \in taken}

\* oauth_callback as far as the claim
Callback(b, due) ==
    LET f == jar[b].flow
    IN  /\ Valid(b)
        /\ Cardinality(callbacks) < MaxCallbacks
        /\ Claimable(f, Pruned(due))
        /\ consumed' = With(Pruned(due), f, clock)
        /\ \E n \in NextOf(f) :
              callbacks' = callbacks \cup {[browser |-> b, flow |-> f, nth |-> n, token |-> jar[b].session,
                                            subject |-> NoSubject, guest |-> 0, account |-> 0]}
        /\ overdue' = IF clock - flows[f].started > FlowTtl THEN overdue \cup {f} ELSE overdue
        /\ UNCHANGED <<clock, principals, sessions, lapsed, identities, flows, jar, crossed>>

\* exchange_code raises: a transient error gives the flow back.
ExchangeFails(c, transient) ==
    /\ c.subject = NoSubject
    /\ callbacks' = callbacks \ {c}
    /\ consumed' = IF transient THEN [f \in DOMAIN consumed \ {c.flow} |-> consumed[f]] ELSE consumed
    /\ UNCHANGED <<clock, principals, sessions, lapsed, identities, flows, jar, crossed, overdue>>

\* _in_flight_guest_id: the guest behind an active session
InFlightGuest(t) ==
    IF t \in DOMAIN sessions \ lapsed /\ principals[sessions[t].principal] = [kind |-> "guest", deleted |-> FALSE]
    THEN sessions[t].principal ELSE 0

AccountOf(s) == IF s \in DOMAIN identities THEN identities[s] ELSE 0

\* The exchange succeeds, and the transaction reads the guest and the identity.
Resolved(c, s) ==
    /\ c.subject = NoSubject
    /\ callbacks' = (callbacks \ {c})
          \cup {[c EXCEPT !.subject = s, !.guest = InFlightGuest(c.token), !.account = AccountOf(s)]}
    /\ UNCHANGED <<clock, principals, sessions, lapsed, identities, consumed, flows, jar, crossed, overdue>>

\* _repoint_sessions
Repointed(from, to) ==
    [t \in DOMAIN sessions |-> IF sessions[t].principal = from THEN [sessions[t] EXCEPT !.principal = to]
                                                               ELSE sessions[t]]

Stale(c) == c.guest # 0 /\ principals[c.guest] # [kind |-> "guest", deleted |-> FALSE]

Minted(c, p, table) ==
    /\ sessions' = With(table, Fresh(table), Session(p, c.flow, c.subject))
    /\ jar' = [jar EXCEPT ![c.browser] = [session |-> Fresh(table), flow |-> 0]]
    /\ crossed' = IF Stale(c) THEN crossed \cup {c.guest} ELSE crossed
    /\ callbacks' = callbacks \ {c}
    /\ UNCHANGED <<clock, lapsed, consumed, flows, overdue>>

\* find_or_create_account for a known identity: the guest is merged into the account.
SignInKnown(c) ==
    /\ c.account # 0
    /\ Minted(c, c.account, IF c.guest = 0 THEN sessions ELSE Repointed(c.guest, c.account))
    /\ principals' = IF c.guest = 0 THEN principals ELSE [principals EXCEPT ![c.guest].deleted = TRUE]
    /\ UNCHANGED identities

\* A new identity: the guest is upgraded in place, or an account is made.  (provider,
\* subject) is unique: of two first sign-ins one fails.
SignInNew(c) ==
    /\ c.subject # NoSubject /\ c.account = 0
    /\ c.subject \notin DOMAIN identities
    /\ LET p == IF c.guest # 0 THEN c.guest ELSE Fresh(principals)
       IN  /\ principals' = IF c.guest # 0 THEN [principals EXCEPT ![p].kind = "account"]
                            ELSE With(principals, p, [kind |-> "account", deleted |-> FALSE])
           /\ identities' = With(identities, c.subject, p)
           /\ Minted(c, p, sessions)

\* The transaction fails after the exchange: the flow stays consumed.
SignInFails(c) ==
    /\ c.subject # NoSubject
    /\ callbacks' = callbacks \ {c}
    /\ UNCHANGED <<clock, principals, sessions, lapsed, identities, consumed, flows, jar, crossed, overdue>>

Lapse(t) ==
    /\ t \notin lapsed
    /\ lapsed' = lapsed \cup {t}
    /\ UNCHANGED <<clock, principals, sessions, identities, consumed, flows, jar, callbacks, crossed, overdue>>

Pass ==
    /\ clock < MaxClock
    /\ clock' = clock + 1
    /\ UNCHANGED <<principals, sessions, lapsed, identities, consumed, flows, jar, callbacks, crossed, overdue>>

SignInNext ==
    \/ \E b \in Browsers : \/ Guest(b) \/ StartFlow(b)
                           \/ \E due \in BOOLEAN : Callback(b, due)
    \/ \E c \in callbacks :
          \/ \E transient \in BOOLEAN : ExchangeFails(c, transient)
          \/ \E s \in Subjects : Resolved(c, s)
          \/ SignInKnown(c) \/ SignInNew(c) \/ SignInFails(c)
    \/ \E t \in DOMAIN sessions : Lapse(t)
    \/ Pass

SignInSpec == SignInInit /\ [][SignInNext]_signInVars

-----------------------------------------------------------------------------
PrincipalRows == [kind : {"guest", "account"}, deleted : BOOLEAN]

SessionRows == [principal : DOMAIN principals, flow : {0} \cup DOMAIN flows,
                subject : Subjects \cup {NoSubject}]

\* oauth_identities holds the unique pair of provider and subject.
IdentityRows == [DOMAIN identities -> DOMAIN principals]

\* oauth_consumed_flows: a flow and when it was consumed
ConsumedRows == [DOMAIN consumed -> 0..MaxClock]

SignInTypeOK ==
    /\ \A p \in DOMAIN principals : principals[p] \in PrincipalRows
    /\ \A t \in DOMAIN sessions : sessions[t] \in SessionRows
    /\ DOMAIN identities \subseteq Subjects /\ identities \in IdentityRows
    /\ DOMAIN consumed \subseteq DOMAIN flows /\ consumed \in ConsumedRows

\* A flow that is only ever submitted within its time signs in once: whatever is submitted
\* twice, or released after a transient failure and tried again, mints no second session.
\* (A late one has left the ledger and passes again.)  No session, of whatever flow, is
\* stranded on a deleted principal, and what a subject has signed in to is the one account
\* that the next sign-in finds, unless two callbacks of the same guest overlapped.
SignInsReachAnAccount ==
    /\ \A f \in DOMAIN flows \ overdue :
          Cardinality({t \in DOMAIN sessions : sessions[t].flow = f}) =< 1
    /\ \A t \in DOMAIN sessions :
          LET p == sessions[t].principal
          IN  /\ p \in crossed \/ ~principals[p].deleted
              /\ sessions[t].flow # 0 => identities[sessions[t].subject] \in {p} \cup crossed
    /\ \A s \in DOMAIN identities :
          identities[s] \in crossed \/ principals[identities[s]] = [kind |-> "account", deleted |-> FALSE]
=============================================================================
