----------------------------- MODULE AccessProofs -----------------------------
(***************************************************************************)
(* Proofs about how requests are let in: SignIn, for any number of         *)
(* browsers, subjects, guests, flows and callbacks, and RateLimits, for    *)
(* any settings, hosts, keys and requests.                                 *)
(*                                                                         *)
(* A flow that is never submitted late is held by a callback or by the     *)
(* session it minted, by one of them and once, and whoever holds it has it *)
(* in the ledger of consumed flows until it is too late to submit it.      *)
(*                                                                         *)
(* A store counts in a bucket and window at least what it has let through, *)
(* as long as the window can still be hit: every write to it evicts by a   *)
(* clock that is no further than one window ahead of the others that write *)
(* there, unless a message stamps it with the time of day.                 *)
(***************************************************************************)
EXTENDS SignIn, RateLimits, FiniteSetTheorems, TLAPS

\* The ids of a table count up from one.
Numbered(table) == \E n \in Nat : DOMAIN table = 1..n

CallbackRows ==
    [browser : Browsers, flow : DOMAIN flows, nth : 1..MaxCallbacks, token : {0} \cup DOMAIN sessions,
     subject : Subjects \cup {NoSubject}, guest : {0} \cup DOMAIN principals,
     account : {0} \cup DOMAIN principals]

FlowRows == [binding : {0} \cup DOMAIN sessions, started : 0..clock]

JarRows == [session : {0} \cup DOMAIN sessions, flow : {0} \cup DOMAIN flows]

SignInTables ==
    /\ clock \in 0..MaxClock
    /\ Numbered(principals) /\ Numbered(sessions) /\ Numbered(flows)
    /\ \A p \in DOMAIN principals : principals[p] \in PrincipalRows
    /\ \A t \in DOMAIN sessions : sessions[t] \in SessionRows
    /\ \A f \in DOMAIN flows : flows[f] \in FlowRows
    /\ DOMAIN identities \subseteq Subjects /\ identities \in IdentityRows
    /\ DOMAIN consumed \subseteq DOMAIN flows /\ consumed \in ConsumedRows
    /\ jar \in [Browsers -> JarRows]
    /\ callbacks \subseteq CallbackRows

\* Such a flow is refused, or it is late.
Spent(f) == f \in DOMAIN consumed \/ clock - flows[f].started > FlowTtl

FlowsSignInOnce ==
    /\ \A c, d \in callbacks : c.flow = d.flow => c = d \/ c.flow \in overdue
    /\ \A c \in callbacks : c.flow \in overdue \/ Spent(c.flow)
    /\ \A c \in callbacks, t \in DOMAIN sessions : sessions[t].flow = c.flow => c.flow \in overdue
    /\ \A t, u \in DOMAIN sessions :
          sessions[t].flow = sessions[u].flow => t = u \/ sessions[t].flow \in {0} \cup overdue
    /\ \A t \in DOMAIN sessions : sessions[t].flow \in {0} \cup overdue \/ Spent(sessions[t].flow)
    /\ \A f \in DOMAIN consumed : flows[f].started =< consumed[f] /\ consumed[f] =< clock

IsAccount(p) ==
    /\ p \in DOMAIN principals /\ principals[p].kind = "account"
    /\ principals[p].deleted => p \in crossed

\* The account that a callback has read is still the one of its subject.
Finds(c) ==
    c.account # 0 =>
        IsAccount(c.account) /\ c.subject \in DOMAIN identities /\ identities[c.subject] = c.account

Lands(r) ==
    /\ principals[r.principal].kind = "guest" => r.flow = 0
    /\ principals[r.principal].deleted => r.principal \in crossed
    /\ r.flow # 0 => r.subject \in DOMAIN identities /\ identities[r.subject] \in {r.principal} \cup crossed

AccountsReached ==
    /\ \A s \in DOMAIN identities : IsAccount(identities[s])
    /\ \A c \in callbacks : Finds(c)
    /\ \A t \in DOMAIN sessions : Lands(sessions[t])

SignInInv == SignInTables /\ FlowsSignInOnce /\ AccountsReached

-----------------------------------------------------------------------------
\* A fresh id is the next number and belongs to no row.
LEMMA FreshIsNew ==
    ASSUME NEW table, Numbered(table), NEW v
    PROVE  /\ Fresh(table) \in Nat /\ Fresh(table) # 0 /\ 0 \notin DOMAIN table
           /\ Fresh(table) \notin DOMAIN table
           /\ DOMAIN With(table, Fresh(table), v) = DOMAIN table \cup {Fresh(table)}
           /\ Numbered(With(table, Fresh(table), v))
           /\ With(table, Fresh(table), v)[Fresh(table)] = v
           /\ \A k \in DOMAIN table : With(table, Fresh(table), v)[k] = table[k]
<1>1. PICK n \in Nat : DOMAIN table = 1..n
  BY DEF Numbered
<1>2. Cardinality(DOMAIN table) = n
  BY <1>1, FS_Interval
<1>3. Fresh(table) = n + 1
  BY <1>2 DEF Fresh
<1>4. DOMAIN table \cup {Fresh(table)} = 1..n + 1
  BY <1>1, <1>3
<1>5. DOMAIN With(table, Fresh(table), v) = DOMAIN table \cup {Fresh(table)}
  BY DEF With
<1>6. Fresh(table) \notin DOMAIN table /\ 0 \notin DOMAIN table /\ Fresh(table) \in Nat /\ Fresh(table) # 0
  BY <1>1, <1>3
<1>7. Numbered(With(table, Fresh(table), v))
  BY <1>4, <1>5 DEF Numbered
<1>8. With(table, Fresh(table), v)[Fresh(table)] = v
  BY DEF With
<1>9. \A k \in DOMAIN table : With(table, Fresh(table), v)[k] = table[k]
  BY <1>6 DEF With
<1> QED
  BY <1>5, <1>6, <1>7, <1>8, <1>9

\* The same of a table after a row has been inserted
LEMMA Inserted ==
    ASSUME NEW old, NEW new, NEW v, Numbered(old), new = With(old, Fresh(old), v)
    PROVE  /\ Fresh(old) \in Nat /\ Fresh(old) # 0 /\ Fresh(old) \notin DOMAIN old
           /\ DOMAIN new = DOMAIN old \cup {Fresh(old)}
           /\ Numbered(new)
           /\ new[Fresh(old)] = v
           /\ \A k \in DOMAIN old : new[k] = old[k]
<1>1. /\ Fresh(old) \in Nat /\ Fresh(old) # 0 /\ Fresh(old) \notin DOMAIN old
      /\ DOMAIN With(old, Fresh(old), v) = DOMAIN old \cup {Fresh(old)}
      /\ Numbered(With(old, Fresh(old), v))
      /\ With(old, Fresh(old), v)[Fresh(old)] = v
  BY FreshIsNew
<1>2. \A k \in DOMAIN old : With(old, Fresh(old), v)[k] = old[k]
  BY FreshIsNew
<1> QED
  BY <1>1, <1>2

\* What With does to a table whatever the key, for the ledgers whose keys are no numbers
LEMMA WithReads ==
    ASSUME NEW table, NEW key, NEW v
    PROVE  /\ DOMAIN With(table, key, v) = DOMAIN table \cup {key}
           /\ With(table, key, v)[key] = v
           /\ \A k \in DOMAIN table \ {key} : With(table, key, v)[k] = table[k]
BY DEF With
-----------------------------------------------------------------------------
\* No step deletes a row, so that what refers to one keeps doing so.
TablesGrow ==
    /\ DOMAIN principals \subseteq DOMAIN principals'
    /\ DOMAIN sessions \subseteq DOMAIN sessions'
    /\ DOMAIN flows \subseteq DOMAIN flows'
    /\ 0..clock \subseteq 0..clock'

LEMMA OldRows ==
    ASSUME TablesGrow
    PROVE  /\ SessionRows \subseteq SessionRows' /\ CallbackRows \subseteq CallbackRows'
           /\ FlowRows \subseteq FlowRows' /\ JarRows \subseteq JarRows'
<1>1. SessionRows \subseteq SessionRows'
  BY DEF TablesGrow, SessionRows
<1>2. CallbackRows \subseteq CallbackRows'
  BY DEF TablesGrow, CallbackRows
<1>3. FlowRows \subseteq FlowRows'
  BY DEF TablesGrow, FlowRows
<1>4. JarRows \subseteq JarRows'
  BY DEF TablesGrow, JarRows
<1> QED
  BY <1>1, <1>2, <1>3, <1>4

\* create_guest inserts a principal and a session of its own.
LEMMA GuestKeepsTables ==
    ASSUME SignInTables, NEW b \in Browsers, Guest(b)
    PROVE  SignInTables' /\ TablesGrow
<1> DEFINE p == Fresh(principals)
           t == Fresh(sessions)
<1>1. /\ p \notin DOMAIN principals /\ DOMAIN principals' = DOMAIN principals \cup {p}
      /\ Numbered(principals') /\ principals'[p] = [kind |-> "guest", deleted |-> FALSE]
      /\ \A k \in DOMAIN principals : principals'[k] = principals[k]
  <2>1. principals' = With(principals, p, [kind |-> "guest", deleted |-> FALSE]) /\ Numbered(principals)
    BY DEF Guest, SignInTables
  <2> QED
    BY <2>1, Inserted
<1>2. /\ t \notin DOMAIN sessions /\ DOMAIN sessions' = DOMAIN sessions \cup {t}
      /\ Numbered(sessions') /\ sessions'[t] = Session(p, 0, NoSubject)
      /\ \A k \in DOMAIN sessions : sessions'[k] = sessions[k]
  <2> DEFINE row == Session(p, 0, NoSubject)
  <2>1. sessions' = With(sessions, Fresh(sessions), row) /\ Numbered(sessions)
    BY DEF Guest, SignInTables
  <2> HIDE DEF row
  <2>2. /\ t \notin DOMAIN sessions /\ DOMAIN sessions' = DOMAIN sessions \cup {t}
        /\ Numbered(sessions')
    BY <2>1, Inserted
  <2>3. sessions'[t] = row
    BY <2>1, Inserted
  <2>4. \A k \in DOMAIN sessions : sessions'[k] = sessions[k]
    BY <2>1, <2>2 DEF With
  <2> QED
    BY <2>2, <2>3, <2>4 DEF row
<1>3. jar' = [jar EXCEPT ![b].session = t]
  BY DEF Guest
<1> HIDE DEF p, t
<1>4. TablesGrow
  BY <1>1, <1>2 DEF TablesGrow, Guest
<1>5. \A k \in DOMAIN principals' : principals'[k] \in PrincipalRows
  <2>1. principals'[p] \in PrincipalRows
    BY <1>1 DEF PrincipalRows
  <2> QED
    BY <1>1, <2>1 DEF SignInTables
<1>6. \A k \in DOMAIN sessions' : sessions'[k] \in SessionRows'
  <2>1. sessions'[t] \in SessionRows'
    BY <1>1, <1>2 DEF SessionRows, Session
  <2> QED
    BY <1>2, <1>4, <2>1, OldRows DEF SignInTables
<1>7. jar' \in [Browsers -> JarRows']
  <2>1. jar \in [Browsers -> JarRows'] /\ t \in DOMAIN sessions'
    BY <1>2, <1>4, OldRows DEF SignInTables
  <2> QED
    BY <1>3, <2>1 DEF JarRows
<1>8. identities' \in IdentityRows' /\ callbacks' \subseteq CallbackRows'
  BY <1>4, OldRows DEF SignInTables, IdentityRows, TablesGrow, Guest
<1>9. \A f \in DOMAIN flows' : flows'[f] \in FlowRows'
  BY <1>4, OldRows DEF SignInTables, Guest
<1> QED
  BY <1>1, <1>2, <1>4, <1>5, <1>6, <1>7, <1>8, <1>9 DEF SignInTables, Guest, ConsumedRows

LEMMA StartFlowKeepsTables ==
    ASSUME SignInTables, NEW b \in Browsers, StartFlow(b)
    PROVE  SignInTables' /\ TablesGrow
<1> DEFINE f == Fresh(flows)
           row == [binding |-> jar[b].session, started |-> clock]
<1>1. /\ f \notin DOMAIN flows /\ DOMAIN flows' = DOMAIN flows \cup {f} /\ Numbered(flows')
      /\ flows'[f] = row /\ \A k \in DOMAIN flows : flows'[k] = flows[k]
  <2>1. flows' = With(flows, Fresh(flows), row) /\ Numbered(flows)
    BY DEF StartFlow, SignInTables
  <2> HIDE DEF row
  <2> QED
    BY <2>1, Inserted
<1>2. jar' = [jar EXCEPT ![b].flow = f]
  BY DEF StartFlow
<1> HIDE DEF f
<1>3. TablesGrow
  BY <1>1 DEF TablesGrow, StartFlow
<1>4. row \in FlowRows'
  BY <1>3, OldRows DEF SignInTables, FlowRows, JarRows, StartFlow
<1>5. \A k \in DOMAIN flows' : flows'[k] \in FlowRows'
  BY <1>1, <1>3, <1>4, OldRows DEF SignInTables
<1>6. jar' \in [Browsers -> JarRows']
  <2>1. jar \in [Browsers -> JarRows'] /\ f \in DOMAIN flows'
    BY <1>1, <1>3, OldRows DEF SignInTables
  <2> QED
    BY <1>2, <2>1 DEF JarRows
<1>7. \A k \in DOMAIN sessions' : sessions'[k] \in SessionRows'
  BY <1>3, OldRows DEF SignInTables, StartFlow
<1>8. callbacks' \subseteq CallbackRows'
  BY <1>3, OldRows DEF SignInTables, StartFlow
<1> QED
  BY <1>1, <1>3, <1>5, <1>6, <1>7, <1>8 DEF SignInTables, StartFlow, ConsumedRows, IdentityRows

\* The flow that a valid callback names is a row.
LEMMA ValidFlow ==
    ASSUME SignInTables, NEW b \in Browsers, Valid(b)
    PROVE  jar[b].flow \in DOMAIN flows /\ jar[b].session \in {0} \cup DOMAIN sessions
BY DEF SignInTables, JarRows, Valid

LEMMA CallbackKeepsTables ==
    ASSUME SignInTables, NEW b \in Browsers, NEW due \in BOOLEAN, Callback(b, due)
    PROVE  SignInTables' /\ TablesGrow
<1>0. PICK n \in NextOf(jar[b].flow) :
         callbacks' = callbacks \cup {[browser |-> b, flow |-> jar[b].flow, nth |-> n,
                                      token |-> jar[b].session, subject |-> NoSubject,
                                      guest |-> 0, account |-> 0]}
  BY DEF Callback
<1> DEFINE f == jar[b].flow
           c == [browser |-> b, flow |-> f, nth |-> n, token |-> jar[b].session,
                 subject |-> NoSubject, guest |-> 0, account |-> 0]
<1>1. TablesGrow
  BY DEF TablesGrow, Callback
<1>2. f \in DOMAIN flows /\ jar[b].session \in {0} \cup DOMAIN sessions
  BY ValidFlow DEF Callback
<1>3. consumed' = With(Pruned(due), f, clock) /\ callbacks' = callbacks \cup {c}
  BY <1>0 DEF Callback
<1>4. /\ DOMAIN consumed' = DOMAIN Pruned(due) \cup {f} /\ DOMAIN Pruned(due) \subseteq DOMAIN consumed
      /\ consumed' \in [DOMAIN consumed' -> 0..MaxClock]
  BY <1>3 DEF With, Pruned, SignInTables, ConsumedRows
<1>5. c \in CallbackRows
  BY <1>2 DEF CallbackRows, NextOf
<1> HIDE DEF c, f
<1>6. callbacks' \subseteq CallbackRows'
  BY <1>1, <1>3, <1>5, OldRows DEF SignInTables
<1>7. DOMAIN consumed' \subseteq DOMAIN flows' /\ consumed' \in ConsumedRows'
  BY <1>2, <1>4 DEF SignInTables, ConsumedRows, Callback
<1> QED
  BY <1>1, <1>6, <1>7 DEF SignInTables, Callback, IdentityRows, SessionRows, FlowRows, JarRows

LEMMA ExchangeFailsKeepsTables ==
    ASSUME SignInTables, NEW c \in callbacks, NEW transient \in BOOLEAN, ExchangeFails(c, transient)
    PROVE  SignInTables' /\ TablesGrow
<1>1. TablesGrow
  BY DEF TablesGrow, ExchangeFails
<1>2. DOMAIN consumed' \subseteq DOMAIN consumed /\ consumed' \in ConsumedRows'
  BY DEF ExchangeFails, SignInTables, ConsumedRows
<1>3. callbacks' \subseteq CallbackRows'
  BY <1>1, OldRows DEF ExchangeFails, SignInTables
<1> QED
  BY <1>1, <1>2, <1>3 DEF SignInTables, ExchangeFails, IdentityRows, SessionRows, FlowRows, JarRows

\* A guest in flight is a row, and so is the account of a subject.
LEMMA ReadsRows ==
    ASSUME SignInTables
    PROVE  /\ \A t : InFlightGuest(t) \in {0} \cup DOMAIN principals
           /\ \A s : AccountOf(s) \in {0} \cup DOMAIN principals
<1>1. \A t : InFlightGuest(t) \in {0} \cup DOMAIN principals
  BY DEF InFlightGuest, SignInTables, SessionRows
<1>2. \A s : AccountOf(s) \in {0} \cup DOMAIN principals
  BY DEF AccountOf, SignInTables, IdentityRows
<1> QED
  BY <1>1, <1>2

LEMMA ResolvedKeepsTables ==
    ASSUME SignInTables, NEW c \in callbacks, NEW s \in Subjects, Resolved(c, s)
    PROVE  SignInTables' /\ TablesGrow
<1> DEFINE d == [c EXCEPT !.subject = s, !.guest = InFlightGuest(c.token), !.account = AccountOf(s)]
<1>1. TablesGrow
  BY DEF TablesGrow, Resolved
<1>2. callbacks' = (callbacks \ {c}) \cup {d}
  BY DEF Resolved
<1>3. c \in CallbackRows
  BY DEF SignInTables
<1>4. d \in CallbackRows
  BY <1>3, ReadsRows DEF CallbackRows
<1> HIDE DEF d
<1>5. callbacks' \subseteq CallbackRows'
  BY <1>1, <1>2, <1>4, OldRows DEF SignInTables
<1> QED
  BY <1>1, <1>5 DEF SignInTables, Resolved, IdentityRows, SessionRows, FlowRows, JarRows, ConsumedRows
\* _repoint_sessions changes no key.
LEMMA RepointedRows ==
    ASSUME NEW from, NEW to, NEW t \in DOMAIN sessions
    PROVE  /\ DOMAIN Repointed(from, to) = DOMAIN sessions
           /\ sessions[t].principal = from =>
                 Repointed(from, to)[t] = [sessions[t] EXCEPT !.principal = to]
           /\ sessions[t].principal # from => Repointed(from, to)[t] = sessions[t]
BY DEF Repointed

\* A sign-in inserts one session, into a table with the keys of the old one.
LEMMA MintedInserts ==
    ASSUME SignInTables, NEW c, NEW p, NEW table, DOMAIN table = DOMAIN sessions, Minted(c, p, table)
    PROVE  /\ Fresh(table) # 0 /\ Fresh(table) \notin DOMAIN sessions
           /\ DOMAIN sessions' = DOMAIN sessions \cup {Fresh(table)}
           /\ Numbered(sessions')
           /\ sessions'[Fresh(table)] = Session(p, c.flow, c.subject)
           /\ \A t \in DOMAIN sessions : sessions'[t] = table[t]
<1> DEFINE row == Session(p, c.flow, c.subject)
<1>1. sessions' = With(table, Fresh(table), row) /\ Numbered(table)
  BY DEF Minted, SignInTables, Numbered
<1> HIDE DEF row
<1>2. /\ Fresh(table) # 0 /\ Fresh(table) \notin DOMAIN table
      /\ DOMAIN sessions' = DOMAIN table \cup {Fresh(table)}
      /\ Numbered(sessions') /\ sessions'[Fresh(table)] = row
  BY <1>1, Inserted
<1>3. \A t \in DOMAIN sessions : sessions'[t] = table[t]
  BY <1>1, <1>2 DEF With
<1> QED
  BY <1>2, <1>3 DEF row

\* What a sign-in does to the tables, whichever it is
LEMMA MintedKeepsTables ==
    ASSUME SignInTables, NEW c \in callbacks, NEW p \in DOMAIN principals', NEW table,
           DOMAIN table = DOMAIN sessions, Minted(c, p, table),
           \A t \in DOMAIN sessions : table[t] \in SessionRows',
           DOMAIN principals \subseteq DOMAIN principals', Numbered(principals'),
           \A k \in DOMAIN principals' : principals'[k] \in PrincipalRows,
           DOMAIN identities' \subseteq Subjects, identities' \in IdentityRows'
    PROVE  SignInTables' /\ TablesGrow
<1> DEFINE n == Fresh(table)
<1>1. /\ n \notin DOMAIN sessions /\ DOMAIN sessions' = DOMAIN sessions \cup {n}
      /\ Numbered(sessions') /\ sessions'[n] = Session(p, c.flow, c.subject)
      /\ \A t \in DOMAIN sessions : sessions'[t] = table[t]
  BY MintedInserts
<1>2. jar' = [jar EXCEPT ![c.browser] = [session |-> n, flow |-> 0]]
  BY DEF Minted
<1> HIDE DEF n
<1>3. TablesGrow
  BY <1>1 DEF TablesGrow, Minted
<1>4. c \in CallbackRows
  BY DEF SignInTables
<1>5. \A t \in DOMAIN sessions' : sessions'[t] \in SessionRows'
  <2>1. sessions'[n] \in SessionRows'
    BY <1>1, <1>4 DEF SessionRows, Session, CallbackRows, Minted
  <2> QED
    BY <1>1, <2>1
<1>6. jar' \in [Browsers -> JarRows']
  <2>1. jar \in [Browsers -> JarRows'] /\ n \in DOMAIN sessions'
    BY <1>1, <1>3, OldRows DEF SignInTables
  <2> QED
    BY <1>2, <2>1 DEF JarRows
<1>7. callbacks' \subseteq CallbackRows' /\ \A f \in DOMAIN flows' : flows'[f] \in FlowRows'
  BY <1>3, OldRows DEF SignInTables, Minted
<1> QED
  BY <1>1, <1>3, <1>5, <1>6, <1>7 DEF SignInTables, Minted, ConsumedRows

LEMMA SignInKnownKeepsTables ==
    ASSUME SignInTables, NEW c \in callbacks, SignInKnown(c)
    PROVE  SignInTables' /\ TablesGrow
<1> DEFINE table == IF c.guest = 0 THEN sessions ELSE Repointed(c.guest, c.account)
<1>1. c \in CallbackRows /\ c.account \in DOMAIN principals
  BY DEF SignInTables, CallbackRows, SignInKnown
<1>2. /\ DOMAIN principals' = DOMAIN principals
      /\ \A k \in DOMAIN principals : principals'[k] \in PrincipalRows
  BY DEF SignInTables, SignInKnown, PrincipalRows
<1>3. DOMAIN table = DOMAIN sessions
  BY DEF Repointed
<1>4. \A t \in DOMAIN sessions : table[t] \in SessionRows'
  <2>1. SessionRows' = SessionRows
    BY <1>2 DEF SessionRows, SignInKnown, Minted
  <2>2. \A t \in DOMAIN sessions : sessions[t] \in SessionRows
    BY DEF SignInTables
  <2>3. \A t \in DOMAIN sessions : [sessions[t] EXCEPT !.principal = c.account] \in SessionRows
    BY <1>1, <2>2 DEF SessionRows
  <2>4. ASSUME NEW t \in DOMAIN sessions PROVE Repointed(c.guest, c.account)[t] \in SessionRows
    BY <2>2, <2>3 DEF Repointed
  <2> QED
    BY <2>1, <2>2, <2>4
<1>5. Minted(c, c.account, table)
  BY DEF SignInKnown
<1> HIDE DEF table
<1>6. Numbered(principals') /\ identities' = identities /\ IdentityRows' = IdentityRows
  BY <1>2 DEF SignInTables, SignInKnown, Numbered, IdentityRows
<1> QED
  BY <1>1, <1>2, <1>3, <1>4, <1>5, <1>6, MintedKeepsTables DEF SignInTables

LEMMA SignInNewKeepsTables ==
    ASSUME SignInTables, NEW c \in callbacks, SignInNew(c)
    PROVE  SignInTables' /\ TablesGrow
<1> DEFINE p == IF c.guest # 0 THEN c.guest ELSE Fresh(principals)
<1>1. c \in CallbackRows
  BY DEF SignInTables
<1>2. /\ DOMAIN principals \subseteq DOMAIN principals' /\ p \in DOMAIN principals'
      /\ Numbered(principals')
      /\ \A k \in DOMAIN principals' : principals'[k] \in PrincipalRows
  <2>1. CASE c.guest # 0
    <3>1. p = c.guest /\ p \in DOMAIN principals
      BY <1>1, <2>1 DEF CallbackRows
    <3>2. principals' = [principals EXCEPT ![c.guest].kind = "account"]
      BY <2>1 DEF SignInNew
    <3>3. DOMAIN principals' = DOMAIN principals
      BY <3>2
    <3>4. Numbered(principals')
      BY <3>3 DEF Numbered, SignInTables
    <3>5. \A k \in DOMAIN principals' : principals'[k] \in PrincipalRows
      BY <3>1, <3>2, <3>3 DEF SignInTables, PrincipalRows
    <3> QED
      BY <3>1, <3>3, <3>4, <3>5
  <2>2. CASE c.guest = 0
    <3> DEFINE row == [kind |-> "account", deleted |-> FALSE]
    <3>1. /\ principals' = With(principals, Fresh(principals), row) /\ p = Fresh(principals)
          /\ Numbered(principals)
      BY <2>2 DEF SignInNew, SignInTables
    <3>2. row \in PrincipalRows
      BY DEF PrincipalRows
    <3> HIDE DEF row, p
    <3>3. /\ DOMAIN principals' = DOMAIN principals \cup {p} /\ p \notin DOMAIN principals
          /\ Numbered(principals') /\ principals'[p] = row
      BY <3>1, Inserted
    <3>4. \A k \in DOMAIN principals : principals'[k] = principals[k]
      BY <3>1, <3>3 DEF With
    <3> QED
      BY <3>2, <3>3, <3>4 DEF SignInTables
  <2> QED
    BY <2>1, <2>2
<1>3. Minted(c, p, sessions) /\ identities' = With(identities, c.subject, p) /\ c.subject # NoSubject
  BY DEF SignInNew
<1> HIDE DEF p
<1>4. DOMAIN identities' \subseteq Subjects /\ identities' \in IdentityRows'
  <2>1. c.subject \in Subjects
    BY <1>1, <1>3 DEF CallbackRows
  <2> QED
    BY <1>2, <1>3, <2>1 DEF SignInTables, IdentityRows, With
<1>5. \A t \in DOMAIN sessions : sessions[t] \in SessionRows'
  BY <1>2, <1>3 DEF SignInTables, SessionRows, Minted
<1> QED
  BY <1>2, <1>3, <1>4, <1>5, MintedKeepsTables

LEMMA OthersKeepTables ==
    ASSUME SignInTables,
           \/ \E c \in callbacks : SignInFails(c)
           \/ \E t \in DOMAIN sessions : Lapse(t)
           \/ Pass
           \/ UNCHANGED signInVars
    PROVE  SignInTables' /\ TablesGrow
<1>1. TablesGrow
  BY DEF TablesGrow, SignInFails, Lapse, Pass, signInVars, SignInTables
<1>2. callbacks' \subseteq CallbackRows'
  BY <1>1, OldRows DEF SignInTables, SignInFails, Lapse, Pass, signInVars
<1>3. clock' \in 0..MaxClock
  BY SignInAssumption DEF SignInTables, SignInFails, Lapse, Pass, signInVars
<1> QED
  BY <1>1, <1>2, <1>3
  DEF SignInTables, SignInFails, Lapse, Pass, signInVars, IdentityRows, SessionRows, FlowRows,
      JarRows, ConsumedRows
-----------------------------------------------------------------------------
\* What is pruned from the ledger is too old to be submitted.
LEMMA PrunedIsSpent ==
    ASSUME SignInTables, FlowsSignInOnce, NEW due \in BOOLEAN, NEW f \in DOMAIN flows, Spent(f)
    PROVE  f \in DOMAIN Pruned(due) \/ clock - flows[f].started > FlowTtl
<1>1. clock \in Int /\ FlowTtl \in Int /\ flows[f].started \in Int
  BY SignInAssumption DEF SignInTables, FlowRows
<1>2. SUFFICES ASSUME f \in DOMAIN consumed, f \notin DOMAIN Pruned(due)
               PROVE  clock - flows[f].started > FlowTtl
  BY DEF Spent
<1>3. consumed[f] < clock - FlowTtl
  BY <1>2 DEF Pruned
<1>4. consumed[f] \in Int /\ flows[f].started =< consumed[f]
  BY <1>2 DEF SignInTables, ConsumedRows, FlowsSignInOnce
<1> QED
  BY <1>1, <1>3, <1>4

\* A step of a callback that leaves the sessions alone, or of a browser without a flow
LEMMA QuietStepsKeepFlows ==
    ASSUME SignInTables, FlowsSignInOnce, callbacks' = callbacks, flows' = flows, overdue' = overdue,
           consumed' = consumed, clock' \in {clock, clock + 1}, DOMAIN sessions \subseteq DOMAIN sessions',
           \A t \in DOMAIN sessions : sessions'[t].flow = sessions[t].flow,
           \A t \in DOMAIN sessions' \ DOMAIN sessions : sessions'[t].flow = 0
    PROVE  FlowsSignInOnce'
<1>1. clock \in Int /\ FlowTtl \in Int /\ \A f \in DOMAIN flows : flows[f].started \in Int
  BY SignInAssumption DEF SignInTables, FlowRows
<1>2. \A f \in DOMAIN flows : Spent(f) => Spent(f)'
  BY <1>1 DEF Spent
<1>3. \A c \in callbacks : c.flow \in DOMAIN flows /\ c.flow # 0
  BY DEF SignInTables, CallbackRows, Numbered
<1>4. \A t \in DOMAIN sessions : sessions[t].flow # 0 => sessions[t].flow \in DOMAIN flows
  BY DEF SignInTables, SessionRows
<1>5. \A f \in DOMAIN consumed : consumed[f] =< clock => consumed[f] =< clock'
  BY <1>1 DEF SignInTables, ConsumedRows
<1>6. (\A c, d \in callbacks : c.flow = d.flow => c = d \/ c.flow \in overdue)'
  BY DEF FlowsSignInOnce
<1>7. (\A c \in callbacks : c.flow \in overdue \/ Spent(c.flow))'
  BY <1>2, <1>3 DEF FlowsSignInOnce
<1>8. (\A c \in callbacks, t \in DOMAIN sessions : sessions[t].flow = c.flow => c.flow \in overdue)'
  BY <1>3 DEF FlowsSignInOnce
<1>9. (\A t, u \in DOMAIN sessions :
          sessions[t].flow = sessions[u].flow => t = u \/ sessions[t].flow \in {0} \cup overdue)'
  BY DEF FlowsSignInOnce
<1>10. (\A t \in DOMAIN sessions : sessions[t].flow \in {0} \cup overdue \/ Spent(sessions[t].flow))'
  BY <1>2, <1>4 DEF FlowsSignInOnce
<1>11. (\A f \in DOMAIN consumed : flows[f].started =< consumed[f] /\ consumed[f] =< clock)'
  BY <1>5 DEF FlowsSignInOnce
<1> QED
  BY <1>6, <1>7, <1>8, <1>9, <1>10, <1>11 DEF FlowsSignInOnce

LEMMA StartFlowKeepsFlows ==
    ASSUME SignInTables, FlowsSignInOnce, NEW b \in Browsers, StartFlow(b)
    PROVE  FlowsSignInOnce'
<1> DEFINE row == [binding |-> jar[b].session, started |-> clock]
<1>1. \A f \in DOMAIN flows : flows'[f] = flows[f]
  <2>1. flows' = With(flows, Fresh(flows), row) /\ Numbered(flows)
    BY DEF StartFlow, SignInTables
  <2> HIDE DEF row
  <2>2. Fresh(flows) \notin DOMAIN flows
    BY <2>1, Inserted
  <2> QED
    BY <2>1, <2>2 DEF With
<1>2. \A f \in DOMAIN flows : Spent(f) => Spent(f)'
  BY <1>1 DEF Spent, StartFlow
<1>3. \A c \in callbacks : c.flow \in DOMAIN flows
  BY DEF SignInTables, CallbackRows
<1>4. \A t \in DOMAIN sessions : sessions[t].flow # 0 => sessions[t].flow \in DOMAIN flows
  BY DEF SignInTables, SessionRows
<1>5. DOMAIN consumed \subseteq DOMAIN flows
  BY DEF SignInTables
<1>6. (\A c \in callbacks : c.flow \in overdue \/ Spent(c.flow))'
  BY <1>2, <1>3 DEF FlowsSignInOnce, StartFlow
<1>7. (\A t \in DOMAIN sessions : sessions[t].flow \in {0} \cup overdue \/ Spent(sessions[t].flow))'
  BY <1>2, <1>4 DEF FlowsSignInOnce, StartFlow
<1>8. (\A f \in DOMAIN consumed : flows[f].started =< consumed[f] /\ consumed[f] =< clock)'
  BY <1>1, <1>5 DEF FlowsSignInOnce, StartFlow
<1> QED
  BY <1>6, <1>7, <1>8 DEF FlowsSignInOnce, StartFlow

\* The claim is granted to a flow that is late, or that nobody holds: whoever held it would
\* still have it in the ledger.
LEMMA CallbackKeepsFlows ==
    ASSUME SignInTables, FlowsSignInOnce, NEW b \in Browsers, NEW due \in BOOLEAN, Callback(b, due)
    PROVE  FlowsSignInOnce'
<1>. PICK f : f = jar[b].flow
  OBVIOUS
<1>0. PICK n \in NextOf(f) :
         callbacks' = callbacks \cup {[browser |-> b, flow |-> f, nth |-> n, token |-> jar[b].session,
                                      subject |-> NoSubject, guest |-> 0, account |-> 0]}
  BY DEF Callback
<1>. PICK c : c = [browser |-> b, flow |-> f, nth |-> n, token |-> jar[b].session,
                  subject |-> NoSubject, guest |-> 0, account |-> 0]
  OBVIOUS
<1>1. f \in DOMAIN flows /\ f # 0
  BY ValidFlow DEF Callback, Valid
<1>2. /\ f \notin DOMAIN Pruned(due) /\ consumed' = With(Pruned(due), f, clock)
      /\ callbacks' = callbacks \cup {c} /\ c.flow = f
  BY <1>0 DEF Callback, Claimable
<1>3. clock \in Int /\ FlowTtl \in Int /\ \A g \in DOMAIN flows : flows[g].started \in Int
  BY SignInAssumption DEF SignInTables, FlowRows
<1>16. overdue \subseteq overdue' /\ (f \notin overdue' => ~(clock - flows[f].started > FlowTtl))
  BY DEF Callback
<1>17. sessions' = sessions
  BY DEF Callback
<1>4. f \notin overdue' => ~Spent(f)
  BY <1>1, <1>2, <1>16, PrunedIsSpent
<1>5. \A d \in callbacks : d.flow \in DOMAIN flows /\ (d.flow \in overdue' \/ (Spent(d.flow) /\ d.flow # f))
  BY <1>4, <1>16 DEF SignInTables, CallbackRows, FlowsSignInOnce
<1>6. \A t \in DOMAIN sessions : sessions[t].flow = f => f \in overdue'
  BY <1>1, <1>4, <1>16 DEF FlowsSignInOnce
<1>7. /\ DOMAIN consumed' = DOMAIN Pruned(due) \cup {f} /\ consumed'[f] = clock
      /\ \A g \in DOMAIN Pruned(due) : consumed'[g] = Pruned(due)[g]
  BY <1>2 DEF With
<1>8. \A g \in DOMAIN flows : Spent(g) => Spent(g)'
  <2> SUFFICES ASSUME NEW g \in DOMAIN flows, Spent(g) PROVE Spent(g)'
    OBVIOUS
  <2>1. g \in DOMAIN Pruned(due) \/ clock - flows[g].started > FlowTtl
    BY PrunedIsSpent
  <2> QED
    BY <1>7, <2>1 DEF Spent, Callback
<1>9. Spent(f)'
  BY <1>7 DEF Spent
<1>10. (\A d \in callbacks : d.flow \in overdue \/ Spent(d.flow))'
  BY <1>2, <1>5, <1>8, <1>9
<1>11. (\A d, e \in callbacks : d.flow = e.flow => d = e \/ d.flow \in overdue)'
  BY <1>2, <1>5, <1>16 DEF FlowsSignInOnce
<1>12. (\A d \in callbacks, t \in DOMAIN sessions : sessions[t].flow = d.flow => d.flow \in overdue)'
  BY <1>2, <1>6, <1>16, <1>17 DEF FlowsSignInOnce
<1>13. (\A t \in DOMAIN sessions : sessions[t].flow \in {0} \cup overdue \/ Spent(sessions[t].flow))'
  BY <1>8, <1>16, <1>17 DEF FlowsSignInOnce, SignInTables, SessionRows
<1>14. (\A g \in DOMAIN consumed : flows[g].started =< consumed[g] /\ consumed[g] =< clock)'
  <2>1. \A g \in DOMAIN Pruned(due) : flows[g].started =< Pruned(due)[g] /\ Pruned(due)[g] =< clock
    BY DEF FlowsSignInOnce, Pruned
  <2>2. flows[f].started =< clock
    BY <1>1 DEF SignInTables, FlowRows
  <2>3. flows' = flows /\ clock' = clock /\ clock =< clock
    BY <1>3 DEF Callback
  <2> QED
    BY <1>7, <2>1, <2>2, <2>3
<1>15. (\A t, u \in DOMAIN sessions :
          sessions[t].flow = sessions[u].flow => t = u \/ sessions[t].flow \in {0} \cup overdue)'
  BY <1>16, <1>17 DEF FlowsSignInOnce
<1> QED
  BY <1>10, <1>11, <1>12, <1>13, <1>14, <1>15 DEF FlowsSignInOnce

\* A flow that goes back to the browser was held by the callback that gives it back, and by
\* nobody else.
LEMMA EndedCallbackKeepsFlows ==
    ASSUME SignInTables, FlowsSignInOnce, NEW c \in callbacks,
           \/ \E transient \in BOOLEAN : ExchangeFails(c, transient)
           \/ SignInFails(c)
    PROVE  FlowsSignInOnce'
<1>1. /\ callbacks' = callbacks \ {c} /\ overdue' = overdue
      /\ sessions' = sessions /\ flows' = flows /\ clock' = clock
  BY DEF ExchangeFails, SignInFails
<1>2. \A f \in DOMAIN consumed' : f \in DOMAIN consumed /\ consumed'[f] = consumed[f]
  BY DEF ExchangeFails, SignInFails
<1>3. \A f \in DOMAIN consumed : f # c.flow => f \in DOMAIN consumed'
  BY DEF ExchangeFails, SignInFails
<1>4. \A f : f # c.flow /\ Spent(f) => Spent(f)'
  BY <1>1, <1>3 DEF Spent
<1>5. (\A d \in callbacks : d.flow \in overdue \/ Spent(d.flow))'
  BY <1>1, <1>4 DEF FlowsSignInOnce
<1>6. (\A t \in DOMAIN sessions : sessions[t].flow \in {0} \cup overdue \/ Spent(sessions[t].flow))'
  BY <1>1, <1>4 DEF FlowsSignInOnce
<1>7. (\A f \in DOMAIN consumed : flows[f].started =< consumed[f] /\ consumed[f] =< clock)'
  BY <1>1, <1>2 DEF FlowsSignInOnce
<1> QED
  BY <1>1, <1>5, <1>6, <1>7 DEF FlowsSignInOnce

LEMMA ResolvedKeepsFlows ==
    ASSUME SignInTables, FlowsSignInOnce, NEW c \in callbacks, NEW s \in Subjects, Resolved(c, s)
    PROVE  FlowsSignInOnce'
<1>. PICK d : d = [c EXCEPT !.subject = s, !.guest = InFlightGuest(c.token), !.account = AccountOf(s)]
  OBVIOUS
<1>1. callbacks' = (callbacks \ {c}) \cup {d} /\ overdue' = overdue
  BY DEF Resolved
<1>2. c \in CallbackRows
  BY DEF SignInTables
<1>3. d.flow = c.flow
  BY <1>2 DEF CallbackRows
<1>4. (\A e \in callbacks : e.flow \in overdue \/ Spent(e.flow))'
  BY <1>1, <1>3 DEF FlowsSignInOnce, Spent, Resolved
<1>5. (\A e, g \in callbacks : e.flow = g.flow => e = g \/ e.flow \in overdue)'
  <2>1. \A g \in callbacks \ {c} : g.flow = d.flow => g.flow \in overdue
    BY <1>3 DEF FlowsSignInOnce
  <2>2. \A e, g \in callbacks \ {c} : e.flow = g.flow => e = g \/ e.flow \in overdue
    BY DEF FlowsSignInOnce
  <2> QED
    BY <1>1, <2>1, <2>2
<1>6. (\A e \in callbacks, t \in DOMAIN sessions : sessions[t].flow = e.flow => e.flow \in overdue)'
  BY <1>1, <1>3 DEF FlowsSignInOnce, Resolved
<1> QED
  BY <1>1, <1>4, <1>5, <1>6 DEF FlowsSignInOnce, Spent, Resolved

\* The flow passes from the callback to the one session it mints.
LEMMA MintedKeepsFlows ==
    ASSUME SignInTables, FlowsSignInOnce, NEW c \in callbacks, NEW p, NEW table,
           DOMAIN table = DOMAIN sessions,
           \A t \in DOMAIN sessions : table[t].flow = sessions[t].flow,
           Minted(c, p, table)
    PROVE  FlowsSignInOnce'
<1>1. PICK n : n = Fresh(table)
  OBVIOUS
<1>2. /\ n \notin DOMAIN sessions /\ DOMAIN sessions' = DOMAIN sessions \cup {n}
      /\ sessions'[n] = Session(p, c.flow, c.subject)
      /\ \A t \in DOMAIN sessions : sessions'[t] = table[t]
  <2>1. /\ Fresh(table) \notin DOMAIN sessions /\ DOMAIN sessions' = DOMAIN sessions \cup {Fresh(table)}
        /\ sessions'[Fresh(table)] = Session(p, c.flow, c.subject)
    BY MintedInserts
  <2>2. \A t \in DOMAIN sessions : sessions'[t] = table[t]
    BY <2>1 DEF Minted, With
  <2> QED
    BY <1>1, <2>1, <2>2
<1>3. sessions'[n].flow = c.flow
  BY <1>2 DEF Session
<1>4. \A t \in DOMAIN sessions : sessions'[t].flow = sessions[t].flow
  BY <1>2
<1>5. /\ callbacks' = callbacks \ {c} /\ overdue' = overdue
      /\ flows' = flows /\ clock' = clock /\ consumed' = consumed
  BY DEF Minted
<1>6. \A f : Spent(f) => Spent(f)'
  BY <1>5 DEF Spent
<1>7. (\A d \in callbacks : d.flow \in overdue \/ Spent(d.flow))'
  BY <1>5, <1>6 DEF FlowsSignInOnce
<1>8. (\A d \in callbacks, t \in DOMAIN sessions : sessions[t].flow = d.flow => d.flow \in overdue)'
  BY <1>2, <1>3, <1>4, <1>5 DEF FlowsSignInOnce
<1>9. (\A t, u \in DOMAIN sessions :
          sessions[t].flow = sessions[u].flow => t = u \/ sessions[t].flow \in {0} \cup overdue)'
  BY <1>2, <1>3, <1>4, <1>5 DEF FlowsSignInOnce
<1>10. (\A t \in DOMAIN sessions : sessions[t].flow \in {0} \cup overdue \/ Spent(sessions[t].flow))'
  BY <1>2, <1>3, <1>4, <1>5, <1>6 DEF FlowsSignInOnce
<1>11. (\A d, e \in callbacks : d.flow = e.flow => d = e \/ d.flow \in overdue)'
  BY <1>5 DEF FlowsSignInOnce
<1> QED
  BY <1>5, <1>7, <1>8, <1>9, <1>10, <1>11 DEF FlowsSignInOnce

LEMMA SignInsKeepFlows ==
    ASSUME SignInTables, FlowsSignInOnce, NEW c \in callbacks, SignInKnown(c) \/ SignInNew(c)
    PROVE  FlowsSignInOnce'
<1>1. CASE SignInKnown(c)
  <2>1. PICK table : table = IF c.guest = 0 THEN sessions ELSE Repointed(c.guest, c.account)
    OBVIOUS
  <2>2. Minted(c, c.account, table)
    BY <1>1, <2>1 DEF SignInKnown
  <2>3. DOMAIN table = DOMAIN sessions
    BY <2>1 DEF Repointed
  <2>4. \A t \in DOMAIN sessions : table[t].flow = sessions[t].flow
    BY <2>1 DEF Repointed, SignInTables, SessionRows
  <2> QED
    BY <2>2, <2>3, <2>4, MintedKeepsFlows
<1>2. CASE SignInNew(c)
  <2>1. PICK p : Minted(c, p, sessions)
    BY <1>2 DEF SignInNew
  <2> QED
    BY <2>1, MintedKeepsFlows
<1> QED
  BY <1>1, <1>2
-----------------------------------------------------------------------------
\* What any step does to the rows that others refer to: an account stays one, only a guest or
\* one that is crossed from then on is deleted, and no identity moves.
AccountsKept ==
    /\ crossed \subseteq crossed'
    /\ \A p \in DOMAIN principals :
          /\ p \in DOMAIN principals'
          /\ principals[p].kind = "account" =>
                /\ principals'[p].kind = "account"
                /\ principals'[p].deleted => principals[p].deleted \/ p \in crossed'
    /\ \A s \in DOMAIN identities : s \in DOMAIN identities' /\ identities'[s] = identities[s]

LEMMA AccountsStay ==
    ASSUME AccountsKept, NEW p, IsAccount(p)
    PROVE  IsAccount(p)'
BY DEF AccountsKept, IsAccount

LEMMA FoundStays ==
    ASSUME AccountsKept, NEW c, Finds(c)
    PROVE  Finds(c)'
BY AccountsStay DEF AccountsKept, Finds

\* A callback that reads the identity finds its account, if there is one.
LEMMA ResolvedFinds ==
    ASSUME SignInTables, AccountsReached, NEW c \in callbacks, NEW s \in Subjects, NEW d,
           d = [c EXCEPT !.subject = s, !.guest = InFlightGuest(c.token), !.account = AccountOf(s)]
    PROVE  Finds(d)
<1>1. c \in CallbackRows
  BY DEF SignInTables
<1>2. d.subject = s /\ d.account = AccountOf(s)
  BY <1>1 DEF CallbackRows
<1> QED
  BY <1>2 DEF AccountsReached, Finds, AccountOf

\* Where principals, sessions and identities stay as they are
LEMMA QuietStepsKeepAccounts ==
    ASSUME SignInTables, AccountsReached,
           principals' = principals, sessions' = sessions, identities' = identities, crossed' = crossed,
           \A c \in callbacks' : c \in callbacks \/ Finds(c)
    PROVE  AccountsReached'
<1>1. AccountsKept
  BY DEF AccountsKept
<1>2. (\A c \in callbacks : Finds(c))'
  <2> SUFFICES ASSUME NEW c \in callbacks' PROVE Finds(c)'
    OBVIOUS
  <2>1. Finds(c)
    BY DEF AccountsReached
  <2> QED
    BY <1>1, <2>1, FoundStays
<1> QED
  BY <1>2 DEF AccountsReached, IsAccount, Lands

LEMMA GuestKeepsAccounts ==
    ASSUME SignInTables, AccountsReached, NEW b \in Browsers, Guest(b)
    PROVE  AccountsReached'
<1>1. PICK p, t : p = Fresh(principals) /\ t = Fresh(sessions)
  OBVIOUS
<1>2. /\ p \notin DOMAIN principals /\ DOMAIN principals' = DOMAIN principals \cup {p}
      /\ principals'[p] = [kind |-> "guest", deleted |-> FALSE]
      /\ \A k \in DOMAIN principals : principals'[k] = principals[k]
  <2>1. principals' = With(principals, p, [kind |-> "guest", deleted |-> FALSE])
    BY <1>1 DEF Guest
  <2>2. p \notin DOMAIN principals
    BY <1>1, FreshIsNew DEF SignInTables
  <2> QED
    BY <2>1, <2>2 DEF With
<1>3. /\ t \notin DOMAIN sessions /\ DOMAIN sessions' = DOMAIN sessions \cup {t}
      /\ sessions'[t] = Session(p, 0, NoSubject)
      /\ \A k \in DOMAIN sessions : sessions'[k] = sessions[k]
  <2>1. sessions' = With(sessions, t, Session(p, 0, NoSubject))
    BY <1>1 DEF Guest
  <2>2. t \notin DOMAIN sessions
    BY <1>1, FreshIsNew DEF SignInTables
  <2> QED
    BY <2>1, <2>2 DEF With
<1>4. identities' = identities /\ crossed' = crossed /\ callbacks' = callbacks
  BY DEF Guest
<1>5. AccountsKept
  BY <1>2, <1>4 DEF AccountsKept
<1>6. Lands(sessions[t])'
  BY <1>2, <1>3 DEF Lands, Session
<1>7. ASSUME NEW k \in DOMAIN sessions PROVE Lands(sessions[k])'
  <2>1. Lands(sessions[k]) /\ sessions'[k] = sessions[k]
    BY <1>3 DEF AccountsReached
  <2>2. sessions[k].principal \in DOMAIN principals
    BY DEF SignInTables, SessionRows
  <2> QED
    BY <1>2, <1>4, <2>1, <2>2 DEF Lands
<1> QED
  BY <1>3, <1>4, <1>5, <1>6, <1>7, AccountsStay, FoundStays DEF AccountsReached
\* The guest that is merged away was a guest, or is crossed from then on.
LEMMA KnownKeepsOldAccounts ==
    ASSUME SignInTables, NEW c \in callbacks, SignInKnown(c)
    PROVE  /\ AccountsKept
           /\ \A p \in DOMAIN principals : principals'[p].kind = principals[p].kind
           /\ \A p \in DOMAIN principals : p # c.guest => principals'[p] = principals[p]
           /\ c.guest # 0 /\ principals[c.guest].kind = "account" => c.guest \in crossed'
<1>1. c \in CallbackRows
  BY DEF SignInTables
<1>2. c.guest \in {0} \cup DOMAIN principals
  BY <1>1 DEF CallbackRows
<1>3. /\ crossed' = IF Stale(c) THEN crossed \cup {c.guest} ELSE crossed
      /\ identities' = identities
      /\ principals' = IF c.guest = 0 THEN principals ELSE [principals EXCEPT ![c.guest].deleted = TRUE]
  BY DEF SignInKnown, Minted
<1>4. \A p \in DOMAIN principals :
          principals'[p].kind = principals[p].kind /\ (p # c.guest => principals'[p] = principals[p])
  <2>1. CASE c.guest = 0
    BY <1>3, <2>1
  <2>2. CASE c.guest # 0
    BY <1>3, <2>2 DEF SignInTables, PrincipalRows
  <2> QED
    BY <2>1, <2>2
<1>5. c.guest # 0 /\ principals[c.guest].kind = "account" => c.guest \in crossed'
  <2>1. SUFFICES ASSUME c.guest # 0, principals[c.guest].kind = "account" PROVE Stale(c)
    BY <1>3
  <2> QED
    BY <2>1 DEF Stale
<1>6. DOMAIN principals' = DOMAIN principals
  BY <1>3
<1>7. ASSUME NEW p \in DOMAIN principals, principals[p].kind = "account", principals'[p].deleted
      PROVE  principals[p].deleted \/ p \in crossed'
  <2>1. CASE p = c.guest /\ c.guest # 0
    BY <1>5, <1>7, <2>1
  <2>2. CASE p # c.guest \/ c.guest = 0
    BY <1>3, <1>4, <1>7, <2>2
  <2> QED
    BY <2>1, <2>2
<1>8. AccountsKept
  BY <1>3, <1>4, <1>6, <1>7 DEF AccountsKept
<1> QED
  BY <1>4, <1>5, <1>8

LEMMA SignInKnownKeepsAccounts ==
    ASSUME SignInTables, AccountsReached, NEW c \in callbacks, SignInKnown(c)
    PROVE  AccountsReached'
<1>1. PICK table : table = IF c.guest = 0 THEN sessions ELSE Repointed(c.guest, c.account)
  OBVIOUS
<1>2. Minted(c, c.account, table) /\ DOMAIN table = DOMAIN sessions
  BY <1>1 DEF SignInKnown, Repointed
<1>3. PICK n : n = Fresh(table)
  OBVIOUS
<1>4. /\ n \notin DOMAIN sessions /\ DOMAIN sessions' = DOMAIN sessions \cup {n}
      /\ sessions'[n] = Session(c.account, c.flow, c.subject)
  BY <1>2, <1>3, MintedInserts
<1>5. \A t \in DOMAIN sessions : sessions'[t] = table[t]
  BY <1>2, <1>3, <1>4 DEF Minted, With
<1>6. /\ AccountsKept
      /\ \A p \in DOMAIN principals : principals'[p].kind = principals[p].kind
      /\ \A p \in DOMAIN principals : p # c.guest => principals'[p] = principals[p]
      /\ c.guest # 0 /\ principals[c.guest].kind = "account" => c.guest \in crossed'
  BY KnownKeepsOldAccounts
<1>7. c.account # 0 /\ Finds(c) /\ Finds(c)'
  BY <1>6, FoundStays DEF SignInKnown, AccountsReached
<1>8. IsAccount(c.account)' /\ c.subject \in DOMAIN identities' /\ identities'[c.subject] = c.account
  BY <1>7 DEF Finds
<1>9. Lands(sessions[n])'
  BY <1>4, <1>8 DEF Lands, IsAccount, Session
<1>10. ASSUME NEW t \in DOMAIN sessions PROVE Lands(sessions[t])'
  <2>1. Lands(sessions[t]) /\ sessions[t] \in SessionRows
    BY DEF AccountsReached, SignInTables
  <2>2. sessions[t].principal \in DOMAIN principals
    BY <2>1 DEF SessionRows
  <2>3. CASE c.guest = 0 \/ sessions[t].principal # c.guest
    <3>1. sessions'[t] = sessions[t]
      BY <1>1, <1>5, <2>3 DEF Repointed
    <3>2. principals'[sessions[t].principal] = principals[sessions[t].principal]
      BY <1>6, <2>2, <2>3 DEF SignInKnown
    <3> QED
      BY <1>6, <2>1, <3>1, <3>2 DEF Lands, AccountsKept
  <2>4. CASE c.guest # 0 /\ sessions[t].principal = c.guest
    <3>1. sessions'[t] = [sessions[t] EXCEPT !.principal = c.account]
      BY <1>1, <1>5, <2>4 DEF Repointed
    <3>2. /\ sessions'[t].principal = c.account /\ sessions'[t].flow = sessions[t].flow
          /\ sessions'[t].subject = sessions[t].subject
      BY <2>1, <3>1 DEF SessionRows
    <3>3. sessions[t].flow # 0 => c.guest \in crossed'
      <4>1. principals[c.guest].kind \in {"guest", "account"}
        BY <2>2, <2>4 DEF SignInTables, PrincipalRows
      <4> QED
        BY <1>6, <2>1, <2>4, <4>1 DEF Lands
    <3>4. sessions[t].flow # 0 =>
              sessions[t].subject \in DOMAIN identities' /\ identities'[sessions[t].subject] \in crossed'
      BY <1>6, <2>1, <2>4, <3>3 DEF Lands, AccountsKept
    <3> QED
      BY <1>8, <3>2, <3>4 DEF Lands, IsAccount
  <2> QED
    BY <2>3, <2>4
<1>11. (\A d \in callbacks : Finds(d))'
  BY <1>2, <1>6, FoundStays DEF AccountsReached, Minted
<1>12. (\A s \in DOMAIN identities : IsAccount(identities[s]))'
  <2>1. identities' = identities
    BY DEF SignInKnown
  <2> QED
    BY <1>6, <2>1, AccountsStay DEF AccountsReached
<1> QED
  BY <1>4, <1>9, <1>10, <1>11, <1>12 DEF AccountsReached

\* The guest is made an account, or an account is made, and the subject is new.
LEMMA NewKeepsOldAccounts ==
    ASSUME SignInTables, NEW c \in callbacks, SignInNew(c), NEW p,
           p = IF c.guest # 0 THEN c.guest ELSE Fresh(principals)
    PROVE  /\ AccountsKept
           /\ p \in DOMAIN principals' /\ principals'[p].kind = "account"
           /\ principals'[p].deleted => p \in crossed'
           /\ c.subject \in DOMAIN identities' /\ identities'[c.subject] = p
           /\ \A k \in DOMAIN principals :
                 /\ principals'[k].kind = "guest" => principals[k].kind = "guest"
                 /\ principals'[k].deleted = principals[k].deleted
<1>1. c \in CallbackRows
  BY DEF SignInTables
<1>2. c.guest \in {0} \cup DOMAIN principals
  BY <1>1 DEF CallbackRows
<1>3. /\ crossed' = IF Stale(c) THEN crossed \cup {c.guest} ELSE crossed
      /\ identities' = With(identities, c.subject, p) /\ c.subject \notin DOMAIN identities
  BY DEF SignInNew, Minted
<1>4. /\ crossed \subseteq crossed'
      /\ \A s \in DOMAIN identities : s \in DOMAIN identities' /\ identities'[s] = identities[s]
      /\ c.subject \in DOMAIN identities' /\ identities'[c.subject] = p
  BY <1>3 DEF With
<1>5. CASE c.guest # 0
  <2>1. principals' = [principals EXCEPT ![c.guest].kind = "account"] /\ p = c.guest
    BY <1>5 DEF SignInNew
  <2>2. /\ DOMAIN principals' = DOMAIN principals
        /\ principals'[p].kind = "account" /\ principals'[p].deleted = principals[p].deleted
        /\ \A k \in DOMAIN principals : k # p => principals'[k] = principals[k]
    BY <1>2, <1>5, <2>1 DEF SignInTables, PrincipalRows
  <2>3. principals'[p].deleted => p \in crossed'
    <3>1. SUFFICES ASSUME principals[p].deleted PROVE Stale(c)
      BY <1>3, <2>1, <2>2
    <3> QED
      BY <1>5, <2>1, <3>1 DEF Stale
  <2> QED
    BY <1>2, <1>4, <1>5, <2>1, <2>2, <2>3 DEF AccountsKept
<1>6. CASE c.guest = 0
  <2>1. principals' = With(principals, p, [kind |-> "account", deleted |-> FALSE]) /\ p = Fresh(principals)
    BY <1>6 DEF SignInNew
  <2>2. p \notin DOMAIN principals
    <3>1. Numbered(principals)
      BY DEF SignInTables
    <3>. QED  BY <2>1, <3>1, FreshIsNew
  <2>3. /\ DOMAIN principals' = DOMAIN principals \cup {p}
        /\ principals'[p] = [kind |-> "account", deleted |-> FALSE]
        /\ \A k \in DOMAIN principals : principals'[k] = principals[k]
    BY <2>1, <2>2 DEF With
  <2> QED
    BY <1>4, <2>3 DEF AccountsKept
<1> QED
  BY <1>5, <1>6

LEMMA SignInNewKeepsAccounts ==
    ASSUME SignInTables, AccountsReached, NEW c \in callbacks, SignInNew(c)
    PROVE  AccountsReached'
<1>1. PICK p : p = IF c.guest # 0 THEN c.guest ELSE Fresh(principals)
  OBVIOUS
<1>2. /\ AccountsKept
      /\ p \in DOMAIN principals' /\ principals'[p].kind = "account"
      /\ principals'[p].deleted => p \in crossed'
      /\ c.subject \in DOMAIN identities' /\ identities'[c.subject] = p
      /\ \A k \in DOMAIN principals :
            /\ principals'[k].kind = "guest" => principals[k].kind = "guest"
            /\ principals'[k].deleted = principals[k].deleted
  BY <1>1, NewKeepsOldAccounts
<1>3. Minted(c, p, sessions)
  BY <1>1 DEF SignInNew
<1>4. PICK n : n = Fresh(sessions)
  OBVIOUS
<1>5. /\ n \notin DOMAIN sessions /\ DOMAIN sessions' = DOMAIN sessions \cup {n}
      /\ sessions'[n] = Session(p, c.flow, c.subject)
  BY <1>3, <1>4, MintedInserts
<1>6. \A t \in DOMAIN sessions : sessions'[t] = sessions[t]
  BY <1>3, <1>4, <1>5 DEF Minted, With
<1>7. Lands(sessions[n])'
  BY <1>2, <1>5 DEF Lands, Session
<1>8. ASSUME NEW t \in DOMAIN sessions PROVE Lands(sessions[t])'
  <2>1. Lands(sessions[t]) /\ sessions[t].principal \in DOMAIN principals
    BY DEF AccountsReached, SignInTables, SessionRows
  <2> QED
    BY <1>2, <1>6, <2>1 DEF Lands, AccountsKept
<1>9. (\A d \in callbacks : Finds(d))'
  BY <1>2, <1>3, FoundStays DEF AccountsReached, Minted
<1>10. (\A s \in DOMAIN identities : IsAccount(identities[s]))'
  <2>1. DOMAIN identities' = DOMAIN identities \cup {c.subject}
    BY DEF SignInNew, With
  <2>2. IsAccount(p)'
    BY <1>2 DEF IsAccount
  <2>3. \A s \in DOMAIN identities : IsAccount(identities[s])' /\ identities'[s] = identities[s]
    BY <1>2, AccountsStay DEF AccountsReached, AccountsKept
  <2> QED
    BY <1>2, <2>1, <2>2, <2>3
<1> QED
  BY <1>5, <1>7, <1>8, <1>9, <1>10 DEF AccountsReached

-----------------------------------------------------------------------------
\* The invariant holds in the first state.
LEMMA InitEstablishesSignIn ==
    ASSUME SignInInit
    PROVE  SignInInv
<1>1. DOMAIN principals = 1..0 /\ DOMAIN sessions = 1..0 /\ DOMAIN flows = 1..0
  BY DEF SignInInit
<1>2. Numbered(principals) /\ Numbered(sessions) /\ Numbered(flows)
  BY <1>1 DEF Numbered
<1>3. clock \in 0..MaxClock
  BY SignInAssumption DEF SignInInit
<1>4. DOMAIN consumed = {} /\ DOMAIN identities = {}
  BY DEF SignInInit
<1>5. identities \in IdentityRows /\ consumed \in ConsumedRows
  BY <1>4 DEF SignInInit, IdentityRows, ConsumedRows
<1>6. jar \in [Browsers -> JarRows] /\ callbacks \subseteq CallbackRows
  BY DEF SignInInit, JarRows
<1>7. SignInTables
  BY <1>1, <1>2, <1>3, <1>4, <1>5, <1>6 DEF SignInTables
<1>8. FlowsSignInOnce
  BY <1>1, <1>4 DEF FlowsSignInOnce, SignInInit
<1>9. AccountsReached
  BY <1>1, <1>4 DEF AccountsReached, SignInInit
<1> QED
  BY <1>7, <1>8, <1>9 DEF SignInInv
LEMMA StepKeepsSignIn ==
    ASSUME SignInInv, [SignInNext]_signInVars
    PROVE  SignInInv'
<1>1. SignInTables /\ FlowsSignInOnce /\ AccountsReached
  BY DEF SignInInv
<1>2. ASSUME NEW b \in Browsers, Guest(b) PROVE SignInInv'
  <2>1. /\ callbacks' = callbacks /\ flows' = flows /\ consumed' = consumed /\ clock' = clock
        /\ overdue' = overdue
    BY <1>2 DEF Guest
  <2>2. /\ DOMAIN sessions \subseteq DOMAIN sessions'
        /\ \A t \in DOMAIN sessions : sessions'[t].flow = sessions[t].flow
        /\ \A t \in DOMAIN sessions' \ DOMAIN sessions : sessions'[t].flow = 0
    <3>1. PICK row : row = Session(Fresh(principals), 0, NoSubject)
      OBVIOUS
    <3>2. sessions' = With(sessions, Fresh(sessions), row) /\ row.flow = 0
      BY <1>2, <3>1 DEF Guest, Session
    <3>3. Fresh(sessions) \notin DOMAIN sessions
      BY <1>1, FreshIsNew DEF SignInTables
    <3> QED
      BY <3>2, <3>3 DEF With
  <2>3. FlowsSignInOnce'
    BY <1>1, <2>1, <2>2, QuietStepsKeepFlows
  <2> QED
    BY <1>1, <1>2, <2>3, GuestKeepsTables, GuestKeepsAccounts DEF SignInInv
<1>3. ASSUME NEW b \in Browsers, StartFlow(b) PROVE SignInInv'
  <2>1. AccountsReached'
    BY <1>1, <1>3, QuietStepsKeepAccounts DEF StartFlow
  <2> QED
    BY <1>1, <1>3, <2>1, StartFlowKeepsTables, StartFlowKeepsFlows DEF SignInInv
<1>4. ASSUME NEW b \in Browsers, NEW due \in BOOLEAN, Callback(b, due) PROVE SignInInv'
  <2>1. \A c \in callbacks' : c \in callbacks \/ c.account = 0
    BY <1>4 DEF Callback
  <2>2. AccountsReached'
    BY <1>1, <1>4, <2>1, QuietStepsKeepAccounts DEF Callback, Finds
  <2> QED
    BY <1>1, <1>4, <2>2, CallbackKeepsTables, CallbackKeepsFlows DEF SignInInv
<1>5. ASSUME NEW c \in callbacks, NEW transient \in BOOLEAN, ExchangeFails(c, transient)
      PROVE  SignInInv'
  <2>1. AccountsReached'
    BY <1>1, <1>5, QuietStepsKeepAccounts DEF ExchangeFails
  <2> QED
    BY <1>1, <1>5, <2>1, ExchangeFailsKeepsTables, EndedCallbackKeepsFlows DEF SignInInv
<1>6. ASSUME NEW c \in callbacks, NEW s \in Subjects, Resolved(c, s) PROVE SignInInv'
  <2>1. PICK d : d = [c EXCEPT !.subject = s, !.guest = InFlightGuest(c.token), !.account = AccountOf(s)]
    OBVIOUS
  <2>2. Finds(d)
    BY <1>1, <2>1, ResolvedFinds
  <2>3. callbacks' = (callbacks \ {c}) \cup {d}
    BY <1>6, <2>1 DEF Resolved
  <2>4. \A e \in callbacks' : e \in callbacks \/ Finds(e)
    BY <2>2, <2>3
  <2>5. principals' = principals /\ sessions' = sessions /\ identities' = identities /\ crossed' = crossed
    BY <1>6 DEF Resolved
  <2>6. AccountsReached'
    BY <1>1, <2>4, <2>5, QuietStepsKeepAccounts
  <2> QED
    BY <1>1, <1>6, <2>6, ResolvedKeepsTables, ResolvedKeepsFlows DEF SignInInv
<1>7. ASSUME NEW c \in callbacks, SignInKnown(c) PROVE SignInInv'
  BY <1>1, <1>7, SignInKnownKeepsTables, SignInsKeepFlows, SignInKnownKeepsAccounts DEF SignInInv
<1>8. ASSUME NEW c \in callbacks, SignInNew(c) PROVE SignInInv'
  BY <1>1, <1>8, SignInNewKeepsTables, SignInsKeepFlows, SignInNewKeepsAccounts DEF SignInInv
<1>9. ASSUME NEW c \in callbacks, SignInFails(c) PROVE SignInInv'
  <2>1. AccountsReached'
    BY <1>1, <1>9, QuietStepsKeepAccounts DEF SignInFails
  <2> QED
    BY <1>1, <1>9, <2>1, OthersKeepTables, EndedCallbackKeepsFlows DEF SignInInv
<1>10. ASSUME (\E t \in DOMAIN sessions : Lapse(t)) \/ Pass \/ UNCHANGED signInVars PROVE SignInInv'
  <2>1. /\ callbacks' = callbacks /\ flows' = flows /\ consumed' = consumed /\ clock' \in {clock, clock + 1}
        /\ sessions' = sessions /\ principals' = principals /\ identities' = identities
        /\ crossed' = crossed /\ overdue' = overdue
    BY <1>10 DEF Lapse, Pass, signInVars
  <2>2. AccountsReached'
    BY <1>1, <2>1, QuietStepsKeepAccounts
  <2>3. FlowsSignInOnce'
    BY <1>1, <2>1, QuietStepsKeepFlows
  <2> QED
    BY <1>1, <1>10, <2>2, <2>3, OthersKeepTables DEF SignInInv
<1> QED
  BY <1>2, <1>3, <1>4, <1>5, <1>6, <1>7, <1>8, <1>9, <1>10 DEF SignInNext

\* Every flow of the OAuth callback that is not submitted late is held by one callback or one
\* session at most, and every session and every identity leads to an account that was not
\* crossed by two callbacks.
THEOREM SignInsKeepTheirInvariant == SignInSpec => []SignInInv
<1>1. SignInInit => SignInInv
  BY InitEstablishesSignIn
<1>2. SignInInv /\ [SignInNext]_signInVars => SignInInv'
  BY StepKeepsSignIn
<1> QED
  BY <1>1, <1>2, PTL DEF SignInSpec

\* The tables of the sign-in are what their columns say.
THEOREM SignInTyped == SignInSpec => []SignInTypeOK
<1>1. SignInInv => SignInTypeOK
  BY DEF SignInInv, SignInTables, SignInTypeOK
<1> QED
  BY <1>1, SignInsKeepTheirInvariant, PTL

\* A flow that is not submitted late signs in once, no session is stranded on a deleted
\* principal, and the next sign-in of a subject finds the account that the last one found,
\* unless callbacks of a guest overlapped.
THEOREM SignInsAlwaysReachAnAccount == SignInSpec => []SignInsReachAnAccount
<1>1. ASSUME SignInInv PROVE SignInsReachAnAccount
  <2>1. SignInTables /\ FlowsSignInOnce /\ AccountsReached
    BY <1>1 DEF SignInInv
  <2>2. ASSUME NEW f \in DOMAIN flows \ overdue
        PROVE  Cardinality({t \in DOMAIN sessions : sessions[t].flow = f}) =< 1
    <3> DEFINE of == {t \in DOMAIN sessions : sessions[t].flow = f}
    <3>1. f # 0
      BY <2>1 DEF SignInTables, Numbered
    <3>2. \A t, u \in of : t = u
      BY <2>1, <3>1 DEF FlowsSignInOnce
    <3>3. of = {} \/ \E t : of = {t}
      BY <3>2
    <3> HIDE DEF of
    <3>4. Cardinality(of) =< 1
      <4>1. CASE of = {}
        BY <4>1, FS_EmptySet
      <4>2. ASSUME NEW t, of = {t} PROVE Cardinality(of) =< 1
        <5>1. Cardinality({t}) = 1
          BY FS_Singleton
        <5> QED
          BY <4>2, <5>1
      <4> QED
        BY <3>3, <4>1, <4>2
    <3> QED
      BY <3>4 DEF of
  <2>3. \A t \in DOMAIN sessions :
            LET p == sessions[t].principal
            IN  /\ p \in crossed \/ ~principals[p].deleted
                /\ sessions[t].flow # 0 => identities[sessions[t].subject] \in {p} \cup crossed
    BY <2>1 DEF AccountsReached, Lands
  <2>4. \A s \in DOMAIN identities :
            identities[s] \in crossed \/ principals[identities[s]] = [kind |-> "account", deleted |-> FALSE]
    <3> SUFFICES ASSUME NEW s \in DOMAIN identities, identities[s] \notin crossed
                 PROVE  principals[identities[s]] = [kind |-> "account", deleted |-> FALSE]
      OBVIOUS
    <3>1. IsAccount(identities[s])
      BY <2>1 DEF AccountsReached
    <3>2. principals[identities[s]] \in PrincipalRows
      BY <2>1, <3>1 DEF SignInTables, IsAccount
    <3> QED
      BY <3>1, <3>2 DEF IsAccount, PrincipalRows
  <2> QED
    BY <2>2, <2>3, <2>4 DEF SignInsReachAnAccount
<1> QED
  BY <1>1, SignInsKeepTheirInvariant, PTL

-----------------------------------------------------------------------------
\* The ceilings on requests: bags of hits

\* What a store may hold: how often each bucket was hit in each window
Counters == UNION {[D -> Nat \ {0}] : D \in SUBSET (Bucket \X Int)}

\* A counter counts.
LEMMA CountType ==
    ASSUME NEW c \in Counters, NEW b, NEW n
    PROVE  CountOf(c, b, n) \in Nat /\ IsABag(c) /\ BagToSet(c) \subseteq Bucket \X Int
           /\ (CountOf(c, b, n) = IF <<b, n>> \in DOMAIN c THEN c[<<b, n>>] ELSE 0)
BY DEF Counters, CountOf, BagIn, BagToSet, IsABag

\* Nothing has been counted yet.
LEMMA NothingCounted ==
    /\ EmptyBag \in Counters
    /\ \A b, n : CountOf(EmptyBag, b, n) = 0
<1>. PICK g : g = EmptyBag
  OBVIOUS
<1>1. g = [e \in {} |-> 1]
  BY DEF EmptyBag, SetToBag
<1>2. g \in [{} -> Nat \ {0}] /\ DOMAIN g = {}
  BY <1>1
<1>3. g \in Counters
  BY <1>2 DEF Counters
<1>4. \A b, n : CountOf(g, b, n) = 0
  BY <1>2 DEF CountOf, BagIn, BagToSet
<1>. QED  BY <1>3, <1>4

\* What counting in the buckets B in window n adds to the count of b in window m
Once(B, n, b, m) == IF b \in B /\ m = n THEN 1 ELSE 0

\* Counting adds one to each of the buckets, in the window of the request.
LEMMA CountedOnce ==
    ASSUME NEW c \in Counters, NEW B \in SUBSET Bucket, NEW n \in Int, NEW b, NEW m
    PROVE  /\ Counted(c, B, n) \in Counters
           /\ CountOf(Counted(c, B, n), b, m) = CountOf(c, b, m) + Once(B, n, b, m)
<1>. PICK g : g = Counted(c, B, n)
  OBVIOUS
<1>. PICK new : new = {<<x, n>> : x \in B}
  OBVIOUS
<1>1. PICK D \in SUBSET (Bucket \X Int) : c \in [D -> Nat \ {0}]
  BY DEF Counters
<1>2. g = [e \in D \cup new |-> (IF e \in D THEN c[e] ELSE 0) + (IF e \in new THEN 1 ELSE 0)]
  <2>1. SetToBag(new) = [e \in new |-> 1]
    BY DEF SetToBag
  <2>2. g = c (+) SetToBag(new)
    BY DEF Counted
  <2>3. c (+) SetToBag(new) =
          [e \in D \cup new |-> (IF e \in D THEN c[e] ELSE 0)
                                + (IF e \in new THEN SetToBag(new)[e] ELSE 0)]
    BY <1>1, <2>1 DEF (+)
  <2>. QED  BY <2>1, <2>2, <2>3
<1>3. new \subseteq Bucket \X Int
  OBVIOUS
<1>4. \A e \in D \cup new : g[e] \in Nat \ {0}
  BY <1>1, <1>2
<1>5. g \in [D \cup new -> Nat \ {0}] /\ DOMAIN g = D \cup new
  BY <1>2, <1>4
<1>6. D \cup new \in SUBSET (Bucket \X Int)
  BY <1>3
<1>7. g \in Counters
  BY <1>5, <1>6 DEF Counters
<1>8. CountOf(g, b, m) = CountOf(c, b, m) + (IF b \in B /\ m = n THEN 1 ELSE 0)
  <2>1. CountOf(g, b, m) = IF <<b, m>> \in D \cup new THEN g[<<b, m>>] ELSE 0
    BY <1>5 DEF CountOf, BagIn, BagToSet
  <2>2. CountOf(c, b, m) = IF <<b, m>> \in D THEN c[<<b, m>>] ELSE 0
    BY <1>1 DEF CountOf, BagIn, BagToSet
  <2>3. <<b, m>> \in new <=> b \in B /\ m = n
    OBVIOUS
  <2>4. \A e \in D \cup new :
           g[e] = (IF e \in D THEN c[e] ELSE 0) + (IF e \in new THEN 1 ELSE 0)
    BY <1>2
  <2>5. <<b, m>> \in D => c[<<b, m>>] \in Nat
    BY <1>1
  <2>. QED  BY <2>1, <2>2, <2>3, <2>4, <2>5
<1>. QED  BY <1>7, <1>8 DEF Once

\* Eviction drops the windows before the last, and those only.
LEMMA KeptFresh ==
    ASSUME NEW c \in Counters, NEW n \in Int, NEW b, NEW m \in Int
    PROVE  /\ FreshOf(c, n) \in Counters
           /\ CountOf(FreshOf(c, n), b, m) = IF m >= n - 1 THEN CountOf(c, b, m) ELSE 0
<1>. PICK g : g = FreshOf(c, n)
  OBVIOUS
<1>1. PICK D \in SUBSET (Bucket \X Int) : c \in [D -> Nat \ {0}]
  BY DEF Counters
<1>. PICK fresh : fresh = {e \in D : e[2] >= n - 1}
  OBVIOUS
<1>2. g = [e \in fresh |-> c[e]]
  BY <1>1 DEF FreshOf, BagToSet
<1>3. g \in [fresh -> Nat \ {0}] /\ DOMAIN g = fresh /\ fresh \in SUBSET (Bucket \X Int)
  BY <1>1, <1>2
<1>4. g \in Counters
  BY <1>3 DEF Counters
<1>5. CountOf(g, b, m) = IF m >= n - 1 THEN CountOf(c, b, m) ELSE 0
  <2>1. CountOf(g, b, m) = IF <<b, m>> \in fresh THEN g[<<b, m>>] ELSE 0
    BY <1>3 DEF CountOf, BagIn, BagToSet
  <2>2. CountOf(c, b, m) = IF <<b, m>> \in D THEN c[<<b, m>>] ELSE 0
    BY <1>1 DEF CountOf, BagIn, BagToSet
  <2>3. <<b, m>> \in fresh <=> <<b, m>> \in D /\ m >= n - 1
    OBVIOUS
  <2>. QED  BY <2>1, <2>2, <2>3, <1>2
<1>. QED  BY <1>4, <1>5

-----------------------------------------------------------------------------
\* The inductive invariant

LimitTables ==
    /\ window \in 0..MaxWindow /\ arrivals \in 0..MaxArrivals
    /\ booted \in [ApiWorkers -> BootTimes] /\ backend \in {"memory", "database"}
    /\ ceiling \in Ceilings
    /\ apiKeys \in [ApiKeys -> [status : {"none", "live", "disabled"}, used : BOOLEAN]]
    /\ store \in [Stores -> Counters] /\ admitted \in [Stores -> Counters]
    /\ posted \subseteq Stores

Request ==
    [stage : {"hit", "authenticated", "peeking", "refused"}, worker : ApiWorkers,
     bucket : Bucket, at : Int, posts : BOOLEAN, toPeek : Seq(Bucket)]

Posting(b) == BucketKind(b) \notin HitKinds

\* A request under way counts against what its stage says, in a window that is not long past.
OnTime(r) ==
    /\ r \in Request \cup {NotServing}
    /\ r.stage = "hit" => /\ ~Posting(r.bucket) /\ (r.posts => BucketKind(r.bucket) = "session")
                          /\ r.at \in {Monotonic(r.worker) - 1, Monotonic(r.worker)}
    /\ r.stage = "authenticated" => BucketKind(r.bucket) = "session"
    /\ r.stage = "peeking" => /\ BucketKind(r.bucket) = "session"
                              /\ r.at \in {TimeOfDay - 1, TimeOfDay} /\ r.at >= Epoch
                              /\ \A i \in DOMAIN r.toPeek : Posting(r.toPeek[i])

\* What a counter c and the requests a that were let through say of a bucket and a window
Tallied(s, b, n, c, a) ==
    /\ Posting(b) => a =< LimitOf(b) /\ (n >= TimeOfDay - 1 => c = a)
    /\ ~Posting(b) => c =< a \/ a >= LimitOf(b)
    /\ ~Posting(b) /\ OneHost /\ s \notin posted =>
          a =< LimitOf(b) /\ \A w \in ApiWorkers : n >= Monotonic(w) - 1 => a =< c

Tallies ==
    \A s \in Stores, b \in Bucket, n \in Int :
        Tallied(s, b, n, CountOf(store[s], b, n), CountOf(admitted[s], b, n))

\* A request is refused by a bucket that let its ceiling through.
Full(r) ==
    r.stage = "refused" =>
        CountOf(admitted[StoreOf(r.worker)], r.bucket, r.at) >= LimitOf(r.bucket)

LimitsInv ==
    /\ LimitTables /\ Tallies
    /\ handler \in [Handlers -> Request \cup {NotServing}]
    /\ \A h \in Handlers : OnTime(handler[h]) /\ Full(handler[h])

\* A ceiling is a number, a bucket has a kind, and the windows are what the clocks say.
LEMMA LimitTypes ==
    ASSUME LimitTables
    PROVE  /\ \A b \in Bucket : LimitOf(b) \in Nat /\ (BucketKind(b) = "session" => b[2] \in People)
           /\ window \in Nat /\ TimeOfDay \in Int /\ TimeOfDay >= Epoch /\ Epoch \in Int
           /\ \A w \in ApiWorkers : /\ Monotonic(w) \in Int /\ Monotonic(w) < Epoch
                                     /\ StoreOf(w) \in Stores
           /\ \A p \in People : << "user", p >> \in Bucket /\ << "phase", p >> \in Bucket
<1>. MaxWindow \in Nat /\ \A b \in BootTimes : b \in Int /\ MaxWindow - b < Epoch
  BY CeilingAssumption
<1>1. \A b \in Bucket : /\ b[1] \in {"key", "ip", "session", "user", "phase"}
                        /\ b[1] = "session" => b[2] \in People
  BY DEF Bucket
<1>2. ceiling \in [{"key", "ip", "session", "user", "phase"} -> Nat]
  BY CeilingAssumption DEF LimitTables
<1>3. \A b \in Bucket : LimitOf(b) \in Nat /\ (BucketKind(b) = "session" => b[2] \in People)
  BY <1>1, <1>2 DEF LimitOf, BucketKind
<1>4. window \in Nat /\ window =< MaxWindow
  BY DEF LimitTables
<1>5. ASSUME NEW w \in ApiWorkers
      PROVE  Monotonic(w) \in Int /\ Monotonic(w) < Epoch /\ StoreOf(w) \in Stores
  <2>1. booted[w] \in BootTimes
    BY DEF LimitTables
  <2>. QED  BY <2>1, <1>4 DEF Monotonic, Epoch, StoreOf, Stores
<1>6. \A p \in People : << "user", p >> \in Bucket /\ << "phase", p >> \in Bucket
  BY DEF Bucket
<1>. QED  BY <1>3, <1>4, <1>5, <1>6 DEF TimeOfDay, Epoch

\* A handler that serves nobody asks nothing of the clocks.
LEMMA IdleIsFine == OnTime(NotServing) /\ Full(NotServing)
BY DEF OnTime, Full, NotServing

\* Nobody has asked for anything yet.
LEMMA LimitsInitInv == LimitsInit => LimitsInv
<1>. SUFFICES ASSUME LimitsInit PROVE LimitsInv
  OBVIOUS
<1>1. LimitTables
  BY CeilingAssumption, NothingCounted DEF LimitsInit, LimitTables, Stores
<1>2. Tallies
  <2>. SUFFICES ASSUME NEW s \in Stores, NEW b \in Bucket, NEW n \in Int
                PROVE  Tallied(s, b, n, CountOf(store[s], b, n), CountOf(admitted[s], b, n))
    BY DEF Tallies
  <2>1. CountOf(store[s], b, n) = 0 /\ CountOf(admitted[s], b, n) = 0
    BY NothingCounted DEF LimitsInit
  <2>2. LimitOf(b) \in Nat
    BY <1>1, LimitTypes
  <2>. QED  BY <2>1, <2>2 DEF Tallied
<1>3. \A h \in Handlers : OnTime(handler[h]) /\ Full(handler[h])
  BY DEF LimitsInit, NotServing, OnTime, Full
<1>4. handler \in [Handlers -> Request \cup {NotServing}]
  BY DEF LimitsInit
<1>. QED  BY <1>1, <1>2, <1>3, <1>4 DEF LimitsInv

\* A step that counts nothing keeps the tallies, and the requests but for one.
LEMMA QuietKeeps ==
    ASSUME LimitsInv, UNCHANGED <<window, booted, backend, ceiling, store, admitted, posted>>,
           arrivals' \in 0..MaxArrivals,
           apiKeys' \in [ApiKeys -> [status : {"none", "live", "disabled"}, used : BOOLEAN]],
           NEW h \in Handlers, NEW r \in Request \cup {NotServing}, OnTime(r), Full(r),
           handler' = [handler EXCEPT ![h] = r]
    PROVE  LimitsInv'
<1>1. LimitTables'
  BY DEF LimitsInv, LimitTables
<1>2. Tallies'
  BY DEF LimitsInv, Tallies, Tallied, LimitOf, TimeOfDay, OneHost, Monotonic
<1>3. handler' \in [Handlers -> Request \cup {NotServing}]
  BY DEF LimitsInv
<1>4. ASSUME NEW g \in Handlers PROVE OnTime(handler'[g]) /\ Full(handler'[g])
  BY DEF LimitsInv
<1>5. \A x : (OnTime(x) => OnTime(x)') /\ (Full(x) => Full(x)')
  BY DEF OnTime, Full, Monotonic, TimeOfDay, LimitOf, StoreOf
<1>. QED  BY <1>1, <1>2, <1>3, <1>4, <1>5 DEF LimitsInv

\* Time goes by, and no request is left behind.
LEMMA WindowKeeps ==
    ASSUME LimitsInv, WindowPasses
    PROVE  LimitsInv'
<1>1. /\ LimitTables /\ Tallies /\ window' = window + 1 /\ window < MaxWindow
      /\ UNCHANGED <<booted, backend, ceiling, apiKeys, store, handler, admitted, posted, arrivals>>
  BY DEF LimitsInv, WindowPasses
<1>2. /\ window \in Nat /\ TimeOfDay \in Int /\ TimeOfDay' = TimeOfDay + 1
      /\ \A w \in ApiWorkers : /\ Monotonic(w) \in Int /\ Monotonic(w) < Epoch /\ booted[w] \in Int
                                /\ Monotonic(w)' = Monotonic(w) + 1
  <2>1. \A w \in ApiWorkers : booted[w] \in Int
    BY <1>1, CeilingAssumption DEF LimitTables
  <2>. QED  BY <1>1, <2>1, LimitTypes DEF TimeOfDay, Monotonic, Epoch
<1>3. LimitTables'
  BY <1>1, <1>2, CeilingAssumption DEF LimitTables
<1>4. Tallies'
  <2>. SUFFICES ASSUME NEW s \in Stores, NEW b \in Bucket, NEW n \in Int
                PROVE  Tallied(s, b, n, CountOf(store[s], b, n), CountOf(admitted[s], b, n))'
    BY DEF Tallies
  <2>. PICK c : c = CountOf(store[s], b, n)
    OBVIOUS
  <2>. PICK a : a = CountOf(admitted[s], b, n)
    OBVIOUS
  <2>1. Tallied(s, b, n, c, a)
    BY <1>1 DEF Tallies
  <2>2. Tallied(s, b, n, c, a)'
    BY <2>1, <1>1, <1>2 DEF Tallied, LimitOf, OneHost
  <2>. QED  BY <2>2, <1>1
<1>5. ASSUME NEW g \in Handlers PROVE OnTime(handler[g])' /\ Full(handler[g])'
  <2>. PICK r : r = handler[g]
    OBVIOUS
  <2>1. OnTime(r) /\ Full(r) /\ r \in Request \cup {NotServing} /\ handler'[g] = r
    BY <1>1 DEF LimitsInv
  <2>2. r.stage \in {"hit", "peeking"} => Stamped(r) = window
    BY DEF WindowPasses
  <2>3. Full(r)'
    BY <2>1, <1>1 DEF Full, LimitOf, StoreOf
  <2>4. CASE r.stage = "hit"
    <3>1. r \in Request /\ r.worker \in ApiWorkers /\ r.at \in Int
      BY <2>1, <2>4 DEF NotServing, Request
    <3>2. r.at \in {Monotonic(r.worker) - 1, Monotonic(r.worker)}
      BY <2>1, <2>4 DEF OnTime
    <3>3. r.at = Monotonic(r.worker)
      <4>1. r.at < Epoch /\ Epoch \in Int
        BY <3>1, <3>2, <1>2 DEF Epoch
      <4>2. r.at + booted[r.worker] = window
        BY <4>1, <3>1, <2>2, <2>4 DEF Stamped
      <4>. QED  BY <4>2, <3>1, <1>2 DEF Monotonic
    <3>. QED  BY <2>1, <2>3, <2>4, <3>1, <3>3, <1>2 DEF OnTime
  <2>5. CASE r.stage = "peeking"
    <3>1. r.at >= Epoch /\ r \in Request /\ r.at \in Int
      BY <2>1, <2>5 DEF OnTime, NotServing, Request
    <3>2. r.at = TimeOfDay
      BY <3>1, <2>2, <2>5, <1>2 DEF Stamped, TimeOfDay, Epoch
    <3>. QED  BY <2>1, <2>3, <2>5, <3>1, <3>2, <1>2 DEF OnTime
  <2>6. CASE r.stage \notin {"hit", "peeking"}
    BY <2>1, <2>3, <2>6 DEF OnTime
  <2>. QED  BY <2>4, <2>5, <2>6
<1>. QED  BY <1>1, <1>3, <1>4, <1>5 DEF LimitsInv

\* What a hit does to the count c of a bucket, and to the count a of what was let through
HitCounts(hit, at, b, n, c, a, d, e) ==
    IF b = hit /\ n = at
    THEN IF c < LimitOf(b) THEN d = c + 1 /\ e = a + 1 ELSE d \in {c, c + 1} /\ e = a
    ELSE d = (IF n >= at - 1 THEN c ELSE 0) /\ e = a

\* A hit by worker w in window at keeps the tally of every bucket.
LEMMA HitTallied ==
    ASSUME LimitTables, NEW w \in ApiWorkers, NEW hit \in Bucket, ~Posting(hit), NEW at \in Int,
           at \in {Monotonic(w) - 1, Monotonic(w)},
           NEW b \in Bucket, NEW n \in Int, NEW c \in Nat, NEW a \in Nat,
           Tallied(StoreOf(w), b, n, c, a), NEW d \in Nat, NEW e \in Nat,
           HitCounts(hit, at, b, n, c, a, d, e)
    PROVE  Tallied(StoreOf(w), b, n, d, e)
<1>1. /\ LimitOf(b) \in Nat /\ Monotonic(w) \in Int /\ Monotonic(w) < Epoch
      /\ TimeOfDay \in Int /\ TimeOfDay >= Epoch /\ Epoch \in Int
  BY LimitTypes
<1>2. CASE Posting(b)
  <2>1. b # hit
    BY <1>2
  <2>2. n >= TimeOfDay - 1 => n >= at - 1
    BY <1>1
  <2>3. d = (IF n >= at - 1 THEN c ELSE 0) /\ e = a
    BY <2>1 DEF HitCounts
  <2>. QED  BY <1>2, <2>2, <2>3 DEF Tallied
<1>3. CASE ~Posting(b)
  <2>1. d =< e \/ e >= LimitOf(b)
    BY <1>1, <1>3 DEF Tallied, HitCounts
  <2>2. ASSUME OneHost, StoreOf(w) \notin posted
        PROVE  e =< LimitOf(b) /\ \A v \in ApiWorkers : n >= Monotonic(v) - 1 => e =< d
    <3>1. \A v \in ApiWorkers : Monotonic(v) = Monotonic(w)
      BY <2>2 DEF OneHost, Monotonic
    <3>2. a =< LimitOf(b) /\ (n >= Monotonic(w) - 1 => a =< c)
      BY <1>3, <2>2 DEF Tallied
    <3>3. CASE b = hit /\ n = at
      BY <3>1, <3>2, <3>3, <1>1 DEF HitCounts
    <3>4. CASE ~(b = hit /\ n = at)
      <4>1. n >= Monotonic(w) - 1 => n >= at - 1
        BY <1>1
      <4>. QED  BY <3>1, <3>2, <3>4, <4>1 DEF HitCounts
    <3>. QED  BY <3>3, <3>4
  <2>. QED  BY <1>3, <2>1, <2>2 DEF Tallied
<1>. QED  BY <1>2, <1>3

\* What a message does to one of them: if it is let through, and a is what it was
PostCounts(hits, at, b, n, c, a, d, e) ==
    IF b \in hits /\ n = at /\ e # a THEN c < LimitOf(b) /\ d = c + 1 /\ e = a + 1
    ELSE d \in {c, IF n >= at - 1 THEN c ELSE 0} /\ e = a

\* The same for a message, which counts in all of the buckets in hits or in none
LEMMA PostTallied ==
    ASSUME LimitTables, NEW s \in Stores, NEW hits \in SUBSET Bucket, \A x \in hits : Posting(x),
           NEW at \in Int, at \in {TimeOfDay - 1, TimeOfDay},
           UNCHANGED <<window, booted, ceiling>>, posted' = posted \cup {s},
           NEW b \in Bucket, NEW n \in Int, NEW c \in Nat, NEW a \in Nat,
           Tallied(s, b, n, c, a), NEW d \in Nat, NEW e \in Nat,
           PostCounts(hits, at, b, n, c, a, d, e)
    PROVE  Tallied(s, b, n, d, e)'
<1>1. LimitOf(b) \in Nat /\ TimeOfDay \in Int
  BY LimitTypes
<1>2. n >= TimeOfDay - 1 => n >= at - 1
  BY <1>1
<1>3. LimitOf(b)' = LimitOf(b) /\ TimeOfDay' = TimeOfDay /\ s \in posted'
  BY DEF LimitOf, TimeOfDay
<1>4. CASE Posting(b)
  BY <1>1, <1>2, <1>3, <1>4 DEF Tallied, PostCounts
<1>5. CASE ~Posting(b)
  BY <1>1, <1>3, <1>5 DEF Tallied, PostCounts
<1>. QED  BY <1>4, <1>5

\* A step of one request that counts keeps the others, as long as nothing is taken back.
LEMMA CountsKeep ==
    ASSUME LimitsInv, UNCHANGED <<window, booted, backend, ceiling>>, LimitTables', Tallies',
           \A t \in Stores, b \in Bucket, n \in Int :
              CountOf(admitted[t], b, n) =< CountOf(admitted'[t], b, n),
           NEW h \in Handlers, NEW q \in Request \cup {NotServing}, OnTime(q), Full(q)',
           handler' = [handler EXCEPT ![h] = q]
    PROVE  LimitsInv'
<1>1. handler' \in [Handlers -> Request \cup {NotServing}]
  BY DEF LimitsInv
<1>2. \A x : OnTime(x) => OnTime(x)'
  BY DEF OnTime, Monotonic, TimeOfDay
<1>3. ASSUME NEW g \in Handlers PROVE OnTime(handler[g])' /\ Full(handler[g])'
  <2>1. CASE g = h
    <3>1. handler'[g] = q
      BY <2>1 DEF LimitsInv
    <3>. QED  BY <3>1, <1>2
  <2>2. CASE g # h
    <3>. PICK r : r = handler[g]
      OBVIOUS
    <3>1. handler'[g] = r /\ OnTime(r) /\ Full(r) /\ r \in Request \cup {NotServing}
      BY <2>2 DEF LimitsInv
    <3>2. CASE r.stage = "refused"
      <4>1. r \in Request /\ r.worker \in ApiWorkers /\ r.bucket \in Bucket /\ r.at \in Int
        BY <3>1, <3>2 DEF NotServing, Request
      <4>2. StoreOf(r.worker) \in Stores /\ LimitOf(r.bucket) \in Nat /\ LimitTables
        BY <4>1, LimitTypes DEF LimitsInv
      <4>3. LimitOf(r.bucket)' = LimitOf(r.bucket) /\ StoreOf(r.worker)' = StoreOf(r.worker)
        BY DEF LimitOf, StoreOf
      <4>4. CountOf(admitted[StoreOf(r.worker)], r.bucket, r.at) >= LimitOf(r.bucket)
        BY <3>1, <3>2 DEF Full
      <4>5. /\ CountOf(admitted[StoreOf(r.worker)], r.bucket, r.at) \in Nat
            /\ CountOf(admitted'[StoreOf(r.worker)], r.bucket, r.at) \in Nat
        BY <4>2, CountType DEF LimitTables
      <4>6. CountOf(admitted'[StoreOf(r.worker)], r.bucket, r.at) >= LimitOf(r.bucket)
        <5>1. CountOf(admitted[StoreOf(r.worker)], r.bucket, r.at)
                =< CountOf(admitted'[StoreOf(r.worker)], r.bucket, r.at)
          BY <4>1, <4>2
        <5>. QED  BY <5>1, <4>2, <4>4, <4>5
      <4>7. Full(r)'
        BY <4>3, <4>6 DEF Full
      <4>. QED  BY <3>1, <4>7, <1>2
    <3>3. CASE r.stage # "refused"
      BY <3>1, <3>3, <1>2 DEF Full
    <3>. QED  BY <3>2, <3>3
  <2>. QED  BY <2>1, <2>2
<1>. QED  BY <1>1, <1>3 DEF LimitsInv

\* A hit counts the request it lets through, and keeps every tally.
LEMMA HitKeeps ==
    ASSUME LimitsInv, NEW h \in Handlers, Hit(h)
    PROVE  LimitsInv'
<1>. PICK r : r = handler[h]
  OBVIOUS
<1>. PICK w : w = r.worker
  OBVIOUS
<1>. PICK s : s = StoreOf(w)
  OBVIOUS
<1>. PICK c0 : c0 = store[s]
  OBVIOUS
<1>. PICK a0 : a0 = admitted[s]
  OBVIOUS
<1>. PICK kept : kept = FreshOf(c0, r.at)
  OBVIOUS
<1>. PICK done : done = Recorded(c0, r.bucket, r.at)
  OBVIOUS
<1>. PICK B : B = {r.bucket}
  OBVIOUS
<1>1. LimitTables /\ Tallies /\ r.stage = "hit" /\ r \in Request \cup {NotServing} /\ OnTime(r)
  BY DEF LimitsInv, Hit
<1>2. /\ r \in Request /\ w \in ApiWorkers /\ r.bucket \in Bucket /\ r.at \in Int
      /\ ~Posting(r.bucket) /\ r.at \in {Monotonic(w) - 1, Monotonic(w)} /\ s \in Stores
      /\ (r.posts => BucketKind(r.bucket) = "session")
  <2>1. r \in Request
    BY <1>1 DEF NotServing
  <2>. QED  BY <2>1, <1>1, LimitTypes DEF Request, OnTime
<1>3. c0 \in Counters /\ a0 \in Counters
  BY <1>1, <1>2 DEF LimitTables
<1>4. /\ UNCHANGED <<window, booted, backend, ceiling, posted, arrivals>>
      /\ store' = [store EXCEPT ![s] = done.counts]
      /\ \/ /\ done.allowed
            /\ handler' = [handler EXCEPT ![h] = Authenticated(r)]
            /\ LetThrough(w, B, r.at)
            /\ apiKeys' = [k \in ApiKeys |->
                 IF r.bucket = <<"key", k>> THEN [apiKeys[k] EXCEPT !.used = TRUE] ELSE apiKeys[k]]
         \/ /\ ~done.allowed
            /\ handler' = [handler EXCEPT ![h].stage = "refused"]
            /\ UNCHANGED <<admitted, apiKeys>>
  BY DEF Hit
<1>. PICK one : one = Counted(kept, B, r.at)
  OBVIOUS
<1>50. B \in SUBSET Bucket /\ \A x : x \in B <=> x = r.bucket
  BY <1>2
<1>51. ASSUME NEW b, NEW m \in Int
       PROVE  /\ kept \in Counters
              /\ CountOf(kept, b, m) = IF m >= r.at - 1 THEN CountOf(c0, b, m) ELSE 0
  BY <1>2, <1>3, KeptFresh
<1>52. kept \in Counters
  BY <1>2, <1>51
<1>53. ASSUME NEW b, NEW m
       PROVE  /\ one \in Counters
              /\ CountOf(one, b, m) = CountOf(kept, b, m) + Once(B, r.at, b, m)
  <2>1. r.at \in Int /\ B \in SUBSET Bucket /\ kept \in Counters
    BY <1>2, <1>50, <1>52
  <2>2. /\ Counted(kept, B, r.at) \in Counters
        /\ CountOf(Counted(kept, B, r.at), b, m) = CountOf(kept, b, m) + Once(B, r.at, b, m)
    BY ONLY <2>1, CountedOnce
  <2>. QED  BY <2>2
<1>54. one \in Counters
  BY <1>53
<1>6. CountOf(kept, r.bucket, r.at) = CountOf(c0, r.bucket, r.at) /\ CountOf(c0, r.bucket, r.at) \in Nat
  <2>1. CountOf(kept, r.bucket, r.at)
          = IF r.at >= r.at - 1 THEN CountOf(c0, r.bucket, r.at) ELSE 0
    BY <1>2, <1>51
  <2>2. CountOf(c0, r.bucket, r.at) \in Nat
    BY <1>3, CountType
  <2>. QED  BY <2>1, <2>2, <1>2
<1>7. /\ done.allowed = (CountOf(c0, r.bucket, r.at) < LimitOf(r.bucket))
      /\ done.counts = IF done.allowed \/ backend = "database" THEN one ELSE kept
  BY <1>6 DEF Recorded
<1>8. store' \in [Stores -> Counters] /\ store'[s] = done.counts
      /\ \A t \in Stores \ {s} : store'[t] = store[t]
  <2>1. done.counts \in Counters
    BY <1>52, <1>54, <1>7
  <2>. QED  BY <2>1, <1>1, <1>2, <1>4 DEF LimitTables
<1>. PICK a1 : a1 = admitted'[s]
  OBVIOUS
<1>90. admitted \in [Stores -> Counters] /\ a0 = admitted[s]
  BY <1>1 DEF LimitTables
<1>91. ASSUME NEW b, NEW m PROVE CountOf(a0, b, m) \in Nat
  BY <1>3, CountType
<1>. PICK more : more = Counted(a0, B, r.at)
  OBVIOUS
<1>92. ASSUME NEW b, NEW m
       PROVE  /\ more \in Counters
              /\ CountOf(more, b, m) = CountOf(a0, b, m) + Once(B, r.at, b, m)
  <2>1. r.at \in Int /\ B \in SUBSET Bucket
    BY <1>2, <1>50
  <2>. QED  BY <2>1, <1>3, CountedOnce
<1>93. more \in Counters
  BY <1>92
<1>94. a1 = IF done.allowed THEN more ELSE a0
  <2>1. CASE done.allowed
    <3>1. admitted' = [admitted EXCEPT ![s] = more]
      BY <2>1, <1>4 DEF LetThrough
    <3>. QED  BY <2>1, <3>1, <1>90, <1>2
  <2>2. CASE ~done.allowed
    BY <2>2, <1>4
  <2>. QED  BY <2>1, <2>2
<1>95. admitted' = [admitted EXCEPT ![s] = a1]
  <2>1. CASE done.allowed
    BY <2>1, <1>4, <1>94 DEF LetThrough
  <2>2. CASE ~done.allowed
    BY <2>2, <1>4, <1>90, <1>94
  <2>. QED  BY <2>1, <2>2
<1>9. admitted' \in [Stores -> Counters] /\ \A t \in Stores \ {s} : admitted'[t] = admitted[t]
  BY <1>2, <1>3, <1>90, <1>93, <1>94, <1>95
<1>96. ASSUME NEW b, NEW m
       PROVE  CountOf(a1, b, m)
                = CountOf(a0, b, m) + (IF done.allowed /\ b = r.bucket /\ m = r.at THEN 1 ELSE 0)
  <2>1. CountOf(more, b, m) = CountOf(a0, b, m) + Once(B, r.at, b, m) /\ CountOf(a0, b, m) \in Nat
    BY <1>91, <1>92
  <2>. QED  BY <2>1, <1>50, <1>94 DEF Once
<1>10. LimitTables'
  <2>1. apiKeys' \in [ApiKeys -> [status : {"none", "live", "disabled"}, used : BOOLEAN]]
    <3>1. apiKeys \in [ApiKeys -> [status : {"none", "live", "disabled"}, used : BOOLEAN]]
      BY <1>1 DEF LimitTables
    <3>2. CASE done.allowed
      <4>1. apiKeys' = [k \in ApiKeys |->
               IF r.bucket = <<"key", k>> THEN [apiKeys[k] EXCEPT !.used = TRUE] ELSE apiKeys[k]]
        BY <3>2, <1>4
      <4>. QED  BY <3>1, <4>1
    <3>3. CASE ~done.allowed
      BY <3>1, <3>3, <1>4
    <3>. QED  BY <3>2, <3>3
  <2>. QED  BY <2>1, <1>1, <1>4, <1>8, <1>9 DEF LimitTables
<1>11. Tallies'
  <2>. SUFFICES ASSUME NEW t \in Stores, NEW b \in Bucket, NEW n \in Int
                PROVE  Tallied(t, b, n, CountOf(store[t], b, n), CountOf(admitted[t], b, n))'
    BY DEF Tallies
  <2>1. Tallied(t, b, n, CountOf(store[t], b, n), CountOf(admitted[t], b, n))
    BY <1>1 DEF Tallies
  <2>2. \A c, a : Tallied(t, b, n, c, a) => Tallied(t, b, n, c, a)'
    BY <1>4 DEF Tallied, LimitOf, TimeOfDay, OneHost, Monotonic
  <2>. PICK c : c = CountOf(store[t], b, n)
    OBVIOUS
  <2>. PICK a : a = CountOf(admitted[t], b, n)
    OBVIOUS
  <2>. PICK d : d = CountOf(store'[t], b, n)
    OBVIOUS
  <2>. PICK e : e = CountOf(admitted'[t], b, n)
    OBVIOUS
  <2>3. Tallied(t, b, n, d, e)
    <3>1. CASE t # s
      <4>1. d = c /\ e = a
        BY <3>1, <1>8, <1>9
      <4>. QED  BY <2>1, <4>1
    <3>2. CASE t = s
      <4>1. c = CountOf(c0, b, n) /\ a = CountOf(a0, b, n) /\ d = CountOf(done.counts, b, n)
            /\ e = CountOf(a1, b, n)
        BY <3>2, <1>8
      <4>2. c \in Nat
        <5>1. CountOf(c0, b, n) \in Nat
          BY <1>3, CountType
        <5>. QED  BY <4>1, <5>1
      <4>3. a \in Nat
        BY <4>1, <1>91
      <4>4. HitCounts(r.bucket, r.at, b, n, c, a, d, e) /\ d \in Nat /\ e \in Nat
        <5>. PICK k : k = CountOf(kept, b, n)
          OBVIOUS
        <5>1. k = IF n >= r.at - 1 THEN c ELSE 0
          BY <4>1, <1>51
        <5>2. CountOf(one, b, n) = k + Once(B, r.at, b, n)
          BY <1>53
        <5>20. CountOf(a1, b, n)
                = CountOf(a0, b, n) + (IF done.allowed /\ b = r.bucket /\ n = r.at THEN 1 ELSE 0)
          BY <1>96
        <5>21. e = a + (IF done.allowed /\ b = r.bucket /\ n = r.at THEN 1 ELSE 0)
          BY <4>1, <5>20
        <5>3. CASE b = r.bucket /\ n = r.at
          <6>1. k = c /\ CountOf(one, b, n) = c + 1
            BY <5>1, <5>2, <5>3, <4>2, <1>2, <1>50 DEF Once
          <6>2. (done.allowed => c < LimitOf(b)) /\ (~done.allowed => ~(c < LimitOf(b)))
            BY <5>3, <4>1, <1>7
          <6>3. e = IF done.allowed THEN a + 1 ELSE a
            BY <5>3, <5>21, <4>3
          <6>4. CASE done.allowed
            <7>1. d = c + 1
              BY <6>1, <6>4, <4>1, <1>7
            <7>2. c < LimitOf(b) /\ e = a + 1 /\ d \in Nat /\ e \in Nat
              BY <7>1, <6>2, <6>3, <6>4, <4>2, <4>3
            <7>3. HitCounts(r.bucket, r.at, b, n, c, a, d, e)
              BY <7>1, <7>2, <5>3 DEF HitCounts
            <7>. QED  BY <7>2, <7>3
          <6>5. CASE ~done.allowed
            <7>1. d \in {c, c + 1}
              BY <6>1, <6>5, <4>1, <1>7
            <7>2. ~(c < LimitOf(b)) /\ e = a /\ d \in Nat /\ e \in Nat
              BY <7>1, <6>2, <6>3, <6>5, <4>2, <4>3
            <7>3. HitCounts(r.bucket, r.at, b, n, c, a, d, e)
              BY <7>1, <7>2, <5>3 DEF HitCounts
            <7>. QED  BY <7>2, <7>3
          <6>. QED  BY <6>4, <6>5
        <5>4. CASE ~(b = r.bucket /\ n = r.at)
          <6>1. CountOf(one, b, n) = k
            BY <5>1, <5>2, <5>4, <4>2, <1>50 DEF Once
          <6>2. d = k
            BY <6>1, <4>1, <1>7
          <6>3. e = a
            BY <5>4, <5>21, <4>3
          <6>. QED  BY <6>2, <6>3, <5>1, <5>4, <4>2, <4>3 DEF HitCounts
        <5>. QED  BY <5>3, <5>4
      <4>5. Tallied(StoreOf(w), b, n, c, a) /\ LimitTables
        BY <3>2, <2>1, <1>1
      <4>6. r.bucket \in Bucket /\ ~Posting(r.bucket) /\ r.at \in Int
            /\ r.at \in {Monotonic(w) - 1, Monotonic(w)}
        BY <1>2
      <4>7. Tallied(StoreOf(w), b, n, d, e)
        BY <4>2, <4>3, <4>4, <4>5, <4>6, <1>2, HitTallied
      <4>. QED  BY <4>7, <3>2
    <3>. QED  BY <3>1, <3>2
  <2>. QED  BY <2>2, <2>3
<1>12. \A t \in Stores, b \in Bucket, n \in Int :
          CountOf(admitted[t], b, n) =< CountOf(admitted'[t], b, n)
  <2>. SUFFICES ASSUME NEW t \in Stores, NEW b \in Bucket, NEW n \in Int
                PROVE  CountOf(admitted[t], b, n) =< CountOf(admitted'[t], b, n)
    OBVIOUS
  <2>1. CASE t # s
    <3>1. admitted'[t] = admitted[t] /\ CountOf(admitted[t], b, n) \in Nat
      BY <2>1, <1>1, <1>9, CountType DEF LimitTables
    <3>. QED  BY <3>1
  <2>2. CASE t = s
    <3>1. CountOf(a1, b, n)
            = CountOf(a0, b, n) + (IF done.allowed /\ b = r.bucket /\ n = r.at THEN 1 ELSE 0)
      BY <1>96
    <3>2. CountOf(a0, b, n) \in Nat
      BY <1>91
    <3>. QED  BY <2>2, <3>1, <3>2
  <2>. QED  BY <2>1, <2>2
<1>. PICK q : q = IF done.allowed THEN Authenticated(r) ELSE [r EXCEPT !.stage = "refused"]
  OBVIOUS
<1>13. handler' = [handler EXCEPT ![h] = q]
  <2>1. CASE done.allowed
    BY <2>1, <1>4
  <2>2. CASE ~done.allowed
    <3>1. handler' = [handler EXCEPT ![h].stage = "refused"]
      BY <2>2, <1>4
    <3>. QED  BY <2>2, <3>1
  <2>. QED  BY <2>1, <2>2
<1>14. q \in Request \cup {NotServing} /\ OnTime(q)
  <2>1. CASE done.allowed /\ r.posts
    <3>1. q = [r EXCEPT !.stage = "authenticated"]
      BY <2>1 DEF Authenticated
    <3>2. q \in Request /\ q.stage = "authenticated" /\ q.bucket = r.bucket
      BY <3>1, <1>2 DEF Request
    <3>. QED  BY <2>1, <3>2, <1>2 DEF OnTime
  <2>2. CASE done.allowed /\ ~r.posts
    <3>1. q = NotServing
      BY <2>2 DEF Authenticated
    <3>. QED  BY <3>1, IdleIsFine
  <2>3. CASE ~done.allowed
    <3>1. q \in Request /\ q.stage = "refused"
      BY <2>3, <1>2 DEF Request
    <3>. QED  BY <3>1 DEF OnTime
  <2>. QED  BY <2>1, <2>2, <2>3
<1>15. Full(q)'
  <2>1. CASE done.allowed
    <3>1. q.stage # "refused"
      BY <2>1 DEF Authenticated, NotServing
    <3>. QED  BY <3>1 DEF Full
  <2>2. CASE ~done.allowed
    <3>1. q.bucket = r.bucket /\ q.at = r.at /\ q.worker = w
      BY <2>2, <1>2 DEF Request
    <3>0. LimitOf(r.bucket) \in Nat
      BY <1>1, <1>2, LimitTypes
    <3>2. CountOf(c0, r.bucket, r.at) >= LimitOf(r.bucket)
      <4>1. ~(CountOf(c0, r.bucket, r.at) < LimitOf(r.bucket))
        BY <2>2, <1>7
      <4>. QED  BY <3>0, <4>1, <1>6
    <3>3. Tallied(s, r.bucket, r.at, CountOf(c0, r.bucket, r.at), CountOf(a0, r.bucket, r.at))
      BY <1>1, <1>2 DEF Tallies
    <3>4. CountOf(a0, r.bucket, r.at) >= LimitOf(r.bucket)
      <4>1. CountOf(a0, r.bucket, r.at) \in Nat
        BY <1>91
      <4>. QED  BY <3>0, <3>2, <3>3, <4>1, <1>2, <1>6 DEF Tallied
    <3>5. CountOf(a1, r.bucket, r.at) >= LimitOf(r.bucket)
      BY <2>2, <3>4, <1>94
    <3>6. LimitOf(r.bucket)' = LimitOf(r.bucket) /\ StoreOf(w)' = s
      BY <1>4 DEF LimitOf, StoreOf
    <3>. QED  BY <3>1, <3>5, <3>6 DEF Full
  <2>. QED  BY <2>1, <2>2
<1>. QED  BY <1>4, <1>10, <1>11, <1>12, <1>13, <1>14, <1>15, CountsKeep

\* A message counts in both buckets or in neither, and keeps every tally.
LEMMA PostKeeps ==
    ASSUME LimitsInv, NEW h \in Handlers, Post(h)
    PROVE  LimitsInv'
<1>. PICK r : r = handler[h]
  OBVIOUS
<1>. PICK w : w = r.worker
  OBVIOUS
<1>. PICK s : s = StoreOf(w)
  OBVIOUS
<1>. PICK c0 : c0 = store[s]
  OBVIOUS
<1>. PICK a0 : a0 = admitted[s]
  OBVIOUS
<1>. PICK p : p = r.bucket[2]
  OBVIOUS
<1>. PICK B : B = ToSet(PostBuckets(p))
  OBVIOUS
<1>. PICK kept : kept = FreshOf(c0, r.at)
  OBVIOUS
<1>. PICK done : done = RecordedAll(c0, B, r.at)
  OBVIOUS
<1>1. LimitTables /\ Tallies /\ r.stage = "peeking" /\ r \in Request \cup {NotServing} /\ OnTime(r)
  BY DEF LimitsInv, Post
<1>2. /\ r \in Request /\ w \in ApiWorkers /\ r.at \in Int /\ r.bucket \in Bucket /\ p \in People
      /\ r.at \in {TimeOfDay - 1, TimeOfDay} /\ s \in Stores
  <2>1. r \in Request
    BY <1>1 DEF NotServing
  <2>2. BucketKind(r.bucket) = "session" /\ r.bucket \in Bucket
    BY <2>1, <1>1 DEF Request, OnTime
  <2>. QED  BY <2>1, <2>2, <1>1, LimitTypes DEF Request, OnTime
<1>3. c0 \in Counters /\ a0 \in Counters
  BY <1>1, <1>2 DEF LimitTables
<1>4. B = {<<"user", p>>, <<"phase", p>>}
  BY DEF PostBuckets, ToSet
<1>5. B \in SUBSET Bucket /\ \A x \in B : Posting(x)
  <2>1. B \in SUBSET Bucket
    BY <1>1, <1>2, <1>4, LimitTypes
  <2>2. Posting(<<"user", p>>) /\ Posting(<<"phase", p>>)
    BY DEF Posting, BucketKind, HitKinds
  <2>. QED  BY <2>1, <2>2, <1>4
<1>6. /\ UNCHANGED <<window, booted, backend, ceiling, apiKeys, arrivals>>
      /\ store' = [store EXCEPT ![s] = done.counts] /\ posted' = posted \cup {s}
      /\ \/ /\ done.allowed /\ LetThrough(w, B, r.at)
            /\ handler' = [handler EXCEPT ![h] = NotServing]
         \/ /\ ~done.allowed /\ UNCHANGED admitted
            /\ \E full \in {b \in B : ~Fits(c0, {b}, r.at)} :
                  handler' = [handler EXCEPT ![h].stage = "refused", ![h].bucket = full]
  BY DEF Post
<1>7. ASSUME NEW b, NEW m \in Int
      PROVE  /\ kept \in Counters
             /\ CountOf(kept, b, m) = IF m >= r.at - 1 THEN CountOf(c0, b, m) ELSE 0
  BY <1>2, <1>3, KeptFresh
<1>8. kept \in Counters
  BY <1>2, <1>7
<1>. PICK one : one = Counted(kept, B, r.at)
  OBVIOUS
<1>. PICK more : more = Counted(a0, B, r.at)
  OBVIOUS
<1>9. ASSUME NEW b, NEW m
      PROVE  /\ one \in Counters
             /\ CountOf(one, b, m) = CountOf(kept, b, m) + Once(B, r.at, b, m)
  <2>1. r.at \in Int /\ B \in SUBSET Bucket
    BY <1>2, <1>5
  <2>2. /\ Counted(kept, B, r.at) \in Counters
        /\ CountOf(Counted(kept, B, r.at), b, m) = CountOf(kept, b, m) + Once(B, r.at, b, m)
    BY <2>1, <1>8, CountedOnce
  <2>. QED  BY <2>2
<1>10. ASSUME NEW b, NEW m
       PROVE  /\ more \in Counters
              /\ CountOf(more, b, m) = CountOf(a0, b, m) + Once(B, r.at, b, m)
  <2>1. r.at \in Int /\ B \in SUBSET Bucket
    BY <1>2, <1>5
  <2>. QED  BY <2>1, <1>3, CountedOnce
<1>11. one \in Counters /\ more \in Counters
  BY <1>9, <1>10
<1>12. /\ done.allowed <=> \A b \in B : CountOf(kept, b, r.at) < LimitOf(b)
       /\ done.allowed \in BOOLEAN
       /\ done.allowed => done.counts = one
       /\ ~done.allowed => done.counts \in {c0, kept}
  BY DEF RecordedAll, Fits
<1>. PICK a1 : a1 = IF done.allowed THEN more ELSE a0
  OBVIOUS
<1>13. admitted \in [Stores -> Counters] /\ store \in [Stores -> Counters] /\ a0 = admitted[s]
  BY <1>1 DEF LimitTables
<1>14. admitted' = [admitted EXCEPT ![s] = a1]
  <2>1. CASE done.allowed
    BY <2>1, <1>6 DEF LetThrough
  <2>2. CASE ~done.allowed
    BY <2>2, <1>6, <1>13
  <2>. QED  BY <2>1, <2>2
<1>15. store' \in [Stores -> Counters] /\ store'[s] = done.counts
       /\ \A t \in Stores \ {s} : store'[t] = store[t]
  <2>1. done.counts \in Counters
    BY <1>3, <1>8, <1>11, <1>12
  <2>. QED  BY <2>1, <1>2, <1>6, <1>13
<1>16. admitted' \in [Stores -> Counters] /\ admitted'[s] = a1
       /\ \A t \in Stores \ {s} : admitted'[t] = admitted[t]
  BY <1>2, <1>3, <1>11, <1>13, <1>14
<1>17. LimitTables'
  <2>1. posted' \subseteq Stores
    BY <1>1, <1>2, <1>6 DEF LimitTables
  <2>. QED  BY <2>1, <1>1, <1>6, <1>15, <1>16 DEF LimitTables
<1>18. Tallies'
  <2>. SUFFICES ASSUME NEW t \in Stores, NEW b \in Bucket, NEW n \in Int
                PROVE  Tallied(t, b, n, CountOf(store[t], b, n), CountOf(admitted[t], b, n))'
    BY DEF Tallies
  <2>. PICK c : c = CountOf(store[t], b, n)
    OBVIOUS
  <2>. PICK a : a = CountOf(admitted[t], b, n)
    OBVIOUS
  <2>. PICK d : d = CountOf(store'[t], b, n)
    OBVIOUS
  <2>. PICK e : e = CountOf(admitted'[t], b, n)
    OBVIOUS
  <2>0. UNCHANGED <<window, booted, ceiling>> /\ posted' = posted \cup {s}
    BY <1>6
  <2>1. Tallied(t, b, n, c, a)
    BY <1>1 DEF Tallies
  <2>2. CASE t # s
    <3>1. d = c /\ e = a
      BY <2>2, <1>15, <1>16
    <3>2. t \notin posted' => t \notin posted
      BY <1>6
    <3>3. Tallied(t, b, n, c, a)'
      BY <2>1, <3>2, <1>6 DEF Tallied, LimitOf, TimeOfDay, OneHost, Monotonic
    <3>. QED  BY <3>1, <3>3
  <2>3. CASE t = s
    <3>1. c = CountOf(c0, b, n) /\ a = CountOf(a0, b, n) /\ d = CountOf(done.counts, b, n)
          /\ e = CountOf(a1, b, n)
      BY <2>3, <1>15, <1>16
    <3>2. c \in Nat /\ a \in Nat
      <4>1. CountOf(c0, b, n) \in Nat
        BY <1>3, CountType
      <4>2. CountOf(a0, b, n) \in Nat
        BY <1>3, CountType
      <4>. QED  BY <3>1, <4>1, <4>2
    <3>. PICK k : k = IF n >= r.at - 1 THEN c ELSE 0
      OBVIOUS
    <3>3. CountOf(kept, b, n) = k /\ k \in Nat
      <4>1. CountOf(kept, b, n) = IF n >= r.at - 1 THEN CountOf(c0, b, n) ELSE 0
        BY <1>7
      <4>. QED  BY <3>1, <3>2, <4>1
    <3>4. CASE done.allowed
      <4>1. d = k + Once(B, r.at, b, n)
        <5>1. CountOf(one, b, n) = CountOf(kept, b, n) + Once(B, r.at, b, n)
          BY <1>9
        <5>. QED  BY <5>1, <3>1, <3>3, <3>4, <1>12
      <4>2. e = a + Once(B, r.at, b, n)
        <5>1. CountOf(more, b, n) = CountOf(a0, b, n) + Once(B, r.at, b, n)
          BY <1>10
        <5>. QED  BY <5>1, <3>1, <3>4
      <4>3. CASE b \in B /\ n = r.at
        <5>1. k = c /\ k < LimitOf(b)
          BY <4>3, <3>2, <3>3, <3>4, <1>2, <1>12
        <5>2. d = c + 1 /\ e = a + 1
          BY <4>1, <4>2, <4>3, <5>1 DEF Once
        <5>3. d \in Nat /\ e \in Nat
          BY <5>2, <3>2
        <5>4. Tallied(s, b, n, c, a)
          BY <2>1, <2>3
        <5>5. PostCounts(B, r.at, b, n, c, a, d, e)
          BY <5>1, <5>2, <4>3, <3>2 DEF PostCounts
        <5>6. Tallied(s, b, n, d, e)'
          BY <1>1, <1>2, <1>5, <2>0, <3>2, <4>3, <5>2, <5>3, <5>4, <5>5, PostTallied
        <5>. QED  BY <5>6, <2>3
      <4>4. CASE ~(b \in B /\ n = r.at)
        <5>1. d = k /\ e = a
          BY <4>1, <4>2, <4>4, <3>2, <3>3 DEF Once
        <5>2. d \in Nat /\ e \in Nat
          BY <5>1, <3>2, <3>3
        <5>3. Tallied(s, b, n, c, a)
          BY <2>1, <2>3
        <5>4. PostCounts(B, r.at, b, n, c, a, d, e)
          BY <5>1, <4>4 DEF PostCounts
        <5>5. Tallied(s, b, n, d, e)'
          BY <1>1, <1>2, <1>5, <2>0, <3>2, <5>1, <5>2, <5>3, <5>4, PostTallied
        <5>. QED  BY <5>5, <2>3
      <4>. QED  BY <4>3, <4>4
    <3>5. CASE ~done.allowed
      <4>1. e = a /\ d \in {c, k}
        BY <3>1, <3>3, <3>5, <1>12
      <4>2. d \in Nat /\ e \in Nat
        BY <4>1, <3>2, <3>3
      <4>3. Tallied(s, b, n, c, a)
        BY <2>1, <2>3
      <4>4. PostCounts(B, r.at, b, n, c, a, d, e)
        BY <4>1 DEF PostCounts
      <4>5. Tallied(s, b, n, d, e)'
        BY <1>1, <1>2, <1>5, <2>0, <3>2, <4>1, <4>2, <4>3, <4>4, PostTallied
      <4>. QED  BY <4>5, <2>3
    <3>. QED  BY <3>4, <3>5
  <2>. QED  BY <2>2, <2>3
<1>19. \A t \in Stores, b \in Bucket, n \in Int :
          CountOf(admitted[t], b, n) =< CountOf(admitted'[t], b, n)
  <2>. SUFFICES ASSUME NEW t \in Stores, NEW b \in Bucket, NEW n \in Int
                PROVE  CountOf(admitted[t], b, n) =< CountOf(admitted'[t], b, n)
    OBVIOUS
  <2>1. CountOf(admitted[t], b, n) \in Nat
    BY <1>13, CountType
  <2>2. CASE t # s \/ ~done.allowed
    <3>1. admitted'[t] = admitted[t]
      BY <2>2, <1>13, <1>16
    <3>. QED  BY <2>1, <3>1
  <2>3. CASE t = s /\ done.allowed
    <3>1. CountOf(more, b, n) = CountOf(a0, b, n) + Once(B, r.at, b, n)
      BY <1>10
    <3>2. Once(B, r.at, b, n) \in Nat
      BY DEF Once
    <3>. QED  BY <2>1, <2>3, <3>1, <3>2, <1>16
  <2>. QED  BY <2>2, <2>3
<1>20. CASE done.allowed
  <2>. PICK q : q = NotServing
    OBVIOUS
  <2>1. handler' = [handler EXCEPT ![h] = q] /\ q \in Request \cup {NotServing}
    BY <1>20, <1>6
  <2>2. OnTime(q) /\ Full(q)'
    BY DEF OnTime, Full, NotServing
  <2>. QED  BY <2>1, <2>2, <1>6, <1>17, <1>18, <1>19, CountsKeep
<1>21. CASE ~done.allowed
  <2>1. PICK full \in B : /\ ~Fits(c0, {full}, r.at)
                          /\ handler' = [handler EXCEPT ![h].stage = "refused", ![h].bucket = full]
    BY <1>21, <1>6
  <2>. PICK q : q = [r EXCEPT !.stage = "refused", !.bucket = full]
    OBVIOUS
  <2>2. handler' = [handler EXCEPT ![h] = q]
    BY <2>1, <1>1 DEF LimitsInv
  <2>3. q \in Request /\ q.stage = "refused" /\ q.bucket = full /\ q.at = r.at /\ q.worker = w
    BY <2>1, <1>2, <1>5 DEF Request
  <2>4. OnTime(q)
    BY <2>3 DEF OnTime
  <2>5. Full(q)'
    <3>1. full \in Bucket /\ Posting(full) /\ LimitOf(full) \in Nat
      BY <2>1, <1>1, <1>5, LimitTypes
    <3>2. ~(CountOf(c0, full, r.at) < LimitOf(full))
      BY <2>1 DEF Fits
    <3>3. Tallied(s, full, r.at, CountOf(c0, full, r.at), CountOf(a0, full, r.at))
      BY <3>1, <1>1, <1>2 DEF Tallies
    <3>4. r.at >= TimeOfDay - 1
      BY <1>1, <1>2, LimitTypes
    <3>5. CountOf(c0, full, r.at) = CountOf(a0, full, r.at)
      BY <3>1, <3>3, <3>4 DEF Tallied
    <3>6. CountOf(a0, full, r.at) \in Nat
      BY <1>3, CountType
    <3>7. CountOf(a0, full, r.at) >= LimitOf(full)
      BY <3>1, <3>2, <3>5, <3>6
    <3>8. admitted'[s] = a0 /\ LimitOf(full)' = LimitOf(full) /\ StoreOf(w)' = s
      BY <1>6, <1>16, <1>21 DEF LimitOf, StoreOf
    <3>. QED  BY <2>3, <3>7, <3>8 DEF Full
  <2>. QED  BY <2>2, <2>3, <2>4, <2>5, <1>6, <1>17, <1>18, <1>19, CountsKeep
<1>. QED  BY <1>20, <1>21

\* A request arrives: it is counted next, or needs no counting.
LEMMA ArriveKeeps ==
    ASSUME LimitsInv, NEW h \in Handlers, NEW w \in ApiWorkers, NEW b \in Bucket, NEW posts \in BOOLEAN,
           BucketKind(b) \in HitKinds, Arrive(h, w, b, posts)
    PROVE  LimitsInv'
<1>. PICK r : r = Serving(w, b, posts)
  OBVIOUS
<1>. PICK q : q = IF BucketKind(b) = "session" /\ LimitOf(b) = 0 THEN Authenticated(r) ELSE r
  OBVIOUS
<1>1. LimitTables /\ arrivals < MaxArrivals /\ arrivals' = arrivals + 1
      /\ (posts => BucketKind(b) = "session")
      /\ handler' = [handler EXCEPT ![h] = q]
      /\ UNCHANGED <<window, booted, backend, ceiling, apiKeys, store, admitted, posted>>
  BY DEF LimitsInv, Arrive
<1>2. Monotonic(w) \in Int
  BY <1>1, LimitTypes
<1>3. r \in Request /\ r.stage = "hit" /\ r.worker = w /\ r.bucket = b /\ r.at = Monotonic(w)
      /\ r.posts = posts
  <2>1. << >> \in Seq(Bucket)
    OBVIOUS
  <2>. QED  BY <1>2, <2>1 DEF Serving, Request
<1>4. OnTime(r) /\ Full(r)
  BY <1>1, <1>3 DEF OnTime, Full, Posting
<1>5. CASE q = r
  <2>1. arrivals' \in 0..MaxArrivals
    BY <1>1, CeilingAssumption DEF LimitTables
  <2>2. apiKeys' \in [ApiKeys -> [status : {"none", "live", "disabled"}, used : BOOLEAN]]
    BY <1>1 DEF LimitTables
  <2>3. q \in Request \cup {NotServing} /\ OnTime(q) /\ Full(q)
    BY <1>3, <1>4, <1>5
  <2>. QED  BY <1>1, <2>1, <2>2, <2>3, QuietKeeps
<1>6. CASE q # r
  <2>1. arrivals' \in 0..MaxArrivals
    BY <1>1, CeilingAssumption DEF LimitTables
  <2>2. apiKeys' \in [ApiKeys -> [status : {"none", "live", "disabled"}, used : BOOLEAN]]
    BY <1>1 DEF LimitTables
  <2>3. q = Authenticated(r) /\ BucketKind(b) = "session"
    BY <1>6
  <2>4. CASE posts
    <3>1. q = [r EXCEPT !.stage = "authenticated"]
      BY <2>3, <2>4, <1>3 DEF Authenticated
    <3>2. q \in Request /\ q.stage = "authenticated" /\ q.bucket = b
      BY <3>1, <1>3 DEF Request
    <3>3. OnTime(q) /\ Full(q)
      BY <3>2, <2>3 DEF OnTime, Full
    <3>. QED  BY <1>1, <2>1, <2>2, <3>2, <3>3, QuietKeeps
  <2>5. CASE ~posts
    <3>1. q = NotServing
      BY <2>3, <2>5, <1>3 DEF Authenticated
    <3>2. OnTime(q) /\ Full(q) /\ q \in Request \cup {NotServing}
      BY <3>1 DEF OnTime, Full, NotServing
    <3>. QED  BY <1>1, <2>1, <2>2, <3>2, QuietKeeps
  <2>. QED  BY <2>4, <2>5
<1>. QED  BY <1>5, <1>6

\* The steps of a request that look at the store without writing to it
LEMMA LookingKeeps ==
    ASSUME LimitsInv, NEW h \in Handlers, StartPost(h) \/ Peek(h) \/ Respond(h)
    PROVE  LimitsInv'
<1>. PICK r : r = handler[h]
  OBVIOUS
<1>1. LimitTables /\ Tallies /\ r \in Request \cup {NotServing} /\ OnTime(r)
      /\ handler \in [Handlers -> Request \cup {NotServing}]
  BY DEF LimitsInv
<1>2. UNCHANGED <<window, booted, backend, ceiling, apiKeys, store, admitted, posted, arrivals>>
  BY DEF StartPost, Peek, Respond
<1>3. arrivals' \in 0..MaxArrivals
      /\ apiKeys' \in [ApiKeys -> [status : {"none", "live", "disabled"}, used : BOOLEAN]]
  BY <1>1, <1>2 DEF LimitTables
<1>4. ASSUME NEW q \in Request \cup {NotServing}, OnTime(q), Full(q), handler' = [handler EXCEPT ![h] = q]
      PROVE  LimitsInv'
  BY <1>2, <1>3, <1>4, QuietKeeps
<1>5. r.stage # "idle" => /\ r \in Request /\ r.worker \in ApiWorkers /\ r.bucket \in Bucket
                          /\ r.at \in Int
  BY <1>1 DEF NotServing, Request
<1>6. CASE StartPost(h)
  <2>. PICK q : q = [r EXCEPT !.stage = "peeking", !.at = TimeOfDay, !.toPeek = PostBuckets(r.bucket[2])]
    OBVIOUS
  <2>1. r.stage = "authenticated" /\ handler' = [handler EXCEPT ![h] = q]
    BY <1>1, <1>6 DEF StartPost
  <2>2. r \in Request /\ BucketKind(r.bucket) = "session" /\ r.bucket \in Bucket
    BY <2>1, <1>1, <1>5 DEF OnTime
  <2>. PICK p : p = r.bucket[2]
    OBVIOUS
  <2>3. p \in People /\ TimeOfDay \in Int /\ TimeOfDay >= Epoch /\ Epoch \in Int
        /\ <<"user", p>> \in Bucket /\ <<"phase", p>> \in Bucket
    BY <2>2, <1>1, LimitTypes
  <2>4. PostBuckets(p) = << <<"user", p>>, <<"phase", p>> >> /\ PostBuckets(p) \in Seq(Bucket)
        /\ \A i \in DOMAIN PostBuckets(p) : Posting(PostBuckets(p)[i])
    BY <2>3 DEF PostBuckets, Posting, BucketKind, HitKinds
  <2>5. q \in Request /\ q.stage = "peeking" /\ q.at = TimeOfDay /\ q.toPeek = PostBuckets(p)
        /\ q.bucket = r.bucket
    BY <2>2, <2>3, <2>4 DEF Request
  <2>6. OnTime(q) /\ Full(q)
    BY <2>2, <2>3, <2>4, <2>5 DEF OnTime, Full
  <2>. QED  BY <2>1, <2>5, <2>6, <1>4
<1>7. CASE Peek(h)
  <2>1. r.stage = "peeking" /\ r.toPeek # << >>
    BY <1>7 DEF Peek
  <2>2. r \in Request /\ r.worker \in ApiWorkers /\ r.at \in Int /\ r.toPeek \in Seq(Bucket)
        /\ \A i \in DOMAIN r.toPeek : Posting(r.toPeek[i])
    BY <2>1, <1>1, <1>5 DEF OnTime, Request
  <2>. PICK b : b = Head(r.toPeek)
    OBVIOUS
  <2>3. b \in Bucket /\ Posting(b) /\ Tail(r.toPeek) \in Seq(Bucket)
        /\ \A i \in DOMAIN Tail(r.toPeek) : Posting(Tail(r.toPeek)[i])
    BY <2>1, <2>2
  <2>. PICK s : s = StoreOf(r.worker)
    OBVIOUS
  <2>4. \/ handler' = [handler EXCEPT ![h].toPeek = Tail(@)]
        \/ ~Fits(store[s], {b}, r.at) /\ handler' = [handler EXCEPT ![h].stage = "refused", ![h].bucket = b]
    BY <1>7 DEF Peek
  <2>5. CASE handler' = [handler EXCEPT ![h].toPeek = Tail(@)]
    <3>. PICK q : q = [r EXCEPT !.toPeek = Tail(r.toPeek)]
      OBVIOUS
    <3>1. handler' = [handler EXCEPT ![h] = q]
      BY <2>5, <1>1
    <3>2. q \in Request /\ q.stage = "peeking" /\ q.at = r.at /\ q.toPeek = Tail(r.toPeek)
          /\ q.bucket = r.bucket
      BY <2>1, <2>2, <2>3 DEF Request
    <3>3. OnTime(q) /\ Full(q)
      BY <2>1, <2>3, <3>2, <1>1 DEF OnTime, Full
    <3>. QED  BY <3>1, <3>2, <3>3, <1>4
  <2>6. CASE ~Fits(store[s], {b}, r.at) /\ handler' = [handler EXCEPT ![h].stage = "refused", ![h].bucket = b]
    <3>. PICK q : q = [r EXCEPT !.stage = "refused", !.bucket = b]
      OBVIOUS
    <3>1. handler' = [handler EXCEPT ![h] = q]
      BY <2>6, <1>1
    <3>2. q \in Request /\ q.stage = "refused" /\ q.at = r.at /\ q.bucket = b /\ q.worker = r.worker
      BY <2>2, <2>3 DEF Request
    <3>3. s \in Stores /\ LimitOf(b) \in Nat /\ TimeOfDay \in Int /\ r.at >= TimeOfDay - 1
      <4>1. s \in Stores /\ LimitOf(b) \in Nat /\ TimeOfDay \in Int
        BY <1>1, <2>2, <2>3, LimitTypes
      <4>2. r.at \in {TimeOfDay - 1, TimeOfDay}
        BY <2>1, <1>1 DEF OnTime
      <4>. QED  BY <4>1, <4>2
    <3>4. CountOf(store[s], b, r.at) = CountOf(admitted[s], b, r.at)
      <4>1. Tallied(s, b, r.at, CountOf(store[s], b, r.at), CountOf(admitted[s], b, r.at))
        BY <3>3, <2>2, <2>3, <1>1 DEF Tallies
      <4>. QED  BY <4>1, <2>3, <3>3 DEF Tallied
    <3>5. CountOf(admitted[s], b, r.at) \in Nat
      <4>1. admitted[s] \in Counters
        BY <3>3, <1>1 DEF LimitTables
      <4>. QED  BY <4>1, CountType
    <3>6. CountOf(admitted[s], b, r.at) >= LimitOf(b)
      <4>1. ~(CountOf(store[s], b, r.at) < LimitOf(b))
        BY <2>6 DEF Fits
      <4>. QED  BY <4>1, <3>3, <3>4, <3>5
    <3>7. OnTime(q) /\ Full(q)
      BY <3>2, <3>6 DEF OnTime, Full
    <3>. QED  BY <3>1, <3>2, <3>7, <1>4
  <2>. QED  BY <2>4, <2>5, <2>6
<1>8. CASE Respond(h)
  <2>. PICK q : q = NotServing
    OBVIOUS
  <2>1. handler' = [handler EXCEPT ![h] = q] /\ q \in Request \cup {NotServing}
    BY <1>8 DEF Respond
  <2>2. OnTime(q) /\ Full(q)
    BY DEF OnTime, Full, NotServing
  <2>. QED  BY <2>1, <2>2, <1>4
<1>. QED  BY <1>6, <1>7, <1>8

\* Issuing and disabling a key counts nothing.
LEMMA KeyKeeps ==
    ASSUME LimitsInv, NEW k \in ApiKeys, IssueKey(k) \/ DisableKey(k)
    PROVE  LimitsInv'
<1>1. UNCHANGED <<window, booted, backend, ceiling, store, handler, admitted, posted, arrivals>>
  BY DEF IssueKey, DisableKey
<1>2. apiKeys' \in [ApiKeys -> [status : {"none", "live", "disabled"}, used : BOOLEAN]]
  BY DEF LimitsInv, LimitTables, IssueKey, DisableKey
<1>3. LimitTables' /\ Tallies'
  BY <1>1, <1>2 DEF LimitsInv, LimitTables, Tallies, Tallied, LimitOf, TimeOfDay, OneHost, Monotonic
<1>4. \A g \in Handlers : OnTime(handler[g])' /\ Full(handler[g])'
  BY <1>1 DEF LimitsInv, OnTime, Full, Monotonic, TimeOfDay, LimitOf, StoreOf
<1>. QED  BY <1>1, <1>3, <1>4 DEF LimitsInv

\* Every step keeps the invariant.
LEMMA LimitsStep == LimitsInv /\ [LimitsNext]_limitVars => LimitsInv'
<1>. SUFFICES ASSUME LimitsInv, [LimitsNext]_limitVars PROVE LimitsInv'
  OBVIOUS
<1>1. CASE WindowPasses
  BY <1>1, WindowKeeps
<1>2. ASSUME NEW k \in ApiKeys, IssueKey(k) \/ DisableKey(k) PROVE LimitsInv'
  BY <1>2, KeyKeeps
<1>3. ASSUME NEW h \in Handlers, StartPost(h) \/ Peek(h) \/ Respond(h) PROVE LimitsInv'
  BY <1>3, LookingKeeps
<1>4. ASSUME NEW h \in Handlers, Hit(h) PROVE LimitsInv'
  BY <1>4, HitKeeps
<1>5. ASSUME NEW h \in Handlers, Post(h) PROVE LimitsInv'
  BY <1>5, PostKeeps
<1>6. ASSUME NEW h \in Handlers, NEW w \in ApiWorkers, NEW b \in Bucket, NEW posts \in BOOLEAN,
             BucketKind(b) \in HitKinds, Arrive(h, w, b, posts)
      PROVE  LimitsInv'
  BY <1>6, ArriveKeeps
<1>7. CASE UNCHANGED limitVars
  <2>1. LimitTables' /\ Tallies'
    BY <1>7 DEF limitVars, LimitsInv, LimitTables, Tallies, Tallied, LimitOf, TimeOfDay, OneHost, Monotonic
  <2>2. \A g \in Handlers : OnTime(handler[g])' /\ Full(handler[g])'
    BY <1>7 DEF limitVars, LimitsInv, OnTime, Full, Monotonic, TimeOfDay, LimitOf, StoreOf
  <2>. QED  BY <1>7, <2>1, <2>2 DEF limitVars, LimitsInv
<1>. QED  BY <1>1, <1>2, <1>3, <1>4, <1>5, <1>6, <1>7 DEF LimitsNext

\* Whatever the settings, the hosts and the order of the requests, the tallies hold.
THEOREM LimitsKeepTheirTallies == LimitsSpec => []LimitsInv
BY LimitsInitInv, LimitsStep, PTL DEF LimitsSpec

\* The counters of RateLimitStore, the keys and the requests keep their types.
THEOREM LimitsTyped == LimitsSpec => []LimitsTypeOK
<1>1. ASSUME LimitsInv PROVE LimitsTypeOK
  <2>1. LimitTables /\ handler \in [Handlers -> Request \cup {NotServing}]
    BY <1>1 DEF LimitsInv
  <2>2. ASSUME NEW s \in Stores
        PROVE  /\ IsABag(store[s]) /\ IsABag(admitted[s])
               /\ \A e \in BagToSet(store[s]) \cup BagToSet(admitted[s]) : e[1] \in Bucket
    <3>1. store[s] \in Counters /\ admitted[s] \in Counters
      BY <2>1 DEF LimitTables
    <3>2. IsABag(store[s]) /\ BagToSet(store[s]) \subseteq Bucket \X Int
      BY <3>1, CountType
    <3>3. IsABag(admitted[s]) /\ BagToSet(admitted[s]) \subseteq Bucket \X Int
      BY <3>1, CountType
    <3>. QED  BY <3>2, <3>3
  <2>3. ASSUME NEW h \in Handlers
        PROVE  handler[h].stage \in {"idle", "hit", "authenticated", "peeking", "refused"}
    BY <2>1 DEF Request, NotServing
  <2>. QED  BY <2>1, <2>2, <2>3 DEF LimitTables, LimitsTypeOK
<1>. QED  BY <1>1, LimitsKeepTheirTallies, PTL

\* However requests overlap, no bucket of messages lets more through in a window than its
\* ceiling, and neither does any other whose workers share a clock and whose store no message
\* is written to; and nobody is refused (429) by a bucket that is not full.
THEOREM CeilingsAlwaysStand == LimitsSpec => []CeilingsStand
<1>1. ASSUME LimitsInv PROVE CeilingsStand
  <2>1. LimitTables /\ Tallies /\ \A h \in Handlers : Full(handler[h])
    BY <1>1 DEF LimitsInv
  <2>2. ASSUME NEW s \in Stores, NEW x \in Entries(s)
        PROVE  /\ (BucketKind(x[1]) \notin HitKinds \/ (OneHost /\ s \notin posted)) =>
                     CountOf(admitted[s], x[1], x[2]) <= LimitOf(x[1])
               /\ (BucketKind(x[1]) \notin HitKinds /\ x[2] >= TimeOfDay - 1) =>
                     CountOf(store[s], x[1], x[2]) = CountOf(admitted[s], x[1], x[2])
    <3>1. store[s] \in Counters /\ admitted[s] \in Counters
      BY <2>1 DEF LimitTables
    <3>2. BagToSet(store[s]) \subseteq Bucket \X Int
      BY <3>1, CountType
    <3>3. BagToSet(admitted[s]) \subseteq Bucket \X Int
      BY <3>1, CountType
    <3>4. x[1] \in Bucket /\ x[2] \in Int
      BY <3>2, <3>3 DEF Entries
    <3>5. Tallied(s, x[1], x[2], CountOf(store[s], x[1], x[2]), CountOf(admitted[s], x[1], x[2]))
      BY <2>1, <3>4 DEF Tallies
    <3>. QED  BY <3>5 DEF Tallied, Posting
  <2>. QED  BY <2>1, <2>2 DEF CeilingsStand, Full
<1>. QED  BY <1>1, LimitsKeepTheirTallies, PTL
=============================================================================
