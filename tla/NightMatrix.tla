---------------------------- MODULE NightMatrix ----------------------------
(***************************************************************************)
(* The Night Action Resolution matrix.  A night is a set of intents        *)
(*   [actor, kind, target, redirect]                                       *)
(* resolved tier by tier: roleblocks, redirects, kills / protects /        *)
(* visits, investigations and visit reads, death reveals.  The tuples the  *)
(* code sorts by seat are sets here: seat order matters only where one     *)
(* intent wins over another (a second redirect of one actor, the first     *)
(* detective finding), and there it is written out.                        *)
(***************************************************************************)
EXTENDS GameRules

IntentKind ==
    {"ROLEBLOCK", "REDIRECT", "MAFIA_KILL", "PROTECT", "INVESTIGATE", "FRAME",
     "TRACK", "WATCH", "CLEAN", "SERIAL_KILL"}

\* The submissions that carry a night action, as intents (no role's submission redirects:
\* REDIRECT is a row of the matrix that only resolve_night_actions itself can be given).
IntentsOf(acts) ==
    {[actor |-> p, kind |-> acts[p].type, target |-> acts[p].target, redirect |-> NoPlayer] :
        p \in {q \in DOMAIN acts : acts[q].type \in IntentKind}}

Of(intents, kind) == {i \in intents : i.kind = kind}

Targets(intents) == {i.target : i \in intents}

Actors(intents) == {i.actor : i \in intents}

\* The role that may use a kind of its own; a kill and a redirect are not tied to one.
OwnerRole ==
    [PROTECT |-> "DOCTOR", INVESTIGATE |-> "DETECTIVE", ROLEBLOCK |-> "MAFIA_ROLEBLOCKER",
     FRAME |-> "FRAMER", TRACK |-> "TRACKER", WATCH |-> "WATCHER", CLEAN |-> "JANITOR",
     SERIAL_KILL |-> "SERIAL_KILLER"]

ValidTargetForKind(s, i) ==
    /\ i.target \in s.alive
    /\ i.kind = "MAFIA_KILL" => IsMafia(s, i.actor) /\ ~IsMafia(s, i.target)
    /\ i.kind = "REDIRECT" => i.redirect \in s.alive
    /\ i.kind \in DOMAIN OwnerRole => s.role[i.actor] = OwnerRole[i.kind]
    /\ i.kind \in DOMAIN OwnerRole \ {"PROTECT"} => i.target # i.actor
    /\ i.kind = "PROTECT" => i.target # s.lastProtected[i.actor]
    /\ i.kind \in {"FRAME", "CLEAN"} => s.shots[i.actor] > 0

ValidIntents(s, intents) ==
    {i \in intents : i.actor \in s.alive /\ ValidTargetForKind(s, i)}

IsCommuter(s, p) == s.role[p] = "COMMUTER"

-----------------------------------------------------------------------------
\* Tiers.  V: the valid intents, A: the active ones

BlockedActors(s, V) == {q \in Targets(Of(V, "ROLEBLOCK")) : ~IsCommuter(s, q)}

AppliedRedirects(s, V) ==
    {i \in Of(V, "REDIRECT") : i.actor \notin BlockedActors(s, V)}

\* The first redirect, in seat order, that names an actor decides where it goes.
Redirected(s, V, i) ==
    LET onto == {r \in AppliedRedirects(s, V) : r.target = i.actor}
        first == CHOOSE r \in onto : \A other \in onto :
                    \/ r.actor < other.actor
                    \/ r.actor = other.actor /\ r.redirect =< other.redirect
    IN  IF onto = {} THEN i ELSE [i EXCEPT !.target = first.redirect]

Unblocked(s, V) ==
    {i \in V : i.kind \notin {"ROLEBLOCK", "REDIRECT"} /\ i.actor \notin BlockedActors(s, V)}

Retargeted_Slip(s, V) == {Redirected(s, V, i) : i \in Unblocked(s, V)}

Retargeted(s, V) ==
    {j \in {Redirected(s, V, i) : i \in Unblocked(s, V)} : ValidTargetForKind(s, j)}

ActiveIntents(s, V) == {i \in Retargeted(s, V) : ~IsCommuter(s, i.target)}

Visits_Slip(s, V) ==
    {[actor |-> i.actor, target |-> i.target] : i \in ActiveIntents(s, V)}

\* Who was seen visiting whom: a Ninja's kill leaves no trace, nor does a blocked
\* action or one that bounced off a Commuter.
Visits(s, V) ==
    LET seen == {i \in Of(V, "ROLEBLOCK") : ~IsCommuter(s, i.target)}
                \cup AppliedRedirects(s, V)
                \cup {i \in ActiveIntents(s, V) :
                        ~(s.role[i.actor] = "NINJA" /\ i.kind = "MAFIA_KILL")}
    IN  {[actor |-> i.actor, target |-> i.target] : i \in seen}

KillTarget_Slip(s, A, kind) ==
    Leaders(s.alive, LAMBDA q : Cardinality({i \in Of(A, kind) : i.target = q}))

KillTarget(s, A, kind) ==
    Unique(Leaders(s.alive,
                   LAMBDA q : Cardinality({i \in Of(A, kind) : i.target = q})))

ProtectedTargets(A) == Targets(Of(A, "PROTECT"))

KilledTargets(s, A) == KillTarget(s, A, "MAFIA_KILL") \cup KillTarget(s, A, "SERIAL_KILL")

NightEliminated(s, A) == KilledTargets(s, A) \ ProtectedTargets(A)

FramedTargets(A) == Targets(Of(A, "FRAME"))

FindingFor(s, A, q) ==
    IF q \in FramedTargets(A) THEN "MAFIA"
    ELSE IF s.role[q] = "GODFATHER" \/ ~IsMafia(s, q) THEN "TOWN"
    ELSE "MAFIA"

\* Death reveals: a death a Janitor aimed at is revealed without role and faction, and
\* only that spends the Janitor's shot; a Framer's shot is spent by any active frame.
CleanedDeaths(s, A) == Targets(Of(A, "CLEAN")) \cap NightEliminated(s, A)

SpentShots_Slip(s, A) == Actors(Of(A, "FRAME") \cup Of(A, "CLEAN"))

SpentShots(s, A) ==
    Actors(Of(A, "FRAME"))
    \cup {i.actor : i \in {c \in Of(A, "CLEAN") : c.target \in NightEliminated(s, A)}}

-----------------------------------------------------------------------------
\* Private feedback: a finding for a Detective, the seats seen for a Tracker or Watcher

NoFinding == "NONE"

Feedback(code, i) ==
    [recipient |-> i.actor, code |-> code, target |-> i.target,
     finding |-> NoFinding, seen |-> {}]

BlockedFeedback(s, V) ==
    {Feedback("ACTION_BLOCKED", i) :
        i \in {j \in V : j.kind # "ROLEBLOCK" /\ j.actor \in BlockedActors(s, V)}}

BounceFeedback(s, V) ==
    {Feedback("COMMUTER_UNTARGETABLE", i) :
        i \in {j \in Of(V, "ROLEBLOCK") \cup Retargeted(s, V) : IsCommuter(s, j.target)}}

\* The code calls a kill prevented when its target is not among the eliminated.
ProtectionFeedback(s, A) ==
    {Feedback("PROTECTION_SUCCESSFUL", i) :
        i \in {j \in Of(A, "PROTECT") :
                  j.target \in KilledTargets(s, A) \ NightEliminated(s, A)}}

\* Results go only to readers who survive the night.
Readers(s, A, kind) == {i \in Of(A, kind) : i.actor \notin NightEliminated(s, A)}

InvestigationFeedback(s, A) ==
    {[Feedback("INVESTIGATION_RESULT", i) EXCEPT !.finding = FindingFor(s, A, i.target)] :
        i \in Readers(s, A, "INVESTIGATE")}

VisitGraphFeedback(s, V) ==
    LET A == ActiveIntents(s, V)
        visits == Visits(s, V)
        visited(i) == {v.target : v \in {w \in visits : w.actor = i.target}}
        visitors(i) == {v.actor : v \in {w \in visits : w.target = i.target}}
    IN  {[Feedback("TRACK_RESULT", i) EXCEPT !.seen = visited(i) \ {i.actor}] :
             i \in Readers(s, A, "TRACK")}
        \cup
        {[Feedback("WATCH_RESULT", i) EXCEPT !.seen = visitors(i) \ {i.actor}] :
             i \in Readers(s, A, "WATCH")}

NightFeedback(s, V) ==
    LET A == ActiveIntents(s, V)
    IN  BlockedFeedback(s, V) \cup BounceFeedback(s, V) \cup ProtectionFeedback(s, A)
        \cup InvestigationFeedback(s, A) \cup VisitGraphFeedback(s, V)

\* resolve_night_actions
ResolveNight(s, intents) ==
    LET V == ValidIntents(s, intents)
        A == ActiveIntents(s, V)
    IN  [eliminated |-> NightEliminated(s, A),
         mafiaKill  |-> KillTarget(s, A, "MAFIA_KILL"),
         protected  |-> ProtectedTargets(A),
         cleaned    |-> CleanedDeaths(s, A),
         framed     |-> FramedTargets(A),
         spent      |-> SpentShots(s, A),
         feedback   |-> NightFeedback(s, V)]

=============================================================================
