----------------------------- MODULE EngineProofs -----------------------------
(***************************************************************************)
(* Proofs about the engine.                                                *)
(*                                                                         *)
(* The night matrix, for every board, every number of seats and every      *)
(* combination of intents: that an action takes effect only where the      *)
(* rules allow it, that hidden reveals are paid for, that what players are *)
(* told fits together, and that a night of the basic roles is the PRD's.   *)
(* The resolver is a pure function.  All there is to keep is that what was *)
(* submitted belongs to its seat (NightInv); the rest is lemmas about the  *)
(* tiers, with V for the valid intents and A for the active ones.          *)
(*                                                                         *)
(* The game loop, for every number of seats, days and rounds, every role   *)
(* assignment and every ordered list of win conditions: the type           *)
(* invariant, that no game is played past its decision, who may die in a   *)
(* step, and that a winner is one the board bears out, by the lemmas about *)
(* the tiers.                                                              *)
(*                                                                         *)
(* The views, for every cast and every length of the logs: that a seat and *)
(* a spectator cannot tell two games apart that differ in what is hidden   *)
(* from them.  Each list that a view is made of is a track of the log; the *)
(* tracks of the two games stay the same when both log events that are     *)
(* twins for the viewer, or one logs an event that no track keeps.         *)
(***************************************************************************)
EXTENDS GameLoop, NightCases, Observations, FiniteSetTheorems, WellFoundedInduction, TLAPS

Intent == [actor : Players, kind : IntentKind, target : Target, redirect : Target]

-----------------------------------------------------------------------------
\* The tiers

\* A unique leader is one living seat or none, and somebody aimed at it.
LEMMA KillTargetIsAimedAt ==
    ASSUME NEW s, NEW A, NEW kind
    PROVE  /\ KillTarget(s, A, kind) \subseteq s.alive
           /\ KillTarget(s, A, kind) = {} \/ Cardinality(KillTarget(s, A, kind)) = 1
           /\ \A q \in KillTarget(s, A, kind) : \E i \in A : i.kind = kind /\ i.target = q
<1>1. /\ KillTarget(s, A, kind) \subseteq s.alive
      /\ KillTarget(s, A, kind) = {} \/ Cardinality(KillTarget(s, A, kind)) = 1
  BY DEF KillTarget, Unique, Leaders
<1>2. ASSUME NEW q \in KillTarget(s, A, kind)
      PROVE  \E i \in A : i.kind = kind /\ i.target = q
  <2>1. Cardinality({i \in Of(A, kind) : i.target = q}) > 0
    BY DEF KillTarget, Unique, Leaders
  <2>2. {i \in Of(A, kind) : i.target = q} # {}
    BY <2>1, FS_EmptySet
  <2>. QED  BY <2>2 DEF Of
<1>. QED  BY <1>1, <1>2

\* A redirect changes the target of an intent and nothing else.
LEMMA RedirectedKeepsActor ==
    ASSUME NEW s, NEW V, NEW j \in Intent
    PROVE  Redirected(s, V, j).actor = j.actor /\ Redirected(s, V, j).kind = j.kind
<1>1. \A q : [j EXCEPT !.target = q].actor = j.actor /\ [j EXCEPT !.target = q].kind = j.kind
  BY DEF Intent
<1>2. Redirected(s, V, j) = j \/ \E q : Redirected(s, V, j) = [j EXCEPT !.target = q]
  BY DEF Redirected
<1>. QED  BY <1>1, <1>2

\* What is still active after blocks, redirects and Commuters is the intent of a living,
\* unblocked seat, of the kind it submitted, on a target that this kind allows and that is
\* no Commuter.
LEMMA ActiveIntentsAreValid ==
    ASSUME NEW s, NEW I \in SUBSET Intent,
           NEW i \in ActiveIntents(s, ValidIntents(s, I))
    PROVE  /\ i.actor \in s.alive /\ i.actor \in Players
           /\ ValidTargetForKind(s, i) /\ ~IsCommuter(s, i.target)
           /\ i.kind \notin {"ROLEBLOCK", "REDIRECT"}
           /\ i.actor \notin BlockedActors(s, ValidIntents(s, I))
           /\ \E j \in I : j.actor = i.actor /\ j.kind = i.kind
<1> DEFINE V == ValidIntents(s, I)
<1>1. /\ ValidTargetForKind(s, i) /\ ~IsCommuter(s, i.target)
      /\ \E j \in Unblocked(s, V) : i = Redirected(s, V, j)
  BY DEF ActiveIntents, Retargeted
<1>2. PICK j \in Unblocked(s, V) : i = Redirected(s, V, j)
  BY <1>1
<1>3. /\ j \in V /\ j.kind \notin {"ROLEBLOCK", "REDIRECT"}
      /\ j.actor \notin BlockedActors(s, V)
  BY DEF Unblocked
<1>4. j \in I /\ j \in Intent /\ j.actor \in s.alive
  BY <1>3 DEF ValidIntents
<1>5. i.actor = j.actor /\ i.kind = j.kind
  BY <1>2, <1>4, RedirectedKeepsActor
<1>6. j.actor \in Players
  BY <1>4 DEF Intent
<1>. QED  BY <1>1, <1>3, <1>4, <1>5, <1>6

\* An active intent of a kind that a role owns is that role's, and not on the seat itself.
LEMMA OwnersAct ==
    ASSUME NEW s, NEW i, ValidTargetForKind(s, i)
    PROVE  /\ i.kind = "PROTECT" => s.role[i.actor] = "DOCTOR" /\ i.target # s.lastProtected[i.actor]
           /\ i.kind = "INVESTIGATE" => s.role[i.actor] = "DETECTIVE" /\ i.target # i.actor
           /\ i.kind = "TRACK" => s.role[i.actor] = "TRACKER" /\ i.target # i.actor
           /\ i.kind = "WATCH" => s.role[i.actor] = "WATCHER" /\ i.target # i.actor
           /\ i.kind = "FRAME" => s.role[i.actor] = "FRAMER" /\ s.shots[i.actor] > 0
           /\ i.kind = "CLEAN" => s.role[i.actor] = "JANITOR" /\ s.shots[i.actor] > 0
           /\ i.kind = "SERIAL_KILL" => s.role[i.actor] = "SERIAL_KILLER"
           /\ i.kind = "ROLEBLOCK" => s.role[i.actor] = "MAFIA_ROLEBLOCKER"
BY DEF ValidTargetForKind, OwnerRole

\* Who dies by a Mafia kill is no Mafia seat, and a living Mafia seat aimed at it.
LEMMA MafiaKillHasKiller ==
    ASSUME NEW s, NEW I \in SUBSET Intent,
           NEW q \in KillTarget(s, ActiveIntents(s, ValidIntents(s, I)), "MAFIA_KILL")
    PROVE  ~IsMafia(s, q) /\ \E p \in s.alive : IsMafia(s, p)
<1> DEFINE A == ActiveIntents(s, ValidIntents(s, I))
<1>1. PICK i \in A : i.kind = "MAFIA_KILL" /\ i.target = q
  BY KillTargetIsAimedAt
<1>2. i.actor \in s.alive /\ ValidTargetForKind(s, i)
  BY ActiveIntentsAreValid
<1>3. IsMafia(s, i.actor) /\ ~IsMafia(s, q)
  BY <1>1, <1>2 DEF ValidTargetForKind
<1>. QED  BY <1>2, <1>3

\* Who dies by a serial kill was aimed at by a living serial killer.
LEMMA SerialKillHasKiller ==
    ASSUME NEW s, NEW I \in SUBSET Intent,
           NEW q \in KillTarget(s, ActiveIntents(s, ValidIntents(s, I)), "SERIAL_KILL")
    PROVE  /\ \E p \in s.alive : s.role[p] = "SERIAL_KILLER"
           /\ \E j \in I : j.kind = "SERIAL_KILL"
<1> DEFINE A == ActiveIntents(s, ValidIntents(s, I))
<1>1. PICK i \in A : i.kind = "SERIAL_KILL" /\ i.target = q
  BY KillTargetIsAimedAt
<1>2. /\ i.actor \in s.alive /\ ValidTargetForKind(s, i)
      /\ \E j \in I : j.kind = i.kind
  BY ActiveIntentsAreValid
<1>. QED  BY <1>1, <1>2, OwnersAct

\* Nobody dies at night but by an active intent, on a target that is no Commuter.
LEMMA EliminatedWereAimedAt ==
    ASSUME NEW s, NEW I \in SUBSET Intent,
           NEW q \in NightEliminated(s, ActiveIntents(s, ValidIntents(s, I)))
    PROVE  ~IsCommuter(s, q)
<1> DEFINE A == ActiveIntents(s, ValidIntents(s, I))
<1>1. \E i \in A : i.target = q
  BY KillTargetIsAimedAt DEF NightEliminated, KilledTargets
<1>. QED  BY <1>1, ActiveIntentsAreValid

-----------------------------------------------------------------------------
\* What is submitted

\* What was submitted belongs to its seat, and the result is that of what was submitted.
OwnKind(i) ==
    IF i.actor \in board.redirectors THEN i.kind = "REDIRECT"
    ELSE /\ board.role[i.actor] \in DOMAIN NightAction
         /\ i.kind = NightAction[board.role[i.actor]]

NightInv ==
    /\ board \in Boards
    /\ intents \in SUBSET Intent /\ IsFiniteSet(intents)
    /\ \A i \in intents : OwnKind(i)
    /\ result \in {Unresolved, ResolveNight(board, intents)}
    /\ turn # {} => result = Unresolved

\* A seat's choices are intents of its own.
LEMMA ChoicesAreOwn ==
    ASSUME board \in Boards, NEW p \in Players, NEW i \in IntentChoices(p)
    PROVE  i \in Intent /\ OwnKind(i)
<1>1. /\ board.alive \subseteq Players /\ board.role \in [Players -> Role]
      /\ NoPlayer \in Target /\ Players \subseteq Target
  BY BoardsAssumption DEF Target
<1>2. CASE p \in board.redirectors
  BY <1>1, <1>2 DEF IntentChoices, Intent, OwnKind, IntentKind
<1>3. CASE p \notin board.redirectors
  <2>1. /\ board.role[p] \in DOMAIN NightAction
        /\ i \in [actor : {p}, kind : {NightAction[board.role[p]]}, target : Target,
                  redirect : {NoPlayer}]
    BY <1>3 DEF IntentChoices
  <2>2. NightAction[board.role[p]] \in IntentKind
    BY <2>1 DEF NightAction, IntentKind
  <2>. QED  BY <1>1, <1>3, <2>1, <2>2 DEF Intent, OwnKind
<1>. QED  BY <1>2, <1>3

\* Submitting and resolving keep it so.
LEMMA NightInvariant == NightSpec => []NightInv
<1>1. NightInit => NightInv
  BY FS_EmptySet DEF NightInit, NightInv
<1>2. NightInv /\ [NightNext]_nightVars => NightInv'
  <2> SUFFICES ASSUME NightInv, [NightNext]_nightVars
               PROVE  NightInv'
    OBVIOUS
  <2>1. ASSUME NEW p \in Players, Submit(p)
        PROVE  NightInv'
    <3>1. PICK i \in IntentChoices(p) : intents' = intents \cup {i}
      BY <2>1 DEF Submit
    <3>2. i \in Intent /\ OwnKind(i)
      BY ChoicesAreOwn DEF NightInv
    <3>3. board' = board /\ result' = result /\ turn # {}
      BY <2>1 DEF Submit, InSeatOrder
    <3>4. IsFiniteSet(intents')
      BY <3>1, FS_AddElement DEF NightInv
    <3>. QED  BY <3>1, <3>2, <3>3, <3>4 DEF NightInv, OwnKind
  <2>2. ASSUME NEW p \in Players, StayHome(p)
        PROVE  NightInv'
    <3>1. board' = board /\ result' = result /\ intents' = intents /\ turn # {}
      BY <2>2 DEF StayHome, InSeatOrder
    <3>. QED  BY <3>1 DEF NightInv, OwnKind
  <2>3. CASE Resolve
    <3>1. /\ board' = board /\ intents' = intents /\ turn' = turn /\ turn = {}
          /\ result' = ResolveNight(board, intents)
      BY <2>3 DEF Resolve
    <3>. QED  BY <3>1 DEF NightInv, OwnKind
  <2>4. CASE UNCHANGED nightVars
    <3>1. board' = board /\ intents' = intents /\ turn' = turn /\ result' = result
      BY <2>4 DEF nightVars
    <3>. QED  BY <3>1 DEF NightInv, OwnKind
  <2>. QED  BY <2>1, <2>2, <2>3, <2>4 DEF NightNext
<1>. QED  BY <1>1, <1>2, PTL DEF NightSpec

-----------------------------------------------------------------------------
\* Feedback

\* A result names its reader, who lived, and what the reader's intent was on.
ResultOf(s, I, f, i) ==
    LET V == ValidIntents(s, I)
        A == ActiveIntents(s, V)
    IN  /\ i \in A /\ i.actor \notin NightEliminated(s, A)
        /\ f.recipient = i.actor /\ f.target = i.target
        /\ f.code = "INVESTIGATION_RESULT" =>
              /\ i.kind = "INVESTIGATE" /\ f.seen = {}
              /\ f.finding = FindingFor(s, A, i.target)
        /\ f.code = "TRACK_RESULT" =>
              /\ i.kind = "TRACK"
              /\ f.seen = {v.target : v \in {w \in Visits(s, V) : w.actor = i.target}} \ {i.actor}
        /\ f.code = "WATCH_RESULT" =>
              /\ i.kind = "WATCH"
              /\ f.seen = {v.actor : v \in {w \in Visits(s, V) : w.target = i.target}} \ {i.actor}

\* Every result is one of an active intent to read.
LEMMA ResultsAreForReaders ==
    ASSUME NEW s, NEW I, NEW f \in ResolveNight(s, I).feedback,
           f.code \in {"INVESTIGATION_RESULT", "TRACK_RESULT", "WATCH_RESULT"}
    PROVE  \E i : ResultOf(s, I, f, i)
<1> DEFINE V == ValidIntents(s, I)
           A == ActiveIntents(s, V)
<1>1. f \in NightFeedback(s, V)
  BY DEF ResolveNight
<1>2. \A code, i : /\ Feedback(code, i).code = code /\ Feedback(code, i).recipient = i.actor
                   /\ Feedback(code, i).target = i.target /\ Feedback(code, i).seen = {}
  BY DEF Feedback
<1>3. \A i, x : LET e == [Feedback("INVESTIGATION_RESULT", i) EXCEPT !.finding = x]
                IN  /\ e.code = "INVESTIGATION_RESULT" /\ e.recipient = i.actor
                    /\ e.target = i.target /\ e.seen = {} /\ e.finding = x
  BY DEF Feedback
<1>4. \A code, i, x : LET e == [Feedback(code, i) EXCEPT !.seen = x]
                      IN  /\ e.code = code /\ e.recipient = i.actor
                          /\ e.target = i.target /\ e.seen = x
  BY DEF Feedback
<1>5. f \notin BlockedFeedback(s, V) \cup BounceFeedback(s, V) \cup ProtectionFeedback(s, A)
  BY <1>2 DEF BlockedFeedback, BounceFeedback, ProtectionFeedback
<1>6. CASE f \in InvestigationFeedback(s, A)
  <2>1. PICK i \in Readers(s, A, "INVESTIGATE") :
           f = [Feedback("INVESTIGATION_RESULT", i) EXCEPT !.finding = FindingFor(s, A, i.target)]
    BY <1>6 DEF InvestigationFeedback
  <2>2. i \in A /\ i.kind = "INVESTIGATE" /\ i.actor \notin NightEliminated(s, A)
    BY DEF Readers, Of
  <2>. QED  BY <2>1, <2>2, <1>3 DEF ResultOf
<1>7. CASE f \in VisitGraphFeedback(s, V)
  <2> DEFINE visited(i) == {v.target : v \in {w \in Visits(s, V) : w.actor = i.target}}
             visitors(i) == {v.actor : v \in {w \in Visits(s, V) : w.target = i.target}}
  <2>1. \/ \E i \in Readers(s, A, "TRACK") :
              f = [Feedback("TRACK_RESULT", i) EXCEPT !.seen = visited(i) \ {i.actor}]
        \/ \E i \in Readers(s, A, "WATCH") :
              f = [Feedback("WATCH_RESULT", i) EXCEPT !.seen = visitors(i) \ {i.actor}]
    BY <1>7 DEF VisitGraphFeedback
  <2>2. \A i : /\ i \in Readers(s, A, "TRACK") =>
                     i \in A /\ i.kind = "TRACK" /\ i.actor \notin NightEliminated(s, A)
               /\ i \in Readers(s, A, "WATCH") =>
                     i \in A /\ i.kind = "WATCH" /\ i.actor \notin NightEliminated(s, A)
    BY DEF Readers, Of
  <2>3. ASSUME NEW i \in Readers(s, A, "TRACK"),
               f = [Feedback("TRACK_RESULT", i) EXCEPT !.seen = visited(i) \ {i.actor}]
        PROVE  ResultOf(s, I, f, i)
    <3>1. /\ f.code = "TRACK_RESULT" /\ f.recipient = i.actor /\ f.target = i.target
          /\ f.seen = visited(i) \ {i.actor}
      BY <2>3, <1>4
    <3>. QED  BY <3>1, <2>2 DEF ResultOf
  <2>4. ASSUME NEW i \in Readers(s, A, "WATCH"),
               f = [Feedback("WATCH_RESULT", i) EXCEPT !.seen = visitors(i) \ {i.actor}]
        PROVE  ResultOf(s, I, f, i)
    <3>1. /\ f.code = "WATCH_RESULT" /\ f.recipient = i.actor /\ f.target = i.target
          /\ f.seen = visitors(i) \ {i.actor}
      BY <2>4, <1>4
    <3>. QED  BY <3>1, <2>2 DEF ResultOf
  <2>. QED  BY <2>1, <2>3, <2>4
<1>. QED  BY <1>1, <1>5, <1>6, <1>7 DEF NightFeedback

\* Who is seen visiting: never a Ninja, and a Commuter only in a redirect.
LEMMA VisitsAreOf ==
    ASSUME NightInv, NEW v \in Visits(board, ValidIntents(board, intents))
    PROVE  /\ board.role[v.actor] # "NINJA"
           /\ \A p \in {v.actor, v.target} : board.role[p] = "COMMUTER" =>
                 \E r \in intents : r.kind = "REDIRECT" /\ p \in {r.actor, r.target}
<1> DEFINE V == ValidIntents(board, intents)
           A == ActiveIntents(board, V)
           Shown == {j \in A : ~(board.role[j.actor] = "NINJA" /\ j.kind = "MAFIA_KILL")}
<1>a. intents \in SUBSET Intent /\ board \in Boards /\ \A i \in intents : OwnKind(i)
  BY DEF NightInv
<1>b. \A i \in V : i \in intents /\ ValidTargetForKind(board, i)
  BY DEF ValidIntents
<1>c. "COMMUTER" \notin DOMAIN NightAction /\ NightAction["NINJA"] = "MAFIA_KILL"
      /\ "NINJA" \in DOMAIN NightAction
  BY DEF NightAction
<1>1. PICK i : /\ v.actor = i.actor /\ v.target = i.target
               /\ \/ i \in Of(V, "ROLEBLOCK") /\ ~IsCommuter(board, i.target)
                  \/ i \in AppliedRedirects(board, V)
                  \/ i \in Shown
  BY DEF Visits
<1>2. CASE i \in Of(V, "ROLEBLOCK") /\ ~IsCommuter(board, i.target)
  <2>1. i.kind = "ROLEBLOCK" /\ ValidTargetForKind(board, i)
    BY <1>2, <1>b DEF Of
  <2>2. board.role[i.actor] = "MAFIA_ROLEBLOCKER"
    BY <2>1, OwnersAct
  <2>. QED  BY <1>1, <1>2, <2>2 DEF IsCommuter
<1>3. CASE i \in AppliedRedirects(board, V)
  <2>1. i \in intents /\ i.kind = "REDIRECT"
    BY <1>3, <1>b DEF AppliedRedirects, Of
  <2>2. board.role[i.actor] # "NINJA"
    <3>1. CASE i.actor \in board.redirectors
      BY <3>1, <1>a, <1>c, RedirectorsAssumption
    <3>2. CASE i.actor \notin board.redirectors
      BY <3>2, <2>1, <1>a, <1>c DEF OwnKind
    <3>. QED  BY <3>1, <3>2
  <2>. QED  BY <1>1, <2>1, <2>2
<1>4. CASE i \in Shown
  <2>1. /\ i \in A /\ ~IsCommuter(board, i.target) /\ i.kind # "REDIRECT"
        /\ \E j \in intents : j.actor = i.actor /\ j.kind = i.kind
    BY <1>4, <1>a, ActiveIntentsAreValid
  <2>2. board.role[i.actor] \in DOMAIN NightAction /\ i.kind = NightAction[board.role[i.actor]]
    BY <2>1, <1>a DEF OwnKind
  <2>3. board.role[i.actor] # "NINJA"
    BY <1>4, <2>2, <1>c
  <2>4. board.role[i.actor] # "COMMUTER"
    BY <2>2, <1>c
  <2>. QED  BY <1>1, <2>1, <2>3, <2>4 DEF IsCommuter
<1>. QED  BY <1>1, <1>2, <1>3, <1>4

\* Readers outlive the night, read nothing about a Commuter, and agree with one another.
LEMMA ResultsAgree == NightInv => FeedbackAgrees
<1> SUFFICES ASSUME NightInv
             PROVE  FeedbackAgrees
  OBVIOUS
<1> DEFINE V == ValidIntents(board, intents)
           A == ActiveIntents(board, V)
<1>a. intents \in SUBSET Intent
  BY DEF NightInv
<1>1. CASE result = Unresolved
  BY <1>1 DEF FeedbackAgrees, Unresolved
<1>2. CASE result = ResolveNight(board, intents)
  <2>1. result.eliminated = NightEliminated(board, A)
    BY <1>2 DEF ResolveNight
  <2>2. \A i \in A : i.actor \in board.alive /\ ~IsCommuter(board, i.target)
    BY <1>a, ActiveIntentsAreValid
  <2>3. \A v \in Visits(board, V) :
           /\ board.role[v.actor] # "NINJA"
           /\ \A p \in {v.actor, v.target} : board.role[p] = "COMMUTER" =>
                 \E r \in intents : r.kind = "REDIRECT" /\ p \in {r.actor, r.target}
    BY VisitsAreOf
  <2>4. \A f \in result.feedback :
           f.code \in {"INVESTIGATION_RESULT", "TRACK_RESULT", "WATCH_RESULT"}
           => \E i : ResultOf(board, intents, f, i)
    BY <1>2, ResultsAreForReaders
  <2> HIDE DEF A, V
  <2>5. ASSUME NEW f \in result.feedback,
               f.code \in {"INVESTIGATION_RESULT", "TRACK_RESULT", "WATCH_RESULT"}
        PROVE  /\ f.recipient \in board.alive \ result.eliminated
               /\ board.role[f.target] # "COMMUTER"
               /\ \A p \in f.seen : board.role[p] = "COMMUTER" =>
                     \E r \in intents : r.kind = "REDIRECT" /\ p \in {r.actor, r.target}
    <3>1. PICK i : ResultOf(board, intents, f, i)
      BY <2>4, <2>5
    <3>2. i \in A /\ i.actor \notin NightEliminated(board, A) /\ f.recipient = i.actor /\ f.target = i.target
      BY <3>1 DEF ResultOf, A, V
    <3>3. ASSUME NEW p \in f.seen
          PROVE  \E v \in Visits(board, V) : p \in {v.actor, v.target}
      BY <3>1, <3>3, <2>5 DEF ResultOf, V
    <3>. QED  BY <3>2, <3>3, <2>1, <2>2, <2>3 DEF IsCommuter
  <2>6. ASSUME NEW t \in result.feedback, NEW w \in result.feedback,
               t.code = "TRACK_RESULT", w.code = "WATCH_RESULT",
               t.recipient # w.target, w.recipient # t.target
        PROVE  /\ (w.target \in t.seen) <=> (t.target \in w.seen)
               /\ \A p \in w.seen : board.role[p] # "NINJA"
    <3>1. PICK i : ResultOf(board, intents, t, i)
      BY <2>4, <2>6
    <3>2. PICK j : ResultOf(board, intents, w, j)
      BY <2>4, <2>6
    <3>3. /\ t.recipient = i.actor /\ t.target = i.target
          /\ t.seen = {v.target : v \in {x \in Visits(board, V) : x.actor = i.target}} \ {i.actor}
      BY <3>1, <2>6 DEF ResultOf, V
    <3>4. /\ w.recipient = j.actor /\ w.target = j.target
          /\ w.seen = {v.actor : v \in {x \in Visits(board, V) : x.target = j.target}} \ {j.actor}
      BY <3>2, <2>6 DEF ResultOf, V
    <3>5. w.target \in t.seen <=> \E v \in Visits(board, V) : v.actor = i.target /\ v.target = j.target
      BY <3>3, <3>4, <2>6
    <3>6. t.target \in w.seen <=> \E v \in Visits(board, V) : v.actor = i.target /\ v.target = j.target
      BY <3>3, <3>4, <2>6
    <3>7. \A p \in w.seen : board.role[p] # "NINJA"
      BY <3>4, <2>3
    <3>. QED  BY <3>5, <3>6, <3>7
  <2>. QED  BY <2>5, <2>6 DEF FeedbackAgrees
<1>. QED  BY <1>1, <1>2 DEF NightInv

\* What the night tells one player fits what it tells another, and what happened.
THEOREM FeedbackAlwaysAgrees == NightSpec => []FeedbackAgrees
<1>. QED  BY ResultsAgree, NightInvariant, PTL

-----------------------------------------------------------------------------
\* Blocks and redirects

\* Without the intents of the blocked seats the active intents are the same.
LEMMA BlockedIntentsDoNotMatter ==
    ASSUME NEW s, NEW I,
           NEW J, J = {i \in I : \/ i.kind = "ROLEBLOCK"
                                 \/ i.actor \notin BlockedActors(s, ValidIntents(s, I))}
    PROVE  ActiveIntents(s, ValidIntents(s, J)) = ActiveIntents(s, ValidIntents(s, I))
<1> DEFINE V == ValidIntents(s, I)
           W == ValidIntents(s, J)
<1>1. W = {i \in V : i.kind = "ROLEBLOCK" \/ i.actor \notin BlockedActors(s, V)}
  BY DEF ValidIntents
<1> HIDE DEF V, W
<1>2. BlockedActors(s, W) = BlockedActors(s, V)
  <2>1. Of(W, "ROLEBLOCK") = Of(V, "ROLEBLOCK")
    BY <1>1 DEF Of
  <2>. QED  BY <2>1 DEF BlockedActors
<1>3. AppliedRedirects(s, W) = AppliedRedirects(s, V)
  BY <1>1, <1>2 DEF AppliedRedirects, Of
<1>4. Unblocked(s, W) = Unblocked(s, V)
  BY <1>1, <1>2 DEF Unblocked
<1>5. \A i : Redirected(s, W, i) = Redirected(s, V, i)
  BY <1>3 DEF Redirected
<1>6. Retargeted(s, W) = Retargeted(s, V)
  BY <1>4, <1>5 DEF Retargeted
<1>. QED  BY <1>6 DEF ActiveIntents, V, W

\* A blocked seat changes nothing by what it would have done.
LEMMA BlockedAreInert == NightInv => BlockedSeatsAreInert
<1> SUFFICES ASSUME NightInv, result # Unresolved
             PROVE  BlockedSeatsAreInert
  BY DEF BlockedSeatsAreInert
<1> DEFINE J == {i \in intents : \/ i.kind = "ROLEBLOCK"
                                 \/ i.actor \notin BlockedActors(board, ValidIntents(board, intents))}
<1>1. ActiveIntents(board, ValidIntents(board, J)) = ActiveIntents(board, ValidIntents(board, intents))
  BY BlockedIntentsDoNotMatter
<1>2. result = ResolveNight(board, intents)
  BY DEF NightInv
<1>3. /\ result.eliminated = ResolveNight(board, J).eliminated
      /\ result.framed = ResolveNight(board, J).framed
      /\ result.cleaned = ResolveNight(board, J).cleaned
      /\ result.spent = ResolveNight(board, J).spent
      /\ result.protected = ResolveNight(board, J).protected
  BY <1>1, <1>2 DEF ResolveNight
<1>. QED  BY <1>3 DEF BlockedSeatsAreInert

\* Wherever an action ends up it is legal there.
LEMMA RedirectsAreLegal == NightInv => RedirectsStayLegal
<1> SUFFICES ASSUME NightInv
             PROVE  RedirectsStayLegal
  OBVIOUS
<1> DEFINE V == ValidIntents(board, intents)
           A == ActiveIntents(board, V)
<1>a. intents \in SUBSET Intent
  BY DEF NightInv
<1>1. CASE result = Unresolved
  BY <1>1 DEF RedirectsStayLegal, Unresolved
<1>2. CASE result = ResolveNight(board, intents)
  <2>1. /\ result.eliminated = NightEliminated(board, A)
        /\ result.framed = FramedTargets(A)
        /\ result.protected = ProtectedTargets(A)
    BY <1>2 DEF ResolveNight
  <2>2. \A i \in A : /\ i.actor \in board.alive /\ ValidTargetForKind(board, i)
                     /\ ~IsCommuter(board, i.target)
    BY <1>a, ActiveIntentsAreValid
  <2>3. ASSUME NEW q \in result.eliminated \cup result.framed \cup result.protected
        PROVE  board.role[q] # "COMMUTER"
    <3>1. CASE q \in result.eliminated
      BY <3>1, <2>1, <1>a, EliminatedWereAimedAt DEF IsCommuter
    <3>2. CASE q \in result.framed \cup result.protected
      <4>1. \E i \in A : i.target = q
        BY <3>2, <2>1 DEF FramedTargets, ProtectedTargets, Targets, Of
      <4>. QED  BY <4>1, <2>2 DEF IsCommuter
    <3>. QED  BY <3>1, <3>2
  <2>4. ASSUME NEW q \in result.eliminated, IsMafia(board, q)
        PROVE  \E i \in intents : i.kind = "SERIAL_KILL"
    <3>1. \/ q \in KillTarget(board, A, "MAFIA_KILL")
          \/ q \in KillTarget(board, A, "SERIAL_KILL")
      BY <2>1 DEF NightEliminated, KilledTargets
    <3>2. q \in KillTarget(board, A, "SERIAL_KILL")
      BY <3>1, <2>4, <1>a, MafiaKillHasKiller
    <3>. QED  BY <3>2, <1>a, SerialKillHasKiller
  <2>5. ASSUME NEW f \in result.feedback,
               f.code \in {"INVESTIGATION_RESULT", "TRACK_RESULT", "WATCH_RESULT"}
        PROVE  f.target # f.recipient
    <3>1. PICK i : ResultOf(board, intents, f, i)
      BY <1>2, <2>5, ResultsAreForReaders
    <3>2. /\ i \in A /\ f.recipient = i.actor /\ f.target = i.target
          /\ i.kind \in {"INVESTIGATE", "TRACK", "WATCH"}
      BY <3>1, <2>5 DEF ResultOf
    <3>. QED  BY <3>2, <2>2, OwnersAct
  <2>6. ASSUME NEW q \in result.protected
        PROVE  \E d \in board.alive : board.role[d] = "DOCTOR" /\ board.lastProtected[d] # q
    <3>1. PICK i \in A : i.target = q /\ i.kind = "PROTECT"
      BY <2>1 DEF ProtectedTargets, Targets, Of
    <3>. QED  BY <3>1, <2>2, OwnersAct
  <2>. QED  BY <2>3, <2>4, <2>5, <2>6 DEF RedirectsStayLegal
<1>. QED  BY <1>1, <1>2 DEF NightInv

\* Whatever meets in a night, an action that the rules refuse has no effect, neither by a
\* block that came too late nor through a redirect.
THEOREM EffectsAlwaysLegal == NightSpec => []EffectsStayLegal
<1>1. NightInv => EffectsStayLegal
  BY BlockedAreInert, RedirectsAreLegal DEF EffectsStayLegal
<1>. QED  BY <1>1, NightInvariant, PTL

-----------------------------------------------------------------------------
\* Reveals

\* A hidden reveal costs a Janitor who aimed at that very death a shot, and nothing else does.
LEMMA RevealsArePaidFor == NightInv => HiddenRevealsArePaidFor
<1> SUFFICES ASSUME NightInv
             PROVE  HiddenRevealsArePaidFor
  OBVIOUS
<1> DEFINE V == ValidIntents(board, intents)
           A == ActiveIntents(board, V)
<1>a. intents \in SUBSET Intent
  BY DEF NightInv
<1>1. CASE result = Unresolved
  BY <1>1 DEF HiddenRevealsArePaidFor, Unresolved
<1>2. CASE result = ResolveNight(board, intents)
  <2>1. /\ result.eliminated = NightEliminated(board, A)
        /\ result.cleaned = CleanedDeaths(board, A)
        /\ result.spent = SpentShots(board, A)
    BY <1>2 DEF ResolveNight
  <2>2. \A i \in A : i.actor \in board.alive /\ ValidTargetForKind(board, i)
    BY <1>a, ActiveIntentsAreValid
  <2> HIDE DEF A
  <2>3. result.cleaned \subseteq result.eliminated
    BY <2>1 DEF CleanedDeaths
  <2>4. ASSUME NEW q \in result.cleaned
        PROVE  \E j \in result.spent :
                  board.role[j] = "JANITOR" /\ j \in board.alive /\ board.shots[j] > 0
    <3>1. PICK c \in A : c.kind = "CLEAN" /\ c.target = q /\ q \in NightEliminated(board, A)
      BY <2>1 DEF CleanedDeaths, Targets, Of
    <3>2. c.actor \in result.spent
      BY <2>1, <3>1 DEF SpentShots, Of
    <3>. QED  BY <3>1, <3>2, <2>2, OwnersAct
  <2>5. ASSUME NEW j \in result.spent
        PROVE  /\ board.shots[j] > 0
               /\ board.role[j] = "JANITOR" => result.cleaned # {}
    <3>1. \/ \E i \in A : i.kind = "FRAME" /\ i.actor = j
          \/ \E i \in A : i.kind = "CLEAN" /\ i.actor = j /\ i.target \in NightEliminated(board, A)
      BY <2>1 DEF SpentShots, Actors, Of
    <3>2. ASSUME NEW i \in A, i.kind = "FRAME", i.actor = j
          PROVE  board.shots[j] > 0 /\ board.role[j] # "JANITOR"
      BY <3>2, <2>2, OwnersAct
    <3>3. ASSUME NEW i \in A, i.kind = "CLEAN", i.actor = j, i.target \in NightEliminated(board, A)
          PROVE  board.shots[j] > 0 /\ i.target \in result.cleaned
      BY <3>3, <2>1, <2>2, OwnersAct DEF CleanedDeaths, Targets, Of
    <3>. QED  BY <3>1, <3>2, <3>3
  <2>. QED  BY <2>3, <2>4, <2>5 DEF HiddenRevealsArePaidFor
<1>. QED  BY <1>1, <1>2 DEF NightInv

\* A death is revealed without its role only at a living Janitor's cost.
THEOREM HiddenRevealsAlwaysPaidFor == NightSpec => []HiddenRevealsArePaidFor
<1>. QED  BY RevealsArePaidFor, NightInvariant, PTL

-----------------------------------------------------------------------------
\* The night of the PRD

Votes(r) == Cardinality({i \in Legal("MAFIA_KILL") : i.target = r})

\* On a plain night the valid intents are the PRD's legal ones, and all of them are active.
LEMMA PlainNightIsLegal ==
    ASSUME NightInv, PlainNight
    PROVE  LET A == ActiveIntents(board, ValidIntents(board, intents))
           IN  /\ \A kind \in {"MAFIA_KILL", "PROTECT", "INVESTIGATE"} : Of(A, kind) = Legal(kind)
               /\ Of(A, "SERIAL_KILL") = {} /\ Of(A, "FRAME") = {}
<1> DEFINE V == ValidIntents(board, intents)
           A == ActiveIntents(board, V)
<1>a. /\ intents \in SUBSET Intent /\ board.alive \subseteq Players
      /\ \A i \in intents : OwnKind(i) /\ i.kind \in {"MAFIA_KILL", "PROTECT", "INVESTIGATE"}
      /\ \A p \in Players : board.role[p] # "COMMUTER"
  BY BoardsAssumption DEF NightInv, PlainNight
<1>b. V \subseteq intents /\ \A i \in V : i.actor \in board.alive /\ ValidTargetForKind(board, i)
  BY DEF ValidIntents
<1>1. Of(V, "ROLEBLOCK") = {} /\ Of(V, "REDIRECT") = {}
  BY <1>a, <1>b DEF Of
<1>2. BlockedActors(board, V) = {} /\ AppliedRedirects(board, V) = {}
  BY <1>1 DEF BlockedActors, AppliedRedirects, Targets
<1>3. \A i : Redirected(board, V, i) = i
  BY <1>2 DEF Redirected
<1>4. Unblocked(board, V) = V
  BY <1>a, <1>b, <1>2 DEF Unblocked
<1>5. A = V
  <2>1. Retargeted(board, V) = V
    BY <1>3, <1>4, <1>b DEF Retargeted
  <2>2. \A i \in V : i.target \in Players
    BY <1>a, <1>b DEF ValidTargetForKind
  <2>. QED  BY <2>1, <2>2, <1>a DEF ActiveIntents, IsCommuter
<1>6. ASSUME NEW i \in intents
      PROVE  /\ i.kind = "MAFIA_KILL" => IsMafia(board, i.actor)
             /\ i.kind = "PROTECT" => board.role[i.actor] = "DOCTOR"
             /\ i.kind = "INVESTIGATE" => board.role[i.actor] = "DETECTIVE"
  <2>1. board.role[i.actor] \in DOMAIN NightAction /\ i.kind = NightAction[board.role[i.actor]]
    BY <1>a DEF OwnKind
  <2>. QED  BY <2>1 DEF NightAction, IsMafia, FactionOf, MafiaRole
<1>7. \A i \in intents :
         i \in V <=> /\ i.actor \in board.alive /\ i.target \in board.alive
                     /\ i.kind = "MAFIA_KILL" => ~IsMafia(board, i.target)
                     /\ i.kind = "PROTECT" => i.target # board.lastProtected[i.actor]
                     /\ i.kind = "INVESTIGATE" => i.target # i.actor
  BY <1>a, <1>6 DEF ValidIntents, ValidTargetForKind, OwnerRole
<1> HIDE DEF V, A
<1>8. ASSUME NEW kind \in {"MAFIA_KILL", "PROTECT", "INVESTIGATE"}
      PROVE  Of(A, kind) = Legal(kind)
  BY <1>5, <1>7, <1>b DEF Of, Legal
<1>9. Of(A, "SERIAL_KILL") = {} /\ Of(A, "FRAME") = {}
  BY <1>5, <1>a, <1>b DEF Of
<1>. QED  BY <1>8, <1>9 DEF A, V

\* The unique leader of the kill votes is the PRD's unique plurality.
LEMMA LeaderIsPlurality ==
    ASSUME NightInv, NEW A, Of(A, "MAFIA_KILL") = Legal("MAFIA_KILL"), NEW q \in board.alive
    PROVE  q \in KillTarget(board, A, "MAFIA_KILL")
             <=> Votes(q) > 0 /\ \A r \in Players \ {q} : Votes(r) < Votes(q)
<1> DEFINE lead == {p \in board.alive : Votes(p) > 0 /\ \A r \in board.alive : Votes(r) =< Votes(p)}
<1>a. board.alive \subseteq Players /\ IsFiniteSet(board.alive)
  BY BoardsAssumption, PlayersAssumption, FS_Subset DEF NightInv
<1>b. \A r : Votes(r) \in Nat
  BY FS_Subset, FS_CardinalityType DEF NightInv, Votes, Legal
<1>c. \A r : r \notin board.alive => Votes(r) = 0
  <2> SUFFICES ASSUME NEW r, r \notin board.alive
               PROVE  Votes(r) = 0
    OBVIOUS
  <2>1. {i \in Legal("MAFIA_KILL") : i.target = r} = {}
    BY DEF Legal
  <2>. QED  BY <2>1, FS_EmptySet DEF Votes
<1>1. KillTarget(board, A, "MAFIA_KILL") = IF Cardinality(lead) = 1 THEN lead ELSE {}
  BY DEF KillTarget, Unique, Leaders, Votes
<1>2. ASSUME Votes(q) > 0, \A r \in Players \ {q} : Votes(r) < Votes(q)
      PROVE  q \in KillTarget(board, A, "MAFIA_KILL")
  <2>1. q \in lead
    <3>1. \A r \in board.alive : Votes(r) =< Votes(q)
      BY <1>2, <1>a, <1>b
    <3>. QED  BY <1>2, <3>1
  <2>2. \A p \in lead : p = q
    <3> SUFFICES ASSUME NEW p \in lead, p # q
                 PROVE  FALSE
      OBVIOUS
    <3>1. p \in Players \ {q} /\ Votes(q) =< Votes(p)
      BY <1>a
    <3>2. Votes(p) < Votes(q)
      BY <1>2, <3>1
    <3>. QED  BY <3>1, <3>2, <1>b
  <2>3. lead = {q}
    BY <2>1, <2>2
  <2>. QED  BY <1>1, <2>3, FS_Singleton
<1>3. ASSUME q \in KillTarget(board, A, "MAFIA_KILL")
      PROVE  Votes(q) > 0 /\ \A r \in Players \ {q} : Votes(r) < Votes(q)
  <2>1. Cardinality(lead) = 1 /\ q \in lead
    BY <1>1, <1>3
  <2>2. IsFiniteSet(lead)
    BY <1>a, FS_Subset
  <2>3. lead = {q}
    BY <2>1, <2>2, FS_Singleton
  <2>4. Votes(q) > 0 /\ \A r \in board.alive : Votes(r) =< Votes(q)
    BY <2>1
  <2>5. ASSUME NEW r \in Players \ {q}
        PROVE  Votes(r) < Votes(q)
    <3>1. CASE r \notin board.alive
      BY <3>1, <1>c, <2>4, <1>b
    <3>2. CASE r \in board.alive
      <4>1. Votes(r) =< Votes(q)
        BY <3>2, <2>4
      <4>2. Votes(r) # Votes(q)
        <5> SUFFICES ASSUME Votes(r) = Votes(q)
                     PROVE  r \in lead
          BY <2>3
        <5>. QED  BY <3>2, <2>4
      <4>. QED  BY <4>1, <4>2, <1>b
    <3>. QED  BY <3>1, <3>2
  <2>. QED  BY <2>4, <2>5
<1>. QED  BY <1>2, <1>3

\* A plain night is resolved as the PRD says.
LEMMA PlainNightsAgree == NightInv => AgreesWithPrd
<1> SUFFICES ASSUME NightInv, result # Unresolved, PlainNight
             PROVE  /\ result.eliminated = PrdVictims
                    /\ \A i \in Legal("INVESTIGATE") \ {j \in intents : j.actor \in PrdVictims} :
                          \E f \in SeenBy(i.actor, "INVESTIGATION_RESULT") :
                              f.target = i.target /\ (f.finding = "MAFIA" <=> IsMafia(board, i.target))
  BY DEF AgreesWithPrd
<1> DEFINE V == ValidIntents(board, intents)
           A == ActiveIntents(board, V)
<1>1. /\ Of(A, "MAFIA_KILL") = Legal("MAFIA_KILL") /\ Of(A, "PROTECT") = Legal("PROTECT")
      /\ Of(A, "INVESTIGATE") = Legal("INVESTIGATE")
      /\ Of(A, "SERIAL_KILL") = {} /\ Of(A, "FRAME") = {}
  BY PlainNightIsLegal
<1>2. /\ result.eliminated = NightEliminated(board, A)
      /\ result.feedback = NightFeedback(board, V)
  BY DEF NightInv, ResolveNight
<1>3. InvestigationFeedback(board, A) \subseteq result.feedback
  BY <1>2 DEF NightFeedback
<1> HIDE DEF A, V
<1>4. PrdVictims = NightEliminated(board, A)
  <2>1. KillTarget(board, A, "SERIAL_KILL") = {}
    <3>1. \A q \in KillTarget(board, A, "SERIAL_KILL") : \E i \in A : i.kind = "SERIAL_KILL"
      BY KillTargetIsAimedAt
    <3>. QED  BY <3>1, <1>1 DEF Of
  <2>2. KillTarget(board, A, "MAFIA_KILL") \subseteq board.alive
    BY KillTargetIsAimedAt
  <2>3. \A q \in board.alive :
           q \in KillTarget(board, A, "MAFIA_KILL")
             <=> Votes(q) > 0 /\ \A r \in Players \ {q} : Votes(r) < Votes(q)
    BY <1>1, LeaderIsPlurality
  <2>4. \A q : q \in ProtectedTargets(A) <=> \E i \in Legal("PROTECT") : i.target = q
    BY <1>1 DEF ProtectedTargets, Targets
  <2>5. PrdVictims = {q \in board.alive :
                         /\ Votes(q) > 0 /\ \A r \in Players \ {q} : Votes(r) < Votes(q)
                         /\ \A i \in Legal("PROTECT") : i.target # q}
    BY DEF PrdVictims, Votes
  <2>. QED  BY <2>1, <2>2, <2>3, <2>4, <2>5 DEF NightEliminated, KilledTargets
<1>5. ASSUME NEW i \in Legal("INVESTIGATE") \ {j \in intents : j.actor \in PrdVictims}
      PROVE  \E f \in SeenBy(i.actor, "INVESTIGATION_RESULT") :
                f.target = i.target /\ (f.finding = "MAFIA" <=> IsMafia(board, i.target))
  <2> DEFINE f == [Feedback("INVESTIGATION_RESULT", i) EXCEPT !.finding = FindingFor(board, A, i.target)]
  <2>1. i \in Readers(board, A, "INVESTIGATE")
    BY <1>1, <1>4 DEF Readers, Legal
  <2>2. f \in result.feedback
    BY <2>1, <1>3 DEF InvestigationFeedback
  <2>3. /\ f.recipient = i.actor /\ f.code = "INVESTIGATION_RESULT" /\ f.target = i.target
        /\ f.finding = FindingFor(board, A, i.target)
    BY DEF Feedback
  <2>4. i.target \in Players
    BY BoardsAssumption DEF Legal, NightInv
  <2>5. FindingFor(board, A, i.target) = IF IsMafia(board, i.target) THEN "MAFIA" ELSE "TOWN"
    BY <1>1, <2>4 DEF FindingFor, FramedTargets, Targets, PlainNight
  <2> HIDE DEF f
  <2>. QED  BY <2>2, <2>3, <2>5 DEF SeenBy
<1>. QED  BY <1>2, <1>4, <1>5

\* A night of the basic roles is the PRD's, for any number of seats, whatever they submit.
THEOREM PlainNightsFollowThePrd == NightSpec => []AgreesWithPrd
<1>. QED  BY PlainNightsAgree, NightInvariant, PTL

-----------------------------------------------------------------------------
\* The game loop

LessOnNat == {ss \in Nat \X Nat : ss[1] < ss[2]}

\* Every nonempty set of numbers has a minimal element.
LEMMA LessIsWellFounded == IsWellFoundedOn(LessOnNat, Nat)
BY NatLessThanWellFounded DEF OpToRel, LessOnNat

\* Min picks a least element of a set of numbers, finite or not.
LEMMA MinOfNaturals ==
    ASSUME NEW S, S \subseteq Nat, S # {}
    PROVE  Min(S) \in S /\ \A y \in S : Min(S) =< y
<1>1. PICK x \in S : \A y \in S : ~ (<<y, x>> \in LessOnNat)
  BY LessIsWellFounded, WFMin
<1>2. ASSUME NEW y \in S
      PROVE  x =< y
  <2>1. x \in Nat /\ y \in Nat
    OBVIOUS
  <2>2. <<y, x>> \notin LessOnNat
    BY <1>1
  <2>3. <<y, x>> \in Nat \X Nat
    BY <2>1
  <2>4. ~(y < x)
    BY <2>2, <2>3 DEF LessOnNat
  <2>. QED  BY <2>1, <2>4
<1>. QED  BY <1>2 DEF Min

-----------------------------------------------------------------------------
\* Operators of the model

\* The schedule (next_phase) leads from a phase in range to a phase in range.
LEMMA NextPhaseType ==
    ASSUME NEW ph \in PhaseSpace
    PROVE  NextPhase(ph) \in PhaseSpace
<1>. MaxDays \in Nat \ {0} /\ Rounds \in Nat \ {0}
  BY ScheduleAssumption
<1>1. ph.day \in 0..MaxDays /\ ph.round \in 0..Rounds /\ ph.kind \in PhaseKind
  BY DEF PhaseSpace
<1>. QED  BY <1>1 DEF NextPhase, Phase, PhaseSpace, PhaseKind

\* SETUP is a phase of the schedule.
LEMMA ZeroPhase == Setup \in PhaseSpace
BY ScheduleAssumption DEF Setup, Phase, PhaseSpace, PhaseKind

\* Whatever a seat may answer, or be coerced to, is an action on a seat or on nobody.
LEMMA TickAnswersType ==
    ASSUME NEW s \in GameState, NEW p \in Players
    PROVE  TickAnswers(s, p) \subseteq Action
<1>1. AllowedTypes(s, p) \subseteq ActionType
  BY DEF AllowedTypes, NightTypes, ActionType
<1>2. s.alive \subseteq Players
  BY DEF GameState
<1>3. \A type : LegalTargets(s, p, type) \subseteq Target
  BY <1>2 DEF LegalTargets, Target
<1>4. LegalActions(s, p) \subseteq Action
  BY <1>1, <1>3 DEF LegalActions, Action
<1>5. SafeAction(s) \in Action
  BY DEF SafeAction, Bare, Action, ActionType, Target
<1>. QED  BY <1>4, <1>5 DEF TickAnswers

\* The winner is one the ruleset declares, for a condition that holds.
LEMMA CheckWinMatches ==
    ASSUME NEW s \in GameState, Matching(s) # {}
    PROVE  \E i \in DOMAIN s.conditions :
              /\ ConditionHolds(s.conditions[i], s)
              /\ CheckWin(s) = s.conditions[i].winner
              /\ s.conditions[i] \in Condition
<1>1. s.conditions \in Seq(Condition)
  BY DEF GameState
<1>2. Matching(s) \subseteq DOMAIN s.conditions
  BY DEF Matching
<1>3. DOMAIN s.conditions \subseteq Nat
  BY <1>1
<1>4. Min(Matching(s)) \in Matching(s)
  BY <1>2, <1>3, MinOfNaturals
<1>5. CheckWin(s) = s.conditions[Min(Matching(s))].winner
  BY DEF CheckWin
<1>6. ConditionHolds(s.conditions[Min(Matching(s))], s)
  BY <1>4 DEF Matching
<1>7. s.conditions[Min(Matching(s))] \in Condition
  BY <1>1, <1>2, <1>4
<1>. QED  BY <1>2, <1>4, <1>5, <1>6, <1>7

\* check_win answers a faction, DRAW or nothing.
LEMMA CheckWinType ==
    ASSUME NEW s \in GameState
    PROVE  CheckWin(s) \in Faction \cup {"DRAW", Undecided}
<1>1. CASE Matching(s) = {}
  BY <1>1 DEF CheckWin
<1>2. CASE Matching(s) # {}
  <2>1. PICK i \in DOMAIN s.conditions :
           CheckWin(s) = s.conditions[i].winner /\ s.conditions[i] \in Condition
    BY <1>2, CheckWinMatches
  <2>2. s.conditions[i].winner \in Faction \cup {"DRAW"}
    BY <2>1 DEF Condition
  <2>. QED  BY <2>1, <2>2
<1>. QED  BY <1>1, <1>2

\* Every step of the reducer keeps a game state a game state.
LEMMA AfterSubmissionsType ==
    ASSUME NEW s \in GameState, NEW S \in SUBSET Players, NEW acts \in [S -> Action]
    PROVE  AfterSubmissions(s, acts) \in GameState
<1>1. \A p \in S : acts[p].target \in Target
  BY DEF Action
<1>2. s.lastProtected \in [Players -> Target]
  BY DEF GameState
<1>3. [p \in Players |-> IF p \in DOMAIN acts /\ acts[p].type = "PROTECT"
                         THEN acts[p].target ELSE s.lastProtected[p]] \in [Players -> Target]
  BY <1>1, <1>2
<1>4. ApplyProtects(s, acts) \in GameState
  BY <1>3 DEF ApplyProtects, GameState
<1>. QED  BY <1>4 DEF AfterSubmissions

\* PlayerEliminated by a vote keeps a game state a game state.
LEMMA ApplyDayEliminationsType ==
    ASSUME NEW s \in GameState, NEW dead
    PROVE  ApplyDayEliminations(s, dead) \in GameState
BY DEF ApplyDayEliminations, GameState

\* PlayerEliminated by a night keeps a game state a game state.
LEMMA ApplyNightEliminationsType ==
    ASSUME NEW s \in GameState, NEW dead
    PROVE  ApplyNightEliminations(s, dead) \in GameState
BY DEF ApplyNightEliminations, GameState

\* Spending shots (NightResolved) never takes a count below zero or above the cap.
LEMMA ApplyNightResolvedType ==
    ASSUME NEW s \in GameState, NEW spent
    PROVE  ApplyNightResolved(s, spent) \in GameState
<1>1. s.shots \in [Players -> 0..ShotCap] /\ ShotCap \in Nat
  BY GamesAssumption DEF GameState
<1>2. [p \in Players |-> IF p \in spent /\ s.shots[p] > 0 THEN s.shots[p] - 1 ELSE s.shots[p]]
        \in [Players -> 0..ShotCap]
  BY <1>1
<1>. QED  BY <1>2 DEF ApplyNightResolved, GameState

\* So does the resolution of a phase as a whole, whatever was answered.
LEMMA AfterPhaseType ==
    ASSUME NEW s \in GameState, NEW acts
    PROVE  AfterPhase(s, acts) \in GameState
<1>1. AfterDayVote(s, acts) \in GameState
  BY ApplyDayEliminationsType DEF AfterDayVote
<1>2. AfterNight(s, acts) \in GameState
  BY ApplyNightResolvedType, ApplyNightEliminationsType DEF AfterNight
<1>. QED  BY <1>1, <1>2 DEF AfterPhase

\* initial_state is a game state, for every deal and every list of conditions.
LEMMA NewGameType ==
    ASSUME NEW g \in Games
    PROVE  NewGame(g) \in GameState
<1>1. g.role \in [Players -> Role] /\ g.conditions \in Seq(Condition) /\ ShotCap \in Nat
  BY GamesAssumption
<1>2. [p \in Players |-> NoPlayer] \in [Players -> Target]
  BY DEF Target
<1>3. [p \in Players |-> IF g.role[p] \in {"JANITOR", "FRAMER"} THEN ShotCap ELSE 0]
        \in [Players -> 0..ShotCap]
  BY <1>1
<1>. QED  BY <1>1, <1>2, <1>3, ZeroPhase DEF NewGame, GameState

-----------------------------------------------------------------------------
\* Type correctness

\* Type correctness holds before setup.
LEMMA TypeInit == Init => TypeOK
<1>. SUFFICES ASSUME Init
              PROVE  TypeOK
  OBVIOUS
<1>1. st \in GameState
  BY NewGameType DEF Init
<1>2. cur \in PhaseSpace /\ stage \in Stage
  BY ZeroPhase DEF Init, Stage
<1>3. Answered = {} /\ responses \in [Answered -> Action]
  BY DEF Init, Answered, NoResponses
<1>4. outcome \in [winner : Faction \cup {"DRAW", Undecided}, phase : PhaseSpace]
  BY ZeroPhase DEF Init, NoOutcome
<1>. QED  BY <1>1, <1>2, <1>3, <1>4 DEF TypeOK

\* Every step of the loop preserves type correctness.
LEMMA TypeStep == TypeOK /\ [Next]_vars => TypeOK'
<1>. SUFFICES ASSUME TypeOK, [Next]_vars
              PROVE  TypeOK'
  OBVIOUS
<1>. USE DEF TypeOK, Stage
<1>1. CASE CreateGame
  <2>1. st' \in GameState
    BY <1>1 DEF CreateGame, ApplyRolesAssigned, GameState
  <2>2. cur' \in PhaseSpace
    BY <1>1, NextPhaseType DEF CreateGame, GameState
  <2>. QED  BY <1>1, <2>1, <2>2 DEF CreateGame, Answered
<1>2. CASE StartPhase
  <2>1. st' \in GameState
    BY <1>2 DEF StartPhase, ApplyPhaseStarted, GameState
  <2>. QED  BY <1>2, <2>1 DEF StartPhase, Answered
<1>3. ASSUME NEW p \in Players, SeatAnswers(p)
      PROVE  TypeOK'
  <2>1. PICK answer \in TickAnswers(st, p) :
           responses' = [q \in Answered \cup {p} |-> IF q = p THEN answer ELSE responses[q]]
    BY <1>3 DEF SeatAnswers
  <2>2. answer \in Action
    BY <2>1, TickAnswersType
  <2>3. Answered' = Answered \cup {p}
    BY <2>1 DEF Answered
  <2>4. responses' \in [Answered' -> Action]
    BY <2>1, <2>2, <2>3
  <2>. QED  BY <1>3, <2>3, <2>4 DEF SeatAnswers
<1>4. CASE EmitSubmissions
  <2>1. st' \in GameState
    BY <1>4, AfterSubmissionsType DEF EmitSubmissions
  <2>. QED  BY <1>4, <2>1 DEF EmitSubmissions, Answered
<1>5. CASE ResolvePhase
  <2>1. st' \in GameState
    BY <1>5, AfterPhaseType DEF ResolvePhase
  <2>2. Answered' = {} /\ responses' \in [Answered' -> Action]
    BY <1>5 DEF ResolvePhase, Answered, NoResponses
  <2>. QED  BY <1>5, <2>1, <2>2 DEF ResolvePhase
<1>6. CASE TerminateWithWinner
  <2>1. CheckWin(st) \in Faction \cup {"DRAW", Undecided}
    BY CheckWinType
  <2>. QED  BY <1>6, <2>1 DEF TerminateWithWinner, Terminate, Answered
<1>7. CASE AdvancePhase
  <2>1. cur' \in PhaseSpace
    BY <1>7, NextPhaseType DEF AdvancePhase
  <2>. QED  BY <1>7, <2>1 DEF AdvancePhase, Answered
<1>8. CASE TerminateAsDraw
  BY <1>8 DEF TerminateAsDraw, Terminate, Answered
<1>9. CASE UNCHANGED vars
  BY <1>9 DEF vars, Answered
<1>. QED  BY <1>1, <1>2, <1>3, <1>4, <1>5, <1>6, <1>7, <1>8, <1>9 DEF Next

\* Days, rounds, shots and answers never leave their ranges, however the game goes.
THEOREM TypeCorrect == Spec => []TypeOK
<1>. QED  BY TypeInit, TypeStep, PTL DEF Spec

-----------------------------------------------------------------------------
\* No game is played past its decision.

\* The verdict depends on who lives, on the roles and on the triggers, and on the day only
\* beyond the schedule.
LEMMA SameVerdict ==
    ASSUME NEW s \in GameState, NEW t \in GameState,
           t.alive = s.alive, t.role = s.role, t.jesterOut = s.jesterOut,
           t.conditions = s.conditions
    PROVE  CheckWin(t) = CheckWin(s)
<1>1. \A F : AliveIn(t, F) = AliveIn(s, F)
  BY DEF AliveIn
<1>2. ~(s.phase.day > MaxDays) /\ ~(t.phase.day > MaxDays)
  BY ScheduleAssumption DEF GameState, PhaseSpace
<1>3. \A c : ConditionHolds(c, t) <=> ConditionHolds(c, s)
  BY <1>1, <1>2 DEF ConditionHolds
<1>4. Matching(t) = Matching(s)
  BY <1>3 DEF Matching
<1>. QED  BY <1>4 DEF CheckWin

\* DRAW is the verdict of the day cap alone, and the schedule never gets that far.
LEMMA NoEarlyDraw ==
    ASSUME TypeOK, DealtGame
    PROVE  CheckWin(st) # "DRAW"
<1>. SUFFICES ASSUME CheckWin(st) = "DRAW"
              PROVE  FALSE
  OBVIOUS
<1>1. st \in GameState
  BY DEF TypeOK
<1>2. Matching(st) # {}
  BY DEF CheckWin, Undecided
<1>3. PICK i \in DOMAIN st.conditions :
         ConditionHolds(st.conditions[i], st) /\ CheckWin(st) = st.conditions[i].winner
  BY <1>1, <1>2, CheckWinMatches
<1>4. st.conditions[i].kind = "DAY_CAP"
  BY <1>3, DealAssumption DEF DealtGame
<1>5. ~(st.phase.day > MaxDays)
  BY <1>1, ScheduleAssumption DEF GameState, PhaseSpace
<1>. QED  BY <1>3, <1>4, <1>5 DEF ConditionHolds

\* The deal of every configured game is undecided once its roles are assigned.
LEMMA SetupVerdict ==
    ASSUME TypeOK, DealtGame, stage = "setup"
    PROVE  CheckWin(ApplyRolesAssigned(st)) = Undecided
BY DealAssumption DEF DealtGame

\* Nothing is decided or announced before setup.
LEMMA DecisionInit == Init => DecisionInv
<1>. SUFFICES ASSUME Init
              PROVE  DecisionInv
  OBVIOUS
<1>1. TypeOK
  BY TypeInit
<1>2. DealtGame
  <2>1. PICK g \in Games : st = NewGame(g)
    BY DEF Init
  <2>2. NewGame(g).role = g.role /\ NewGame(g).conditions = g.conditions
    BY DEF NewGame
  <2>. QED  BY <2>1, <2>2 DEF DealtGame
<1>3. OutcomeIsLast /\ NoPlayPastDecision
  BY DEF Init, NoOutcome, Undecided, OutcomeIsLast, NoPlayPastDecision
<1>. QED  BY <1>1, <1>2, <1>3 DEF DecisionInv

\* Roles and win conditions stay those of the game that was dealt.
LEMMA DealtStep == TypeOK /\ DealtGame /\ [Next]_vars => DealtGame'
<1>. SUFFICES ASSUME TypeOK, DealtGame, [Next]_vars
              PROVE  DealtGame'
  OBVIOUS
<1>. PICK g \in Games : /\ st.role = g.role /\ st.conditions = g.conditions
                        /\ stage = "setup" => st = NewGame(g)
  BY DEF DealtGame
<1>. st \in GameState
  BY DEF TypeOK
<1>. SUFFICES /\ st'.role = st.role /\ st'.conditions = st.conditions
              /\ stage' = "setup" => stage = "setup" /\ st' = st
  BY DEF DealtGame
<1>1. CASE CreateGame
  BY <1>1 DEF CreateGame, ApplyRolesAssigned, GameState
<1>2. CASE StartPhase
  BY <1>2 DEF StartPhase, ApplyPhaseStarted, GameState
<1>3. ASSUME NEW p \in Players, SeatAnswers(p)
      PROVE  st' = st /\ stage' = stage
  BY <1>3 DEF SeatAnswers
<1>4. CASE EmitSubmissions
  BY <1>4 DEF EmitSubmissions, AfterSubmissions, ApplyProtects, GameState
<1>5. CASE ResolvePhase
  <2>1. st' = AfterPhase(st, responses) /\ stage' = "check"
    BY <1>5 DEF ResolvePhase
  <2>2. \A s \in GameState : \A dead :
          /\ ApplyDayEliminations(s, dead).role = s.role
          /\ ApplyDayEliminations(s, dead).conditions = s.conditions
          /\ ApplyNightEliminations(s, dead).role = s.role
          /\ ApplyNightEliminations(s, dead).conditions = s.conditions
          /\ ApplyNightResolved(s, dead).role = s.role
          /\ ApplyNightResolved(s, dead).conditions = s.conditions
    BY DEF ApplyDayEliminations, ApplyNightEliminations, ApplyNightResolved, GameState
  <2>3. /\ AfterDayVote(st, responses).role = st.role
        /\ AfterDayVote(st, responses).conditions = st.conditions
    BY <2>2 DEF AfterDayVote
  <2>4. /\ AfterNight(st, responses).role = st.role
        /\ AfterNight(st, responses).conditions = st.conditions
    BY <2>2, ApplyNightResolvedType DEF AfterNight
  <2>. QED  BY <2>1, <2>3, <2>4 DEF AfterPhase
<1>6. CASE TerminateWithWinner
  BY <1>6 DEF TerminateWithWinner, Terminate
<1>7. CASE AdvancePhase
  BY <1>7 DEF AdvancePhase
<1>8. CASE TerminateAsDraw
  BY <1>8 DEF TerminateAsDraw, Terminate
<1>9. CASE UNCHANGED vars
  BY <1>9 DEF vars
<1>. QED  BY <1>1, <1>2, <1>3, <1>4, <1>5, <1>6, <1>7, <1>8, <1>9 DEF Next

\* The strengthened invariant is inductive: every step checks the verdict before it goes on.
LEMMA DecisionStep == DecisionInv /\ [Next]_vars => DecisionInv'
<1>. SUFFICES ASSUME DecisionInv, [Next]_vars
              PROVE  DecisionInv'
  OBVIOUS
<1>. TypeOK /\ DealtGame /\ OutcomeIsLast /\ NoPlayPastDecision
  BY DEF DecisionInv
<1>. st \in GameState
  BY DEF TypeOK
<1>a. TypeOK' /\ DealtGame'
  BY TypeStep, DealtStep
<1>b. st' \in GameState
  BY <1>a DEF TypeOK
<1>. SUFFICES OutcomeIsLast' /\ NoPlayPastDecision'
  BY <1>a DEF DecisionInv
<1>1. CASE CreateGame
  <2>1. CheckWin(st') = Undecided
    BY <1>1, SetupVerdict DEF CreateGame
  <2>. QED  BY <1>1, <2>1 DEF CreateGame, OutcomeIsLast, NoPlayPastDecision
<1>2. CASE StartPhase
  <2>1. CheckWin(st') = CheckWin(st)
    <3>1. st' = ApplyPhaseStarted(st, cur)
      BY <1>2 DEF StartPhase
    <3>2. /\ st'.alive = st.alive /\ st'.role = st.role
          /\ st'.jesterOut = st.jesterOut /\ st'.conditions = st.conditions
      BY <3>1 DEF ApplyPhaseStarted, GameState
    <3>. QED  BY <3>2, <1>b, SameVerdict
  <2>. QED  BY <1>2, <2>1 DEF StartPhase, OutcomeIsLast, NoPlayPastDecision
<1>3. ASSUME NEW p \in Players, SeatAnswers(p)
      PROVE  OutcomeIsLast' /\ NoPlayPastDecision'
  <2>1. CheckWin(st') = CheckWin(st)
    BY <1>3 DEF SeatAnswers
  <2>. QED  BY <1>3, <2>1 DEF SeatAnswers, OutcomeIsLast, NoPlayPastDecision
<1>4. CASE EmitSubmissions
  <2>1. CheckWin(st') = CheckWin(st)
    <3>1. st' = AfterSubmissions(st, responses)
      BY <1>4 DEF EmitSubmissions
    <3>2. /\ st'.alive = st.alive /\ st'.role = st.role
          /\ st'.jesterOut = st.jesterOut /\ st'.conditions = st.conditions
      BY <3>1 DEF AfterSubmissions, ApplyProtects, GameState
    <3>. QED  BY <3>2, <1>b, SameVerdict
  <2>. QED  BY <1>4, <2>1 DEF EmitSubmissions, OutcomeIsLast, NoPlayPastDecision
<1>5. CASE ResolvePhase
  BY <1>5 DEF ResolvePhase, OutcomeIsLast, NoPlayPastDecision, Undecided
<1>6. CASE TerminateWithWinner
  <2>1. CheckWin(st) # "DRAW"
    BY NoEarlyDraw
  <2>. QED  BY <1>6, <2>1 DEF TerminateWithWinner, Terminate, OutcomeIsLast, NoPlayPastDecision
<1>7. CASE AdvancePhase
  <2>1. CheckWin(st') = Undecided
    BY <1>7 DEF AdvancePhase
  <2>. QED  BY <1>7, <2>1 DEF AdvancePhase, OutcomeIsLast, NoPlayPastDecision
<1>8. CASE TerminateAsDraw
  <2>1. CheckWin(st') = CheckWin(st) /\ CheckWin(st) = Undecided
    BY <1>8 DEF TerminateAsDraw, Terminate, NoPlayPastDecision
  <2>. QED  BY <1>8, <2>1 DEF TerminateAsDraw, Terminate, OutcomeIsLast, NoPlayPastDecision
<1>9. CASE UNCHANGED vars
  <2>1. CheckWin(st') = CheckWin(st)
    BY <1>9 DEF vars
  <2>. QED  BY <1>9, <2>1 DEF vars, OutcomeIsLast, NoPlayPastDecision
<1>. QED  BY <1>1, <1>2, <1>3, <1>4, <1>5, <1>6, <1>7, <1>8, <1>9 DEF Next

\* While a phase is still to be played no side has won, and a draw is never announced over
\* a decided board: for any ruleset whose deal is undecided.
THEOREM NeverPastDecision == Spec => []NoPlayPastDecision
<1>1. DecisionInv => NoPlayPastDecision
  BY DEF DecisionInv
<1>. QED  BY <1>1, DecisionInit, DecisionStep, PTL DEF Spec

-----------------------------------------------------------------------------
\* Deaths

\* A vote takes one living seat or none.
LEMMA VoteTakesOne ==
    ASSUME NEW s, NEW acts
    PROVE  /\ DayVoteEliminated(s, acts) \subseteq s.alive
           /\ DayVoteEliminated(s, acts) = {} \/ Cardinality(DayVoteEliminated(s, acts)) = 1
BY DEF DayVoteEliminated, Unique, Leaders

\* What the seats answered of their night is a set of intents.
LEMMA AnswersAreIntents ==
    ASSUME TypeOK
    PROVE  IntentsOf(responses) \in SUBSET Intent
<1>1. Answered \subseteq Players /\ Answered = DOMAIN responses /\ responses \in [Answered -> Action]
  BY DEF TypeOK, Answered
<1>2. \A p \in Answered : responses[p].target \in Target
  BY <1>1 DEF Action
<1>. QED  BY <1>1, <1>2 DEF IntentsOf, Intent, Target

\* The killing factions of a board: TRUE for the Mafia, FALSE for a serial killer.
Killers(s) ==
    {IsMafia(s, p) : p \in {q \in s.alive : IsMafia(s, q) \/ s.role[q] = "SERIAL_KILLER"}}

\* How many factions kill: at least one for a living Mafia seat, one for a serial killer.
LEMMA CountKillers ==
    ASSUME NEW s
    PROVE  /\ IsFiniteSet(Killers(s)) /\ Cardinality(Killers(s)) \in Nat
           /\ \A p \in s.alive : IsMafia(s, p) => Cardinality(Killers(s)) >= 1
           /\ \A p \in s.alive : s.role[p] = "SERIAL_KILLER" => Cardinality(Killers(s)) >= 1
           /\ \A p, q \in s.alive : IsMafia(s, p) /\ s.role[q] = "SERIAL_KILLER"
                                    => Cardinality(Killers(s)) >= 2
<1>1. IsFiniteSet({TRUE, FALSE}) /\ Cardinality({TRUE, FALSE}) = 2
  <2>1. ASSUME NEW a, NEW b, a # b
        PROVE  IsFiniteSet({a, b}) /\ Cardinality({a, b}) = 2
    <3>1. IsFiniteSet({a}) /\ Cardinality({a}) = 1
      BY FS_Singleton
    <3>2. {a} \cup {b} = {a, b} /\ b \notin {a}
      BY <2>1
    <3>. QED  BY <3>1, <3>2, FS_AddElement
  <2>2. TRUE # FALSE
    BY Zenon
  <2>. QED  BY <2>1, <2>2, Zenon
<1>2. Killers(s) \subseteq {TRUE, FALSE}
  BY Zenon DEF Killers, IsMafia
<1>3. IsFiniteSet(Killers(s)) /\ Cardinality(Killers(s)) \in Nat
  BY <1>1, <1>2, FS_Subset, FS_CardinalityType
<1>4. Killers(s) # {} => Cardinality(Killers(s)) >= 1
  BY <1>3, FS_EmptySet
<1>5. ASSUME NEW p \in s.alive, IsMafia(s, p)
      PROVE  TRUE \in Killers(s)
  BY <1>5, Zenon DEF Killers, IsMafia
<1>6. ASSUME NEW p \in s.alive, s.role[p] = "SERIAL_KILLER"
      PROVE  FALSE \in Killers(s)
  <2>1. ~IsMafia(s, p)
    BY <1>6 DEF IsMafia, FactionOf, MafiaRole
  <2>2. FALSE = IsMafia(s, p)
    BY <2>1, Zenon DEF IsMafia
  <2>. QED  BY <1>6, <2>2, Zenon DEF Killers
<1>7. TRUE \in Killers(s) /\ FALSE \in Killers(s) => Cardinality(Killers(s)) >= 2
  <2> SUFFICES ASSUME TRUE \in Killers(s), FALSE \in Killers(s)
               PROVE  Cardinality(Killers(s)) >= 2
    OBVIOUS
  <2>1. Killers(s) = {TRUE, FALSE}
    BY <1>2, Zenon
  <2>. QED  BY <1>1, <2>1
<1>. QED  BY <1>3, <1>4, <1>5, <1>6, <1>7

\* What DeathsAreLegal says of a step.
DeathsLegal ==
    LET dead == st.alive \ st'.alive
    IN  stage # "setup" =>
          /\ st'.alive \subseteq st.alive
          /\ dead # {} => st.phase.kind \in {"DAY_VOTE", "NIGHT_ACTIONS"}
          /\ st.phase.kind = "DAY_VOTE" => Cardinality(dead) =< 1
          /\ st.phase.kind = "NIGHT_ACTIONS" =>
                /\ Cardinality(dead) =<
                     Cardinality({IsMafia(st, p) : p \in
                       {q \in st.alive : IsMafia(st, q) \/ st.role[q] = "SERIAL_KILLER"}})
                /\ AliveIn(st, {"SERIAL_KILLER"}) = {} => \A p \in dead : ~IsMafia(st, p)

\* A step that leaves the living alone is legal.
LEMMA NobodyDies == st'.alive = st.alive => DeathsLegal
<1> SUFFICES ASSUME st'.alive = st.alive
             PROVE  DeathsLegal
  OBVIOUS
<1>1. st.alive \ st'.alive = {} /\ Cardinality(st.alive \ st'.alive) = 0
  BY FS_EmptySet
<1>2. Cardinality(Killers(st)) >= 0
  BY CountKillers
<1>. QED  BY <1>1, <1>2 DEF DeathsLegal, Killers

\* The day's deaths are the vote's.
LEMMA VoteIsLegal ==
    ASSUME TypeOK, stage = "resolve", st.phase.kind = "DAY_VOTE",
           st' = AfterDayVote(st, responses)
    PROVE  DeathsLegal
<1>1. st'.alive = st.alive \ DayVoteEliminated(st, responses)
  BY DEF AfterDayVote, ApplyDayEliminations, TypeOK, GameState
<1>2. st.alive \ st'.alive = DayVoteEliminated(st, responses)
  BY <1>1, VoteTakesOne
<1>3. Cardinality(st.alive \ st'.alive) =< 1
  <2>1. CASE DayVoteEliminated(st, responses) = {}
    BY <1>2, <2>1, FS_EmptySet
  <2>2. CASE Cardinality(DayVoteEliminated(st, responses)) = 1
    BY <1>2, <2>2
  <2>. QED  BY <2>1, <2>2, VoteTakesOne
<1>. QED  BY <1>1, <1>3 DEF DeathsLegal

\* The night's deaths are those of its killing factions.
LEMMA NightIsLegal ==
    ASSUME TypeOK, stage = "resolve", st.phase.kind = "NIGHT_ACTIONS",
           st' = AfterNight(st, responses)
    PROVE  DeathsLegal
<1> DEFINE A == ActiveIntents(st, ValidIntents(st, IntentsOf(responses)))
           M == KillTarget(st, A, "MAFIA_KILL")
           K == KillTarget(st, A, "SERIAL_KILL")
           dead == st.alive \ st'.alive
<1>a. st \in GameState /\ st.alive \subseteq Players /\ IsFiniteSet(Players)
  BY PlayersAssumption DEF TypeOK, GameState
<1>1. st'.alive = st.alive \ NightEliminated(st, A)
  <2>1. \A s \in GameState : \A x : /\ ApplyNightResolved(s, x).alive = s.alive
                                    /\ ApplyNightEliminations(s, x).alive = s.alive \ x
    BY DEF ApplyNightResolved, ApplyNightEliminations, GameState
  <2>2. ResolveNight(st, IntentsOf(responses)).eliminated = NightEliminated(st, A)
    BY DEF ResolveNight
  <2>. QED  BY <1>a, <2>1, <2>2, ApplyNightResolvedType DEF AfterNight
<1>2. dead \subseteq M \cup K
  BY <1>1 DEF NightEliminated, KilledTargets
<1>3. /\ M \subseteq st.alive /\ (M = {} \/ Cardinality(M) = 1)
      /\ K \subseteq st.alive /\ (K = {} \/ Cardinality(K) = 1)
  BY KillTargetIsAimedAt
<1>4. \A q \in M : ~IsMafia(st, q) /\ \E p \in st.alive : IsMafia(st, p)
  BY AnswersAreIntents, MafiaKillHasKiller
<1>5. \A q \in K : \E p \in st.alive : st.role[p] = "SERIAL_KILLER"
  BY AnswersAreIntents, SerialKillHasKiller
<1> HIDE DEF M, K, A
<1>6. IsFiniteSet(M) /\ IsFiniteSet(K)
  BY <1>3, <1>a, FS_Subset
<1>7. /\ IsFiniteSet(M \cup K) /\ Cardinality(M \cup K) =< Cardinality(M) + Cardinality(K)
      /\ Cardinality(M) \in Nat /\ Cardinality(K) \in Nat /\ Cardinality(M \cup K) \in Nat
  <2>1. IsFiniteSet(M \cap K) /\ Cardinality(M \cap K) \in Nat
    BY <1>6, FS_Subset, FS_CardinalityType
  <2>2. /\ IsFiniteSet(M \cup K)
        /\ Cardinality(M \cup K) = Cardinality(M) + Cardinality(K) - Cardinality(M \cap K)
    BY <1>6, FS_Union
  <2>3. Cardinality(M) \in Nat /\ Cardinality(K) \in Nat
    BY <1>6, FS_CardinalityType
  <2>. QED  BY <2>1, <2>2, <2>3, FS_CardinalityType
<1>8. Cardinality(dead) \in Nat /\ Cardinality(dead) =< Cardinality(M) + Cardinality(K)
  BY <1>2, <1>7, FS_Subset, FS_CardinalityType
<1>9. Cardinality(M) + Cardinality(K) =< Cardinality(Killers(st))
  <2>0. Cardinality(Killers(st)) \in Nat
    BY CountKillers
  <2>1. CASE M = {} /\ K = {}
    BY <2>0, <2>1, FS_EmptySet
  <2>2. CASE M # {} /\ K = {}
    <3>1. Cardinality(Killers(st)) >= 1
      BY <2>2, <1>4, CountKillers
    <3>. QED  BY <2>2, <3>1, <1>3, FS_EmptySet
  <2>3. CASE M = {} /\ K # {}
    <3>1. Cardinality(Killers(st)) >= 1
      BY <2>3, <1>5, CountKillers
    <3>. QED  BY <2>3, <3>1, <1>3, FS_EmptySet
  <2>4. CASE M # {} /\ K # {}
    <3>1. \E p, q \in st.alive : IsMafia(st, p) /\ st.role[q] = "SERIAL_KILLER"
      BY <2>4, <1>4, <1>5
    <3>2. Cardinality(Killers(st)) >= 2
      BY <3>1, CountKillers
    <3>. QED  BY <2>4, <3>2, <1>3
  <2>. QED  BY <2>1, <2>2, <2>3, <2>4
<1>10. Cardinality(dead) =< Cardinality(Killers(st))
  <2>1. Cardinality(Killers(st)) \in Nat
    BY CountKillers
  <2>. QED  BY <1>7, <1>8, <1>9, <2>1
<1>11. AliveIn(st, {"SERIAL_KILLER"}) = {} => \A p \in dead : ~IsMafia(st, p)
  <2> SUFFICES ASSUME AliveIn(st, {"SERIAL_KILLER"}) = {}, NEW p \in dead
               PROVE  ~IsMafia(st, p)
    OBVIOUS
  <2>1. \A q \in st.alive : st.role[q] # "SERIAL_KILLER"
    BY DEF AliveIn, FactionOf, MafiaRole
  <2>2. K = {}
    BY <2>1, <1>5
  <2>. QED  BY <2>2, <1>2, <1>4
<1>. QED  BY <1>1, <1>10, <1>11 DEF DeathsLegal, Killers

\* Every step of the loop takes only the seats it may.
LEMMA DeathsStep == TypeOK /\ [Next]_vars => [DeathsLegal]_st
<1> SUFFICES ASSUME TypeOK, [Next]_vars, st' # st
             PROVE  DeathsLegal
  OBVIOUS
<1>a. st \in GameState
  BY DEF TypeOK
<1>1. CASE CreateGame
  BY <1>1 DEF CreateGame, DeathsLegal
<1>2. CASE StartPhase
  <2>1. st'.alive = st.alive
    BY <1>2, <1>a DEF StartPhase, ApplyPhaseStarted, GameState
  <2>. QED  BY <2>1, NobodyDies
<1>3. CASE EmitSubmissions
  <2>1. st'.alive = st.alive
    BY <1>3, <1>a DEF EmitSubmissions, AfterSubmissions, ApplyProtects, GameState
  <2>. QED  BY <2>1, NobodyDies
<1>4. CASE ResolvePhase
  <2>1. st' = AfterPhase(st, responses) /\ stage = "resolve"
    BY <1>4 DEF ResolvePhase
  <2>2. CASE st.phase.kind = "DAY_VOTE"
    <3>1. st' = AfterDayVote(st, responses)
      BY <2>1, <2>2 DEF AfterPhase
    <3>. QED  BY <2>1, <2>2, <3>1, VoteIsLegal
  <2>3. CASE st.phase.kind = "NIGHT_ACTIONS"
    <3>1. st' = AfterNight(st, responses)
      BY <2>1, <2>3 DEF AfterPhase
    <3>. QED  BY <2>1, <2>3, <3>1, NightIsLegal
  <2>4. CASE st.phase.kind \notin {"DAY_VOTE", "NIGHT_ACTIONS"}
    BY <2>1, <2>4 DEF AfterPhase
  <2>. QED  BY <2>2, <2>3, <2>4
<1>5. CASE \E p \in Players : SeatAnswers(p)
  BY <1>5 DEF SeatAnswers
<1>6. CASE TerminateWithWinner \/ AdvancePhase \/ TerminateAsDraw
  BY <1>6 DEF TerminateWithWinner, AdvancePhase, TerminateAsDraw, Terminate
<1>. QED  BY <1>1, <1>2, <1>3, <1>4, <1>5, <1>6 DEF Next, vars

\* However the night's actions meet, nobody comes back, a vote takes one seat, a night no more
\* than its killing factions, and the Mafia never its own.
THEOREM DeathsAlwaysLegal == Spec => DeathsAreLegal
<1>1. TypeOK /\ [Next]_vars => [DeathsLegal]_st
  BY DeathsStep
<1>2. DeathsAreLegal <=> [][DeathsLegal]_st
  BY PTL DEF DeathsAreLegal, DeathsLegal
<1>. QED  BY TypeCorrect, <1>1, <1>2, PTL DEF Spec
-----------------------------------------------------------------------------
\* Winners

\* What the living say of a winner.
Earned(s, w) ==
    /\ w = "TOWN" => AliveIn(s, {"MAFIA"}) = {} /\ AliveIn(s, {"SERIAL_KILLER"}) = {}
    /\ w = "MAFIA" =>
          /\ AliveIn(s, {"MAFIA"}) # {} /\ AliveIn(s, {"SERIAL_KILLER"}) = {}
          /\ Cardinality(AliveIn(s, {"MAFIA"})) >= Cardinality(AliveIn(s, {"TOWN"}))
    /\ w = "SERIAL_KILLER" =>
          Cardinality(s.alive) = 1 /\ AliveIn(s, {"SERIAL_KILLER"}) = s.alive
    /\ w = "JESTER" => s.jesterOut

\* The living of a faction that was not dealt are none.
LEMMA NobodyOfOtherFactions ==
    ASSUME NEW s \in GameState, NEW f, f \notin {FactionOf(s.role[p]) : p \in Players}
    PROVE  AliveIn(s, {f}) = {}
BY DEF AliveIn, GameState

\* More factions, more of the living.
LEMMA AliveInGrows ==
    ASSUME NEW s, NEW F, NEW G, F \subseteq G
    PROVE  AliveIn(s, F) \subseteq AliveIn(s, G)
BY DEF AliveIn

\* The living, and those of any faction, are finitely many.
LEMMA LivingAreFinite ==
    ASSUME NEW s \in GameState
    PROVE  /\ IsFiniteSet(s.alive)
           /\ \A F : IsFiniteSet(AliveIn(s, F)) /\ Cardinality(AliveIn(s, F)) \in Nat
<1>1. IsFiniteSet(s.alive)
  BY PlayersAssumption, FS_Subset DEF GameState
<1>2. \A F : AliveIn(s, F) \subseteq s.alive
  BY DEF AliveIn
<1>. QED  BY <1>1, <1>2, FS_Subset, FS_CardinalityType

\* check_win names a winner only on a board that bears it out.
LEMMA CheckWinIsEarned ==
    ASSUME NEW s \in GameState, NEW g \in Games,
           s.role = g.role, s.conditions = g.conditions
    PROVE  Earned(s, CheckWin(s))
<1> DEFINE dealt == {FactionOf(s.role[p]) : p \in Players}
<1>1. CASE Matching(s) = {}
  BY <1>1 DEF CheckWin, Earned, Undecided
<1>2. CASE Matching(s) # {}
  <2>1. PICK i \in DOMAIN s.conditions :
           ConditionHolds(s.conditions[i], s) /\ CheckWin(s) = s.conditions[i].winner
    BY <1>2, CheckWinMatches
  <2> DEFINE c == s.conditions[i]
  <2>2. /\ c.winner = "TOWN" =>
              /\ c.kind = "TARGET_FACTIONS_ELIMINATED"
              /\ {"MAFIA"} \cup (dealt \cap {"SERIAL_KILLER"}) \subseteq c.factions
        /\ c.winner = "MAFIA" =>
              /\ c.kind = "FACTION_PARITY" /\ c.factions = {"MAFIA"} /\ c.opponents = {"TOWN"}
              /\ dealt \cap {"SERIAL_KILLER"} \subseteq c.blockedBy
        /\ c.winner = "SERIAL_KILLER" =>
              c.kind = "SOLO_LAST_ALIVE" /\ c.factions = {"SERIAL_KILLER"}
        /\ c.winner = "JESTER" => c.kind = "ALT_TRIGGER"
    BY RulesetAssumption
  <2>3. "SERIAL_KILLER" \notin dealt => AliveIn(s, {"SERIAL_KILLER"}) = {}
    BY NobodyOfOtherFactions
  <2>4. \A p, q \in Players :
           s.role[p] = "SERIAL_KILLER" /\ s.role[q] = "SERIAL_KILLER" => p = q
    BY RulesetAssumption
  <2>5. ConditionHolds(c, s)
    BY <2>1
  <2> HIDE DEF c, dealt
  <2>6. ASSUME c.winner = "TOWN"
        PROVE  AliveIn(s, {"MAFIA"}) = {} /\ AliveIn(s, {"SERIAL_KILLER"}) = {}
    <3>1. AliveIn(s, c.factions) = {}
      BY <2>2, <2>5, <2>6 DEF ConditionHolds
    <3>2. AliveIn(s, {"MAFIA"}) = {}
      BY <2>2, <2>6, <3>1, AliveInGrows
    <3>3. "SERIAL_KILLER" \in dealt => AliveIn(s, {"SERIAL_KILLER"}) = {}
      BY <2>2, <2>6, <3>1, AliveInGrows
    <3>. QED  BY <3>2, <3>3, <2>3
  <2>7. ASSUME c.winner = "MAFIA"
        PROVE  /\ AliveIn(s, {"MAFIA"}) # {} /\ AliveIn(s, {"SERIAL_KILLER"}) = {}
               /\ Cardinality(AliveIn(s, {"MAFIA"})) >= Cardinality(AliveIn(s, {"TOWN"}))
    <3>1. /\ AliveIn(s, {"MAFIA"}) # {} /\ AliveIn(s, c.blockedBy) = {}
          /\ Cardinality(AliveIn(s, {"MAFIA"})) >= Cardinality(AliveIn(s, {"TOWN"}))
      BY <2>2, <2>5, <2>7 DEF ConditionHolds
    <3>2. "SERIAL_KILLER" \in dealt => AliveIn(s, {"SERIAL_KILLER"}) = {}
      BY <2>2, <2>7, <3>1, AliveInGrows
    <3>. QED  BY <3>1, <3>2, <2>3
  <2>8. ASSUME c.winner = "SERIAL_KILLER"
        PROVE  Cardinality(s.alive) = 1 /\ AliveIn(s, {"SERIAL_KILLER"}) = s.alive
    <3>1. s.alive # {} /\ AliveIn(s, {"SERIAL_KILLER"}) = s.alive
      BY <2>2, <2>5, <2>8 DEF ConditionHolds
    <3>2. \A p \in s.alive : s.role[p] = "SERIAL_KILLER" /\ p \in Players
      BY <3>1 DEF AliveIn, FactionOf, MafiaRole, GameState
    <3>3. \E p : s.alive = {p}
      BY <3>1, <3>2, <2>4
    <3>. QED  BY <3>1, <3>3, FS_Singleton
  <2>9. ASSUME c.winner = "JESTER"
        PROVE  s.jesterOut
    BY <2>2, <2>5, <2>9 DEF ConditionHolds
  <2>10. CheckWin(s) = c.winner
    BY <2>1 DEF c
  <2>. QED  BY <2>6, <2>7, <2>8, <2>9, <2>10 DEF Earned
<1>. QED  BY <1>1, <1>2

\* An undecided board has a threat left.
LEMMA UndecidedHasThreats ==
    ASSUME NEW s \in GameState, NEW g \in Games,
           s.role = g.role, s.conditions = g.conditions, CheckWin(s) = Undecided
    PROVE  Cardinality(AliveIn(s, {"MAFIA"})) + Cardinality(AliveIn(s, {"SERIAL_KILLER"})) > 0
<1>1. PICK i \in DOMAIN s.conditions : s.conditions[i].winner = "TOWN"
  BY RulesetAssumption
<1> DEFINE c == s.conditions[i]
<1>2. /\ c.kind = "TARGET_FACTIONS_ELIMINATED" /\ "MAFIA" \in c.factions
      /\ c.factions \subseteq {"MAFIA", "SERIAL_KILLER"}
  BY <1>1, RulesetAssumption
<1>3. Matching(s) = {}
  <2> SUFFICES ASSUME Matching(s) # {} PROVE FALSE
    OBVIOUS
  <2>1. PICK j \in DOMAIN s.conditions :
           CheckWin(s) = s.conditions[j].winner /\ s.conditions[j] \in Condition
    BY CheckWinMatches
  <2>2. s.conditions[j].winner \in Faction \cup {"DRAW"}
    BY <2>1 DEF Condition
  <2>. QED  BY <2>1, <2>2 DEF Undecided, Faction
<1>4. ~ConditionHolds(c, s)
  BY <1>3 DEF Matching
<1>5. AliveIn(s, c.factions) # {}
  BY <1>2, <1>4 DEF ConditionHolds
<1>6. AliveIn(s, {"MAFIA"}) # {} \/ AliveIn(s, {"SERIAL_KILLER"}) # {}
  BY <1>2, <1>5 DEF AliveIn
<1>7. /\ Cardinality(AliveIn(s, {"MAFIA"})) \in Nat
      /\ Cardinality(AliveIn(s, {"SERIAL_KILLER"})) \in Nat
      /\ AliveIn(s, {"MAFIA"}) # {} => Cardinality(AliveIn(s, {"MAFIA"})) # 0
      /\ AliveIn(s, {"SERIAL_KILLER"}) # {} => Cardinality(AliveIn(s, {"SERIAL_KILLER"})) # 0
  BY LivingAreFinite, FS_EmptySet
<1>. QED  BY <1>6, <1>7

\* A Jester who is out wins before anybody else.
LEMMA JesterWinsFirst ==
    ASSUME NEW s \in GameState, NEW g \in Games,
           s.role = g.role, s.conditions = g.conditions, s.jesterOut,
           NEW p \in Players, s.role[p] = "JESTER"
    PROVE  CheckWin(s) = "JESTER"
<1>1. "JESTER" \in {FactionOf(g.role[q]) : q \in Players}
  <2>1. FactionOf(g.role[p]) = "JESTER"
    BY DEF FactionOf, MafiaRole
  <2>. QED  BY <2>1
<1>2. 1 \in DOMAIN s.conditions /\ s.conditions[1].winner = "JESTER"
  BY <1>1, RulesetAssumption
<1>3. s.conditions[1].kind = "ALT_TRIGGER"
  BY <1>2, RulesetAssumption
<1>4. 1 \in Matching(s)
  BY <1>2, <1>3 DEF Matching, ConditionHolds
<1>5. Matching(s) \subseteq Nat \ {0}
  BY DEF Matching, GameState
<1>6. Min(Matching(s)) \in Matching(s) /\ Min(Matching(s)) =< 1
  BY <1>4, <1>5, MinOfNaturals
<1>7. Min(Matching(s)) = 1
  BY <1>5, <1>6
<1>. QED  BY <1>2, <1>4, <1>7 DEF CheckWin

\* What the loop knows between two checks: the phase it plays is the state's, the schedule
\* ends on its last day, and a Jester is out only by a vote that is about to be checked.
PhaseIsCurrent == stage \in {"tick", "resolve", "check"} => st.phase = cur

ScheduleEndsLast == cur.kind = "TERMINAL" => cur.day = MaxDays

JesterIsOut ==
    st.jesterOut =>
        /\ stage \in {"check", "done"} /\ cur.kind = "DAY_VOTE"
        /\ \E p \in Players \ st.alive : st.role[p] = "JESTER"

OutcomeIsEarned ==
    stage = "done" =>
        /\ Earned(st, outcome.winner)
        /\ outcome.winner = "DRAW" =>
              /\ outcome.phase.day = MaxDays
              /\ Cardinality(AliveIn(st, {"MAFIA"})) + Cardinality(AliveIn(st, {"SERIAL_KILLER"})) > 0
        /\ st.jesterOut => outcome.winner = "JESTER"

EarnedInv == DecisionInv /\ PhaseIsCurrent /\ ScheduleEndsLast /\ JesterIsOut /\ OutcomeIsEarned

\* It is strong enough.
LEMMA EarnedIsEnough == EarnedInv => WinnerIsEarned
<1> SUFFICES ASSUME EarnedInv
             PROVE  WinnerIsEarned
  OBVIOUS
<1> st \in GameState /\ OutcomeIsLast /\ JesterIsOut /\ OutcomeIsEarned
  BY DEF EarnedInv, DecisionInv, TypeOK
<1>1. CASE stage # "done"
  <2>1. outcome.winner = Undecided
    BY <1>1 DEF OutcomeIsLast
  <2>. QED  BY <1>1, <2>1 DEF WinnerIsEarned, Undecided, JesterIsOut
<1>2. CASE stage = "done"
  <2>1. Earned(st, outcome.winner)
    BY <1>2 DEF OutcomeIsEarned
  <2>2. outcome.winner = "TOWN" =>
           /\ Cardinality(AliveIn(st, {"MAFIA"})) = 0
           /\ Cardinality(AliveIn(st, {"SERIAL_KILLER"})) = 0
    BY <2>1, FS_EmptySet DEF Earned
  <2>3. outcome.winner = "MAFIA" =>
           /\ Cardinality(AliveIn(st, {"MAFIA"})) > 0
           /\ Cardinality(AliveIn(st, {"MAFIA"})) >= Cardinality(AliveIn(st, {"TOWN"}))
           /\ Cardinality(AliveIn(st, {"SERIAL_KILLER"})) = 0
    <3>1. /\ Cardinality(AliveIn(st, {"MAFIA"})) \in Nat
          /\ AliveIn(st, {"MAFIA"}) # {} => Cardinality(AliveIn(st, {"MAFIA"})) # 0
      BY LivingAreFinite, FS_EmptySet
    <3>. QED  BY <2>1, <3>1, FS_EmptySet DEF Earned
  <2>4. outcome.winner = "SERIAL_KILLER" =>
           Cardinality(AliveIn(st, {"SERIAL_KILLER"})) = 1 /\ Cardinality(st.alive) = 1
    BY <2>1 DEF Earned
  <2>5. outcome.winner = "JESTER" =>
           st.jesterOut /\ \E p \in Players \ st.alive : st.role[p] = "JESTER"
    BY <2>1 DEF Earned, JesterIsOut
  <2>6. /\ st.jesterOut => stage \in {"check", "done"} /\ cur.kind = "DAY_VOTE"
        /\ st.jesterOut => outcome.winner = "JESTER"
    BY <1>2 DEF JesterIsOut, OutcomeIsEarned
  <2>7. outcome.winner = "DRAW" =>
           /\ outcome.phase.day = MaxDays
           /\ Cardinality(AliveIn(st, {"MAFIA"})) + Cardinality(AliveIn(st, {"SERIAL_KILLER"})) > 0
    BY <1>2 DEF OutcomeIsEarned
  <2>. QED  BY <2>2, <2>3, <2>4, <2>5, <2>6, <2>7 DEF WinnerIsEarned
<1>. QED  BY <1>1, <1>2

\* Nothing is out and nothing is over when a game is created.
LEMMA EarnedInit == Init => EarnedInv
<1> SUFFICES ASSUME Init
             PROVE  EarnedInv
  OBVIOUS
<1>1. st.jesterOut = FALSE
  BY DEF Init, NewGame
<1>2. stage = "setup" /\ cur.kind = "SETUP"
  BY DEF Init, Setup, Phase
<1>. QED  BY <1>1, <1>2, DecisionInit
     DEF EarnedInv, PhaseIsCurrent, ScheduleEndsLast, JesterIsOut, OutcomeIsEarned

\* The schedule reaches its end only from the last night.
LEMMA ScheduleEnd ==
    ASSUME NEW ph \in PhaseSpace, ph.kind = "TERMINAL" => ph.day = MaxDays
    PROVE  NextPhase(ph).kind = "TERMINAL" => NextPhase(ph).day = MaxDays
<1>. MaxDays \in Nat \ {0} /\ Rounds \in Nat \ {0}
  BY ScheduleAssumption
<1>1. ph.day \in 0..MaxDays /\ ph.round \in 0..Rounds /\ ph.kind \in PhaseKind
  BY DEF PhaseSpace
<1>. QED  BY <1>1 DEF NextPhase, Phase, PhaseKind

\* Every step keeps it: a phase is entered only over an undecided board, and only a vote
\* sets the Jester's trigger.
LEMMA EarnedStep == EarnedInv /\ [Next]_vars => EarnedInv'
<1> SUFFICES ASSUME EarnedInv, [Next]_vars
             PROVE  EarnedInv'
  OBVIOUS
<1>a. /\ DecisionInv /\ PhaseIsCurrent /\ ScheduleEndsLast /\ JesterIsOut /\ OutcomeIsEarned
      /\ TypeOK /\ DealtGame /\ OutcomeIsLast /\ NoPlayPastDecision
      /\ st \in GameState /\ cur \in PhaseSpace
  BY DEF EarnedInv, DecisionInv, TypeOK
<1>b. DecisionInv'
  BY <1>a, DecisionStep
<1>c. PICK g \in Games : /\ st.role = g.role /\ st.conditions = g.conditions
                         /\ stage = "setup" => st = NewGame(g)
  BY <1>a DEF DealtGame
<1> SUFFICES PhaseIsCurrent' /\ ScheduleEndsLast' /\ JesterIsOut' /\ OutcomeIsEarned'
  BY <1>b DEF EarnedInv
<1> USE DEF PhaseIsCurrent, ScheduleEndsLast
<1>1. CASE CreateGame
  <2>1. st.phase \in PhaseSpace /\ st.phase.kind = "SETUP" /\ st.jesterOut = FALSE
    BY <1>1, <1>a, <1>c DEF CreateGame, NewGame, Setup, Phase, GameState
  <2>2. st'.jesterOut = FALSE
    BY <1>1, <1>a, <2>1 DEF CreateGame, ApplyRolesAssigned, GameState
  <2>3. ScheduleEndsLast'
    BY <1>1, <2>1, ScheduleEnd DEF CreateGame
  <2>. QED  BY <1>1, <2>2, <2>3 DEF CreateGame, JesterIsOut, OutcomeIsEarned
<1>2. CASE StartPhase
  <2>1. st'.phase = cur /\ st'.jesterOut = st.jesterOut
    BY <1>2, <1>a DEF StartPhase, ApplyPhaseStarted, GameState
  <2>2. ~st.jesterOut
    BY <1>2, <1>a DEF StartPhase, JesterIsOut
  <2>. QED  BY <1>2, <1>a, <2>1, <2>2 DEF StartPhase, JesterIsOut, OutcomeIsEarned
<1>3. ASSUME NEW p \in Players, SeatAnswers(p)
      PROVE  PhaseIsCurrent' /\ ScheduleEndsLast' /\ JesterIsOut' /\ OutcomeIsEarned'
  BY <1>3, <1>a DEF SeatAnswers, JesterIsOut, OutcomeIsEarned
<1>4. CASE EmitSubmissions
  <2>1. st'.phase = st.phase /\ st'.jesterOut = st.jesterOut
    BY <1>4, <1>a DEF EmitSubmissions, AfterSubmissions, ApplyProtects, GameState
  <2>2. ~st.jesterOut
    BY <1>4, <1>a DEF EmitSubmissions, JesterIsOut
  <2>. QED  BY <1>4, <1>a, <2>1, <2>2 DEF EmitSubmissions, JesterIsOut, OutcomeIsEarned
<1>5. CASE ResolvePhase
  <2>1. stage = "resolve" /\ st.phase = cur /\ cur' = cur /\ stage' = "check" /\ ~st.jesterOut
    BY <1>5, <1>a DEF ResolvePhase, JesterIsOut
  <2>2. CASE st.phase.kind = "DAY_VOTE"
    <3> DEFINE dead == DayVoteEliminated(st, responses)
    <3>0. st' = ApplyDayEliminations(st, dead)
      BY <1>5, <2>2 DEF ResolvePhase, AfterPhase, AfterDayVote
    <3>1. dead \subseteq st.alive /\ st.alive \subseteq Players
      BY <1>a, VoteTakesOne DEF GameState
    <3> HIDE DEF dead
    <3>2. /\ st'.phase = st.phase /\ st'.role = st.role /\ st'.alive = st.alive \ dead
          /\ st'.jesterOut = (st.jesterOut \/ \E p \in dead : st.role[p] = "JESTER")
      BY <3>0, <1>a DEF ApplyDayEliminations, GameState
    <3>3. st'.jesterOut => \E p \in Players \ st'.alive : st'.role[p] = "JESTER"
      BY <3>1, <3>2, <2>1
    <3>. QED  BY <1>a, <2>1, <2>2, <3>2, <3>3 DEF JesterIsOut, OutcomeIsEarned
  <2>3. CASE st.phase.kind # "DAY_VOTE"
    <3>1. \A s \in GameState : \A x :
             /\ ApplyNightResolved(s, x).jesterOut = s.jesterOut
             /\ ApplyNightResolved(s, x).phase = s.phase
             /\ ApplyNightEliminations(s, x).jesterOut = s.jesterOut
             /\ ApplyNightEliminations(s, x).phase = s.phase
      BY DEF ApplyNightResolved, ApplyNightEliminations, GameState
    <3>2. /\ AfterNight(st, responses).jesterOut = st.jesterOut
          /\ AfterNight(st, responses).phase = st.phase
      BY <3>1, <1>a, ApplyNightResolvedType DEF AfterNight
    <3>3. st'.jesterOut = st.jesterOut /\ st'.phase = st.phase
      BY <1>5, <2>3, <3>2 DEF ResolvePhase, AfterPhase
    <3>. QED  BY <1>a, <2>1, <3>3 DEF JesterIsOut, OutcomeIsEarned
  <2>. QED  BY <2>2, <2>3
<1>6. CASE TerminateWithWinner
  <2>1. /\ st' = st /\ cur' = cur /\ stage = "check" /\ stage' = "done"
        /\ outcome'.winner = CheckWin(st)
    BY <1>6 DEF TerminateWithWinner, Terminate
  <2>2. Earned(st, CheckWin(st)) /\ CheckWin(st) # "DRAW"
    BY <1>a, <1>c, CheckWinIsEarned, NoEarlyDraw
  <2>3. st.jesterOut => CheckWin(st) = "JESTER"
    BY <1>a, <1>c, JesterWinsFirst DEF JesterIsOut
  <2>4. Earned(st', outcome'.winner)
    BY <2>1, <2>2
  <2>. QED  BY <1>a, <2>1, <2>2, <2>3, <2>4 DEF JesterIsOut, OutcomeIsEarned
<1>7. CASE AdvancePhase
  <2>1. ~st.jesterOut
    <3> SUFFICES ASSUME st.jesterOut PROVE FALSE
      OBVIOUS
    <3>1. CheckWin(st) = "JESTER"
      BY <1>a, <1>c, JesterWinsFirst DEF JesterIsOut
    <3>. QED  BY <1>7, <3>1 DEF AdvancePhase, Undecided
  <2>2. ScheduleEndsLast'
    BY <1>7, <1>a, ScheduleEnd DEF AdvancePhase
  <2>. QED  BY <1>7, <1>a, <2>1, <2>2 DEF AdvancePhase, JesterIsOut, OutcomeIsEarned
<1>8. CASE TerminateAsDraw
  <2>1. /\ st' = st /\ cur' = cur /\ stage = "start" /\ stage' = "done" /\ cur.kind = "TERMINAL"
        /\ outcome'.winner = "DRAW" /\ outcome'.phase = cur
    BY <1>8 DEF TerminateAsDraw, Terminate
  <2>2. ~st.jesterOut /\ CheckWin(st) = Undecided
    BY <1>a, <2>1 DEF JesterIsOut, NoPlayPastDecision
  <2>3. Cardinality(AliveIn(st, {"MAFIA"})) + Cardinality(AliveIn(st, {"SERIAL_KILLER"})) > 0
    BY <1>a, <1>c, <2>2, UndecidedHasThreats
  <2>4. Earned(st', outcome'.winner)
    BY <2>1 DEF Earned
  <2>5. outcome'.phase.day = MaxDays
    BY <1>a, <2>1
  <2>. QED  BY <1>a, <2>1, <2>2, <2>3, <2>4, <2>5 DEF JesterIsOut, OutcomeIsEarned
<1>9. CASE UNCHANGED vars
  <2>1. st' = st /\ cur' = cur /\ stage' = stage /\ outcome' = outcome
    BY <1>9 DEF vars
  <2>2. PhaseIsCurrent' /\ ScheduleEndsLast'
    BY <1>a, <2>1
  <2>3. JesterIsOut'
    BY <1>a, <2>1 DEF JesterIsOut
  <2>4. OutcomeIsEarned'
    BY <1>a, <2>1 DEF OutcomeIsEarned, Earned, AliveIn
  <2>. QED  BY <2>2, <2>3, <2>4
<1>. QED  BY <1>1, <1>2, <1>3, <1>4, <1>5, <1>6, <1>7, <1>8, <1>9 DEF Next

\* Whoever is announced has won: on any board, in any order of play and under every ruleset
\* of the shape that the assumptions give.
THEOREM WinnersAreEarned == Spec => []WinnerIsEarned
<1>. QED  BY EarnedInit, EarnedStep, EarnedIsEnough, PTL DEF Spec

-----------------------------------------------------------------------------
\* Views: lists made from logs

\* Lists from two logs look the same.
Same(f, g) ==
    /\ IsFiniteSet(DOMAIN f) /\ IsFiniteSet(DOMAIN g)
    /\ Cardinality(DOMAIN f) = Cardinality(DOMAIN g) /\ Listed(f) = Listed(g)

\* The function g goes on from f with x at position k.
Goes(f, g, k, x) ==
    /\ k \in Nat /\ DOMAIN f \subseteq 1..k - 1 /\ DOMAIN g = DOMAIN f \cup {k}
    /\ (\A i \in DOMAIN f : g[i] = f[i]) /\ g[k] = x

\* A list that goes on has one more item, at its end.
LEMMA ListGoesOn ==
    ASSUME NEW f, NEW g, NEW k, NEW x, Goes(f, g, k, x), IsFiniteSet(DOMAIN f)
    PROVE  /\ IsFiniteSet(DOMAIN g) /\ Cardinality(DOMAIN g) = Cardinality(DOMAIN f) + 1
           /\ Listed(g) = Listed(f) \cup {<<Cardinality(DOMAIN f) + 1, x>>}
<1>1. /\ k \in Nat /\ k \notin DOMAIN f /\ DOMAIN g = DOMAIN f \cup {k}
      /\ \A i \in DOMAIN f : i \in Nat /\ i < k
  BY DEF Goes
<1>2. IsFiniteSet(DOMAIN g) /\ Cardinality(DOMAIN g) = Cardinality(DOMAIN f) + 1
  BY <1>1, FS_AddElement
<1>3. \A i \in DOMAIN f : {j \in DOMAIN g : j =< i} = {j \in DOMAIN f : j =< i}
  BY <1>1
<1>4. {j \in DOMAIN g : j =< k} = DOMAIN g
  BY <1>1
<1>5. Listed(g) = {<<Cardinality({j \in DOMAIN g : j =< i}), g[i]>> : i \in DOMAIN f}
                  \cup {<<Cardinality({j \in DOMAIN g : j =< k}), g[k]>>}
  BY <1>1 DEF Listed
<1>6. {<<Cardinality({j \in DOMAIN g : j =< i}), g[i]>> : i \in DOMAIN f} = Listed(f)
  <2>1. \A i \in DOMAIN f : g[i] = f[i]
    BY DEF Goes
  <2>2. \A i \in DOMAIN f : <<Cardinality({j \in DOMAIN g : j =< i}), g[i]>>
                             = <<Cardinality({j \in DOMAIN f : j =< i}), f[i]>>
    BY <1>3, <2>1
  <2>. QED  BY <2>2 DEF Listed
<1>7. g[k] = x
  BY DEF Goes
<1>. QED  BY <1>2, <1>4, <1>5, <1>6, <1>7

\* Lists that look the same and go on with the same item still do.
LEMMA SameGoesOn ==
    ASSUME NEW f, NEW g, Same(f, g), NEW x, NEW k, NEW l, NEW f1, NEW g1,
           Goes(f, f1, k, x), Goes(g, g1, l, x)
    PROVE  Same(f1, g1)
BY ListGoesOn DEF Same

-----------------------------------------------------------------------------
\* Views: the lists that a viewer is shown, of logs in which humans' messages have their text

Censored(e, keys) == [e EXCEPT !.payload = Without(@, keys)]

HiddenKeys == IF Anonymous THEN ForbiddenPayloadKeys ELSE ForbiddenPayloadKeys \ IdentityMarkerKeys

Tracks == {"public", "private", "deaths", "results", "feedback", "spectator"}

\* What a list keeps of a log, for a viewer v and the seats of its team
May(k, e, v, team) ==
    /\ k \in {"public", "spectator"} => VisibilityOf(e.type) = "PUBLIC"
    /\ k = "private" => VisibilityOf(e.type) = "PRIVATE" /\ e.actor \in team
    /\ k = "deaths" => e.type = "PlayerEliminated"
    /\ k = "results" => e.type = "DetectiveResultDelivered" /\ e.actor = v
    /\ k = "feedback" => e.type = "NightFeedbackDelivered" /\ e.actor = v

\* And what it says of an event
Says(k, e) ==
    IF k \in {"public", "private"} THEN Hydrated(Entry(Plain(e)))
    ELSE IF k = "spectator" THEN Censored(Plain(e), HiddenKeys)
    ELSE IF k = "deaths" THEN Plain(e).payload["public_player_id"] ELSE Plain(e)

Track(k, log, v, team) == [i \in {i \in DOMAIN log : May(k, log[i], v, team)} |-> Says(k, log[i])]

IsLog(log) == \E S : log \in Seq(S)

LEMMA LogGrows ==
    ASSUME NEW log, IsLog(log), NEW e
    PROVE  /\ IsLog(Append(log, e)) /\ Len(log) \in Nat /\ DOMAIN log = 1..Len(log)
           /\ DOMAIN Append(log, e) = 1..Len(log) + 1 /\ Append(log, e)[Len(log) + 1] = e
           /\ \A i \in DOMAIN log : Append(log, e)[i] = log[i]
<1>1. PICK S : log \in Seq(S)
  BY DEF IsLog
<1>. PICK T : T = S \cup {e}
  OBVIOUS
<1>2. log \in Seq(T) /\ e \in T
  BY <1>1
<1>3. Append(log, e) \in Seq(T)
  BY <1>2
<1>. QED  BY <1>2, <1>3 DEF IsLog

\* An event that a list does not keep leaves it alone.
LEMMA TrackStays ==
    ASSUME NEW log, IsLog(log), NEW e, NEW k, NEW v, NEW team, ~May(k, e, v, team)
    PROVE  Track(k, Append(log, e), v, team) = Track(k, log, v, team)
<1>. PICK more : more = Append(log, e)
  OBVIOUS
<1>1. /\ Len(log) \in Nat /\ DOMAIN log = 1..Len(log) /\ DOMAIN more = 1..Len(log) + 1
      /\ more[Len(log) + 1] = e /\ \A i \in DOMAIN log : more[i] = log[i]
  BY LogGrows
<1>2. {i \in DOMAIN more : May(k, more[i], v, team)} = {i \in DOMAIN log : May(k, log[i], v, team)}
  BY <1>1
<1>. QED  BY <1>1, <1>2 DEF Track

\* One that it keeps becomes its last item.
LEMMA TrackGoesOn ==
    ASSUME NEW log, IsLog(log), NEW e, NEW k, NEW v, NEW team, May(k, e, v, team)
    PROVE  Goes(Track(k, log, v, team), Track(k, Append(log, e), v, team), Len(log) + 1, Says(k, e))
<1>. PICK more : more = Append(log, e)
  OBVIOUS
<1>1. /\ Len(log) \in Nat /\ DOMAIN log = 1..Len(log) /\ DOMAIN more = 1..Len(log) + 1
      /\ more[Len(log) + 1] = e /\ \A i \in DOMAIN log : more[i] = log[i]
  BY LogGrows
<1>2. {i \in DOMAIN more : May(k, more[i], v, team)}
      = {i \in DOMAIN log : May(k, log[i], v, team)} \cup {Len(log) + 1}
  BY <1>1
<1>3. /\ DOMAIN Track(k, more, v, team) = {i \in DOMAIN more : May(k, more[i], v, team)}
      /\ DOMAIN Track(k, log, v, team) = {i \in DOMAIN log : May(k, log[i], v, team)}
      /\ \A i \in DOMAIN Track(k, log, v, team) : Track(k, log, v, team)[i] = Says(k, log[i])
      /\ \A i \in DOMAIN Track(k, more, v, team) : Track(k, more, v, team)[i] = Says(k, more[i])
  BY DEF Track
<1>. QED  BY <1>1, <1>2, <1>3 DEF Goes

\* The same of two worlds: they go on alike with events that are twins for the viewer.
Twins(d, e, v, team) ==
    \A k \in Tracks :
        /\ May(k, d, v, team) <=> May(k, e, v, team)
        /\ May(k, d, v, team) => Says(k, d) = Says(k, e)

LEMMA TracksTogether ==
    ASSUME NEW log, IsLog(log), NEW other, IsLog(other), NEW d, NEW e, NEW k \in Tracks, NEW v, NEW team,
           Twins(d, e, v, team), Same(Track(k, log, v, team), Track(k, other, v, team))
    PROVE  Same(Track(k, Append(log, d), v, team), Track(k, Append(other, e), v, team))
<1>1. CASE May(k, d, v, team)
  <2>1. May(k, e, v, team) /\ Says(k, d) = Says(k, e)
    BY <1>1 DEF Twins
  <2>2. Goes(Track(k, log, v, team), Track(k, Append(log, d), v, team), Len(log) + 1, Says(k, d))
    BY <1>1, TrackGoesOn
  <2>3. Goes(Track(k, other, v, team), Track(k, Append(other, e), v, team), Len(other) + 1, Says(k, d))
    BY <2>1, TrackGoesOn
  <2>. QED  BY <2>2, <2>3, SameGoesOn
<1>2. CASE ~May(k, d, v, team)
  <2>1. ~May(k, e, v, team)
    BY <1>2 DEF Twins
  <2>. QED  BY <1>2, <2>1, TrackStays
<1>. QED  BY <1>1, <1>2

-----------------------------------------------------------------------------
\* Views: the two worlds

EventTypes == PublicTypes \cup PrivateTypes \cup SystemTypes

\* An event that may be shown has no forbidden key but the ones that are taken away.
Clean(e) ==
    /\ DOMAIN e = {"type", "actor", "payload"} /\ e.type \in EventTypes
    /\ VisibilityOf(e.type) = "PRIVATE" => e.actor \in Players
    /\ VisibilityOf(e.type) # "SYSTEM" => DOMAIN Entry(e).payload \cap ForbiddenPayloadKeys = {}

Fields == {"role", "kind", "alive", "phase", "lastProtected", "shots", "log"}

WorldOK(w) ==
    /\ DOMAIN w = Fields
    /\ w.role \in [Players -> Role] /\ w.kind \in [Players -> {"HUMAN", "AI", "AI_TAKEOVER"}]
    /\ w.alive \subseteq Players /\ w.lastProtected \in [Players -> Target]
    /\ w.shots = [p \in Players |-> 1]
    /\ IsLog(w.log) /\ \A i \in DOMAIN w.log : Clean(w.log[i])

\* What the viewer sees of two worlds is the same.
Agree(u, w) ==
    /\ u.phase = w.phase /\ u.alive = w.alive
    /\ Alike(u.role, w.role, viewer)
    /\ viewer # Spectator =>
          /\ u.kind[viewer] = w.kind[viewer]
          /\ u.role[viewer] = "DOCTOR" => u.lastProtected[viewer] = w.lastProtected[viewer]
    /\ ~Anonymous => u.kind = w.kind
    /\ Over(u) <=> Over(w)
    /\ \A k \in Tracks : viewer # Spectator \/ k = "spectator" =>
          Same(Track(k, u.log, viewer, Team(u, viewer)), Track(k, w.log, viewer, Team(u, viewer)))

ObservationsInv ==
    /\ viewer \in Players \cup {Spectator}
    /\ DOMAIN worlds = World
    /\ WorldOK(worlds[1]) /\ WorldOK(worlds[2]) /\ Agree(worlds[1], worlds[2])

\* A team is the same in both worlds.
LEMMA TeamsAlike ==
    ASSUME NEW u, NEW w, WorldOK(u), WorldOK(w), NEW p \in Players, Alike(u.role, w.role, p)
    PROVE  /\ Team(u, p) = Team(w, p) /\ p \in Team(u, p) /\ u.role[p] = w.role[p]
           /\ IsMafia(u, p) <=> IsMafia(w, p)
           /\ IsMafia(u, p) => \A q \in Players : IsMafia(u, q) <=> IsMafia(w, q)
<1>1. p # Spectator
  BY PlayersAssumption DEF Spectator
<1>. QED  BY <1>1 DEF Alike, IsMafia, Team

\* What an event says, by its type
LEMMA EventTypesDiffer ==
    /\ \A t \in PublicTypes : VisibilityOf(t) = "PUBLIC"
    /\ \A t \in PrivateTypes : VisibilityOf(t) = "PRIVATE"
    /\ \A t \in SystemTypes : VisibilityOf(t) = "SYSTEM"
BY DEF PublicTypes, PrivateTypes, SystemTypes, VisibilityOf

LEMMA EventShape ==
    ASSUME NEW t, NEW a, NEW pl
    PROVE  /\ GameEvent(t, a, pl).type = t /\ GameEvent(t, a, pl).actor = a
           /\ GameEvent(t, a, pl).payload = pl
           /\ DOMAIN GameEvent(t, a, pl) = {"type", "actor", "payload"}
           /\ t # "PlayerEliminated" => Entry(GameEvent(t, a, pl)) = GameEvent(t, a, pl)
BY DEF GameEvent, Entry

\* Adding an event to the log of a world
LEMMA WorldLogged ==
    ASSUME NEW w, WorldOK(w), NEW e, Clean(e)
    PROVE  /\ WorldOK(Logged(w, e)) /\ Logged(w, e).log = Append(w.log, e)
           /\ \A f \in Fields \ {"log"} : Logged(w, e)[f] = w[f]
           /\ Over(Logged(w, e)) <=> Over(w) \/ e.type = "GameTerminated"
           /\ Team(Logged(w, e), viewer) = Team(w, viewer)
<1>. PICK x : x = Logged(w, e)
  OBVIOUS
<1>1. DOMAIN x = Fields /\ x.log = Append(w.log, e) /\ \A f \in Fields \ {"log"} : x[f] = w[f]
  BY DEF Logged, WorldOK, Fields
<1>2. /\ x.role = w.role /\ x.kind = w.kind /\ x.alive = w.alive /\ x.lastProtected = w.lastProtected
      /\ x.shots = w.shots /\ x.phase = w.phase
  BY <1>1 DEF Fields
<1>3. /\ IsLog(x.log) /\ Len(w.log) \in Nat /\ DOMAIN w.log = 1..Len(w.log)
      /\ DOMAIN x.log = 1..Len(w.log) + 1 /\ x.log[Len(w.log) + 1] = e
      /\ \A i \in DOMAIN w.log : x.log[i] = w.log[i]
  BY <1>1, LogGrows DEF WorldOK
<1>4. DOMAIN x.log = DOMAIN w.log \cup {Len(w.log) + 1}
  BY <1>3
<1>5. WorldOK(x)
  BY <1>1, <1>2, <1>3, <1>4 DEF WorldOK
<1>6. Over(x) <=> Over(w) \/ e.type = "GameTerminated"
  BY <1>3, <1>4 DEF Over
<1>7. Team(x, viewer) = Team(w, viewer)
  BY <1>2 DEF Team, IsMafia
<1>. QED  BY <1>1, <1>5, <1>6, <1>7

\* Twins are logged in both worlds.
LEMMA BothLogged ==
    ASSUME NEW u, NEW w, WorldOK(u), WorldOK(w), Agree(u, w), NEW d, NEW e, Clean(d), Clean(e),
           d.type = e.type, Twins(d, e, viewer, Team(u, viewer))
    PROVE  /\ WorldOK(Logged(u, d)) /\ WorldOK(Logged(w, e)) /\ Agree(Logged(u, d), Logged(w, e))
<1>. PICK x : x = Logged(u, d)
  OBVIOUS
<1>. PICK y : y = Logged(w, e)
  OBVIOUS
<1>1. /\ WorldOK(x) /\ x.log = Append(u.log, d) /\ \A f \in Fields \ {"log"} : x[f] = u[f]
      /\ Over(x) <=> Over(u) \/ d.type = "GameTerminated"
      /\ Team(x, viewer) = Team(u, viewer)
  BY WorldLogged
<1>2. /\ WorldOK(y) /\ y.log = Append(w.log, e) /\ \A f \in Fields \ {"log"} : y[f] = w[f]
      /\ Over(y) <=> Over(w) \/ e.type = "GameTerminated"
  BY WorldLogged
<1>3. /\ x.role = u.role /\ x.kind = u.kind /\ x.alive = u.alive /\ x.lastProtected = u.lastProtected
      /\ x.phase = u.phase
      /\ y.role = w.role /\ y.kind = w.kind /\ y.alive = w.alive /\ y.lastProtected = w.lastProtected
      /\ y.phase = w.phase
  BY <1>1, <1>2 DEF Fields
<1>4. ASSUME NEW k \in Tracks, viewer # Spectator \/ k = "spectator"
      PROVE  Same(Track(k, x.log, viewer, Team(x, viewer)), Track(k, y.log, viewer, Team(x, viewer)))
  <2>1. Same(Track(k, u.log, viewer, Team(u, viewer)), Track(k, w.log, viewer, Team(u, viewer)))
    BY <1>4 DEF Agree
  <2>2. IsLog(u.log) /\ IsLog(w.log)
    BY DEF WorldOK
  <2>3. Same(Track(k, Append(u.log, d), viewer, Team(u, viewer)),
             Track(k, Append(w.log, e), viewer, Team(u, viewer)))
    BY <2>1, <2>2, TracksTogether
  <2>. QED  BY <2>3, <1>1, <1>2
<1>5. Agree(x, y)
  BY <1>1, <1>2, <1>3, <1>4 DEF Agree
<1>. QED  BY <1>1, <1>2, <1>5

\* Something that the viewer is not shown is logged in the first world.
LEMMA OneLogged ==
    ASSUME NEW u, NEW w, WorldOK(u), WorldOK(w), Agree(u, w), NEW d, Clean(d),
           d.type # "GameTerminated",
           \A k \in Tracks : viewer # Spectator \/ k = "spectator" => ~May(k, d, viewer, Team(u, viewer))
    PROVE  WorldOK(Logged(u, d)) /\ Agree(Logged(u, d), w)
<1>. PICK x : x = Logged(u, d)
  OBVIOUS
<1>1. /\ WorldOK(x) /\ x.log = Append(u.log, d) /\ \A f \in Fields \ {"log"} : x[f] = u[f]
      /\ Over(x) <=> Over(u)
      /\ Team(x, viewer) = Team(u, viewer)
  BY WorldLogged
<1>2. /\ x.role = u.role /\ x.kind = u.kind /\ x.alive = u.alive /\ x.lastProtected = u.lastProtected
      /\ x.phase = u.phase
  BY <1>1 DEF Fields
<1>3. ASSUME NEW k \in Tracks, viewer # Spectator \/ k = "spectator"
      PROVE  Same(Track(k, x.log, viewer, Team(x, viewer)), Track(k, w.log, viewer, Team(x, viewer)))
  <2>1. Same(Track(k, u.log, viewer, Team(u, viewer)), Track(k, w.log, viewer, Team(u, viewer)))
    BY <1>3 DEF Agree
  <2>2. Track(k, x.log, viewer, Team(u, viewer)) = Track(k, u.log, viewer, Team(u, viewer))
    BY <1>1, <1>3, TrackStays DEF WorldOK
  <2>. QED  BY <2>1, <2>2, <1>1
<1>. QED  BY <1>1, <1>2, <1>3 DEF Agree

\* The events of the model are clean.
LEMMA CleanEvents ==
    /\ \A w, p : Clean(GameEvent("PublicMessageSubmitted", p, MessagePayload(w, p)))
    /\ \A x : \A t \in PrivateTypes, p \in Players : Clean(GameEvent(t, p, OneKey("target", x)))
    /\ \A a, x : \A t \in SystemTypes : Clean(GameEvent(t, a, x))
    /\ \A x : DOMAIN x = {"public_player_id", "role", "faction"}
                 => Clean(GameEvent("PlayerEliminated", NoPlayer, x))
    /\ \A x : Clean(GameEvent("GameTerminated", NoPlayer, OneKey("winner", x)))
<1>. USE DEF EventTypes
<1>0. /\ PrivateTypes \cap PublicTypes = {} /\ "PlayerEliminated" \notin PrivateTypes \cup SystemTypes
      /\ PublicTypes = {"PublicMessageSubmitted", "PlayerEliminated", "GameTerminated"}
  BY DEF PublicTypes, PrivateTypes, SystemTypes
<1>1. ASSUME NEW w, NEW p PROVE Clean(GameEvent("PublicMessageSubmitted", p, MessagePayload(w, p)))
  <2>. PICK pl : pl = MessagePayload(w, p)
    OBVIOUS
  <2>1. DOMAIN pl \subseteq {"text", "content_ref"}
    BY DEF MessagePayload, OneKey
  <2>2. DOMAIN pl \cap ForbiddenPayloadKeys = {}
    BY <2>1 DEF ForbiddenPayloadKeys, IdentityMarkerKeys
  <2>. QED  BY <1>0, <2>2, EventShape, EventTypesDiffer DEF Clean
<1>2. ASSUME NEW t \in PrivateTypes, NEW p \in Players, NEW x
      PROVE  Clean(GameEvent(t, p, OneKey("target", x)))
  <2>. PICK pl : pl = OneKey("target", x)
    OBVIOUS
  <2>1. DOMAIN pl \cap ForbiddenPayloadKeys = {}
    BY DEF OneKey, ForbiddenPayloadKeys, IdentityMarkerKeys
  <2>. QED  BY <1>0, <2>1, EventShape, EventTypesDiffer DEF Clean
<1>3. ASSUME NEW t \in SystemTypes, NEW a, NEW x PROVE Clean(GameEvent(t, a, x))
  BY EventShape, EventTypesDiffer DEF Clean
<1>4. ASSUME NEW x, DOMAIN x = {"public_player_id", "role", "faction"}
      PROVE  Clean(GameEvent("PlayerEliminated", NoPlayer, x))
  <2>. PICK e : e = GameEvent("PlayerEliminated", NoPlayer, x)
    OBVIOUS
  <2>1. e.type = "PlayerEliminated" /\ e.payload = x /\ DOMAIN e = {"type", "actor", "payload"}
    BY EventShape
  <2>2. DOMAIN Without(x, {"role", "faction"}) = {"public_player_id"}
    BY <1>4 DEF Without, Restrict
  <2>3. Entry(e).payload = Without(x, {"role", "faction"})
    BY <2>1 DEF Entry
  <2>. QED  BY <1>0, <2>1, <2>2, <2>3, EventTypesDiffer DEF Clean, ForbiddenPayloadKeys, IdentityMarkerKeys
<1>5. ASSUME NEW x PROVE Clean(GameEvent("GameTerminated", NoPlayer, OneKey("winner", x)))
  <2>. PICK pl : pl = OneKey("winner", x)
    OBVIOUS
  <2>1. DOMAIN pl \cap ForbiddenPayloadKeys = {}
    BY DEF OneKey, ForbiddenPayloadKeys, IdentityMarkerKeys
  <2>. QED  BY <1>0, <2>1, EventShape, EventTypesDiffer DEF Clean
<1>. QED  BY <1>1, <1>2, <1>3, <1>4, <1>5

\* Deaths are twins whatever was revealed, messages whoever wrote them.
LEMMA DeathsAreTwins ==
    ASSUME NEW x, NEW y, DOMAIN x = {"public_player_id", "role", "faction"}, DOMAIN y = DOMAIN x,
           x["public_player_id"] = y["public_player_id"], NEW v, NEW team
    PROVE  Twins(GameEvent("PlayerEliminated", NoPlayer, x),
                 GameEvent("PlayerEliminated", NoPlayer, y), v, team)
<1>. PICK d : d = GameEvent("PlayerEliminated", NoPlayer, x)
  OBVIOUS
<1>. PICK e : e = GameEvent("PlayerEliminated", NoPlayer, y)
  OBVIOUS
<1>1. /\ d = [type |-> "PlayerEliminated", actor |-> NoPlayer, payload |-> x]
      /\ e = [type |-> "PlayerEliminated", actor |-> NoPlayer, payload |-> y]
  BY DEF GameEvent
<1>2. Plain(d) = d /\ Plain(e) = e
  BY <1>1 DEF Plain
<1>3. ASSUME NEW keys, "role" \in keys, "faction" \in keys, "public_player_id" \notin keys
      PROVE  Without(x, keys) = Without(y, keys)
  BY <1>3 DEF Without, Restrict
<1>4. Entry(d) = Entry(e)
  BY <1>1, <1>3 DEF Entry
<1>5. Censored(d, HiddenKeys) = Censored(e, HiddenKeys)
  BY <1>1, <1>3 DEF Censored, HiddenKeys, ForbiddenPayloadKeys, IdentityMarkerKeys
<1>6. \A k \in Tracks : May(k, d, v, team) <=> May(k, e, v, team)
  BY <1>1 DEF May
<1>7. ASSUME NEW k \in Tracks, May(k, d, v, team) PROVE Says(k, d) = Says(k, e)
  <2>1. k \notin {"results", "feedback"}
    BY <1>1, <1>7 DEF May
  <2>. QED  BY <2>1, <1>1, <1>2, <1>4, <1>5 DEF Says, Tracks
<1>. QED  BY <1>6, <1>7 DEF Twins

LEMMA MessagesAreTwins ==
    ASSUME NEW p, NEW u, NEW w, NEW v, NEW team
    PROVE  Twins(GameEvent("PublicMessageSubmitted", p, MessagePayload(u, p)),
                 GameEvent("PublicMessageSubmitted", p, MessagePayload(w, p)), v, team)
<1>1. ASSUME NEW x
      PROVE  Plain(GameEvent("PublicMessageSubmitted", p, MessagePayload(x, p)))
             = GameEvent("PublicMessageSubmitted", p, OneKey("text", "hello"))
  <2>1. CASE x.kind[p] = "HUMAN"
    <3>. PICK pl : pl = MessagePayload(x, p)
      OBVIOUS
    <3>1. "content_ref" \in DOMAIN pl
      BY <2>1 DEF MessagePayload
    <3>2. Plain(GameEvent("PublicMessageSubmitted", p, pl))
          = GameEvent("PublicMessageSubmitted", p, OneKey("text", "hello"))
      BY <3>1 DEF Plain, GameEvent
    <3>. QED  BY <3>2
  <2>2. CASE x.kind[p] # "HUMAN"
    BY <2>2 DEF Plain, GameEvent, MessagePayload, OneKey
  <2>. QED  BY <2>1, <2>2
<1>. QED  BY <1>1, EventShape DEF Twins, Says, May, Tracks

LEMMA OneEventIsItsTwin ==
    ASSUME NEW e, NEW v, NEW team PROVE Twins(e, e, v, team)
BY DEF Twins

\* Worlds that agree still do if what they differ in is none of the viewer's business.
LEMMA AgreeTouched ==
    ASSUME NEW u, NEW w, Agree(u, w), NEW x, NEW y,
           x.log = u.log, y.log = w.log, x.role = u.role, y.role = w.role,
           x.phase = y.phase, x.alive = y.alive, ~Anonymous => x.kind = y.kind,
           viewer # Spectator =>
              /\ x.kind[viewer] = y.kind[viewer]
              /\ x.role[viewer] = "DOCTOR" => x.lastProtected[viewer] = y.lastProtected[viewer]
    PROVE  Agree(x, y)
<1>1. Team(x, viewer) = Team(u, viewer)
  BY DEF Team, IsMafia
<1>2. Over(x) <=> Over(y)
  BY DEF Over, Agree
<1>. QED  BY <1>1, <1>2 DEF Agree

\* The step of one world keeps it in order.
LEMMA TouchedOK ==
    ASSUME NEW w, WorldOK(w), NEW x, DOMAIN x = Fields, x.log = w.log, x.role = w.role, x.shots = w.shots,
           x.kind \in [Players -> {"HUMAN", "AI", "AI_TAKEOVER"}], x.alive \subseteq Players,
           x.lastProtected \in [Players -> Target]
    PROVE  WorldOK(x)
BY DEF WorldOK

\* A step of both worlds
LEMMA AnyStep ==
    ASSUME ObservationsInv, NEW x, NEW y, WorldOK(x), WorldOK(y), Agree(x, y), DOMAIN worlds' = World,
           worlds'[1] = x, worlds'[2] = y, UNCHANGED <<viewer, identityMode>>
    PROVE  ObservationsInv'
<1>1. viewer' = viewer /\ (Anonymous' <=> Anonymous) /\ HiddenKeys' = HiddenKeys
  BY DEF Anonymous, HiddenKeys
<1>2. \A k, e : Says(k, e)' = Says(k, e)
  BY <1>1 DEF Says
<1>3. \A k, log, v, team : Track(k, log, v, team)' = Track(k, log, v, team)
  BY <1>2 DEF Track
<1>4. Agree(x, y)'
  BY <1>1, <1>3 DEF Agree
<1>. QED  BY <1>4 DEF ObservationsInv, Agree, WorldOK, Spectator

LEMMA BothStep ==
    ASSUME ObservationsInv, NEW x, NEW y, WorldOK(x), WorldOK(y), Agree(x, y),
           worlds' = [n \in World |-> IF n = 1 THEN x ELSE y], UNCHANGED <<viewer, identityMode>>
    PROVE  ObservationsInv'
<1>1. worlds'[1] = x /\ worlds'[2] = y /\ DOMAIN worlds' = World
  BY DEF World
<1>. QED  BY <1>1, AnyStep

-----------------------------------------------------------------------------
\* Views: the steps

\* A public message is shown alike, whether a human or an AI wrote it.
LEMMA SayKeepsViews ==
    ASSUME ObservationsInv, NEW p \in Players, Say(p) PROVE ObservationsInv'
<1>. PICK u, w : u = worlds[1] /\ w = worlds[2]
  OBVIOUS
<1>. PICK d : d = GameEvent("PublicMessageSubmitted", p, MessagePayload(u, p))
  OBVIOUS
<1>. PICK e : e = GameEvent("PublicMessageSubmitted", p, MessagePayload(w, p))
  OBVIOUS
<1>1. WorldOK(u) /\ WorldOK(w) /\ Agree(u, w)
  BY DEF ObservationsInv
<1>2. /\ worlds' = [n \in World |-> IF n = 1 THEN Logged(u, d) ELSE Logged(w, e)]
      /\ UNCHANGED <<viewer, identityMode>>
  BY DEF Say, Both, World
<1>3. Clean(d) /\ Clean(e) /\ d.type = e.type /\ Twins(d, e, viewer, Team(u, viewer))
  BY CleanEvents, EventShape, MessagesAreTwins
<1>4. WorldOK(Logged(u, d)) /\ WorldOK(Logged(w, e)) /\ Agree(Logged(u, d), Logged(w, e))
  BY <1>1, <1>3, BothLogged
<1>. QED  BY <1>2, <1>4, BothStep

\* So is a death, whatever role it reveals.
LEMMA EliminateKeepsViews ==
    ASSUME ObservationsInv, NEW q \in Players, NEW cleaned \in BOOLEAN, Eliminate(q, cleaned)
    PROVE  ObservationsInv'
<1>. DEFINE Death(w) == [k \in {"public_player_id", "role", "faction"} |->
                 CASE k = "public_player_id" -> q
                   [] k = "role" -> IF cleaned THEN "None" ELSE w.role[q]
                   [] OTHER -> IF cleaned THEN "None" ELSE FactionOf(w.role[q])]
<1>. PICK u, w : u = worlds[1] /\ w = worlds[2]
  OBVIOUS
<1>. PICK d : d = GameEvent("PlayerEliminated", NoPlayer, Death(u))
  OBVIOUS
<1>. PICK e : e = GameEvent("PlayerEliminated", NoPlayer, Death(w))
  OBVIOUS
<1>. PICK x, y : x = Logged(u, d) /\ y = Logged(w, e)
  OBVIOUS
<1>0. PICK x2, y2 : x2 = [x EXCEPT !.alive = @ \ {q}] /\ y2 = [y EXCEPT !.alive = @ \ {q}]
  OBVIOUS
<1>1. WorldOK(u) /\ WorldOK(w) /\ Agree(u, w)
  BY DEF ObservationsInv
<1>2. worlds' = [n \in World |-> IF n = 1 THEN x2 ELSE y2] /\ UNCHANGED <<viewer, identityMode>>
  BY <1>0 DEF Eliminate, Both, World
<1>3. /\ DOMAIN Death(u) = {"public_player_id", "role", "faction"} /\ DOMAIN Death(w) = DOMAIN Death(u)
      /\ Death(u)["public_player_id"] = Death(w)["public_player_id"]
  OBVIOUS
<1>. HIDE DEF Death
<1>4. Clean(d) /\ Clean(e) /\ d.type = e.type /\ Twins(d, e, viewer, Team(u, viewer))
  BY <1>3, CleanEvents, EventShape, DeathsAreTwins
<1>5. WorldOK(x) /\ WorldOK(y) /\ Agree(x, y)
  BY <1>1, <1>4, BothLogged
<1>6. /\ DOMAIN x2 = Fields /\ x2.alive = x.alive \ {q} /\ \A f \in Fields \ {"alive"} : x2[f] = x[f]
      /\ DOMAIN y2 = Fields /\ y2.alive = y.alive \ {q} /\ \A f \in Fields \ {"alive"} : y2[f] = y[f]
  BY <1>0, <1>5 DEF WorldOK, Fields
<1>7. /\ x2.log = x.log /\ x2.role = x.role /\ x2.kind = x.kind /\ x2.phase = x.phase
      /\ x2.lastProtected = x.lastProtected /\ x2.shots = x.shots
      /\ y2.log = y.log /\ y2.role = y.role /\ y2.kind = y.kind /\ y2.phase = y.phase
      /\ y2.lastProtected = y.lastProtected /\ y2.shots = y.shots
  BY <1>6 DEF Fields
<1>8. WorldOK(x2) /\ WorldOK(y2)
  BY <1>5, <1>6, <1>7 DEF WorldOK
<1>9. Agree(x2, y2)
  <2>1. /\ x2.phase = y2.phase /\ x2.alive = y2.alive /\ (~Anonymous => x2.kind = y2.kind)
        /\ viewer # Spectator =>
              /\ x2.kind[viewer] = y2.kind[viewer]
              /\ x2.role[viewer] = "DOCTOR" => x2.lastProtected[viewer] = y2.lastProtected[viewer]
    BY <1>5, <1>6, <1>7 DEF Agree
  <2>2. Agree(x, y) /\ x2.log = x.log /\ y2.log = y.log /\ x2.role = x.role /\ y2.role = y.role
    BY <1>5, <1>7
  <2>. QED  BY <2>1, <2>2, AgreeTouched
<1>. QED  BY <1>2, <1>8, <1>9, BothStep

\* Acting logs an event and may set what a Doctor remembers.
LEMMA ActsShape ==
    ASSUME NEW w, WorldOK(w), NEW p \in Players, NEW t, NEW pl, Clean(GameEvent(t, p, pl))
    PROVE  LET x == Logged(w, GameEvent(t, p, pl))
               z == Acts(w, p, t, pl)
           IN  /\ WorldOK(z) /\ z.log = x.log /\ z.role = x.role /\ z.kind = x.kind /\ z.phase = x.phase
               /\ z.alive = x.alive
               /\ \A q \in Players : z.lastProtected[q] =
                     IF q = p /\ t = "ProtectSubmitted" /\ w.role[p] = "DOCTOR" THEN p ELSE x.lastProtected[q]
<1>. PICK x : x = Logged(w, GameEvent(t, p, pl))
  OBVIOUS
<1>. PICK z : z = Acts(w, p, t, pl)
  OBVIOUS
<1>1. WorldOK(x)
  BY WorldLogged
<1>2. /\ DOMAIN z = Fields /\ \A f \in Fields \ {"lastProtected"} : z[f] = x[f]
      /\ z.lastProtected = [x.lastProtected EXCEPT ![p] =
            IF t = "ProtectSubmitted" /\ w.role[p] = "DOCTOR" THEN p ELSE @]
  BY <1>1 DEF Acts, WorldOK, Fields
<1>3. /\ z.log = x.log /\ z.role = x.role /\ z.kind = x.kind /\ z.phase = x.phase /\ z.alive = x.alive
      /\ z.shots = x.shots
  BY <1>2 DEF Fields
<1>4. p \in Target /\ x.lastProtected \in [Players -> Target]
  BY <1>1 DEF WorldOK, Target
<1>5. z.lastProtected \in [Players -> Target]
  BY <1>2, <1>4
<1>6. WorldOK(z)
  BY <1>1, <1>2, <1>3, <1>5 DEF WorldOK
<1>7. \A q \in Players : z.lastProtected[q] =
        IF q = p /\ t = "ProtectSubmitted" /\ w.role[p] = "DOCTOR" THEN p ELSE x.lastProtected[q]
  BY <1>2, <1>4
<1>. QED  BY <1>3, <1>6, <1>7

\* A seat of the viewer's team acts: the viewer sees it in both worlds.
LEMMA ActWithViewerKeepsViews ==
    ASSUME ObservationsInv, NEW p \in Players, NEW t \in PrivateTypes, ActWithViewer(p, t)
    PROVE  ObservationsInv'
<1>. PICK u, w : u = worlds[1] /\ w = worlds[2]
  OBVIOUS
<1>. PICK pl : pl = OneKey("target", NoPlayer)
  OBVIOUS
<1>. PICK e : e = GameEvent(t, p, pl)
  OBVIOUS
<1>. PICK x, y : x = Logged(u, e) /\ y = Logged(w, e)
  OBVIOUS
<1>. PICK x2, y2 : x2 = Acts(u, p, t, pl) /\ y2 = Acts(w, p, t, pl)
  OBVIOUS
<1>1. WorldOK(u) /\ WorldOK(w) /\ Agree(u, w) /\ viewer \in Players \cup {Spectator}
  BY DEF ObservationsInv
<1>2. worlds' = [n \in World |-> IF n = 1 THEN x2 ELSE y2] /\ UNCHANGED <<viewer, identityMode>>
  BY DEF ActWithViewer, Both, World
<1>3. Clean(e) /\ Twins(e, e, viewer, Team(u, viewer))
  BY CleanEvents, OneEventIsItsTwin
<1>4. WorldOK(x) /\ WorldOK(y) /\ Agree(x, y)
  BY <1>1, <1>3, BothLogged
<1>5. /\ WorldOK(x2) /\ x2.log = x.log /\ x2.role = x.role /\ x2.kind = x.kind /\ x2.phase = x.phase
      /\ x2.alive = x.alive
      /\ \A q \in Players : x2.lastProtected[q] =
            IF q = p /\ t = "ProtectSubmitted" /\ u.role[p] = "DOCTOR" THEN p ELSE x.lastProtected[q]
  BY <1>1, <1>3, ActsShape
<1>6. /\ WorldOK(y2) /\ y2.log = y.log /\ y2.role = y.role /\ y2.kind = y.kind /\ y2.phase = y.phase
      /\ y2.alive = y.alive
      /\ \A q \in Players : y2.lastProtected[q] =
            IF q = p /\ t = "ProtectSubmitted" /\ w.role[p] = "DOCTOR" THEN p ELSE y.lastProtected[q]
  BY <1>1, <1>3, ActsShape
<1>7. viewer # Spectator =>
        (x2.role[viewer] = "DOCTOR" => x2.lastProtected[viewer] = y2.lastProtected[viewer])
  <2>0. \A f \in Fields \ {"log"} : x[f] = u[f] /\ y[f] = w[f]
    BY <1>1, <1>3, WorldLogged
  <2>1. x.role = u.role /\ y.role = w.role
    BY <2>0 DEF Fields
  <2>. SUFFICES ASSUME viewer \in Players, viewer # Spectator, x2.role[viewer] = "DOCTOR"
                PROVE  x2.lastProtected[viewer] = y2.lastProtected[viewer]
    BY <1>1
  <2>2. u.role[viewer] = w.role[viewer] /\ u.role[viewer] = "DOCTOR"
    BY <1>1, <1>5, <2>1 DEF Agree, Alike
  <2>3. x.lastProtected[viewer] = y.lastProtected[viewer]
    BY <1>4, <2>1, <2>2 DEF Agree
  <2>4. /\ x2.lastProtected[viewer] =
              IF viewer = p /\ t = "ProtectSubmitted" /\ u.role[p] = "DOCTOR" THEN p ELSE x.lastProtected[viewer]
        /\ y2.lastProtected[viewer] =
              IF viewer = p /\ t = "ProtectSubmitted" /\ w.role[p] = "DOCTOR" THEN p ELSE y.lastProtected[viewer]
    BY <1>5, <1>6
  <2>. QED  BY <2>2, <2>3, <2>4
<1>8. Agree(x2, y2)
  <2>1. /\ x2.phase = y2.phase /\ x2.alive = y2.alive /\ (~Anonymous => x2.kind = y2.kind)
        /\ viewer # Spectator => x2.kind[viewer] = y2.kind[viewer]
    BY <1>4, <1>5, <1>6 DEF Agree
  <2>. QED  BY <1>4, <1>5, <1>6, <1>7, <2>1, AgreeTouched
<1>. QED  BY <1>2, <1>5, <1>6, <1>8, BothStep

\* A step of the first world alone
LEMMA OneStep ==
    ASSUME ObservationsInv, NEW x, WorldOK(x), Agree(x, worlds[2]),
           worlds' = [worlds EXCEPT ![1] = x], UNCHANGED <<viewer, identityMode>>
    PROVE  ObservationsInv'
<1>1. worlds' = [n \in World |-> IF n = 1 THEN x ELSE worlds[2]]
  BY DEF ObservationsInv, World
<1>2. WorldOK(worlds[2])
  BY DEF ObservationsInv
<1>. QED  BY <1>1, <1>2, BothStep

\* What the others do in private, and whose call times out, the viewer does not see.
LEMMA ActInSecretKeepsViews ==
    ASSUME ObservationsInv, NEW p \in Players, NEW t \in PrivateTypes \cup {"ActionTimedOut"},
           ActInSecret(p, t)
    PROVE  ObservationsInv'
<1>. PICK u, w : u = worlds[1] /\ w = worlds[2]
  OBVIOUS
<1>. PICK pl : pl = OneKey("target", p)
  OBVIOUS
<1>. PICK e : e = GameEvent(t, p, pl)
  OBVIOUS
<1>. PICK x : x = Logged(u, e)
  OBVIOUS
<1>. PICK x2 : x2 = Acts(u, p, t, pl)
  OBVIOUS
<1>1. WorldOK(u) /\ WorldOK(w) /\ Agree(u, w) /\ viewer \in Players \cup {Spectator}
  BY DEF ObservationsInv
<1>2. /\ worlds' = [worlds EXCEPT ![1] = x2] /\ UNCHANGED <<viewer, identityMode>>
      /\ viewer # Spectator /\ t # "ActionTimedOut" => p \notin Team(u, viewer)
  BY DEF ActInSecret, Secretly
<1>3. Clean(e) /\ e.type = t /\ e.actor = p
  BY CleanEvents, EventShape DEF SystemTypes
<1>4. /\ t \notin PublicTypes /\ t # "PlayerEliminated" /\ t # "GameTerminated" /\ VisibilityOf(t) # "PUBLIC"
      /\ t = "ActionTimedOut" => VisibilityOf(t) = "SYSTEM"
  BY EventTypesDiffer DEF PrivateTypes, PublicTypes, SystemTypes
<1>5. viewer # Spectator => viewer \in Team(u, viewer)
  BY <1>1 DEF Team
<1>6. ASSUME NEW k \in Tracks, viewer # Spectator \/ k = "spectator", May(k, e, viewer, Team(u, viewer))
      PROVE  FALSE
  BY <1>2, <1>3, <1>4, <1>5, <1>6 DEF May, Tracks
<1>7. WorldOK(x) /\ Agree(x, w)
  BY <1>1, <1>3, <1>4, <1>6, OneLogged
<1>8. /\ WorldOK(x2) /\ x2.log = x.log /\ x2.role = x.role /\ x2.kind = x.kind /\ x2.phase = x.phase
      /\ x2.alive = x.alive
      /\ \A q \in Players : x2.lastProtected[q] =
            IF q = p /\ t = "ProtectSubmitted" /\ u.role[p] = "DOCTOR" THEN p ELSE x.lastProtected[q]
  BY <1>1, <1>3, ActsShape
<1>9. viewer # Spectator => x2.lastProtected[viewer] = x.lastProtected[viewer]
  BY <1>1, <1>2, <1>5, <1>8
<1>10. Agree(x2, w)
  <2>1. /\ x2.phase = w.phase /\ x2.alive = w.alive /\ (~Anonymous => x2.kind = w.kind)
        /\ viewer # Spectator =>
              /\ x2.kind[viewer] = w.kind[viewer]
              /\ x2.role[viewer] = "DOCTOR" => x2.lastProtected[viewer] = w.lastProtected[viewer]
    BY <1>7, <1>8, <1>9 DEF Agree
  <2>. QED  BY <1>7, <1>8, <2>1, AgreeTouched
<1>. QED  BY <1>2, <1>8, <1>10, OneStep

\* A take-over is a step of both worlds, or of the first when the viewer may not know of it.
LEMMA TakenOverShape ==
    ASSUME NEW w, WorldOK(w), NEW p \in Players
    PROVE  LET e == GameEvent("SeatTakenOver", p, OneKey("seat_kind", "AI_TAKEOVER"))
               x == Logged(w, e)
               z == TakenOver(w, p)
           IN  /\ Clean(e) /\ WorldOK(x) /\ WorldOK(z)
               /\ z.log = x.log /\ z.role = x.role /\ z.phase = x.phase /\ z.alive = x.alive
               /\ z.lastProtected = x.lastProtected
               /\ z.kind[p] = "AI_TAKEOVER" /\ \A q \in Players \ {p} : z.kind[q] = x.kind[q]
<1>. PICK e : e = GameEvent("SeatTakenOver", p, OneKey("seat_kind", "AI_TAKEOVER"))
  OBVIOUS
<1>. PICK x : x = Logged(w, e)
  OBVIOUS
<1>. PICK z : z = TakenOver(w, p)
  OBVIOUS
<1>1. Clean(e)
  BY CleanEvents DEF SystemTypes
<1>2. WorldOK(x)
  BY <1>1, WorldLogged
<1>3. /\ DOMAIN z = Fields /\ \A f \in Fields \ {"kind"} : z[f] = x[f]
      /\ z.kind = [x.kind EXCEPT ![p] = "AI_TAKEOVER"]
  BY <1>2 DEF TakenOver, WorldOK, Fields
<1>4. /\ z.log = x.log /\ z.role = x.role /\ z.phase = x.phase /\ z.alive = x.alive
      /\ z.lastProtected = x.lastProtected /\ z.shots = x.shots
  BY <1>3 DEF Fields
<1>5. z.kind \in [Players -> {"HUMAN", "AI", "AI_TAKEOVER"}]
  BY <1>2, <1>3 DEF WorldOK
<1>6. WorldOK(z)
  BY <1>2, <1>3, <1>4, <1>5 DEF WorldOK
<1>7. z.kind[p] = "AI_TAKEOVER" /\ \A q \in Players \ {p} : z.kind[q] = x.kind[q]
  BY <1>2, <1>3 DEF WorldOK
<1>. QED  BY <1>1, <1>2, <1>4, <1>6, <1>7

LEMMA TakeOverKeepsViews ==
    ASSUME ObservationsInv, NEW p \in Players, TakeOver(p) PROVE ObservationsInv'
<1>. PICK u, w : u = worlds[1] /\ w = worlds[2]
  OBVIOUS
<1>. PICK e : e = GameEvent("SeatTakenOver", p, OneKey("seat_kind", "AI_TAKEOVER"))
  OBVIOUS
<1>. PICK x, y : x = Logged(u, e) /\ y = Logged(w, e)
  OBVIOUS
<1>. PICK x2, y2 : x2 = TakenOver(u, p) /\ y2 = TakenOver(w, p)
  OBVIOUS
<1>1. WorldOK(u) /\ WorldOK(w) /\ Agree(u, w) /\ viewer \in Players \cup {Spectator}
  BY DEF ObservationsInv
<1>2. /\ Clean(e) /\ WorldOK(x) /\ WorldOK(x2)
      /\ x2.log = x.log /\ x2.role = x.role /\ x2.phase = x.phase /\ x2.alive = x.alive
      /\ x2.lastProtected = x.lastProtected
      /\ x2.kind[p] = "AI_TAKEOVER" /\ \A q \in Players \ {p} : x2.kind[q] = x.kind[q]
  <2>1. Clean(e) /\ WorldOK(x) /\ WorldOK(x2)
    BY <1>1, TakenOverShape
  <2>2. x2.log = x.log /\ x2.role = x.role /\ x2.phase = x.phase /\ x2.alive = x.alive
    BY <1>1, TakenOverShape
  <2>3. x2.lastProtected = x.lastProtected /\ x2.kind[p] = "AI_TAKEOVER"
    BY <1>1, TakenOverShape
  <2>4. \A q \in Players \ {p} : x2.kind[q] = x.kind[q]
    BY <1>1, TakenOverShape
  <2>. QED  BY <2>1, <2>2, <2>3, <2>4
<1>3. /\ WorldOK(y) /\ WorldOK(y2)
      /\ y2.log = y.log /\ y2.role = y.role /\ y2.phase = y.phase /\ y2.alive = y.alive
      /\ y2.lastProtected = y.lastProtected
      /\ y2.kind[p] = "AI_TAKEOVER" /\ \A q \in Players \ {p} : y2.kind[q] = y.kind[q]
  <2>1. WorldOK(y) /\ WorldOK(y2)
    BY <1>1, TakenOverShape
  <2>2. y2.log = y.log /\ y2.role = y.role /\ y2.phase = y.phase /\ y2.alive = y.alive
    BY <1>1, TakenOverShape
  <2>3. y2.lastProtected = y.lastProtected /\ y2.kind[p] = "AI_TAKEOVER"
    BY <1>1, TakenOverShape
  <2>4. \A q \in Players \ {p} : y2.kind[q] = y.kind[q]
    BY <1>1, TakenOverShape
  <2>. QED  BY <2>1, <2>2, <2>3, <2>4
<1>4. /\ x2.kind \in [Players -> {"HUMAN", "AI", "AI_TAKEOVER"}]
      /\ y2.kind \in [Players -> {"HUMAN", "AI", "AI_TAKEOVER"}]
  BY <1>2, <1>3 DEF WorldOK
<1>5. CASE p = viewer \/ ~Anonymous
  <2>1. worlds' = [n \in World |-> IF n = 1 THEN x2 ELSE y2] /\ UNCHANGED <<viewer, identityMode>>
    BY <1>5 DEF TakeOver, Both, World
  <2>2. Agree(x, y)
    BY <1>1, <1>2, OneEventIsItsTwin, BothLogged
  <2>3. /\ viewer # Spectator => x.kind[viewer] = y.kind[viewer] /\ viewer \in Players
        /\ ~Anonymous => x.kind = y.kind
    BY <1>1, <2>2 DEF Agree
  <2>4. /\ viewer # Spectator => x2.kind[viewer] = y2.kind[viewer]
        /\ ~Anonymous => x2.kind = y2.kind
    BY <1>2, <1>3, <1>4, <2>3
  <2>5. /\ x2.phase = y2.phase /\ x2.alive = y2.alive
        /\ viewer # Spectator =>
              (x2.role[viewer] = "DOCTOR" => x2.lastProtected[viewer] = y2.lastProtected[viewer])
    BY <1>2, <1>3, <2>2 DEF Agree
  <2>6. Agree(x2, y2)
    BY <1>2, <1>3, <2>2, <2>4, <2>5, AgreeTouched
  <2>. QED  BY <1>2, <1>3, <2>1, <2>6, BothStep
<1>6. CASE ~(p = viewer \/ ~Anonymous)
  <2>1. worlds' = [worlds EXCEPT ![1] = x2] /\ UNCHANGED <<viewer, identityMode>>
    BY <1>6 DEF TakeOver, Secretly
  <2>2. e.type = "SeatTakenOver" /\ VisibilityOf("SeatTakenOver") = "SYSTEM"
    BY EventShape, EventTypesDiffer DEF SystemTypes
  <2>3. \A k \in Tracks : ~May(k, e, viewer, Team(u, viewer))
    BY <2>2 DEF May, Tracks
  <2>4. Agree(x, w)
    BY <1>1, <1>2, <2>2, <2>3, OneLogged
  <2>5. viewer # Spectator => x2.kind[viewer] = w.kind[viewer]
    BY <1>1, <1>2, <1>4, <1>6, <2>4 DEF Agree
  <2>6. /\ x2.phase = w.phase /\ x2.alive = w.alive
        /\ viewer # Spectator =>
              (x2.role[viewer] = "DOCTOR" => x2.lastProtected[viewer] = w.lastProtected[viewer])
    BY <1>2, <2>4 DEF Agree
  <2>7. Agree(x2, w)
    BY <1>2, <1>6, <2>4, <2>5, <2>6, AgreeTouched
  <2>. QED  BY <1>2, <2>1, <2>7, OneStep
<1>. QED  BY <1>5, <1>6

LEMMA EnterPhaseKeepsViews ==
    ASSUME ObservationsInv, NEW kind, EnterPhase(kind) PROVE ObservationsInv'
<1>. PICK u, w : u = worlds[1] /\ w = worlds[2]
  OBVIOUS
<1>. PICK e : e = GameEvent("PhaseStarted", NoPlayer, OneKey("phase_kind", kind))
  OBVIOUS
<1>. PICK x, y : x = Logged(u, e) /\ y = Logged(w, e)
  OBVIOUS
<1>0. PICK x2, y2 : /\ x2 = [x EXCEPT !.phase = Phase(kind, 1, 0)]
                    /\ y2 = [y EXCEPT !.phase = Phase(kind, 1, 0)]
  OBVIOUS
<1>1. WorldOK(u) /\ WorldOK(w) /\ Agree(u, w)
  BY DEF ObservationsInv
<1>2. worlds' = [n \in World |-> IF n = 1 THEN x2 ELSE y2] /\ UNCHANGED <<viewer, identityMode>>
  BY <1>0 DEF EnterPhase, Both, World
<1>3. Clean(e)
  BY CleanEvents DEF SystemTypes
<1>4. WorldOK(x) /\ WorldOK(y) /\ Agree(x, y)
  BY <1>1, <1>3, OneEventIsItsTwin, BothLogged
<1>5. /\ DOMAIN x2 = Fields /\ x2.phase = Phase(kind, 1, 0) /\ \A f \in Fields \ {"phase"} : x2[f] = x[f]
      /\ DOMAIN y2 = Fields /\ y2.phase = Phase(kind, 1, 0) /\ \A f \in Fields \ {"phase"} : y2[f] = y[f]
  BY <1>0, <1>4 DEF WorldOK, Fields
<1>6. /\ x2.log = x.log /\ x2.role = x.role /\ x2.kind = x.kind /\ x2.alive = x.alive
      /\ x2.lastProtected = x.lastProtected /\ x2.shots = x.shots
      /\ y2.log = y.log /\ y2.role = y.role /\ y2.kind = y.kind /\ y2.alive = y.alive
      /\ y2.lastProtected = y.lastProtected /\ y2.shots = y.shots
  BY <1>5 DEF Fields
<1>7. WorldOK(x2) /\ WorldOK(y2)
  BY <1>4, <1>5, <1>6 DEF WorldOK
<1>8. Agree(x2, y2)
  <2>1. /\ x2.phase = y2.phase /\ x2.alive = y2.alive /\ (~Anonymous => x2.kind = y2.kind)
        /\ viewer # Spectator =>
              /\ x2.kind[viewer] = y2.kind[viewer]
              /\ x2.role[viewer] = "DOCTOR" => x2.lastProtected[viewer] = y2.lastProtected[viewer]
    BY <1>4, <1>5, <1>6 DEF Agree
  <2>2. Agree(x, y) /\ x2.log = x.log /\ y2.log = y.log /\ x2.role = x.role /\ y2.role = y.role
    BY <1>4, <1>6
  <2>. QED  BY <2>1, <2>2, AgreeTouched
<1>. QED  BY <1>2, <1>7, <1>8, BothStep

LEMMA EndGameKeepsViews ==
    ASSUME ObservationsInv, EndGame PROVE ObservationsInv'
<1>. PICK u, w : u = worlds[1] /\ w = worlds[2]
  OBVIOUS
<1>. PICK e : e = GameEvent("GameTerminated", NoPlayer, OneKey("winner", "TOWN"))
  OBVIOUS
<1>1. WorldOK(u) /\ WorldOK(w) /\ Agree(u, w)
  BY DEF ObservationsInv
<1>2. /\ worlds' = [n \in World |-> IF n = 1 THEN Logged(u, e) ELSE Logged(w, e)]
      /\ UNCHANGED <<viewer, identityMode>>
  BY DEF EndGame, Both, World
<1>3. Clean(e)
  BY CleanEvents
<1>4. WorldOK(Logged(u, e)) /\ WorldOK(Logged(w, e)) /\ Agree(Logged(u, e), Logged(w, e))
  BY <1>1, <1>3, OneEventIsItsTwin, BothLogged
<1>. QED  BY <1>2, <1>4, BothStep

\* The worlds at the start
LEMMA StartOK ==
    ASSUME NEW cast \in Casts, NEW human
    PROVE  /\ WorldOK(StartOf(cast, human)) /\ ~Over(StartOf(cast, human))
           /\ \A v, team : \A k \in Tracks :
                 LET f == Track(k, StartOf(cast, human).log, v, team)
                 IN  DOMAIN f = {} /\ Listed(f) = {}
<1>. PICK e : e = GameEvent("RolesAssigned", NoPlayer, OneKey("role", cast))
  OBVIOUS
<1>. PICK w : w = StartOf(cast, human)
  OBVIOUS
<1>1. cast \in [Players -> Role]
  BY CastsAssumption
<1>2. /\ w.role = cast /\ w.kind = [p \in Players |-> IF p = human THEN "HUMAN" ELSE "AI"]
      /\ w.alive = Players /\ w.lastProtected = [p \in Players |-> NoPlayer]
      /\ w.shots = [p \in Players |-> 1] /\ w.log = <<e>> /\ DOMAIN w = Fields
  BY DEF StartOf, Fields
<1>3. IsLog(w.log) /\ DOMAIN w.log = {1} /\ w.log[1] = e
  <2>1. <<e>> \in Seq({e}) /\ DOMAIN <<e>> = {1} /\ <<e>>[1] = e
    OBVIOUS
  <2>. QED  BY <1>2, <2>1 DEF IsLog
<1>4. Clean(e) /\ e.type = "RolesAssigned" /\ VisibilityOf("RolesAssigned") = "SYSTEM"
  BY CleanEvents, EventShape, EventTypesDiffer DEF SystemTypes
<1>5. WorldOK(w)
  <2>1. /\ w.role \in [Players -> Role] /\ w.kind \in [Players -> {"HUMAN", "AI", "AI_TAKEOVER"}]
        /\ w.alive \subseteq Players /\ w.lastProtected \in [Players -> Target]
    BY <1>1, <1>2 DEF Target
  <2>. QED  BY <1>2, <1>3, <1>4, <2>1 DEF WorldOK
<1>6. ~Over(w)
  BY <1>3, <1>4 DEF Over
<1>7. ASSUME NEW k \in Tracks, NEW v, NEW team
      PROVE  DOMAIN Track(k, w.log, v, team) = {} /\ Listed(Track(k, w.log, v, team)) = {}
  <2>1. ~May(k, e, v, team)
    BY <1>4 DEF May, Tracks
  <2>2. DOMAIN Track(k, w.log, v, team) = {}
    BY <1>3, <2>1 DEF Track
  <2>. QED  BY <2>2 DEF Listed
<1>. QED  BY <1>5, <1>6, <1>7

LEMMA ViewsInit ==
    ASSUME ObservationsInit PROVE ObservationsInv
<1>1. PICK one \in Casts, two \in Casts, human \in Humans \cup {NoPlayer}, other \in Humans \cup {NoPlayer} :
          /\ Alike(one, two, viewer)
          /\ identityMode = "TRANSPARENT" => human = other
          /\ viewer # Spectator => (human = viewer <=> other = viewer)
          /\ worlds = <<StartOf(one, human), StartOf(two, other)>>
  BY DEF ObservationsInit
<1>. PICK u, w : u = StartOf(one, human) /\ w = StartOf(two, other)
  OBVIOUS
<1>2. DOMAIN worlds = World /\ worlds[1] = u /\ worlds[2] = w
  BY <1>1 DEF World
<1>3. WorldOK(u) /\ WorldOK(w) /\ ~Over(u) /\ ~Over(w)
  BY StartOK
<1>4. /\ u.role = one /\ u.kind = [p \in Players |-> IF p = human THEN "HUMAN" ELSE "AI"]
      /\ u.alive = Players /\ u.lastProtected = [p \in Players |-> NoPlayer]
      /\ w.role = two /\ w.kind = [p \in Players |-> IF p = other THEN "HUMAN" ELSE "AI"]
      /\ w.alive = Players /\ w.lastProtected = [p \in Players |-> NoPlayer]
      /\ u.phase = w.phase
  BY DEF StartOf
<1>5. viewer \in Players \cup {Spectator}
  BY DEF ObservationsInit
<1>6. ASSUME NEW k \in Tracks, NEW team
      PROVE  Same(Track(k, u.log, viewer, team), Track(k, w.log, viewer, team))
  <2>1. /\ DOMAIN Track(k, u.log, viewer, team) = {} /\ Listed(Track(k, u.log, viewer, team)) = {}
        /\ DOMAIN Track(k, w.log, viewer, team) = {} /\ Listed(Track(k, w.log, viewer, team)) = {}
    BY StartOK
  <2>. QED  BY <2>1, FS_EmptySet DEF Same
<1>7. /\ viewer # Spectator =>
            u.kind[viewer] = w.kind[viewer] /\ u.lastProtected[viewer] = w.lastProtected[viewer]
      /\ ~Anonymous => u.kind = w.kind
  BY <1>1, <1>4, <1>5 DEF Anonymous
<1>8. Agree(u, w)
  BY <1>1, <1>3, <1>4, <1>6, <1>7 DEF Agree
<1>. QED  BY <1>2, <1>3, <1>5, <1>8 DEF ObservationsInv

LEMMA ViewsStep ==
    ASSUME ObservationsInv, [ObservationsNext]_observationVars PROVE ObservationsInv'
<1>1. CASE ObservationsNext
  <2>1. ASSUME NEW p \in Players, Say(p) PROVE ObservationsInv'
    BY <2>1, SayKeepsViews
  <2>2. ASSUME NEW q \in Players, NEW cleaned \in BOOLEAN, Eliminate(q, cleaned) PROVE ObservationsInv'
    BY <2>2, EliminateKeepsViews
  <2>3. ASSUME NEW p \in Players, NEW t \in PrivateTypes, ActWithViewer(p, t) PROVE ObservationsInv'
    BY <2>3, ActWithViewerKeepsViews
  <2>4. ASSUME NEW p \in Players, NEW t \in PrivateTypes \cup {"ActionTimedOut"}, ActInSecret(p, t)
        PROVE  ObservationsInv'
    BY <2>4, ActInSecretKeepsViews
  <2>5. ASSUME NEW p \in Players, TakeOver(p) PROVE ObservationsInv'
    BY <2>5, TakeOverKeepsViews
  <2>6. ASSUME NEW kind \in {"NIGHT_MAFIA_DISCUSSION", "NIGHT_ACTIONS"}, EnterPhase(kind)
        PROVE  ObservationsInv'
    BY <2>6, EnterPhaseKeepsViews
  <2>7. CASE EndGame
    BY <2>7, EndGameKeepsViews
  <2>. QED  BY <1>1, <2>1, <2>2, <2>3, <2>4, <2>5, <2>6, <2>7 DEF ObservationsNext
<1>2. CASE UNCHANGED observationVars
  <2>1. viewer' = viewer /\ identityMode' = identityMode /\ worlds' = worlds
    BY <1>2 DEF observationVars
  <2>2. /\ DOMAIN worlds = World
        /\ WorldOK(worlds[1]) /\ WorldOK(worlds[2]) /\ Agree(worlds[1], worlds[2])
    BY DEF ObservationsInv
  <2>. QED  BY <2>1, <2>2, AnyStep
<1>. QED  BY <1>1, <1>2

\* What the two worlds share is never lost: the phase, the living, what the viewer knows of the
\* cast, its own seat, and each list that its views are made of.
THEOREM ViewsKeepTheirInvariant == ObservationsSpec => []ObservationsInv
<1>. QED  BY ViewsInit, ViewsStep, PTL DEF ObservationsSpec

-----------------------------------------------------------------------------
\* Views: what agreeing worlds show

\* Storing the text of a message touches neither its type nor its author.
LEMMA PlainShape ==
    ASSUME NEW e, Clean(e)
    PROVE  Plain(e).type = e.type /\ Plain(e).actor = e.actor
BY DEF Clean, Plain

LEMMA UnmarkedShape ==
    ASSUME NEW w, WorldOK(w), NEW x, x = Unmarked(w)
    PROVE  /\ x.role = w.role /\ x.kind = w.kind /\ x.alive = w.alive /\ x.phase = w.phase
           /\ x.lastProtected = w.lastProtected /\ x.shots = w.shots
           /\ DOMAIN x.log = DOMAIN w.log
           /\ \A i \in DOMAIN w.log : /\ x.log[i] = Plain(w.log[i])
                                       /\ x.log[i].type = w.log[i].type /\ x.log[i].actor = w.log[i].actor
           /\ Over(x) <=> Over(w)
<1>0. x = [w EXCEPT !.log = [i \in DOMAIN w.log |-> Plain(w.log[i])]]
  BY DEF Unmarked
<1>1. /\ x.log = [i \in DOMAIN w.log |-> Plain(w.log[i])]
      /\ \A f \in Fields \ {"log"} : x[f] = w[f]
  BY <1>0 DEF WorldOK, Fields
<1>2. /\ x.role = w.role /\ x.kind = w.kind /\ x.alive = w.alive /\ x.phase = w.phase
      /\ x.lastProtected = w.lastProtected /\ x.shots = w.shots
  BY <1>1 DEF Fields
<1>3. /\ DOMAIN x.log = DOMAIN w.log
      /\ \A i \in DOMAIN w.log : x.log[i] = Plain(w.log[i])
  BY <1>1
<1>4. \A i \in DOMAIN w.log : x.log[i].type = w.log[i].type /\ x.log[i].actor = w.log[i].actor
  BY <1>3, PlainShape DEF WorldOK
<1>5. Over(x) <=> Over(w)
  BY <1>3, <1>4 DEF Over
<1>. QED  BY <1>2, <1>3, <1>4, <1>5

\* Each list that a view is made of is one of the tracks.
LEMMA ViewsAreTracks ==
    ASSUME NEW w, WorldOK(w), NEW v, NEW x, x = Unmarked(w)
    PROVE  LET track(k) == Track(k, w.log, v, Team(w, v))
           IN  /\ AsEntries(x, Public(x)) = Listed(track("public")) /\ Public(x) = DOMAIN track("public")
               /\ SpectatorView(x) = Listed(track("spectator"))
               /\ v \in Players => PrivateEvents(x, v) = Listed(track("private"))
               /\ DeadPlayers(x) = Listed(track("deaths"))
               /\ Own(x, v, "DetectiveResultDelivered") = Listed(track("results"))
               /\ RoleFeedback(x, v) = Listed(track("feedback"))
<1>. PICK team : team = Team(w, v)
  OBVIOUS
<1>1. /\ x.role = w.role /\ DOMAIN x.log = DOMAIN w.log
      /\ \A i \in DOMAIN w.log : /\ x.log[i] = Plain(w.log[i])
                                  /\ x.log[i].type = w.log[i].type /\ x.log[i].actor = w.log[i].actor
  BY UnmarkedShape
<1>3. Public(x) = {i \in DOMAIN w.log : VisibilityOf(w.log[i].type) = "PUBLIC"}
  BY <1>1 DEF Public
<1>4. /\ AsEntries(x, Public(x)) = Listed(Track("public", w.log, v, team))
      /\ Public(x) = DOMAIN Track("public", w.log, v, team)
  <2>1. Public(x) = {i \in DOMAIN w.log : May("public", w.log[i], v, team)}
    BY <1>3 DEF May
  <2>2. \A i \in Public(x) : Hydrated(Entry(x.log[i])) = Says("public", w.log[i])
    BY <1>1, <1>3 DEF Says
  <2>3. [i \in Public(x) |-> Hydrated(Entry(x.log[i]))] = Track("public", w.log, v, team)
    BY <2>1, <2>2 DEF Track
  <2>4. Public(x) = DOMAIN Track("public", w.log, v, team)
    BY <2>1 DEF Track
  <2>. QED  BY <2>3, <2>4 DEF AsEntries
<1>5. SpectatorView(x) = Listed(Track("spectator", w.log, v, team))
  <2>1. Public(x) = {i \in DOMAIN w.log : May("spectator", w.log[i], v, team)}
    BY <1>3 DEF May
  <2>2. \A i \in Public(x) : Censored(x.log[i], HiddenKeys) = Says("spectator", w.log[i])
    BY <1>1, <1>3 DEF Says
  <2>3. [i \in Public(x) |-> Censored(x.log[i], HiddenKeys)] = Track("spectator", w.log, v, team)
    BY <2>1, <2>2 DEF Track
  <2>4. SpectatorView(x) = Listed([i \in Public(x) |-> Censored(x.log[i], HiddenKeys)])
    BY DEF SpectatorView, Censored, HiddenKeys
  <2>. QED  BY <2>3, <2>4
<1>6. ASSUME v \in Players PROVE PrivateEvents(x, v) = Listed(Track("private", w.log, v, team))
  <2>1. \A q : IsMafia(x, q) <=> IsMafia(w, q)
    BY <1>1 DEF IsMafia
  <2>2. \A i \in DOMAIN w.log : VisibilityOf(w.log[i].type) = "PRIVATE" => w.log[i].actor \in Players
    BY DEF WorldOK, Clean
  <2>3. \A q \in Players : q \in team <=> q = v \/ (IsMafia(w, v) /\ IsMafia(w, q))
    BY <1>6 DEF Team
  <2>4. \A i \in DOMAIN w.log : VisibilityOf(w.log[i].type) = "PRIVATE" =>
           (w.log[i].actor \in team
            <=> x.log[i].actor = v \/ (IsMafia(x, v) /\ IsMafia(x, x.log[i].actor)))
    BY <1>1, <2>1, <2>2, <2>3
  <2>5. Private(x, v) =
          {i \in DOMAIN w.log : VisibilityOf(w.log[i].type) = "PRIVATE" /\ w.log[i].actor \in team}
    BY <1>1, <2>4 DEF Private
  <2>6. Private(x, v) = {i \in DOMAIN w.log : May("private", w.log[i], v, team)}
    BY <2>5 DEF May
  <2>7. \A i \in Private(x, v) : Hydrated(Entry(x.log[i])) = Says("private", w.log[i])
    BY <1>1, <2>5 DEF Says
  <2>8. [i \in Private(x, v) |-> Hydrated(Entry(x.log[i]))] = Track("private", w.log, v, team)
    BY <2>6, <2>7 DEF Track
  <2>. QED  BY <2>8 DEF PrivateEvents, AsEntries
<1>7. DeadPlayers(x) = Listed(Track("deaths", w.log, v, team))
  <2>. PICK deaths : deaths = {i \in DOMAIN x.log : x.log[i].type = "PlayerEliminated"}
    OBVIOUS
  <2>1. deaths = {i \in DOMAIN w.log : w.log[i].type = "PlayerEliminated"}
    BY <1>1
  <2>2. deaths = {i \in DOMAIN w.log : May("deaths", w.log[i], v, team)}
    BY <2>1 DEF May
  <2>3. \A i \in deaths : x.log[i].payload["public_player_id"] = Says("deaths", w.log[i])
    BY <1>1, <2>1 DEF Says
  <2>4. [i \in deaths |-> x.log[i].payload["public_player_id"]] = Track("deaths", w.log, v, team)
    BY <2>2, <2>3 DEF Track
  <2>. QED  BY <2>4 DEF DeadPlayers
<1>8. ASSUME NEW k \in {"results", "feedback"}, NEW type,
             type = IF k = "results" THEN "DetectiveResultDelivered" ELSE "NightFeedbackDelivered"
      PROVE  Own(x, v, type) = Listed(Track(k, w.log, v, team))
  <2>. PICK own : own = {i \in DOMAIN x.log : x.log[i].type = type /\ x.log[i].actor = v}
    OBVIOUS
  <2>1. own = {i \in DOMAIN w.log : w.log[i].type = type /\ w.log[i].actor = v}
    BY <1>1
  <2>2. \A i \in DOMAIN w.log : May(k, w.log[i], v, team) <=> w.log[i].type = type /\ w.log[i].actor = v
    BY <1>8 DEF May
  <2>3. own = {i \in DOMAIN w.log : May(k, w.log[i], v, team)}
    BY <2>1, <2>2
  <2>4. \A i \in own : x.log[i] = Says(k, w.log[i])
    BY <1>1, <1>8, <2>1 DEF Says
  <2>5. [i \in own |-> x.log[i]] = Track(k, w.log, v, team)
    BY <2>3, <2>4 DEF Track
  <2>. QED  BY <2>5 DEF Own
<1>9. Own(x, v, "DetectiveResultDelivered") = Listed(Track("results", w.log, v, team))
      /\ RoleFeedback(x, v) = Listed(Track("feedback", w.log, v, team))
  BY <1>8 DEF RoleFeedback
<1>. QED  BY <1>4, <1>5, <1>6, <1>7, <1>9

\* What a seat may do depends on what it knows.
LEMMA ActionsAlike ==
    ASSUME NEW u, NEW w, NEW p \in Players, WorldOK(u), WorldOK(w), Alike(u.role, w.role, p),
           u.phase = w.phase, u.alive = w.alive,
           u.role[p] = "DOCTOR" => u.lastProtected[p] = w.lastProtected[p]
    PROVE  LegalActions(u, p) = LegalActions(w, p)
<1>1. /\ u.role[p] = w.role[p] /\ u.role[p] \in Role /\ u.alive \subseteq Players
      /\ IsMafia(u, p) <=> IsMafia(w, p)
      /\ IsMafia(u, p) => \A q \in Players : IsMafia(u, q) <=> IsMafia(w, q)
  BY TeamsAlike DEF WorldOK
<1>2. u.shots = w.shots
  BY DEF WorldOK
<1>3. NightTypes(u, p) = NightTypes(w, p)
  BY <1>1, <1>2 DEF NightTypes, OutOfShots
<1>4. AllowedTypes(u, p) = AllowedTypes(w, p)
  BY <1>1, <1>3 DEF AllowedTypes
<1>5. ASSUME NEW t \in AllowedTypes(u, p) PROVE LegalTargets(u, p, t) = LegalTargets(w, p, t)
  <2>1. /\ t = "MAFIA_KILL" => IsMafia(u, p)
        /\ t = "PROTECT" => u.role[p] = "DOCTOR"
    <3>1. t \in {"MAFIA_KILL", "PROTECT"} => t \in NightTypes(u, p)
      BY <1>5 DEF AllowedTypes
    <3>2. t \in {"MAFIA_KILL", "PROTECT"} => u.role[p] \in DOMAIN NightAction /\ t = NightAction[u.role[p]]
      BY <3>1 DEF NightTypes
    <3>3. /\ \A r \in DOMAIN NightAction : NightAction[r] = "MAFIA_KILL" => r \in MafiaRole
          /\ \A r \in DOMAIN NightAction : NightAction[r] = "PROTECT" => r = "DOCTOR"
      BY DEF NightAction, MafiaRole
    <3>4. \A r \in MafiaRole : FactionOf(r) = "MAFIA"
      BY DEF FactionOf, MafiaRole
    <3>. QED  BY <3>2, <3>3, <3>4 DEF IsMafia
  <2>. QED  BY <1>1, <2>1 DEF LegalTargets
<1>6. \A t \in AllowedTypes(u, p) :
        {[type |-> t, target |-> q] : q \in LegalTargets(u, p, t)}
        = {[type |-> t, target |-> q] : q \in LegalTargets(w, p, t)}
  BY <1>5
<1>. QED  BY <1>4, <1>6 DEF LegalActions

\* The parts of an observation that are not lists are the same too.
LEMMA KnowledgeAlike ==
    ASSUME NEW u, NEW w, NEW p \in Players, WorldOK(u), WorldOK(w), Alike(u.role, w.role, p)
    PROVE  /\ MafiaTeammates(u, p) = MafiaTeammates(w, p)
           /\ MasonPartners(u, p) = MasonPartners(w, p)
<1>1. /\ u.role[p] = w.role[p]
      /\ IsMafia(u, p) <=> IsMafia(w, p)
      /\ IsMafia(u, p) => \A q \in Players : IsMafia(u, q) <=> IsMafia(w, q)
  BY TeamsAlike
<1>2. u.role[p] = "MASON" => \A q \in Players : u.role[q] = "MASON" <=> w.role[q] = "MASON"
  BY PlayersAssumption DEF Alike, Spectator
<1>3. MafiaTeammates(u, p) = MafiaTeammates(w, p)
  BY <1>1 DEF MafiaTeammates
<1>4. MasonPartners(u, p) = MasonPartners(w, p)
  BY <1>1, <1>2 DEF MasonPartners
<1>. QED  BY <1>3, <1>4

\* What the viewer sees of both worlds, were humans' messages stored like those of AIs
LEMMA SameViews ==
    ASSUME ObservationsInv, ~Over(worlds[1])
    PROVE  ViewOf(Unmarked(worlds[1])) = ViewOf(Unmarked(worlds[2]))
<1>. PICK u, w : u = worlds[1] /\ w = worlds[2]
  OBVIOUS
<1>. PICK x : x = Unmarked(u)
  OBVIOUS
<1>. PICK y : y = Unmarked(w)
  OBVIOUS
<1>1. WorldOK(u) /\ WorldOK(w) /\ Agree(u, w) /\ viewer \in Players \cup {Spectator} /\ ~Over(u)
  BY DEF ObservationsInv
<1>2. /\ x.role = u.role /\ x.kind = u.kind /\ x.alive = u.alive /\ x.phase = u.phase
      /\ x.lastProtected = u.lastProtected /\ x.shots = u.shots /\ ~Over(x)
      /\ y.role = w.role /\ y.kind = w.kind /\ y.alive = w.alive /\ y.phase = w.phase
      /\ y.lastProtected = w.lastProtected /\ y.shots = w.shots /\ ~Over(y)
  <2>1. ~Over(w)
    BY <1>1 DEF Agree
  <2>. QED  BY <1>1, <2>1, UnmarkedShape
<1>3. ASSUME NEW k \in Tracks, viewer # Spectator \/ k = "spectator"
      PROVE  /\ Listed(Track(k, u.log, viewer, Team(u, viewer)))
                = Listed(Track(k, w.log, viewer, Team(u, viewer)))
             /\ Cardinality(DOMAIN Track(k, u.log, viewer, Team(u, viewer)))
                = Cardinality(DOMAIN Track(k, w.log, viewer, Team(u, viewer)))
  BY <1>1, <1>3 DEF Agree, Same
<1>4. CASE viewer = Spectator
  <2>1. Listed(Track("spectator", w.log, viewer, Team(u, viewer)))
        = Listed(Track("spectator", w.log, viewer, Team(w, viewer)))
    <3>1. \A e : May("spectator", e, viewer, Team(u, viewer)) <=> May("spectator", e, viewer, Team(w, viewer))
      BY DEF May
    <3>. QED  BY <3>1 DEF Track
  <2>2. SpectatorView(x) = SpectatorView(y)
    BY <1>1, <1>3, <2>1, ViewsAreTracks DEF Tracks
  <2>. QED  BY <1>4, <2>2 DEF ViewOf
<1>5. CASE viewer # Spectator
  <2>0. viewer \in Players /\ Alike(u.role, w.role, viewer)
    BY <1>1, <1>5 DEF Agree
  <2>1. viewer \in Players /\ Team(u, viewer) = Team(w, viewer) /\ u.role[viewer] = w.role[viewer]
    BY <1>1, <2>0, TeamsAlike
  <2>2. /\ AsEntries(x, Public(x)) = AsEntries(y, Public(y)) /\ Cardinality(Public(x)) = Cardinality(Public(y))
        /\ PrivateEvents(x, viewer) = PrivateEvents(y, viewer) /\ DeadPlayers(x) = DeadPlayers(y)
        /\ Own(x, viewer, "DetectiveResultDelivered") = Own(y, viewer, "DetectiveResultDelivered")
        /\ RoleFeedback(x, viewer) = RoleFeedback(y, viewer)
    BY <1>1, <1>3, <1>5, <2>1, ViewsAreTracks DEF Tracks
  <2>3. PublicEvents(x) = PublicEvents(y)
    BY <2>2 DEF PublicEvents
  <2>4. /\ WorldOK(u) /\ WorldOK(w) /\ u.phase = w.phase /\ u.alive = w.alive
        /\ u.role[viewer] = "DOCTOR" => u.lastProtected[viewer] = w.lastProtected[viewer]
    BY <1>1, <1>5 DEF Agree
  <2>4a. u.kind[viewer] = w.kind[viewer] /\ (~Anonymous => u.kind = w.kind)
    BY <1>1, <1>5 DEF Agree
  <2>5. /\ LegalActions(x, viewer) = LegalActions(u, viewer) /\ LegalActions(y, viewer) = LegalActions(w, viewer)
        /\ MafiaTeammates(x, viewer) = MafiaTeammates(u, viewer)
        /\ MafiaTeammates(y, viewer) = MafiaTeammates(w, viewer)
        /\ MasonPartners(x, viewer) = MasonPartners(u, viewer)
        /\ MasonPartners(y, viewer) = MasonPartners(w, viewer)
        /\ PreviousProtected(x, viewer) = PreviousProtected(u, viewer)
        /\ PreviousProtected(y, viewer) = PreviousProtected(w, viewer)
    BY <1>2 DEF LegalActions, AllowedTypes, LegalTargets, NightTypes, OutOfShots, IsMafia, MafiaTeammates,
                MasonPartners, PreviousProtected
  <2>6. LegalActions(u, viewer) = LegalActions(w, viewer)
    BY <2>0, <2>4, ActionsAlike
  <2>7. /\ MafiaTeammates(u, viewer) = MafiaTeammates(w, viewer)
        /\ MasonPartners(u, viewer) = MasonPartners(w, viewer)
    BY <1>1, <2>0, KnowledgeAlike
  <2>8. PreviousProtected(u, viewer) = PreviousProtected(w, viewer)
    BY <2>1, <2>4 DEF PreviousProtected
  <2>9. InspectionHistory(x, viewer) = InspectionHistory(y, viewer)
    BY <1>2, <2>1, <2>2 DEF InspectionHistory
  <2>10. SeatIdentities(x) = SeatIdentities(y)
    BY <1>2, <2>4a DEF SeatIdentities
  <2>11. Observation(x, viewer) = Observation(y, viewer)
    BY <1>2, <2>1, <2>2, <2>3, <2>4, <2>5, <2>6, <2>7, <2>8, <2>9, <2>10 DEF Observation
  <2>12. ReturnNotice(x, viewer) = ReturnNotice(y, viewer) /\ EndgameReveal(x) = EndgameReveal(y)
    BY <1>2, <2>4a DEF ReturnNotice, EndgameReveal
  <2>. QED  BY <1>5, <2>11, <2>12 DEF ViewOf
<1>. QED  BY <1>4, <1>5

\* Nothing that is shown has a forbidden key.
LEMMA NothingForbidden ==
    ASSUME NEW w, WorldOK(w), NEW p \in Players
    PROVE  Findings(w, p) \cup AuditFindings(w, p) = {}
<1>1. Public(w) \cup Private(w, p)
      \subseteq {i \in DOMAIN w.log : VisibilityOf(w.log[i].type) # "SYSTEM"}
  BY DEF Public, Private
<1>2. ASSUME NEW i \in Public(w) \cup Private(w, p)
      PROVE  /\ DOMAIN Entry(w.log[i]).payload \cap ForbiddenPayloadKeys = {}
             /\ DOMAIN Hydrated(Entry(w.log[i])).payload \cap ForbiddenPayloadKeys = {}
  <2>1. Clean(w.log[i]) /\ VisibilityOf(w.log[i].type) # "SYSTEM"
    BY <1>1, <1>2 DEF WorldOK
  <2>2. DOMAIN Entry(w.log[i]).payload \cap ForbiddenPayloadKeys = {} /\ "payload" \in DOMAIN Entry(w.log[i])
    BY <2>1 DEF Clean, Entry
  <2>3. DOMAIN Hydrated(Entry(w.log[i])).payload = DOMAIN Entry(w.log[i]).payload
    BY <2>2 DEF Hydrated
  <2>. QED  BY <2>2, <2>3
<1>3. AuditFindings(w, p) = {}
  BY <1>2 DEF AuditFindings, Forbidden
<1>4. ASSUME NEW positions, positions \subseteq Public(w) \cup Private(w, p),
             NEW e \in Entries(AsEntries(w, positions))
      PROVE  DOMAIN e.payload \cap ForbiddenPayloadKeys = {}
  <2>. DEFINE f == [i \in positions |-> Hydrated(Entry(w.log[i]))]
  <2>0. PICK z \in Listed(f) : e = z[2]
    BY <1>4 DEF Entries, AsEntries
  <2>1. \E i \in positions : e = Hydrated(Entry(w.log[i]))
    <3>1. PICK i \in positions : z = <<Cardinality({j \in DOMAIN f : j =< i}), f[i]>>
      BY DEF Listed
    <3>. QED  BY <2>0, <3>1
  <2>. QED  BY <1>2, <1>4, <2>1
<1>5. Entries(PublicEvents(w) \cup PrivateEvents(w, p))
      \subseteq Entries(AsEntries(w, Public(w))) \cup Entries(AsEntries(w, Private(w, p)))
  BY DEF Entries, PublicEvents, PrivateEvents
<1>6. Findings(w, p) = {}
  BY <1>4, <1>5 DEF Findings, Forbidden
<1>. QED  BY <1>3, <1>6

\* A seat and a spectator cannot tell two worlds apart that differ only in what is not theirs to
\* know, and nothing that is shown carries a key that the ranked guard forbids: what
\* build_observation, the spectator's projection and the reveal of the end show.
THEOREM SecretsAlwaysStayHidden == ObservationsSpec => []SecretsStayHidden
<1>1. ASSUME ObservationsInv PROVE SecretsStayHidden
  <2>1. Over(worlds[1]) \/ ViewOf(Unmarked(worlds[1])) = ViewOf(Unmarked(worlds[2]))
    BY <1>1, SameViews
  <2>2. \A n \in World : WorldOK(worlds[n])
    BY <1>1 DEF ObservationsInv, World
  <2>. QED  BY <2>1, <2>2, NothingForbidden DEF SecretsStayHidden
<1>. QED  BY <1>1, ViewsKeepTheirInvariant, PTL
=============================================================================
