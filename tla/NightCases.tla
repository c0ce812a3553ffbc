----------------------------- MODULE NightCases -----------------------------
(***************************************************************************)
(* The pure resolver on its own: a board is put up, every seat submits at  *)
(* most one intent (any target, legal or not, and a redirect where the     *)
(* matrix is exercised beyond the live roles), and the night is resolved   *)
(* from the state the submissions were validated against.                  *)
(***************************************************************************)
EXTENDS NightMatrix

CONSTANTS
    Boards        \* the game states a night may start from, each with the seats that
                  \* submit a redirect instead of their role's action

ASSUME BoardsAssumption ==
    Boards \subseteq [role : [Players -> Role], alive : SUBSET Players,
                       lastProtected : [Players -> Target], shots : [Players -> Nat],
                       redirectors : SUBSET Players]

\* No role redirects yet: the seats that do, to exercise the matrix, have no action of their own.
ASSUME RedirectorsAssumption ==
    \A b \in Boards : \A p \in b.redirectors : b.role[p] \notin DOMAIN NightAction

VARIABLES
    board,    \* the state the night resolves
    turn,     \* the seats that have not submitted yet
    intents,  \* the submitted intents
    result    \* the MatrixNightResolution, Unresolved before

nightVars == <<board, turn, intents, result>>

Unresolved == [eliminated |-> {}, mafiaKill |-> {}, protected |-> {}, cleaned |-> {},
               framed |-> {}, spent |-> {}, feedback |-> {}]

IntentChoices(p) ==
    IF p \in board.redirectors
    THEN [actor : {p}, kind : {"REDIRECT"}, target : board.alive, redirect : board.alive]
    ELSE IF board.role[p] \in DOMAIN NightAction
    THEN [actor : {p}, kind : {NightAction[board.role[p]]}, target : Target, redirect : {NoPlayer}]
    ELSE {}

NightInit ==
    /\ board \in Boards
    /\ turn = Players
    /\ intents = {}
    /\ result = Unresolved

InSeatOrder(p) == p \in turn /\ \A q \in turn : p =< q

Submit(p) ==
    /\ InSeatOrder(p)
    /\ \E i \in IntentChoices(p) : intents' = intents \cup {i}
    /\ turn' = turn \ {p}
    /\ UNCHANGED <<board, result>>

StayHome(p) ==
    /\ InSeatOrder(p)
    /\ turn' = turn \ {p}
    /\ UNCHANGED <<board, intents, result>>

Resolve ==
    /\ turn = {}
    /\ result = Unresolved
    /\ result' = ResolveNight(board, intents)
    /\ UNCHANGED <<board, turn, intents>>

NightNext == (\E p \in Players : Submit(p) \/ StayHome(p)) \/ Resolve

NightSpec == NightInit /\ [][NightNext]_nightVars

-----------------------------------------------------------------------------
\* Properties.  They hold before the resolution too: Unresolved touches nobody.

SeenBy(recipient, code) ==
    {f \in result.feedback : f.recipient = recipient /\ f.code = code}

\* The PRD's night (prd.md:188-216), for a night nobody bends: the unique plurality of the
\* living Mafia's legal votes dies unless a living Doctor legally protects it, and a
\* Detective who survives learns the true faction.
PlainNight ==
    /\ \A i \in intents : i.kind \in {"MAFIA_KILL", "PROTECT", "INVESTIGATE"}
    /\ \A p \in Players : board.role[p] \notin {"COMMUTER", "GODFATHER", "SERIAL_KILLER"}

Legal(kind) ==
    {i \in intents :
        /\ i.kind = kind /\ i.actor \in board.alive /\ i.target \in board.alive
        /\ kind = "MAFIA_KILL" => ~IsMafia(board, i.target)
        /\ kind = "PROTECT" => i.target # board.lastProtected[i.actor]
        /\ kind = "INVESTIGATE" => i.target # i.actor}

PrdVictims ==
    {q \in board.alive :
        LET votes(r) == Cardinality({i \in Legal("MAFIA_KILL") : i.target = r})
        IN  /\ votes(q) > 0
            /\ \A r \in Players \ {q} : votes(r) < votes(q)
            /\ \A i \in Legal("PROTECT") : i.target # q}

\* On a plain night the matrix kills whom the PRD says and delivers the PRD's findings.
AgreesWithPrd ==
    result # Unresolved /\ PlainNight =>
        /\ result.eliminated = PrdVictims
        /\ \A i \in Legal("INVESTIGATE") \ {j \in intents : j.actor \in PrdVictims} :
              \E f \in SeenBy(i.actor, "INVESTIGATION_RESULT") :
                  f.target = i.target /\ (f.finding = "MAFIA" <=> IsMafia(board, i.target))

\* A roleblocked seat might as well have stayed at home: taking its own action away
\* changes no death, frame, clean, spent shot or protection.
BlockedSeatsAreInert ==
    LET blocked == BlockedActors(board, ValidIntents(board, intents))
        without == ResolveNight(board,
                     {i \in intents : i.kind = "ROLEBLOCK" \/ i.actor \notin blocked})
    IN  result # Unresolved /\ blocked # {} =>
            /\ result.eliminated = without.eliminated
            /\ result.framed = without.framed
            /\ result.cleaned = without.cleaned
            /\ result.spent = without.spent
            /\ result.protected = without.protected

\* Whoever reads a result from the night outlived it, and nobody reads anything about a
\* Commuter, save that a redirect does not bounce off one and shows as a visit.  A Tracker
\* and a Watcher read one visit graph: the tracked seat is seen at the watched seat by both or
\* by neither, and a Ninja is never seen killing.
FeedbackAgrees ==
    /\ \A f \in result.feedback :
          f.code \in {"INVESTIGATION_RESULT", "TRACK_RESULT", "WATCH_RESULT"} =>
              /\ f.recipient \in board.alive \ result.eliminated
              /\ board.role[f.target] # "COMMUTER"
              /\ \A p \in f.seen : board.role[p] = "COMMUTER" =>
                    \E r \in intents : r.kind = "REDIRECT" /\ p \in {r.actor, r.target}
    /\ \A t \in result.feedback, w \in result.feedback :
          /\ t.code = "TRACK_RESULT" /\ w.code = "WATCH_RESULT"
          /\ t.recipient # w.target /\ w.recipient # t.target
          => /\ (w.target \in t.seen) <=> (t.target \in w.seen)
             /\ \A p \in w.seen : board.role[p] # "NINJA"

\* A redirect launders nothing: wherever an action ends up it must be legal there, so only a
\* Serial Killer can cost the Mafia a seat, nobody eliminates or reads themselves, and no
\* Doctor covers the seat covered the night before.  A Commuter who is away is beyond it all.
RedirectsStayLegal ==
    /\ \A q \in result.eliminated \cup result.framed \cup result.protected :
          board.role[q] # "COMMUTER"
    /\ (\E q \in result.eliminated : IsMafia(board, q)) =>
          \E i \in intents : i.kind = "SERIAL_KILL"
    /\ \A f \in result.feedback :
          f.code \in {"INVESTIGATION_RESULT", "TRACK_RESULT", "WATCH_RESULT"} =>
              f.target # f.recipient
    /\ \A q \in result.protected :
          \E d \in board.alive : board.role[d] = "DOCTOR" /\ board.lastProtected[d] # q

\* What a night does, it does by right: neither a block nor a redirect, in whatever order the
\* tiers of the matrix take them, lets an action through that the rules would have refused.
EffectsStayLegal == BlockedSeatsAreInert /\ RedirectsStayLegal

\* A reveal is hidden only for a night death that a living, unblocked Janitor with a shot
\* left aimed at, and it is that Janitor who pays; no shot is spent on a survivor.
HiddenRevealsArePaidFor ==
    /\ result.cleaned \subseteq result.eliminated
    /\ \A q \in result.cleaned :
          \E j \in result.spent : board.role[j] = "JANITOR" /\ j \in board.alive /\ board.shots[j] > 0
    /\ \A j \in result.spent : board.shots[j] > 0
    /\ (\E j \in result.spent : board.role[j] = "JANITOR") => result.cleaned # {}

=============================================================================
