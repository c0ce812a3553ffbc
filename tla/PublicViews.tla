---------------------------- MODULE PublicViews ----------------------------
(***************************************************************************)
(* What the public sees of one game: the event stream of a connection,     *)
(* paced over what was stored when it was opened or tailing what is still  *)
(* being stored, with its resumption after the last event that arrived,    *)
(* and the pages about the game.  The log grows while this goes on, and a  *)
(* process that resumes the game may cut it.                               *)
(***************************************************************************)
EXTENDS Integers, Sequences, FiniteSets, Functions

CONSTANTS
    Connections,    \* what the browsers behind one address hold open
    StreamCap,      \* padrino_sse_max_connections_per_ip
    MaxStored,      \* bound: events that are ever stored
    MaxCuts         \* bound: how often the log is cut

ASSUME ConnectionsAssumption == IsFiniteSet(Connections)

VARIABLES
    stored,         \* game_events: sequence number, and which event it is
    status,         \* Game.status
    written,        \* how many events were ever stored, to tell a rewritten one from the old
    broadcastable,  \* Game.is_broadcastable
    broadcastState, \* Game.broadcast_state
    analytics,      \* the materialized payload, which is the log it was computed from
    settled,        \* history: whether the game was over when it last became RECENT
    stream,         \* connection -> its stream
    active,         \* _sse_active of the address
    received,       \* connection -> events that arrived since it last started without a cursor
    misled,         \* history: connections under which the log was cut
    cuts            \* how often

viewVars == <<stored, status, written, broadcastable, broadcastState, analytics, settled, stream,
              active, received, misled, cuts>>

BroadcastState == {"HIDDEN", "LIVE", "RECENT"}

Kind == {"private", "said", "end"}

StoredEvent == [sequence : Nat, kind : Kind, copy : Nat]

\* to_public_event_v1: nothing of a PRIVATE or SYSTEM event
Public(e) == e.kind # "private"

PublicOf(rows) == {e \in rows : Public(e)}

\* Rows are read and sent in the order of their sequence numbers, which is what First and Newest
\* take them by.
First(rows) == CHOOSE e \in rows : \A d \in rows : e.sequence =< d.sequence

Newest(rows) == CHOOSE e \in rows : \A d \in rows : d.sequence =< e.sequence

\* The rows after a cursor; "none" is before them all.
After(cursor) == {e \in Range(stored) : e.sequence > cursor}

NoCursor == -1

\* build_game_analytics_payload: it names the winner when there is one.
ResultIn(log) == IF \E i \in DOMAIN log : log[i].kind = "end" THEN {"result"} ELSE {}

\* Every log starts with its GameCreated row.
NoPayload == <<>>

\* stream_live_tail's cursor, when it is given none: the event 0 is GameCreated, a SYSTEM event.
TailCursor(cursor) == IF cursor = NoCursor THEN 0 ELSE cursor

OnAir == broadcastable /\ broadcastState # "HIDDEN"

-----------------------------------------------------------------------------
\* The game

GameCreated == [sequence |-> 0, kind |-> "private", copy |-> 0]

NewGame ==
    /\ stored = <<GameCreated>> /\ written = 1
    /\ status = "RUNNING" /\ broadcastable = FALSE /\ broadcastState = "HIDDEN"
    /\ settled = FALSE

\* A game that became RECENT before payloads were stored
OldGame ==
    /\ stored = <<GameCreated, [sequence |-> 1, kind |-> "end", copy |-> 1]>> /\ written = 2
    /\ status = "COMPLETED" /\ broadcastable = TRUE /\ broadcastState = "RECENT"
    /\ settled = TRUE

ViewsInit ==
    /\ NewGame \/ OldGame
    /\ analytics = NoPayload
    /\ stream = [c \in Connections |-> [at |-> "away"]]
    /\ active = 0
    /\ received = [c \in Connections |-> <<>>]
    /\ misled = {}
    /\ cuts = 0

viewers == <<stream, active, received, misled>>

airing == <<broadcastable, broadcastState, analytics, settled>>

\* append_event; the GameTerminated row comes with the status.
StoreEvent(kind) ==
    /\ status = "RUNNING" /\ written < MaxStored
    /\ stored' = Append(stored, [sequence |-> Len(stored), kind |-> kind, copy |-> written])
    /\ written' = written + 1
    /\ status' = IF kind = "end" THEN "COMPLETED" ELSE status
    /\ UNCHANGED <<cuts, airing, viewers>>

\* Whoever is past what was cut, or has it in hand
Beyond(n) ==
    {c \in Connections :
        \/ \E i \in DOMAIN received[c] : received[c][i].sequence >= n
        \/ stream[c].at # "away" /\ stream[c].cursor >= n
        \/ stream[c].at # "away" /\ \E e \in stream[c].frames : e.sequence >= n}

\* truncate_to_phase_boundary, when the game is resumed
CutLog ==
    /\ status = "RUNNING" /\ cuts < MaxCuts
    /\ \E n \in 1..Len(stored) - 1 :
          /\ stored' = SubSeq(stored, 1, n)
          /\ misled' = misled \cup Beyond(n)
    /\ cuts' = cuts + 1
    /\ UNCHANGED <<status, written, airing, stream, active, received>>

Airs == UNCHANGED <<stored, status, written, cuts, viewers>>

\* The moderation gate has passed the transcript, and mark_live.
GoLive ==
    /\ broadcastable' = TRUE /\ broadcastState' = "LIVE"
    /\ UNCHANGED <<analytics, settled>> /\ Airs

\* Had materialize_game_analytics left alone the payload that it finds:
GoRecent_Slip ==
    /\ broadcastable /\ broadcastState' = "RECENT"
    /\ analytics' = IF analytics = NoPayload THEN stored ELSE analytics
    /\ settled' = (status = "COMPLETED")
    /\ UNCHANGED broadcastable /\ Airs

\* mark_recent, which does not ask whether the game is over, and computes and stores the
\* analytics of the log as it is
GoRecent ==
    /\ broadcastable /\ broadcastState' = "RECENT"
    /\ analytics' = stored
    /\ settled' = (status = "COMPLETED")
    /\ UNCHANGED broadcastable /\ Airs

\* mark_hidden
Hide == broadcastState' = "HIDDEN" /\ UNCHANGED <<broadcastable, analytics, settled>> /\ Airs

\* public_game_analytics of a RECENT game without a payload stores one.
AskRecap ==
    /\ OnAir /\ broadcastState = "RECENT" /\ analytics = NoPayload
    /\ analytics' = stored
    /\ UNCHANGED <<broadcastable, broadcastState, settled>> /\ Airs

-----------------------------------------------------------------------------
\* public_game_live_sse

\* Had the tail read from the last event that arrived, and not after it:
Resumed_Slip(c) == IF received[c] = <<>> THEN NoCursor ELSE received[c][Len(received[c])].sequence - 1

\* The Last-Event-ID of a browser that comes back
Resumed(c) == IF received[c] = <<>> THEN NoCursor ELSE received[c][Len(received[c])].sequence

streaming == <<stored, status, written, cuts, airing>>

\* The route: the checks, the cursor, and for a paced stream all of its frames.  Nothing is
\* counted before the body is asked for.
Open(c, tail, resume) ==
    LET cursor == IF resume THEN Resumed(c) ELSE NoCursor IN
    /\ stream[c].at = "away"
    /\ OnAir /\ active < StreamCap
    /\ stream' = [stream EXCEPT ![c] =
         IF tail THEN [at |-> "open", tail |-> TRUE, cursor |-> TailCursor(cursor), frames |-> {},
                       last |-> FALSE]
         ELSE [at |-> "open", tail |-> FALSE, cursor |-> cursor, frames |-> PublicOf(After(cursor)),
               last |-> TRUE]]
    /\ received' = IF resume THEN received ELSE [received EXCEPT ![c] = <<>>]
    /\ misled' = IF resume THEN misled ELSE misled \ {c}
    /\ UNCHANGED <<active, streaming>>

\* The body is asked for its first chunk.
Start(c) ==
    /\ stream[c].at = "open"
    /\ stream' = [stream EXCEPT ![c].at = "streaming"]
    /\ active' = active + 1
    /\ UNCHANGED <<received, misled, streaming>>

\* One frame goes out; GameTerminated closes a tail.
SendFrame(c) ==
    LET s == stream[c]
        frame == First(s.frames)
    IN  /\ s.at = "streaming" /\ s.frames # {}
        /\ received' = [received EXCEPT ![c] = Append(@, frame)]
        /\ stream' = [stream EXCEPT ![c] =
             [s EXCEPT !.frames = @ \ {frame}, !.last = @ \/ (s.tail /\ frame.kind = "end")]]
        /\ UNCHANGED <<active, misled, streaming>>

\* _read_window, in a transaction of its own: the game, and the rows after the cursor, which
\* passes over every one of them, shown or dropped.
Poll(c) ==
    LET s == stream[c]
        window == After(s.cursor)
    IN  /\ s.at = "streaming" /\ s.tail /\ s.frames = {} /\ ~s.last
        /\ stream' = [stream EXCEPT ![c] =
             IF ~broadcastable THEN [s EXCEPT !.last = TRUE]
             ELSE [s EXCEPT !.frames = PublicOf(window),
                            !.cursor = IF window = {} THEN @ ELSE Newest(window).sequence,
                            !.last = status = "COMPLETED" \/ broadcastState = "RECENT"]]
        /\ stream' # stream
        /\ UNCHANGED <<active, received, misled, streaming>>

\* The stream has run out, the tail was idle for too long, or the browser went away: at any
\* point, and also before the body was asked for.
Close(c) ==
    /\ stream[c].at # "away"
    /\ stream' = [stream EXCEPT ![c] = [at |-> "away"]]
    /\ active' = IF stream[c].at = "open" THEN active ELSE active - 1
    /\ UNCHANGED <<received, misled, streaming>>

-----------------------------------------------------------------------------
\* The pages about the game, and what each tells: its result, who was who, or only how the board
\* stands (phase, living seats, survival by role, votes, claims), out of the whole of a log.

PageOf(of, tells, log) == [of |-> of, tells |-> tells, log |-> log]

Result == IF status = "COMPLETED" THEN {"result"} ELSE {}

\* public_live_index, from list_live: phase and living seats as they are stored, also when the
\* game is over
LiveIndex == IF broadcastState = "LIVE" THEN {PageOf("live", {"board"}, stored)} ELSE {}

\* public_recent_index: entries with the result, when there is one
RecentIndex ==
    IF broadcastState = "RECENT" THEN {PageOf("recent", {"board"} \cup Result, stored)} ELSE {}

\* public_game_analytics: while LIVE computed of the log as it is, and served without winner and
\* role win rates; afterwards the stored payload
AnalyticsPage ==
    LET payload == IF broadcastState = "LIVE" \/ analytics = NoPayload THEN stored ELSE analytics
    IN  {PageOf("analytics",
                {"board"} \cup (IF broadcastState = "LIVE" THEN {} ELSE ResultIn(payload)), payload)}

\* public_game_composition: counts, the same from the start to the end
CompositionPage == {PageOf("composition", {}, stored)}

\* public_game_reveal
RevealPage ==
    IF broadcastState = "RECENT" THEN {PageOf("reveal", {"seats"} \cup Result, stored)} ELSE {}

Pages ==
    IF OnAir THEN LiveIndex \cup RecentIndex \cup AnalyticsPage \cup CompositionPage \cup RevealPage
    ELSE {}

ViewsNext ==
    \/ \E kind \in Kind : StoreEvent(kind)
    \/ CutLog \/ GoLive \/ GoRecent \/ Hide \/ AskRecap
    \/ \E c \in Connections :
          \/ \E tail, resume \in BOOLEAN : Open(c, tail, resume)
          \/ Start(c) \/ SendFrame(c) \/ Poll(c) \/ Close(c)

ViewsSpec == ViewsInit /\ [][ViewsNext]_viewVars

-----------------------------------------------------------------------------
ViewsTypeOK ==
    /\ \A i \in DOMAIN stored : stored[i] \in StoredEvent /\ stored[i].sequence = i - 1
    /\ status \in {"RUNNING", "COMPLETED"}
    /\ broadcastable \in BOOLEAN /\ broadcastState \in BroadcastState
    /\ analytics \in Seq(StoredEvent) /\ settled \in BOOLEAN
    /\ active \in 0..Cardinality(Connections)
    /\ misled \subseteq Connections

Streaming == {c \in Connections : stream[c].at = "streaming"}

InOrder(events) == \A i, j \in DOMAIN events : i < j => events[i].sequence < events[j].sequence

\* Public rows of a log, and with each all those before it
Complete(events, log) ==
    /\ events \subseteq PublicOf(Range(log))
    /\ \A e \in PublicOf(Range(log)), d \in events : e.sequence =< d.sequence => e \in events

\* A connection has received the PUBLIC events of the log in their order, without a gap or a
\* repetition, however often it was resumed and in whichever mode, unless the log was cut under
\* it; and the counter of its address is the number of its streams.
StreamsFollowTheLog ==
    /\ \A c \in Connections \ misled : InOrder(received[c]) /\ Complete(Range(received[c]), stored)
    /\ active = Cardinality(Streaming)

\* "Once a game reaches RECENT the analytics never change" (public.py:729), and what is served of
\* them is immutable for a year: a game that was over when it became RECENT is shown by every
\* page out of the whole of its log, and index, recap and reveal agree that it has a result, also
\* when it was RECENT before it was over and has a payload of then.  While it is LIVE no page
\* has the result or the seats.
PagesAgreeOnTheEnd ==
    \A p \in Pages :
        /\ broadcastState = "LIVE" => p.tells \cap {"result", "seats"} = {}
        /\ broadcastState = "RECENT" /\ settled =>
              /\ p.log = stored
              /\ p.of \in {"recent", "analytics", "reveal"} => "result" \in p.tells
=============================================================================
