----------------------------- MODULE RateLimits -----------------------------
(***************************************************************************)
(* The ceilings on requests: RateLimitStore's fixed windows, which every   *)
(* API key, session, address and sender of messages has a bucket in, and   *)
(* the handlers that count against it.  Authentication stamps its hits     *)
(* with the monotonic clock of the host, messages and actions theirs with  *)
(* the time of day; both write to one store, and every write evicts what   *)
(* is older than the window before its own.                                *)
(*                                                                         *)
(* Time is counted in windows.  That the windows of two clocks do not      *)
(* begin at the same moment is left out.                                   *)
(***************************************************************************)
EXTENDS Integers, Bags, FiniteSets, SequencesExt

CONSTANTS
    ApiWorkers,     \* the processes of the API
    Handlers,       \* requests that may be under way at once
    ApiKeys, People, Addresses,
    Ceilings,       \* the settings: functions from the kinds of buckets to Nat
    BootTimes,      \* the windows at which a host may have been booted
    MaxWindow,      \* bound: windows of the run
    MaxArrivals     \* bound: requests of the run

\* The time of day at the start of the run
Epoch == 1000

\* A host has not been up for as long as its time of day says.
ASSUME CeilingAssumption ==
    /\ Ceilings \subseteq [{"key", "ip", "session", "user", "phase"} -> Nat]
    /\ {MaxWindow, MaxArrivals} \subseteq Nat
    /\ \A b \in BootTimes : b \in Int /\ MaxWindow - b < Epoch

VARIABLES
    window,     \* the present, in windows since the epoch
    booted,     \* worker -> when its host was booted
    backend,    \* which RateLimitStore create_app selected
    ceiling,    \* the settings
    apiKeys,    \* the table api_keys
    store,      \* the counters: where they are kept -> a bag of <<bucket, window_start>>
    handler,    \* the requests under way
    admitted,   \* history: like store, the requests that were let through
    posted,     \* history: the stores that a message or an action has been written to
    arrivals    \* how many requests there have been

limitVars == <<window, booted, backend, ceiling, apiKeys, store, handler, admitted, posted, arrivals>>

\* The settings that bound a bucket go by its kind.
Bucket ==
    ({"key"} \X ApiKeys) \cup ({"ip"} \X Addresses) \cup ({"session", "user", "phase"} \X People)

HitKinds == {"key", "ip", "session"}

BucketKind(b) == b[1]

LimitOf(b) == ceiling[BucketKind(b)]

\* One table for all workers, or a dictionary in each of them
StoreOf(w) == IF backend = "database" THEN "table" ELSE w

Stores == ApiWorkers \cup {"table"}

Monotonic(w) == window - booted[w]

TimeOfDay == Epoch + window

NotServing == [stage |-> "idle"]

LimitsInit ==
    /\ window = 0
    /\ booted \in [ApiWorkers -> BootTimes]
    /\ backend \in {"memory", "database"}
    /\ ceiling \in Ceilings
    /\ apiKeys = [k \in ApiKeys |-> [status |-> "none", used |-> FALSE]]
    /\ store = [s \in Stores |-> EmptyBag] /\ admitted = [s \in Stores |-> EmptyBag]
    /\ handler = [h \in Handlers |-> NotServing]
    /\ posted = {} /\ arrivals = 0

-----------------------------------------------------------------------------
\* The store

CountOf(counts, b, n) == IF BagIn(<<b, n>>, counts) THEN counts[<<b, n>>] ELSE 0

Counted(counts, buckets, n) == counts (+) SetToBag({<<b, n>> : b \in buckets})

FreshOf(counts, n) ==
    LET fresh == {e \in BagToSet(counts) : e[2] >= n - 1}
    IN  [e \in fresh |-> counts[e]]

\* record_request counts the request in the table before it looks at the limit; a
\* dictionary is looked at first, and the request counted if it is let through.
Recorded(counts, b, n) ==
    LET kept == FreshOf(counts, n)
        fits == CountOf(kept, b, n) < LimitOf(b)
    IN  [allowed |-> fits,
         counts |-> IF fits \/ backend = "database" THEN Counted(kept, {b}, n) ELSE kept]

Fits(counts, buckets, n) == \A b \in buckets : CountOf(counts, b, n) < LimitOf(b)

\* record_requests counts in every bucket or, rolled back with the eviction, in none.  The
\* dictionary is evicted from in any case.
RecordedAll_Slip(counts, buckets, n) ==
    LET kept == FreshOf(counts, n)
        fits == Fits(kept, buckets, n)
    IN  [allowed |-> fits,
         counts |-> IF fits THEN Counted(kept, buckets, n)
                    ELSE Counted(kept, {b \in buckets : Fits(kept, {b}, n)}, n)]

RecordedAll(counts, buckets, n) ==
    LET kept == FreshOf(counts, n)
        fits == Fits(kept, buckets, n)
    IN  [allowed |-> fits,
         counts |-> IF fits THEN Counted(kept, buckets, n)
                    ELSE IF backend = "database" THEN counts ELSE kept]

-----------------------------------------------------------------------------
\* The handlers

\* What may be asked for by whom: a key that is not disabled and has a scope, anybody from an
\* address, and a human with a session, who may be posting a message or an action.
Welcome(b) == BucketKind(b) = "key" => apiKeys[b[2]].status = "live" /\ LimitOf(b) > 0

\* The clock is read before the store is asked.
Serving(w, b, posts) ==
    [stage |-> "hit", worker |-> w, bucket |-> b, at |-> Monotonic(w), posts |-> posts,
     toPeek |-> <<>>]

\* A request that only reads is served at once.
Authenticated(r) == IF r.posts THEN [r EXCEPT !.stage = "authenticated"] ELSE NotServing

Arrive(h, w, b, posts) ==
    /\ handler[h] = NotServing /\ arrivals < MaxArrivals
    /\ Welcome(b) /\ (posts => BucketKind(b) = "session")
    /\ arrivals' = arrivals + 1
    /\ handler' = [handler EXCEPT ![h] =
          IF BucketKind(b) = "session" /\ LimitOf(b) = 0
          THEN Authenticated(Serving(w, b, posts)) ELSE Serving(w, b, posts)]
    /\ UNCHANGED <<window, booted, backend, ceiling, apiKeys, store, admitted, posted>>

\* A request that was let through, as history
LetThrough(w, buckets, n) ==
    admitted' = [admitted EXCEPT ![StoreOf(w)] = Counted(@, buckets, n)]

\* RateLimiter.hit
Hit(h) ==
    /\ handler[h].stage = "hit"
    /\ LET r == handler[h]
           s == StoreOf(r.worker)
           done == Recorded(store[s], r.bucket, r.at)
       IN  /\ store' = [store EXCEPT ![s] = done.counts]
           /\ \/ /\ done.allowed
                 /\ handler' = [handler EXCEPT ![h] = Authenticated(r)]
                 /\ LetThrough(r.worker, {r.bucket}, r.at)
                 /\ apiKeys' = [k \in ApiKeys |->
                      IF r.bucket = <<"key", k>> THEN [apiKeys[k] EXCEPT !.used = TRUE]
                      ELSE apiKeys[k]]
              \/ /\ ~done.allowed
                 /\ handler' = [handler EXCEPT ![h].stage = "refused"]
                 /\ UNCHANGED <<admitted, apiKeys>>
    /\ UNCHANGED <<window, booted, backend, ceiling, posted, arrivals>>

PostBuckets(person) == << <<"user", person>>, <<"phase", person>> >>

\* The route of a message or of an action reads the time of day.
StartPost(h) ==
    /\ handler[h].stage = "authenticated"
    /\ handler' = [handler EXCEPT ![h].stage = "peeking", ![h].at = TimeOfDay,
                                  ![h].toPeek = PostBuckets(handler[h].bucket[2])]
    /\ UNCHANGED <<window, booted, backend, ceiling, apiKeys, store, admitted, posted, arrivals>>

\* A bucket that is full ends the request before anything is counted.
Peek(h) ==
    /\ handler[h].stage = "peeking" /\ handler[h].toPeek # <<>>
    /\ \E b \in {Head(handler[h].toPeek)} :
          \/ /\ Fits(store[StoreOf(handler[h].worker)], {b}, handler[h].at)
             /\ handler' = [handler EXCEPT ![h].toPeek = Tail(@)]
          \/ /\ ~Fits(store[StoreOf(handler[h].worker)], {b}, handler[h].at)
             /\ handler' = [handler EXCEPT ![h].stage = "refused", ![h].bucket = b]
    /\ UNCHANGED <<window, booted, backend, ceiling, apiKeys, store, admitted, posted, arrivals>>

Post(h) ==
    /\ handler[h].stage = "peeking" /\ handler[h].toPeek = <<>>
    /\ LET r == handler[h]
           s == StoreOf(r.worker)
           buckets == ToSet(PostBuckets(r.bucket[2]))
           done == RecordedAll(store[s], buckets, r.at)
       IN  /\ store' = [store EXCEPT ![s] = done.counts]
           /\ posted' = posted \cup {s}
           /\ \/ /\ done.allowed /\ LetThrough(r.worker, buckets, r.at)
                 /\ handler' = [handler EXCEPT ![h] = NotServing]
              \/ /\ ~done.allowed /\ UNCHANGED admitted
                 /\ \E full \in {b \in buckets : ~Fits(store[s], {b}, r.at)} :
                       handler' = [handler EXCEPT ![h].stage = "refused", ![h].bucket = full]
    /\ UNCHANGED <<window, booted, backend, ceiling, apiKeys, arrivals>>

\* 429
Respond(h) ==
    /\ handler[h].stage = "refused"
    /\ handler' = [handler EXCEPT ![h] = NotServing]
    /\ UNCHANGED <<window, booted, backend, ceiling, apiKeys, store, admitted, posted, arrivals>>

\* create_api_key, and disable_api_key: to disable a key again changes nothing.
IssueKey(k) ==
    /\ apiKeys[k].status = "none"
    /\ apiKeys' = [apiKeys EXCEPT ![k].status = "live"]
    /\ UNCHANGED <<window, booted, backend, ceiling, store, handler, admitted, posted, arrivals>>

DisableKey(k) ==
    /\ apiKeys[k].status = "live"
    /\ apiKeys' = [apiKeys EXCEPT ![k].status = "disabled"]
    /\ UNCHANGED <<window, booted, backend, ceiling, store, handler, admitted, posted, arrivals>>

\* A window goes by.  Bound: no request outlasts the window after the one it began in.
Stamped(r) == IF r.at >= Epoch THEN r.at - Epoch ELSE r.at + booted[r.worker]

WindowPasses ==
    /\ window < MaxWindow
    /\ \A h \in Handlers :
          handler[h].stage \in {"hit", "peeking"} => Stamped(handler[h]) = window
    /\ window' = window + 1
    /\ UNCHANGED <<booted, backend, ceiling, apiKeys, store, handler, admitted, posted, arrivals>>

LimitsNext ==
    \/ WindowPasses
    \/ \E k \in ApiKeys : IssueKey(k) \/ DisableKey(k)
    \/ \E h \in Handlers :
          \/ Hit(h) \/ StartPost(h) \/ Peek(h) \/ Post(h) \/ Respond(h)
          \/ \E w \in ApiWorkers, b \in Bucket, posts \in BOOLEAN :
                BucketKind(b) \in HitKinds /\ Arrive(h, w, b, posts)

LimitsSpec == LimitsInit /\ [][LimitsNext]_limitVars

-----------------------------------------------------------------------------
LimitsTypeOK ==
    /\ window \in 0..MaxWindow /\ arrivals \in 0..MaxArrivals
    /\ booted \in [ApiWorkers -> BootTimes] /\ ceiling \in Ceilings
    /\ apiKeys \in [ApiKeys -> [status : {"none", "live", "disabled"}, used : BOOLEAN]]
    /\ \A s \in Stores :
          /\ IsABag(store[s]) /\ IsABag(admitted[s])
          /\ \A e \in BagToSet(store[s]) \cup BagToSet(admitted[s]) : e[1] \in Bucket
    /\ posted \subseteq Stores
    /\ \A h \in Handlers :
          handler[h].stage \in {"idle", "hit", "authenticated", "peeking", "refused"}

Entries(s) == BagToSet(store[s]) \cup BagToSet(admitted[s])

OneHost == \A w, v \in ApiWorkers : booted[w] = booted[v]

\* Workers that share a row share one ceiling (rate_limit_store.py:15): no bucket lets more
\* requests through in a window than its ceiling.
CeilingsAreShared ==
    \A s \in Stores : \A e \in BagToSet(admitted[s]) : CountOf(admitted[s], e[1], e[2]) <= LimitOf(e[1])

\* However the requests overlap, and whichever window they were stamped in, the ceiling on
\* messages and actions holds in every store, and the ceiling on all other requests in one
\* whose workers are on one host and that no message has been written to.  A message that is
\* refused is counted in neither of its buckets, even if another one fills the second between
\* the peeks and the commit; and nobody is refused by a bucket that is not full.
CeilingsStand ==
    /\ \A s \in Stores : \A e \in Entries(s) :
          /\ (BucketKind(e[1]) \notin HitKinds \/ (OneHost /\ s \notin posted)) =>
                CountOf(admitted[s], e[1], e[2]) <= LimitOf(e[1])
          /\ (BucketKind(e[1]) \notin HitKinds /\ e[2] >= TimeOfDay - 1) =>
                CountOf(store[s], e[1], e[2]) = CountOf(admitted[s], e[1], e[2])
    /\ \A h \in Handlers : handler[h].stage = "refused" =>
          CountOf(admitted[StoreOf(handler[h].worker)], handler[h].bucket, handler[h].at)
              >= LimitOf(handler[h].bucket)
=============================================================================
