---------------------------- MODULE ViewTracker -----------------------------
(***************************************************************************)
(* How often a post is viewed (findOne in posts.service.ts): a view counts *)
(* unless the same reader saw the same post within the last ten minutes,   *)
(* as far as a bounded map in the server process remembers                 *)
(* (view-tracker.util.ts).  The map is asked and filled in one go; the     *)
(* counter of the post is updated afterwards, by a statement of its own.   *)
(***************************************************************************)
EXTENDS Integers, FiniteSets

CONSTANTS
    Posts, Readers,   \* a reader is the hash of an IP address
    Requests,
    MaxCacheSize,     \* MAX_CACHE_SIZE
    Ttl,              \* TTL_MS
    MaxClock,         \* bound on time
    MaxViews          \* bound: a post is read no more once it has so many views

ViewAssumption ==
    /\ Posts # {} /\ Readers # {}
    /\ MaxCacheSize \in Nat \ {0} /\ Ttl \in Nat \ {0}
    /\ MaxClock \in Nat /\ MaxViews \in Nat

VARIABLES
    clock,
    posts,       \* the posts there are
    cache,       \* the map: key to the time of the view
    viewCount,
    lastView,    \* history: the last view of a key that counted, since the start
    req

vars == <<clock, posts, cache, viewCount, lastView, req>>

ViewKeys == Posts \X Readers
Never == -1
Request == [pc : {"idle", "track", "count"}, key : ViewKeys]
Idle == [pc |-> "idle", key |-> CHOOSE k \in ViewKeys : TRUE]

\* Types; the map keeps within its limit.
TypeOK ==
    /\ clock \in Nat
    /\ posts \subseteq Posts
    /\ cache \in [DOMAIN cache -> Nat] /\ DOMAIN cache \subseteq ViewKeys
    /\ Cardinality(DOMAIN cache) <= MaxCacheSize
    /\ viewCount \in [Posts -> Nat]
    /\ lastView \in [ViewKeys -> Nat \cup {Never}]
    /\ req \in [Requests -> Request]

-----------------------------------------------------------------------------
Finish(r) == req' = [req EXCEPT ![r] = Idle]
Only(keys) == [k \in keys |-> cache[k]]

Init ==
    /\ clock = 0
    /\ posts = Posts
    /\ cache = [k \in {} |-> 0]
    /\ viewCount = [p \in Posts |-> 0]
    /\ lastView = [k \in ViewKeys |-> Never]
    /\ req = [r \in Requests |-> Idle]

\* findOne finds the post ...
Find(r, p, i) ==
    /\ req[r].pc = "idle" /\ p \in posts /\ viewCount[p] < MaxViews
    /\ req' = [req EXCEPT ![r] = [pc |-> "track", key |-> <<p, i>>]]
    /\ UNCHANGED <<clock, posts, cache, viewCount, lastView>>

Fresh(k) == k \in DOMAIN cache /\ clock - cache[k] < Ttl

\* Ten per cent, rounded up.
EvictCount == (MaxCacheSize + 9) \div 10

\* Mutant of Kept: the newest records go.
KeptOldest == {K \in SUBSET DOMAIN cache :
    /\ Cardinality(K) = Cardinality(DOMAIN cache) - EvictCount
    /\ \A k \in K, e \in DOMAIN cache \ K : cache[e] >= cache[k]}

\* What is left when the oldest records have gone.  Among records of one
\* millisecond the sort keeps the order of the map, which nothing depends on.
Kept == {K \in SUBSET DOMAIN cache :
    /\ Cardinality(K) = Cardinality(DOMAIN cache) - EvictCount
    /\ \A k \in K, e \in DOMAIN cache \ K : cache[e] <= cache[k]}

\* The map with the view of k, after room was made if it is full.
Recorded(k) ==
    LET with(K) == [j \in K \cup {k} |-> IF j = k THEN clock ELSE cache[j]]
    IN {with(K) : K \in IF Cardinality(DOMAIN cache) >= MaxCacheSize
                          THEN Kept ELSE {DOMAIN cache}}

\* ... asks shouldIncrementView whether this is a new view ...
Track(r) ==
    LET k == req[r].key IN
    /\ req[r].pc = "track"
    /\ IF Fresh(k)
         THEN Finish(r) /\ UNCHANGED <<cache, lastView>>
         ELSE /\ cache' \in Recorded(k)
              /\ lastView' = [lastView EXCEPT ![k] = clock]
              /\ req' = [req EXCEPT ![r].pc = "count"]
    /\ UNCHANGED <<clock, posts, viewCount>>

\* ... and counts it.  The update fails when the post is gone by then; the
\* record of the view stays.
Count(r) ==
    LET p == req[r].key[1] IN
    /\ req[r].pc = "count"
    /\ viewCount' = [viewCount EXCEPT ![p] = IF p \in posts THEN @ + 1 ELSE @]
    /\ Finish(r)
    /\ UNCHANGED <<clock, posts, cache, lastView>>

Stale(k) == clock - cache[k] >= Ttl

\* The timer drops what has expired.
Cleanup ==
    /\ \E k \in DOMAIN cache : Stale(k)
    /\ cache' = Only({k \in DOMAIN cache : ~Stale(k)})
    /\ UNCHANGED <<clock, posts, viewCount, lastView, req>>

DeletePost(p) ==
    /\ p \in posts
    /\ posts' = posts \ {p}
    /\ UNCHANGED <<clock, cache, viewCount, lastView, req>>

Tick ==
    /\ clock < MaxClock
    /\ clock' = clock + 1
    /\ UNCHANGED <<posts, cache, viewCount, lastView, req>>

\* The process dies, and its map with it; what it had begun is not finished.
Restart ==
    /\ cache' = [k \in {} |-> 0]
    /\ lastView' = [k \in ViewKeys |-> Never]
    /\ req' = [r \in Requests |-> Idle]
    /\ UNCHANGED <<clock, posts, viewCount>>

Next ==
    \/ \E r \in Requests :
          \/ \E p \in Posts, i \in Readers : Find(r, p, i)
          \/ Track(r) \/ Count(r)
    \/ \E p \in Posts : DeletePost(p)
    \/ Cleanup \/ Tick \/ Restart

Spec == Init /\ [][Next]_vars

-----------------------------------------------------------------------------
\* What the bounded map promises for all its evictions and cleanups: a view is
\* remembered for the ten minutes, unless so many others have come since as
\* the map keeps when it makes room.  (One seen again in that time counts twice.)
WindowKept ==
    \A k \in ViewKeys :
        lastView[k] # Never /\ clock - lastView[k] < Ttl /\ k \notin DOMAIN cache
          => Cardinality({j \in ViewKeys \ {k} : lastView[j] >= lastView[k]})
               >= MaxCacheSize - EvictCount
=============================================================================
