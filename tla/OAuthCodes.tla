----------------------------- MODULE OAuthCodes -----------------------------
(***************************************************************************)
(* The one-minute codes a social login hands to the browser in place of    *)
(* the access token (generateOAuthCode and exchangeOAuthCode in            *)
(* auth.service.ts).  A code is kept in Redis while the server is          *)
(* connected to it, else in a map of the server process whose size is      *)
(* limited.                                                                *)
(*                                                                         *)
(* The eviction sorts the map by expiry; which of two codes that expire at *)
(* once comes first is left open.  An access to Redis is an await, one to  *)
(* the map is not.                                                         *)
(***************************************************************************)
EXTENDS Integers, FiniteSets

CONSTANTS
    Codes, Requests,
    MaxFallback,   \* MAX_OAUTH_CODES
    Lifetime,      \* OAUTH_CODE_EXPIRY_SECONDS
    MaxClock       \* bound on time

\* With room for one code only the eviction would evict nothing.
OAuthAssumption ==
    /\ IsFiniteSet(Requests) /\ Requests # {} /\ Codes # {}
    /\ MaxFallback \in Nat /\ MaxFallback >= 2
    /\ Lifetime \in Nat \ {0} /\ MaxClock \in Nat

VARIABLES
    clock,
    connected,   \* redis.status is "ready"
    redis,       \* codes in Redis, with the second at which they vanish
    fallback,    \* the map oauthCodeFallback
    handed,      \* history: how often a code was exchanged for its token
    req

vars == <<clock, connected, redis, fallback, handed, req>>

Entry == [code : Codes, expiresAt : Nat]
Request == [pc : {"idle", "set", "get", "del", "return"}, code : Codes]
Idle == [pc |-> "idle", code |-> CHOOSE c \in Codes : TRUE]

\* Types; Redis holds no key past its TTL.
TypeOK ==
    /\ clock \in Nat
    /\ connected \in BOOLEAN
    /\ redis \subseteq Entry /\ \A e \in redis : e.expiresAt > clock
    /\ fallback \subseteq Entry
    /\ handed \in [Codes -> Nat]
    /\ req \in [Requests -> Request]

-----------------------------------------------------------------------------
\* The codes are random: one that is in use is never drawn again.
Drawn(c) ==
    \/ handed[c] > 0
    \/ \E e \in redis \cup fallback : e.code = c
    \/ \E r \in Requests : req[r].pc # "idle" /\ req[r].code = c

Finish(r) == req' = [req EXCEPT ![r] = Idle]
Goto(r, c, pc) == req' = [req EXCEPT ![r] = [pc |-> pc, code |-> c]]

Fresh(c) == [code |-> c, expiresAt |-> clock + Lifetime]

\* cleanupExpiredFallbackCodes
Cleaned(map) == {e \in map : ~(e.expiresAt < clock)}

\* Mutant of Evicted: the entries are sorted the other way round.
EvictedNewest(map) ==
    IF Cardinality(map) < MaxFallback THEN {map}
    ELSE {K \in SUBSET map :
             /\ Cardinality(K) = Cardinality(map) - MaxFallback \div 2
             /\ \A e \in map \ K, k \in K : e.expiresAt >= k.expiresAt}

\* What may be left of the map: a full one loses the half that expires first.
Evicted(map) ==
    IF Cardinality(map) < MaxFallback THEN {map}
    ELSE {K \in SUBSET map :
             /\ Cardinality(K) = Cardinality(map) - MaxFallback \div 2
             /\ \A e \in map \ K, k \in K : e.expiresAt <= k.expiresAt}

Init ==
    /\ clock = 0
    /\ connected \in BOOLEAN
    /\ redis = {} /\ fallback = {}
    /\ handed = [c \in Codes |-> 0]
    /\ req = [r \in Requests |-> Idle]

\* generateOAuthCode, connected: the code is sent to Redis ...
GenerateRedis(r, c) ==
    /\ req[r].pc = "idle" /\ ~Drawn(c) /\ connected
    /\ Goto(r, c, "set")
    /\ UNCHANGED <<clock, connected, redis, fallback, handed>>

\* ... which stores it, or the request fails with the connection.
SetInRedis(r) ==
    /\ req[r].pc = "set"
    /\ redis' = IF connected THEN redis \cup {Fresh(req[r].code)} ELSE redis
    /\ Finish(r)
    /\ UNCHANGED <<clock, connected, fallback, handed>>

\* Not connected: the map is cleaned, evicted from and added to at once.
GenerateFallback(c) ==
    /\ ~Drawn(c) /\ ~connected
    /\ fallback' \in {K \cup {Fresh(c)} : K \in Evicted(Cleaned(fallback))}
    /\ UNCHANGED <<clock, connected, redis, handed, req>>

\* exchangeOAuthCode, connected: get ...
ExchangeRedis(r, c) ==
    /\ req[r].pc = "idle" /\ connected
    /\ Goto(r, c, "get")
    /\ UNCHANGED <<clock, connected, redis, fallback, handed>>

GetFromRedis(r) ==
    /\ req[r].pc = "get"
    /\ IF connected /\ \E e \in redis : e.code = req[r].code
         THEN Goto(r, req[r].code, "del")
         ELSE Finish(r)
    /\ UNCHANGED <<clock, connected, redis, fallback, handed>>

\* ... then delete, whatever the number of keys deleted ...
DelInRedis(r) ==
    /\ req[r].pc = "del"
    /\ IF connected
         THEN /\ redis' = {e \in redis : e.code # req[r].code}
              /\ Goto(r, req[r].code, "return")
         ELSE UNCHANGED redis /\ Finish(r)
    /\ UNCHANGED <<clock, connected, fallback, handed>>

\* ... and answer.
Return(r) ==
    /\ req[r].pc = "return"
    /\ handed' = [handed EXCEPT ![req[r].code] = @ + 1]
    /\ Finish(r)
    /\ UNCHANGED <<clock, connected, redis, fallback>>

\* Mutant of ExchangeFallback: the code is not deleted.
ExchangeFallbackKeeps(c) ==
    /\ ~connected
    /\ \E e \in fallback :
          /\ e.code = c /\ ~(e.expiresAt < clock) /\ handed[c] < 3
          /\ handed' = [handed EXCEPT ![c] = @ + 1]
    /\ UNCHANGED <<clock, connected, redis, fallback, req>>

\* Not connected: look up, delete and answer at once; an expired code is
\* deleted but not answered.
ExchangeFallback(c) ==
    /\ ~connected
    /\ \E e \in fallback :
          /\ e.code = c
          /\ fallback' = {f \in fallback : f.code # c}
          /\ handed' = IF e.expiresAt < clock THEN handed
                                               ELSE [handed EXCEPT ![c] = @ + 1]
    /\ UNCHANGED <<clock, connected, redis, req>>

\* The connection to Redis is lost or comes back; Redis may lose its data, all
\* of it (that it restores a snapshot younger than a code, in which a code is
\* that was deleted since, is left out).
Disconnect ==
    /\ connected
    /\ connected' = FALSE
    /\ redis' \in {redis, {}}
    /\ UNCHANGED <<clock, fallback, handed, req>>

Reconnect ==
    /\ ~connected
    /\ connected' = TRUE
    /\ UNCHANGED <<clock, redis, fallback, handed, req>>

\* Time passes; Redis drops what has outlived its TTL.
Tick ==
    /\ clock < MaxClock
    /\ clock' = clock + 1
    /\ redis' = {e \in redis : e.expiresAt > clock'}
    /\ UNCHANGED <<connected, fallback, handed, req>>

\* The server process dies, and its map with it.
Restart ==
    /\ fallback' = {}
    /\ req' = [r \in Requests |-> Idle]
    /\ UNCHANGED <<clock, connected, redis, handed>>

Continue(r) == SetInRedis(r) \/ GetFromRedis(r) \/ DelInRedis(r) \/ Return(r)

Next ==
    \/ \E c \in Codes :
          \/ GenerateFallback(c) \/ ExchangeFallback(c)
          \/ \E r \in Requests : GenerateRedis(r, c) \/ ExchangeRedis(r, c)
    \/ \E r \in Requests : Continue(r)
    \/ Tick \/ Disconnect \/ Reconnect \/ Restart

Spec == Init /\ [][Next]_vars

-----------------------------------------------------------------------------
\* A code is handed its token once for each of the requests that overlap at
\* the most, through losses of Redis, restarts and both stores.
HandedBounded == \A c \in Codes : handed[c] <= Cardinality(Requests)

\* What auth.service.ts:850 says, and overlapping requests refute: a code is
\* exchanged once.
HandedOnce == \A c \in Codes : handed[c] <= 1

\* However long Redis is away, a login keeps the map within MAX_OAUTH_CODES and
\* evicts those that would have expired first, and itself never.
EvictsOldest ==
    [][\A c \in Codes : GenerateFallback(c) =>
          /\ Cardinality(fallback') <= MaxFallback
          /\ \E e \in fallback' : e.code = c
          /\ \A e \in fallback \ fallback', f \in fallback' :
                e.expiresAt <= f.expiresAt]_vars
=============================================================================
