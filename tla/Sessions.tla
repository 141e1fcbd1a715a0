------------------------------ MODULE Sessions ------------------------------
(***************************************************************************)
(* Sessions of the community backend: the refresh tokens kept in           *)
(* PostgreSQL, the access tokens the clients hold, the per-user access     *)
(* blacklist, and the operations that open, rotate and end a session       *)
(* (auth.service.ts, users.service.ts, reports.service.ts, jwt.strategy.ts,*)
(* token-cleanup.service.ts).                                              *)
(*                                                                         *)
(* A request is a process: between two awaits another request may run, so  *)
(* what it read may be stale when it writes.  A transaction runs under     *)
(* PostgreSQL's READ COMMITTED level: a bulk statement does not see the    *)
(* rows inserted after it began, and the row of a user a transaction has   *)
(* updated stays locked until it commits.                                  *)
(*                                                                         *)
(* Time is counted in ticks, TicksPerSecond to a second: a JWT carries its *)
(* issue time in whole seconds, the database keeps the finer time.         *)
(***************************************************************************)
EXTENDS Integers, FiniteSets

CONSTANTS
    Users,           \* accounts
    Requests,        \* HTTP requests that can be in progress at once
    TicksPerSecond,
    AccessTtl,       \* jwt.expiresIn, in seconds
    ParsedTtl,       \* what calculateAccessTokenExpiry makes of it, in seconds
    HardTtl,         \* the 15 minutes written into changePassword and banUser
    RefreshTtl,      \* jwt.refreshExpiresIn, in seconds
    RowTtl,          \* REFRESH_TOKEN_EXPIRY_DAYS, in seconds
    BanLengths,      \* lengths of the temporary bans, in ticks
    MaxClock,        \* bound on time
    MaxChanges,      \* bound on password changes of one account
    MaxTokens,       \* no request that opens a session starts with more tokens out
    MaxEntries,      \* nor one that ends sessions with more blacklist rows
    NoBan, Forever   \* not banned; banned without an end

ASSUME TimeAssumption ==
    /\ TicksPerSecond \in Nat \ {0}
    /\ AccessTtl \in Nat /\ ParsedTtl \in Nat /\ HardTtl \in Nat
    /\ RefreshTtl \in Nat /\ RowTtl \in Nat
    /\ MaxClock \in Nat /\ MaxChanges \in Nat
    /\ MaxTokens \in Nat /\ MaxEntries \in Nat

ASSUME AccountAssumption ==
    /\ Users # {}
    /\ BanLengths \subseteq Nat
    /\ NoBan \notin Nat /\ Forever \notin Nat /\ NoBan # Forever

\* A blacklist row must live as long as the tokens it revokes.
ASSUME TtlAssumption == AccessTtl <= ParsedTtl /\ AccessTtl <= HardTtl

VARIABLES
    clock,      \* ticks
    status,     \* account: "none", "live" or "gone" (deleted)
    social,     \* accounts made by a social login (they have no password)
    ban,        \* NoBan, Forever or the tick at which the ban ends
    password,   \* number of password changes so far
    refresh,    \* rows of refresh_tokens
    access,     \* access tokens handed to clients
    blacklist,  \* rows of token_blacklist
    req,        \* requests in progress
    cleaner,    \* statement the cleanup job runs next
    cut,        \* history: tokens issued up to this tick have been revoked
    goneAt      \* history: when the account was deleted

vars == <<clock, status, social, ban, password, refresh, access, blacklist, req,
          cleaner, cut, goneAt>>

Sec(t) == t \div TicksPerSecond
Ticks(s) == s * TicksPerSecond

BanActive(b, t) == b = Forever \/ (b \in Nat /\ b > t)

\* A token's hash is determined by its claims: the account and the second.
Row == [user : Users, iat : Nat, exp : Nat, revoked : BOOLEAN,
        credential : Nat, hiddenFrom : SUBSET Requests]
Token == [user : Users, iat : Nat, at : Nat]
Revocation == [user : Users, revokedAt : Nat, expiresAt : Nat]
Request == [pc : {"idle", "check", "touch", "sign", "store", "resign",
                  "rotate", "logout", "prepared", "revoking"},
            user : Users, key : Nat, iat : Nat, at : Nat, credential : Nat,
            kind : {"password", "reset", "ban"},
            until : Nat \cup {NoBan, Forever}]

Idle == [pc |-> "idle", user |-> CHOOSE u \in Users : TRUE, key |-> 0,
         iat |-> 0, at |-> 0, credential |-> 0, kind |-> "ban",
         until |-> NoBan]

TypeOK ==
    /\ clock \in Nat
    /\ status \in [Users -> {"none", "live", "gone"}]
    /\ social \subseteq Users
    /\ ban \in [Users -> Nat \cup {NoBan, Forever}]
    /\ password \in [Users -> Nat]
    /\ refresh \subseteq Row
    /\ access \subseteq Token
    /\ blacklist \subseteq Revocation
    /\ req \in [Requests -> Request]
    /\ cleaner \in {"idle", "blacklist"}
    /\ cut \in [Users -> Int]
    /\ goneAt \in [Users -> Int]

-----------------------------------------------------------------------------
(* Decisions the guards make.                                              *)

\* The JWT libraries reject a token from the second exp on.
Unexpired(iat, ttl) == Sec(clock) < iat + ttl

\* Mutant of Blacklisted: a revocation in the very tick of issue is missed.
BlacklistedStrictly(a) ==
    \E b \in blacklist : /\ b.user = a.user
                         /\ b.revokedAt > Ticks(a.iat)
                         /\ b.expiresAt > clock

\* JwtStrategy.validate: a live blacklist row of the user not older than iat.
Blacklisted(a) ==
    \E b \in blacklist : /\ b.user = a.user
                         /\ b.revokedAt >= Ticks(a.iat)
                         /\ b.expiresAt > clock

\* JwtStrategy.validate as a whole; a deleted account has no ban to look up.
Accepted(a) ==
    /\ Unexpired(a.iat, AccessTtl)
    /\ ~Blacklisted(a)
    /\ ~BanActive(ban[a.user], clock)

\* The reads refresh makes before it rotates a token.
Usable(t) ==
    /\ Unexpired(t.iat, RefreshTtl)
    /\ ~t.revoked
    /\ t.exp >= clock

RowsAt(u, iat) == {t \in refresh : t.user = u /\ t.iat = iat}

\* Mutant of Locked: the lock is taken before the transaction begins.
LockedEarly(u) ==
    \E r \in Requests : req[r].pc \in {"prepared", "revoking"} /\ req[r].user = u

\* A transaction that has updated the account's row and not yet committed.
Locked(u) == \E r \in Requests : req[r].pc = "revoking" /\ req[r].user = u

\* Mutant of NewRow: the lifetime is subtracted.
NewRowExpired(r) ==
    [user |-> req[r].user, iat |-> req[r].iat, exp |-> clock - Ticks(RowTtl),
     revoked |-> FALSE, credential |-> req[r].credential, hiddenFrom |-> {}]

\* A row inserted now is invisible to the bulk statements already running.
NewRow(r) ==
    [user |-> req[r].user, iat |-> req[r].iat, exp |-> clock + Ticks(RowTtl),
     revoked |-> FALSE, credential |-> req[r].credential,
     hiddenFrom |-> {q \in Requests : /\ req[q].pc = "revoking"
                                      /\ req[q].user = req[r].user}]

NewToken(r) == [user |-> req[r].user, iat |-> req[r].iat, at |-> req[r].at]

Finish(r) == req' = [req EXCEPT ![r] = Idle]

\* Bounds on the history a run explores.
RoomForToken == Cardinality(access) < MaxTokens
RoomForEntry == Cardinality(blacklist) < MaxEntries

Later(old, new) == IF new > old THEN new ELSE old

-----------------------------------------------------------------------------
Init ==
    /\ clock = 0
    /\ status = [u \in Users |-> "none"] /\ social = {}
    /\ ban = [u \in Users |-> NoBan]
    /\ password = [u \in Users |-> 0]
    /\ refresh = {} /\ access = {} /\ blacklist = {}
    /\ req = [r \in Requests |-> Idle]
    /\ cleaner = "idle"
    /\ cut = [u \in Users |-> -1]
    /\ goneAt = [u \in Users |-> -1]

accounts == <<status, social, ban, password, goneAt>>
tokens == <<refresh, access, blacklist, cut>>

Tick ==
    /\ clock < MaxClock
    /\ clock' = clock + 1
    /\ UNCHANGED <<accounts, tokens, req, cleaner>>

\* register creates the account; the verification mail is sent (module
\* EmailCodes) and the tokens follow.
Register(r, u) ==
    /\ req[r].pc = "idle" /\ status[u] = "none"
    /\ status' = [status EXCEPT ![u] = "live"]
    /\ req' = [req EXCEPT ![r] = [Idle EXCEPT !.pc = "sign", !.user = u]]
    /\ UNCHANGED <<clock, social, ban, password, goneAt, tokens, cleaner>>

\* The first social login creates the account and goes on like a later one.
OAuthRegister(r, u) ==
    /\ req[r].pc = "idle" /\ status[u] = "none"
    /\ status' = [status EXCEPT ![u] = "live"]
    /\ social' = social \cup {u}
    /\ req' = [req EXCEPT ![r] = [Idle EXCEPT !.pc = "touch", !.user = u]]
    /\ UNCHANGED <<clock, ban, password, goneAt, tokens, cleaner>>

\* validateUser reads the account and compares the password it read.
LoginRead(r, u) ==
    /\ req[r].pc = "idle" /\ RoomForToken
    /\ status[u] = "live" /\ u \notin social
    /\ req' = [req EXCEPT ![r] = [Idle EXCEPT
                  !.pc = IF ban[u] = NoBan THEN "touch" ELSE "check",
                  !.user = u, !.until = ban[u], !.credential = password[u]]]
    /\ UNCHANGED <<clock, accounts, tokens, cleaner>>

\* findOrCreateOAuthUser finds the account; nothing looks at a ban.
OAuthLoginRead(r, u) ==
    /\ req[r].pc = "idle" /\ RoomForToken
    /\ status[u] = "live" /\ u \in social
    /\ req' = [req EXCEPT ![r] = [Idle EXCEPT !.pc = "touch", !.user = u]]
    /\ UNCHANGED <<clock, accounts, tokens, cleaner>>

\* The ban validateUser read is still running.
LoginRefused(r) ==
    /\ req[r].pc = "check" /\ BanActive(req[r].until, clock)
    /\ Finish(r)
    /\ UNCHANGED <<clock, accounts, tokens, cleaner>>

\* The ban it read has ended: it clears whatever ban the row now has.
LoginUnbans(r) ==
    LET u == req[r].user IN
    /\ req[r].pc = "check" /\ ~BanActive(req[r].until, clock)
    /\ ~Locked(u)
    /\ IF status[u] = "live"
         THEN /\ ban' = [ban EXCEPT ![u] = NoBan]
              /\ req' = [req EXCEPT ![r].pc = "touch", ![r].until = NoBan]
         ELSE Finish(r) /\ UNCHANGED ban
    /\ UNCHANGED <<clock, status, social, password, goneAt, tokens, cleaner>>

\* lastLoginAt is written; the update fails when the account is gone.
LoginTouches(r) ==
    LET u == req[r].user IN
    /\ req[r].pc = "touch" /\ ~Locked(u)
    /\ IF status[u] = "live" THEN req' = [req EXCEPT ![r].pc = "sign"]
                             ELSE Finish(r)
    /\ UNCHANGED <<clock, accounts, tokens, cleaner>>

\* generateAndSaveTokens and refresh sign both JWTs with the current second.
Sign(r) ==
    /\ req[r].pc \in {"sign", "resign"}
    /\ req' = [req EXCEPT ![r].pc = IF @ = "sign" THEN "store" ELSE "rotate",
                          ![r].iat = Sec(clock), ![r].at = clock]
    /\ UNCHANGED <<clock, accounts, tokens, cleaner>>

\* Mutant of Storable: no foreign key to the account.
StorableUnowned(r) == RowsAt(req[r].user, req[r].iat) = {}

\* The unique hash or the foreign key may refuse the row; then the request
\* fails and its tokens are never handed out.
Storable(r) ==
    /\ status[req[r].user] = "live"
    /\ RowsAt(req[r].user, req[r].iat) = {}

StoreTokens(r) ==
    /\ req[r].pc = "store"
    /\ IF Storable(r)
         THEN /\ refresh' = refresh \cup {NewRow(r)}
              /\ access' = access \cup {NewToken(r)}
         ELSE UNCHANGED <<refresh, access>>
    /\ Finish(r)
    /\ UNCHANGED <<clock, accounts, blacklist, cut, cleaner>>

\* refresh looks the presented token up and checks what it read.
RefreshRead(r) ==
    /\ req[r].pc = "idle" /\ RoomForToken
    /\ \E t \in refresh :
          /\ Usable(t)
          /\ req' = [req EXCEPT ![r] = [Idle EXCEPT !.pc = "resign",
                        !.user = t.user, !.key = t.iat,
                        !.credential = t.credential]]
    /\ UNCHANGED <<clock, accounts, tokens, cleaner>>

\* refresh's transaction: the old row is revoked by its hash alone and the
\* new one created; a missing old row or a taken hash rolls both back.
Rotate(r) ==
    LET old == RowsAt(req[r].user, req[r].key) IN
    /\ req[r].pc = "rotate"
    /\ IF old # {} /\ Storable(r)
         THEN /\ refresh' = (refresh \ old)
                              \cup {[t EXCEPT !.revoked = TRUE] : t \in old}
                              \cup {NewRow(r)}
              /\ access' = access \cup {NewToken(r)}
         ELSE UNCHANGED <<refresh, access>>
    /\ Finish(r)
    /\ UNCHANGED <<clock, accounts, blacklist, cut, cleaner>>

-----------------------------------------------------------------------------
(* Ending sessions.                                                        *)

\* logout finds the row unrevoked; the times are computed here.
LogoutRead(r) ==
    /\ req[r].pc = "idle" /\ RoomForEntry
    /\ \E t \in refresh :
          /\ ~t.revoked
          /\ req' = [req EXCEPT ![r] = [Idle EXCEPT !.pc = "logout",
                        !.user = t.user, !.key = t.iat, !.at = clock]]
    /\ UNCHANGED <<clock, accounts, tokens, cleaner>>

Entry(u, revokedAt, expiresAt) ==
    [user |-> u, revokedAt |-> revokedAt, expiresAt |-> expiresAt]

\* logout's transaction; a row deleted meanwhile rolls it back.
LogoutCommit(r) ==
    LET u == req[r].user
        old == RowsAt(u, req[r].key)
    IN
    /\ req[r].pc = "logout"
    /\ IF old # {}
         THEN /\ refresh' = (refresh \ old)
                              \cup {[t EXCEPT !.revoked = TRUE] : t \in old}
              /\ blacklist' = blacklist \cup
                    {Entry(u, req[r].at, req[r].at + Ticks(ParsedTtl))}
              /\ cut' = [cut EXCEPT ![u] = Later(@, req[r].at)]
         ELSE UNCHANGED <<refresh, blacklist, cut>>
    /\ Finish(r)
    /\ UNCHANGED <<clock, accounts, access, cleaner>>

\* logout without a cookie: blacklistFromAccessToken verifies the JWT only.
AccessLogout ==
    /\ RoomForEntry
    /\ \E a \in access :
          /\ Unexpired(a.iat, AccessTtl)
          /\ blacklist' = blacklist \cup
                {Entry(a.user, clock, clock + Ticks(ParsedTtl))}
          /\ cut' = [cut EXCEPT ![a.user] = Later(@, clock)]
    /\ UNCHANGED <<clock, accounts, refresh, access, req, cleaner>>

\* changePassword, resetPassword and banUser compute the blacklist expiry
\* (and the end of the ban) before their transaction starts.
RevokePrepare(r, u, kind) ==
    /\ req[r].pc = "idle" /\ RoomForEntry
    /\ status[u] = "live"
    /\ kind # "ban" => u \notin social /\ password[u] < MaxChanges
    /\ kind = "password" => \E a \in access : a.user = u /\ Accepted(a)
    /\ \E until \in IF kind = "ban" THEN {Forever} \cup {clock + d : d \in BanLengths}
                                    ELSE {NoBan} :
          req' = [req EXCEPT ![r] = [Idle EXCEPT !.pc = "prepared",
                     !.user = u, !.kind = kind, !.at = clock, !.until = until]]
    /\ UNCHANGED <<clock, accounts, tokens, cleaner>>

\* The account's row is updated (and locked) and the statement over its
\* refresh tokens begins; a deleted account rolls the transaction back.
RevokeScan(r) ==
    LET u == req[r].user IN
    /\ req[r].pc = "prepared" /\ ~Locked(u)
    /\ IF status[u] = "live" THEN req' = [req EXCEPT ![r].pc = "revoking"]
                             ELSE Finish(r)
    /\ UNCHANGED <<clock, accounts, tokens, cleaner>>

Seen(r, t) == t.user = req[r].user /\ r \notin t.hiddenFrom
Forget(r, t) == [t EXCEPT !.hiddenFrom = @ \ {r}]

\* The transaction commits.  Only resetPassword passes revokedAt itself; the
\* others leave it to the column's default, the time of the transaction.
RevokeCommit(r) ==
    LET u == req[r].user
        kind == req[r].kind
        ttl == IF kind = "reset" THEN ParsedTtl ELSE HardTtl
    IN
    /\ req[r].pc = "revoking"
    /\ refresh' =
         IF kind = "ban"
           THEN {Forget(r, t) : t \in {s \in refresh : ~Seen(r, s)}}
           ELSE {Forget(r, IF Seen(r, t) THEN [t EXCEPT !.revoked = TRUE] ELSE t)
                    : t \in refresh}
    /\ \E revokedAt \in IF kind = "reset" THEN {req[r].at} ELSE req[r].at .. clock :
          blacklist' = blacklist \cup
             {Entry(u, revokedAt, req[r].at + Ticks(ttl))}
    /\ cut' = [cut EXCEPT ![u] = Later(@, req[r].at)]
    /\ IF kind = "ban"
         THEN ban' = [ban EXCEPT ![u] = req[r].until] /\ UNCHANGED password
         ELSE password' = [password EXCEPT ![u] = @ + 1] /\ UNCHANGED ban
    /\ Finish(r)
    /\ UNCHANGED <<clock, status, social, goneAt, access, cleaner>>

\* users.remove and admin.deleteUser: the refresh tokens go with the account,
\* the blacklist (which has no foreign key) stays.
DeleteUser(u) ==
    /\ status[u] = "live" /\ ~Locked(u)
    /\ status' = [status EXCEPT ![u] = "gone"]
    /\ ban' = [ban EXCEPT ![u] = NoBan]
    /\ goneAt' = [goneAt EXCEPT ![u] = clock]
    /\ refresh' = {t \in refresh : t.user # u}
    /\ UNCHANGED <<clock, social, password, access, blacklist, cut, req, cleaner>>

\* Mutants of the cleanup: revoked tokens are kept; tokens go a second early;
\* blacklist rows go by the time of the revocation.
CleanRefreshExpiredOnly ==
    /\ cleaner = "idle"
    /\ refresh' = {t \in refresh : ~(t.exp < clock)}
    /\ cleaner' = "blacklist"
    /\ UNCHANGED <<clock, accounts, access, blacklist, cut, req>>

CleanRefreshEarly ==
    /\ cleaner = "idle"
    /\ refresh' = {t \in refresh : ~(t.exp < clock + Ticks(1) \/ t.revoked)}
    /\ cleaner' = "blacklist"
    /\ UNCHANGED <<clock, accounts, access, blacklist, cut, req>>

CleanBlacklistRevoked ==
    /\ cleaner = "blacklist"
    /\ blacklist' = {b \in blacklist : ~(b.revokedAt < clock)}
    /\ cleaner' = "idle"
    /\ UNCHANGED <<clock, accounts, refresh, access, cut, req>>

\* The two statements of the hourly cleanup, one after the other.
CleanRefresh ==
    /\ cleaner = "idle" /\ cleaner' = "blacklist"
    /\ refresh' = {t \in refresh : ~(t.exp < clock \/ t.revoked)}
    /\ UNCHANGED <<clock, accounts, access, blacklist, cut, req>>

CleanBlacklist ==
    /\ cleaner = "blacklist" /\ cleaner' = "idle"
    /\ blacklist' = {b \in blacklist : ~(b.expiresAt < clock)}
    /\ UNCHANGED <<clock, accounts, refresh, access, cut, req>>

\* The server process dies: its requests vanish, open transactions roll back.
Restart ==
    /\ req' = [r \in Requests |-> Idle]
    /\ cleaner' = "idle"
    /\ refresh' = {[t EXCEPT !.hiddenFrom = {}] : t \in refresh}
    /\ UNCHANGED <<clock, accounts, access, blacklist, cut>>

Start(r) ==
    \/ \E u \in Users :
          \/ Register(r, u) \/ OAuthRegister(r, u)
          \/ LoginRead(r, u) \/ OAuthLoginRead(r, u)
    \/ RefreshRead(r)
    \/ LogoutRead(r)
    \/ \E u \in Users, kind \in {"password", "reset", "ban"} : RevokePrepare(r, u, kind)

Continue(r) ==
    \/ LoginRefused(r) \/ LoginUnbans(r) \/ LoginTouches(r)
    \/ Sign(r) \/ StoreTokens(r) \/ Rotate(r)
    \/ LogoutCommit(r) \/ RevokeScan(r) \/ RevokeCommit(r)

Next ==
    \/ Tick \/ AccessLogout \/ CleanRefresh \/ CleanBlacklist \/ Restart
    \/ \E r \in Requests : Start(r) \/ Continue(r)
    \/ \E u \in Users : DeleteUser(u)

Spec == Init /\ [][Next]_vars

-----------------------------------------------------------------------------
(* What the sessions promise.                                              *)

\* An access token issued no later than a revocation of its account is never
\* accepted again: the blacklist row outlives the token although the cleanup
\* deletes it, and although the token's own time is cut to whole seconds.
RevokedRejected ==
    \A a \in access : Ticks(a.iat) <= cut[a.user] => ~Accepted(a)

\* The reason, and the inductive invariant: the latest revocation of an account
\* is backed by a blacklist row, unless every token it revoked has expired.
Backed(u, b) == /\ b.user = u
                /\ b.revokedAt >= cut[u]
                /\ b.expiresAt >= cut[u] + Ticks(AccessTtl)

CutCovered ==
    \A u \in Users :
        \/ cut[u] = -1
        \/ cut[u] >= 0 /\ clock > cut[u] + Ticks(AccessTtl)
        \/ cut[u] >= 0 /\ \E b \in blacklist : Backed(u, b)

\* A deleted account has no refresh token left and was handed no access token
\* signed after the deletion, whatever logins and rotations were in progress.
GoneGetNothing ==
    /\ \A t \in refresh : status[t.user] = "live"
    /\ \A a \in access : status[a.user] = "gone" => a.at <= goneAt[a.user]

\* The cleanup job changes no answer: the tokens accepted and the refresh
\* tokens that can be rotated are the same after each of its statements.
AcceptedTokens == {a \in access : Accepted(a)}
UsableKeys == {<<t.user, t.iat>> : t \in {s \in refresh : Usable(s)}}
CleanupInvisible ==
    [][CleanRefresh \/ CleanBlacklist =>
          AcceptedTokens' = AcceptedTokens /\ UsableKeys' = UsableKeys]_vars

\* The accesses granted implement a gate that never reopens for a token that
\* has expired or been revoked (AccessGate).
Dead == {a \in access : \/ ~Unexpired(a.iat, AccessTtl)
                        \/ Ticks(a.iat) <= cut[a.user]}
Gate == INSTANCE AccessGate WITH
            issued <- access, dead <- Dead, open <- AcceptedTokens,
            now <- clock, bans <- ban
GateSpec == Gate!Spec

\* Fairness: a request goes on once its awaits resolve (PostgreSQL serves the
\* waiters of a row lock in turn, so a wait that ends again and again ends for
\* each of them), and the timer runs the cleanup again and again; the
\* process is not killed between its two statements every single time.
FairSpec ==
    /\ Spec
    /\ \A r \in Requests : SF_vars(Continue(r))
    /\ WF_vars(CleanRefresh) /\ SF_vars(CleanBlacklist)

\* Every request that began ends, also those that wait for a row lock.
RequestsEnd == \A r \in Requests : req[r].pc # "idle" ~> req[r].pc = "idle"

\* The tables do not grow without bound: again and again there is no revoked
\* or expired refresh token left, and no expired blacklist row.
TablesPurged ==
    /\ []<>(\A t \in refresh : ~t.revoked /\ t.exp >= clock)
    /\ []<>(\A b \in blacklist : b.expiresAt >= clock)

-----------------------------------------------------------------------------
(* What comments of the code say of it, and the code does not do.          *)

\* A refresh token is exchanged once (auth.service.ts:237).
RotatedOnce ==
    [][\A r \in Requests : Rotate(r) /\ access' # access =>
          \A t \in RowsAt(req[r].user, req[r].key) : ~t.revoked]_vars

\* A login lifts a ban only when it has ended (auth.service.ts:689).
OnlyEndedBansLifted ==
    [][\A r \in Requests : LoginUnbans(r) =>
          ~BanActive(ban[req[r].user], clock)]_vars

\* No session is opened for an account being banned (reports.service.ts:400).
NoSessionForBanned ==
    \A t \in refresh : BanActive(ban[t.user], clock) => ~Usable(t)

\* A password change ends every session (users.service.ts:189).
PasswordChangeEndsSessions ==
    \A t \in refresh : Usable(t) => t.credential = password[t.user]
=============================================================================
