--------------------------- MODULE SessionsProofs ---------------------------
(***************************************************************************)
(* Theorems about Sessions, for every number of accounts and requests,     *)
(* every lifetime and every bound: type correctness, the revocation        *)
(* invariant and its consequences.                                         *)
(***************************************************************************)
EXTENDS Sessions, TLAPS

\* Whole seconds bracket the tick they are computed from.
LEMMA SecBracket ==
    ASSUME NEW t \in Nat
    PROVE  Sec(t) \in Nat /\ Ticks(Sec(t)) <= t /\ t < Ticks(Sec(t) + 1)
  BY TimeAssumption DEF Sec, Ticks

\* Ticks is monotonic.
LEMMA TicksMonotonic ==
    ASSUME NEW a \in Nat, NEW b \in Nat, a <= b
    PROVE  Ticks(a) \in Nat /\ Ticks(b) \in Nat /\ Ticks(a) <= Ticks(b)
  BY TimeAssumption DEF Ticks

\* A lifetime in seconds can be added before or after the conversion.
LEMMA TicksSum ==
    ASSUME NEW a \in Nat, NEW b \in Nat
    PROVE  Ticks(a + b) = Ticks(a) + Ticks(b)
  BY TimeAssumption DEF Ticks

\* A request that has not begun is well typed.
LEMMA IdleType == Idle \in Request
  BY AccountAssumption DEF Idle, Request

\* So are the row and the token a request stores and hands out.
LEMMA NewRowType ==
    ASSUME TypeOK, NEW r \in Requests
    PROVE  NewRow(r) \in Row /\ NewToken(r) \in Token
  <1>1. req[r] \in Request
    BY DEF TypeOK
  <1>2. Ticks(RowTtl) \in Nat
    BY TimeAssumption DEF Ticks
  <1> QED
    BY <1>1, <1>2 DEF NewRow, NewToken, Row, Token, Request, TypeOK

\* A row keeps its type when it is revoked or a statement over it ends.
LEMMA RevokedRowType ==
    ASSUME NEW t \in Row, NEW r \in Requests
    PROVE  /\ [t EXCEPT !.revoked = TRUE] \in Row
           /\ Forget(r, t) \in Row
           /\ [t EXCEPT !.hiddenFrom = {}] \in Row
  BY DEF Row, Forget

\* A blacklist row made of times and a lifetime is well typed.
LEMMA EntryType ==
    ASSUME NEW u \in Users, NEW a \in Nat, NEW b \in Nat, NEW ttl \in Nat
    PROVE  Entry(u, a, b + Ticks(ttl)) \in Revocation
  BY TimeAssumption DEF Entry, Revocation, Ticks

-----------------------------------------------------------------------------
\* Requests that only change their own record keep the state well typed.
LEMMA RequestTypes ==
    ASSUME TypeOK, NEW r \in Requests
    PROVE  /\ Finish(r) => req' \in [Requests -> Request]
           /\ \A u \in Users : Register(r, u) => TypeOK'
           /\ \A u \in Users : OAuthRegister(r, u) => TypeOK'
           /\ \A u \in Users : LoginRead(r, u) => TypeOK'
           /\ \A u \in Users : OAuthLoginRead(r, u) => TypeOK'
           /\ LoginRefused(r) => TypeOK'
           /\ LoginTouches(r) => TypeOK'
           /\ RevokeScan(r) => TypeOK'
  <1> USE IdleType
  <1>1. Finish(r) => req' \in [Requests -> Request]
    BY DEF Finish, TypeOK
  <1>2. ASSUME NEW u \in Users, Register(r, u)
        PROVE  TypeOK'
    <2>1. [Idle EXCEPT !.pc = "sign", !.user = u] \in Request
      BY DEF Request
    <2> QED
      BY <1>2, <2>1 DEF Register, TypeOK, tokens
  <1>8. ASSUME NEW u \in Users, OAuthRegister(r, u)
        PROVE  TypeOK'
    <2>1. [Idle EXCEPT !.pc = "touch", !.user = u] \in Request
      BY DEF Request
    <2> QED
      BY <1>8, <2>1 DEF OAuthRegister, TypeOK, tokens
  <1>3. ASSUME NEW u \in Users, LoginRead(r, u)
        PROVE  TypeOK'
    <2>1. [Idle EXCEPT !.pc = IF ban[u] = NoBan THEN "touch" ELSE "check",
                       !.user = u, !.until = ban[u], !.credential = password[u]]
            \in Request
      BY DEF Request, TypeOK
    <2> QED
      BY <1>3, <2>1 DEF LoginRead, TypeOK, accounts, tokens
  <1>4. ASSUME NEW u \in Users, OAuthLoginRead(r, u)
        PROVE  TypeOK'
    <2>1. [Idle EXCEPT !.pc = "touch", !.user = u] \in Request
      BY DEF Request
    <2> QED
      BY <1>4, <2>1 DEF OAuthLoginRead, TypeOK, accounts, tokens
  <1>5. LoginRefused(r) => TypeOK'
    BY <1>1 DEF LoginRefused, TypeOK, accounts, tokens
  <1>6. LoginTouches(r) => TypeOK'
    <2>1. [req[r] EXCEPT !.pc = "sign"] \in Request
      BY DEF Request, TypeOK
    <2> QED
      BY <1>1, <2>1 DEF LoginTouches, TypeOK, accounts, tokens
  <1>7. RevokeScan(r) => TypeOK'
    <2>1. [req[r] EXCEPT !.pc = "revoking"] \in Request
      BY DEF Request, TypeOK
    <2> QED
      BY <1>1, <2>1 DEF RevokeScan, TypeOK, accounts, tokens
  <1> QED
    BY <1>1, <1>2, <1>3, <1>4, <1>5, <1>6, <1>7, <1>8

\* So do the steps of a login, a rotation and a logout.
LEMMA SessionTypes ==
    ASSUME TypeOK, NEW r \in Requests
    PROVE  /\ LoginUnbans(r) => TypeOK'
           /\ Sign(r) => TypeOK'
           /\ StoreTokens(r) => TypeOK'
           /\ RefreshRead(r) => TypeOK'
           /\ Rotate(r) => TypeOK'
           /\ LogoutRead(r) => TypeOK'
           /\ LogoutCommit(r) => TypeOK'
  <1>0. Finish(r) => req' \in [Requests -> Request]
    BY RequestTypes
  <1>r. req[r] \in Request
    BY DEF TypeOK
  <1>1. LoginUnbans(r) => TypeOK'
    <2>1. [req[r] EXCEPT !.pc = "touch", !.until = NoBan] \in Request
      BY <1>r DEF Request
    <2> QED
      BY <1>0, <1>r, <2>1 DEF LoginUnbans, TypeOK, tokens, Request
  <1>2. Sign(r) => TypeOK'
    <2>1. ASSUME Sign(r)
          PROVE  req' \in [Requests -> Request]
      <3>1. Sec(clock) \in Nat
        BY SecBracket DEF TypeOK
      <3> QED
        BY <1>r, <2>1, <3>1 DEF Sign, TypeOK, Request
    <2> QED
      BY <2>1 DEF Sign, TypeOK, accounts, tokens
  <1>3. StoreTokens(r) => TypeOK'
    BY <1>0, NewRowType DEF StoreTokens, TypeOK, accounts
  <1>4. RefreshRead(r) => TypeOK'
    <2>1. \A t \in Row : [Idle EXCEPT !.pc = "resign", !.user = t.user,
                            !.key = t.iat, !.credential = t.credential] \in Request
      BY IdleType DEF Request, Row
    <2> QED
      BY <2>1 DEF RefreshRead, TypeOK, accounts, tokens
  <1>5. Rotate(r) => TypeOK'
    <2>1. \A t \in RowsAt(req[r].user, req[r].key) : [t EXCEPT !.revoked = TRUE] \in Row
      BY RevokedRowType DEF RowsAt, TypeOK
    <2> QED
      BY <1>0, <2>1, NewRowType DEF Rotate, TypeOK, accounts
  <1>6. LogoutRead(r) => TypeOK'
    <2>1. \A t \in Row : [Idle EXCEPT !.pc = "logout", !.user = t.user,
                            !.key = t.iat, !.at = clock] \in Request
      BY IdleType DEF Request, Row, TypeOK
    <2> QED
      BY <2>1 DEF LogoutRead, TypeOK, accounts, tokens
  <1>7. LogoutCommit(r) => TypeOK'
    <2>1. \A t \in RowsAt(req[r].user, req[r].key) : [t EXCEPT !.revoked = TRUE] \in Row
      BY RevokedRowType DEF RowsAt, TypeOK
    <2>2. Entry(req[r].user, req[r].at, req[r].at + Ticks(ParsedTtl)) \in Revocation
      BY <1>r, EntryType, TimeAssumption DEF Request
    <2>3. Later(cut[req[r].user], req[r].at) \in Int
      BY <1>r DEF Later, TypeOK, Request
    <2>4. req[r].user \in Users
      BY <1>r DEF Request
    <2> QED
      BY <1>0, <2>1, <2>2, <2>3, <2>4 DEF LogoutCommit, TypeOK, accounts
  <1> QED
    BY <1>1, <1>2, <1>3, <1>4, <1>5, <1>6, <1>7

\* And those of a password change, a reset and a ban.
LEMMA RevocationTypes ==
    ASSUME TypeOK, NEW r \in Requests
    PROVE  /\ \A u \in Users, kind \in {"password", "reset", "ban"} :
                  RevokePrepare(r, u, kind) => TypeOK'
           /\ RevokeCommit(r) => TypeOK'
  <1>r. req[r] \in Request
    BY DEF TypeOK
  <1>1. ASSUME NEW u \in Users, NEW kind \in {"password", "reset", "ban"},
               RevokePrepare(r, u, kind)
        PROVE  TypeOK'
    <2>1. \A until \in Nat \cup {NoBan, Forever} :
            [Idle EXCEPT !.pc = "prepared", !.user = u, !.kind = kind,
                         !.at = clock, !.until = until] \in Request
      BY IdleType DEF Request, TypeOK
    <2>2. \A d \in BanLengths : clock + d \in Nat
      BY AccountAssumption DEF TypeOK
    <2>3. PICK until \in IF kind = "ban" THEN {Forever} \cup {clock + d : d \in BanLengths}
                                         ELSE {NoBan} :
            req' = [req EXCEPT ![r] = [Idle EXCEPT !.pc = "prepared",
                       !.user = u, !.kind = kind, !.at = clock, !.until = until]]
      BY <1>1 DEF RevokePrepare
    <2>4. until \in Nat \cup {NoBan, Forever}
      BY <2>2, <2>3
    <2> QED
      BY <1>1, <2>1, <2>3, <2>4 DEF RevokePrepare, TypeOK, accounts, tokens
  <1>2. ASSUME RevokeCommit(r)
        PROVE  TypeOK'
    <2> DEFINE u == req[r].user
    <2>u. u \in Users /\ req[r].at \in Nat /\ req[r].until \in Nat \cup {NoBan, Forever}
      BY <1>r DEF Request
    <2>1. refresh' \subseteq Row
      <3>1. \A t \in refresh : /\ Forget(r, t) \in Row
                               /\ [t EXCEPT !.revoked = TRUE] \in Row
        BY RevokedRowType DEF TypeOK
      <3>2. \A t \in refresh : Forget(r, [t EXCEPT !.revoked = TRUE]) \in Row
        BY <3>1, RevokedRowType
      <3> QED
        BY <1>2, <3>1, <3>2 DEF RevokeCommit
    <2>2. blacklist' \subseteq Revocation
      <3>1. PICK revokedAt \in IF req[r].kind = "reset" THEN {req[r].at}
                                                        ELSE req[r].at .. clock :
              blacklist' = blacklist \cup
                {Entry(u, revokedAt,
                   req[r].at + Ticks(IF req[r].kind = "reset" THEN ParsedTtl ELSE HardTtl))}
        BY <1>2 DEF RevokeCommit
      <3>2. revokedAt \in Nat
        BY <2>u, <3>1 DEF TypeOK
      <3> QED
        BY <2>u, <3>1, <3>2, EntryType, TimeAssumption DEF TypeOK
    <2>3. cut' \in [Users -> Int]
      <3>1. Later(cut[u], req[r].at) \in Int
        BY <2>u DEF Later, TypeOK
      <3> QED
        BY <1>2, <2>u, <3>1 DEF RevokeCommit, TypeOK
    <2>4. /\ ban' \in [Users -> Nat \cup {NoBan, Forever}]
          /\ password' \in [Users -> Nat]
      BY <1>2, <2>u DEF RevokeCommit, TypeOK
    <2>5. req' \in [Requests -> Request]
      BY <1>2, RequestTypes DEF RevokeCommit
    <2> QED
      BY <1>2, <2>1, <2>2, <2>3, <2>4, <2>5 DEF RevokeCommit, TypeOK
  <1> QED
    BY <1>1, <1>2

\* Every reachable state is well typed.
THEOREM TypeCorrect == Spec => []TypeOK
  <1>1. Init => TypeOK
    BY IdleType, AccountAssumption DEF Init, TypeOK
  <1>2. TypeOK /\ [Next]_vars => TypeOK'
    <2> SUFFICES ASSUME TypeOK, [Next]_vars
                 PROVE  TypeOK'
      OBVIOUS
    <2>1. CASE Tick
      BY <2>1 DEF Tick, TypeOK, accounts, tokens
    <2>2. CASE AccessLogout
      <3>1. PICK a \in access :
              /\ blacklist' = blacklist \cup
                   {Entry(a.user, clock, clock + Ticks(ParsedTtl))}
              /\ cut' = [cut EXCEPT ![a.user] = Later(@, clock)]
        BY <2>2 DEF AccessLogout
      <3>2. a.user \in Users
        BY DEF TypeOK, Token
      <3>3. Entry(a.user, clock, clock + Ticks(ParsedTtl)) \in Revocation
        BY <3>2, EntryType, TimeAssumption DEF TypeOK
      <3>4. Later(cut[a.user], clock) \in Int
        BY <3>2 DEF Later, TypeOK
      <3> QED
        BY <2>2, <3>1, <3>2, <3>3, <3>4 DEF AccessLogout, TypeOK, accounts
    <2>3. CASE CleanRefresh
      BY <2>3 DEF CleanRefresh, TypeOK, accounts
    <2>4. CASE CleanBlacklist
      BY <2>4 DEF CleanBlacklist, TypeOK, accounts
    <2>5. CASE Restart
      <3>1. \A t \in refresh : [t EXCEPT !.hiddenFrom = {}] \in Row
        BY DEF TypeOK, Row
      <3> QED
        BY <2>5, <3>1, IdleType DEF Restart, TypeOK, accounts
    <2>6. ASSUME NEW r \in Requests, Start(r)
          PROVE  TypeOK'
      BY <2>6, RequestTypes, SessionTypes, RevocationTypes DEF Start
    <2>7. ASSUME NEW r \in Requests, Continue(r)
          PROVE  TypeOK'
      BY <2>7, RequestTypes, SessionTypes, RevocationTypes DEF Continue
    <2>8. ASSUME NEW u \in Users, DeleteUser(u)
          PROVE  TypeOK'
      BY <2>8 DEF DeleteUser, TypeOK
    <2>9. CASE UNCHANGED vars
      BY <2>9 DEF vars, TypeOK
    <2> QED
      BY <2>1, <2>2, <2>3, <2>4, <2>5, <2>6, <2>7, <2>8, <2>9 DEF Next
  <1> QED
    BY <1>1, <1>2, PTL DEF Spec

-----------------------------------------------------------------------------
(* The revocation invariant.                                               *)

\* Nothing uncovers a cut: time only grows and rows only come.
LEMMA CoverKept ==
    ASSUME TypeOK, CutCovered, clock' \in Nat, clock' >= clock,
           blacklist \subseteq blacklist', cut' = cut
    PROVE  CutCovered'
  <1> SUFFICES ASSUME NEW u \in Users
               PROVE  \/ cut'[u] = -1
                      \/ cut'[u] >= 0 /\ clock' > cut'[u] + Ticks(AccessTtl)
                      \/ cut'[u] >= 0 /\ \E b \in blacklist' : Backed(u, b)'
    BY DEF CutCovered
  <1>1. cut[u] \in Int /\ clock \in Nat /\ Ticks(AccessTtl) \in Nat
    BY TimeAssumption DEF TypeOK, Ticks
  <1>2. CASE cut[u] = -1
    BY <1>2
  <1>3. CASE cut[u] >= 0 /\ clock > cut[u] + Ticks(AccessTtl)
    BY <1>1, <1>3
  <1>4. CASE cut[u] >= 0 /\ \E b \in blacklist : Backed(u, b)
    BY <1>4 DEF Backed
  <1> QED
    BY <1>2, <1>3, <1>4 DEF CutCovered

\* A revocation covers the cut it makes.
LEMMA CoverMade ==
    ASSUME TypeOK, CutCovered, NEW v \in Users, NEW at \in Nat,
           NEW revokedAt \in Nat, revokedAt >= at,
           NEW ttl \in Nat, AccessTtl <= ttl,
           clock' = clock,
           blacklist' = blacklist \cup {Entry(v, revokedAt, at + Ticks(ttl))},
           cut' = [cut EXCEPT ![v] = Later(@, at)]
    PROVE  CutCovered'
  <1> DEFINE e == Entry(v, revokedAt, at + Ticks(ttl))
  <1> SUFFICES ASSUME NEW u \in Users
               PROVE  \/ cut'[u] = -1
                      \/ cut'[u] >= 0 /\ clock' > cut'[u] + Ticks(AccessTtl)
                      \/ cut'[u] >= 0 /\ \E b \in blacklist' : Backed(u, b)'
    BY DEF CutCovered
  <1>1. /\ cut[u] \in Int /\ clock \in Nat
        /\ Ticks(AccessTtl) \in Nat /\ Ticks(ttl) \in Nat
        /\ Ticks(AccessTtl) <= Ticks(ttl)
    BY TicksMonotonic, TimeAssumption DEF TypeOK
  <1>2. CASE cut'[u] = cut[u]
    <2>1. CASE cut[u] >= 0 /\ \E b \in blacklist : Backed(u, b)
      BY <1>2, <2>1 DEF Backed
    <2> QED
      BY <1>2, <2>1 DEF CutCovered
  <1>3. CASE cut'[u] # cut[u]
    <2>1. u = v /\ cut'[u] = at
      BY <1>3 DEF Later, TypeOK
    <2>2. e \in blacklist' /\ e.user = u /\ e.revokedAt >= at
             /\ e.expiresAt >= at + Ticks(AccessTtl)
      BY <1>1, <2>1 DEF Entry
    <2> QED
      BY <2>1, <2>2 DEF Backed
  <1> QED
    BY <1>2, <1>3

\* The cleanup only deletes rows of revocations whose tokens have expired.
LEMMA CoverCleaned ==
    ASSUME TypeOK, CutCovered, CleanBlacklist
    PROVE  CutCovered'
  <1> SUFFICES ASSUME NEW u \in Users
               PROVE  \/ cut'[u] = -1
                      \/ cut'[u] >= 0 /\ clock' > cut'[u] + Ticks(AccessTtl)
                      \/ cut'[u] >= 0 /\ \E b \in blacklist' : Backed(u, b)'
    BY DEF CutCovered
  <1>0. cut' = cut /\ clock' = clock
    BY DEF CleanBlacklist
  <1>1. cut[u] \in Int /\ clock \in Nat /\ Ticks(AccessTtl) \in Nat
    BY TimeAssumption DEF TypeOK, Ticks
  <1>2. CASE cut[u] >= 0 /\ \E b \in blacklist : Backed(u, b)
    <2>1. PICK b \in blacklist : Backed(u, b)
      BY <1>2
    <2>2. b.expiresAt \in Nat
      BY DEF TypeOK, Revocation
    <2>3. CASE b.expiresAt < clock
      BY <1>0, <1>1, <1>2, <2>1, <2>2, <2>3 DEF Backed
    <2>4. CASE ~(b.expiresAt < clock)
      <3>1. b \in blacklist'
        BY <2>4 DEF CleanBlacklist
      <3> QED
        BY <1>0, <1>2, <2>1, <3>1 DEF Backed
    <2> QED
      BY <2>3, <2>4
  <1> QED
    BY <1>0, <1>2 DEF CutCovered

\* Every step keeps the cuts covered.
LEMMA CoverInductive == TypeOK /\ CutCovered /\ [Next]_vars => CutCovered'
  <1> SUFFICES ASSUME TypeOK, CutCovered, [Next]_vars
               PROVE  CutCovered'
    OBVIOUS
  <1>c. clock \in Nat
    BY DEF TypeOK
  <1>1. CASE Tick
    BY <1>1, <1>c, CoverKept DEF Tick, tokens
  <1>2. CASE AccessLogout
    <2>1. PICK a \in access :
            /\ blacklist' = blacklist \cup
                 {Entry(a.user, clock, clock + Ticks(ParsedTtl))}
            /\ cut' = [cut EXCEPT ![a.user] = Later(@, clock)]
      BY <1>2 DEF AccessLogout
    <2>2. a.user \in Users
      BY DEF TypeOK, Token
    <2>3. clock' = clock /\ clock >= clock
      BY <1>2, <1>c DEF AccessLogout
    <2>4. ParsedTtl \in Nat /\ AccessTtl <= ParsedTtl
      BY TimeAssumption, TtlAssumption
    <2> QED
      BY <1>c, <2>1, <2>2, <2>3, <2>4, CoverMade
  <1>3. CASE CleanRefresh
    BY <1>3, <1>c, CoverKept DEF CleanRefresh
  <1>4. CASE CleanBlacklist
    BY <1>4, CoverCleaned
  <1>5. CASE Restart
    BY <1>5, <1>c, CoverKept DEF Restart
  <1>6. ASSUME NEW r \in Requests, Start(r)
        PROVE  CutCovered'
    <2>1. clock' = clock /\ blacklist' = blacklist /\ cut' = cut
      BY <1>6 DEF Start, Register, OAuthRegister, LoginRead, OAuthLoginRead, RefreshRead,
                  LogoutRead, RevokePrepare, tokens
    <2> QED
      BY <2>1, <1>c, CoverKept
  <1>7. ASSUME NEW r \in Requests, LogoutCommit(r)
        PROVE  CutCovered'
    <2>1. req[r].user \in Users /\ req[r].at \in Nat
      BY DEF TypeOK, Request
    <2>2. CASE RowsAt(req[r].user, req[r].key) # {}
      <3>1. /\ clock' = clock
            /\ blacklist' = blacklist \cup
                 {Entry(req[r].user, req[r].at, req[r].at + Ticks(ParsedTtl))}
            /\ cut' = [cut EXCEPT ![req[r].user] = Later(@, req[r].at)]
        BY <1>7, <2>2 DEF LogoutCommit
      <3>2. ParsedTtl \in Nat /\ AccessTtl <= ParsedTtl
        BY TimeAssumption, TtlAssumption
      <3>3. req[r].at >= req[r].at
        BY <2>1
      <3> QED
        BY <2>1, <3>1, <3>2, <3>3, CoverMade
    <2>3. CASE RowsAt(req[r].user, req[r].key) = {}
      BY <1>7, <1>c, <2>3, CoverKept DEF LogoutCommit
    <2> QED
      BY <2>2, <2>3
  <1>8. ASSUME NEW r \in Requests, RevokeCommit(r)
        PROVE  CutCovered'
    <2> DEFINE ttl == IF req[r].kind = "reset" THEN ParsedTtl ELSE HardTtl
    <2>1. req[r].user \in Users /\ req[r].at \in Nat
      BY DEF TypeOK, Request
    <2>2. PICK revokedAt \in IF req[r].kind = "reset" THEN {req[r].at}
                                                      ELSE req[r].at .. clock :
            blacklist' = blacklist \cup
              {Entry(req[r].user, revokedAt, req[r].at + Ticks(ttl))}
      BY <1>8 DEF RevokeCommit
    <2>3. revokedAt \in Nat /\ revokedAt >= req[r].at
      BY <1>c, <2>1, <2>2
    <2>4. ttl \in Nat /\ AccessTtl <= ttl
      BY TimeAssumption, TtlAssumption
    <2>5. clock' = clock /\ cut' = [cut EXCEPT ![req[r].user] = Later(@, req[r].at)]
      BY <1>8 DEF RevokeCommit
    <2> HIDE DEF ttl
    <2> QED
      BY <2>1, <2>2, <2>3, <2>4, <2>5, CoverMade
  <1>9. ASSUME NEW r \in Requests, Continue(r), ~LogoutCommit(r), ~RevokeCommit(r)
        PROVE  CutCovered'
    <2>1. clock' = clock /\ blacklist' = blacklist /\ cut' = cut
      BY <1>9 DEF Continue, LoginRefused, LoginUnbans, LoginTouches, Sign,
                  StoreTokens, Rotate, RevokeScan, tokens
    <2> QED
      BY <2>1, <1>c, CoverKept
  <1>10. ASSUME NEW u \in Users, DeleteUser(u)
         PROVE  CutCovered'
    BY <1>10, <1>c, CoverKept DEF DeleteUser
  <1>11. CASE UNCHANGED vars
    BY <1>11, <1>c, CoverKept DEF vars
  <1> QED
    BY <1>1, <1>2, <1>3, <1>4, <1>5, <1>6, <1>7, <1>8, <1>9, <1>10, <1>11 DEF Next

\* A covered cut refuses every token issued up to it.
LEMMA CoverRefuses == TypeOK /\ CutCovered => RevokedRejected
  <1> SUFFICES ASSUME TypeOK, CutCovered, NEW a \in access,
                      Ticks(a.iat) <= cut[a.user], Accepted(a)
               PROVE  FALSE
    BY DEF RevokedRejected
  <1> DEFINE u == a.user
  <1>1. /\ u \in Users /\ a.iat \in Nat /\ clock \in Nat /\ cut[u] \in Int
        /\ Ticks(AccessTtl) \in Nat /\ Ticks(a.iat) \in Nat
    BY TimeAssumption DEF TypeOK, Token, Ticks
  <1>2. clock < Ticks(a.iat) + Ticks(AccessTtl)
    <2>1. /\ Sec(clock) \in Nat /\ clock < Ticks(Sec(clock) + 1)
          /\ Sec(clock) + 1 <= a.iat + AccessTtl
      BY <1>1, SecBracket, TimeAssumption DEF Accepted, Unexpired
    <2>2. Ticks(Sec(clock) + 1) <= Ticks(a.iat + AccessTtl)
      BY <1>1, <2>1, TicksMonotonic, TimeAssumption
    <2>3. Ticks(a.iat + AccessTtl) = Ticks(a.iat) + Ticks(AccessTtl)
      BY <1>1, TicksSum, TimeAssumption
    <2>4. Ticks(Sec(clock) + 1) \in Nat
      BY <2>1, TicksMonotonic
    <2> QED
      BY <1>1, <2>1, <2>2, <2>3, <2>4
  <1>3. PICK b \in blacklist : Backed(u, b)
    BY <1>1, <1>2 DEF CutCovered
  <1>4. b.revokedAt \in Nat /\ b.expiresAt \in Nat
    BY DEF TypeOK, Revocation
  <1>5. b.user = u /\ b.revokedAt >= Ticks(a.iat) /\ b.expiresAt > clock
    BY <1>1, <1>2, <1>3, <1>4 DEF Backed
  <1> QED
    BY <1>5 DEF Accepted, Blacklisted

\* An access token issued no later than a revocation of its account is never
\* accepted again, for all lifetimes with AccessTtl <= ParsedTtl, HardTtl.
THEOREM RevocationHolds == Spec => []RevokedRejected
  <1>1. Init => CutCovered
    BY DEF Init, CutCovered
  <1> QED
    BY <1>1, TypeCorrect, CoverInductive, CoverRefuses, PTL DEF Spec

-----------------------------------------------------------------------------
(* The cleanup.                                                            *)

\* What the hourly cleanup deletes was refused before: neither statement changes
\* the tokens that are accepted or can be rotated.
THEOREM CleanupIsInvisible == Spec => CleanupInvisible
  <1>1. ASSUME TypeOK, CleanRefresh
        PROVE  AcceptedTokens' = AcceptedTokens /\ UsableKeys' = UsableKeys
    <2>1. /\ clock' = clock /\ access' = access /\ blacklist' = blacklist /\ ban' = ban
          /\ refresh' = {t \in refresh : ~(t.exp < clock \/ t.revoked)}
      BY <1>1 DEF CleanRefresh, accounts
    <2>2. AcceptedTokens' = AcceptedTokens
      BY <2>1 DEF AcceptedTokens, Accepted, Unexpired, Blacklisted
    <2>3. \A t \in refresh : Usable(t) => t \in refresh'
      BY <1>1, <2>1 DEF Usable, TypeOK, Row
    <2>4. \A t : Usable(t)' <=> Usable(t)
      BY <2>1 DEF Usable, Unexpired
    <2>5. {t \in refresh' : Usable(t)'} = {t \in refresh : Usable(t)}
      BY <2>1, <2>3, <2>4
    <2> QED
      BY <2>2, <2>5 DEF UsableKeys
  <1>2. ASSUME TypeOK, CleanBlacklist
        PROVE  AcceptedTokens' = AcceptedTokens /\ UsableKeys' = UsableKeys
    <2>1. /\ clock' = clock /\ access' = access /\ refresh' = refresh /\ ban' = ban
          /\ blacklist' = {b \in blacklist : ~(b.expiresAt < clock)}
      BY <1>2 DEF CleanBlacklist, accounts
    <2>2. \A a : Blacklisted(a)' <=> Blacklisted(a)
      BY <1>2, <2>1 DEF Blacklisted, TypeOK, Revocation
    <2>3. AcceptedTokens' = AcceptedTokens
      BY <2>1, <2>2 DEF AcceptedTokens, Accepted, Unexpired
    <2>4. UsableKeys' = UsableKeys
      BY <2>1 DEF UsableKeys, Usable, Unexpired
    <2> QED
      BY <2>3, <2>4
  <1>3. TypeOK /\ [Next]_vars =>
          [CleanRefresh \/ CleanBlacklist =>
              AcceptedTokens' = AcceptedTokens /\ UsableKeys' = UsableKeys]_vars
    BY <1>1, <1>2
  <1> QED
    BY <1>3, TypeCorrect, PTL DEF Spec, CleanupInvisible

-----------------------------------------------------------------------------
(* Deleted accounts.                                                       *)

\* The inductive invariant behind GoneGetNothing: besides, no token and no
\* request is from the future, so a deletion comes after all of them.
Dated ==
    /\ \A t \in refresh : status[t.user] = "live"
    /\ \A a \in access : a.at <= clock
    /\ \A r \in Requests : req[r].at <= clock
    /\ \A a \in access : status[a.user] = "gone" => a.at <= goneAt[a.user]

\* Steps that hand out nothing: the accounts stay or one is created.
LEMMA DatedKept ==
    ASSUME TypeOK, Dated, clock' \in Nat, clock' >= clock,
           access' = access, goneAt' = goneAt,
           \A t \in refresh' : \E s \in refresh : s.user = t.user,
           \A r \in Requests : req'[r].at <= clock',
           \A u \in Users : \/ status'[u] = status[u]
                            \/ status[u] = "none" /\ status'[u] = "live"
    PROVE  Dated'
  <1>1. \A t \in refresh' : status'[t.user] = "live"
    BY DEF Dated, TypeOK, Row
  <1>2. \A a \in access : a.at \in Nat /\ a.user \in Users
    BY DEF TypeOK, Token
  <1>3. clock \in Nat
    BY DEF TypeOK
  <1>4. \A a \in access' : a.at <= clock'
    BY <1>2, <1>3 DEF Dated
  <1>5. \A a \in access' : status'[a.user] = "gone" => a.at <= goneAt'[a.user]
    BY <1>2 DEF Dated
  <1> QED
    BY <1>1, <1>4, <1>5 DEF Dated

\* Tokens are stored for an account that exists at that moment.
LEMMA DatedStored ==
    ASSUME TypeOK, Dated, NEW r \in Requests, Storable(r), Finish(r),
           clock' = clock, status' = status, goneAt' = goneAt,
           \A t \in refresh' : \/ \E s \in refresh : s.user = t.user
                               \/ t.user = req[r].user,
           access' = access \cup {NewToken(r)}
    PROVE  Dated'
  <1>1. \A t \in refresh' : status'[t.user] = "live"
    BY DEF Dated, Storable
  <1>2. NewToken(r).at = req[r].at /\ NewToken(r).user = req[r].user
    BY DEF NewToken
  <1>3. \A q \in Requests : req'[q].at <= clock'
    BY DEF Dated, Finish, Idle, TypeOK
  <1>4. \A a \in access' : a.at <= clock'
    BY <1>2 DEF Dated
  <1>5. \A a \in access' : status'[a.user] = "gone" => a.at <= goneAt'[a.user]
    BY <1>2 DEF Dated, Storable
  <1> QED
    BY <1>1, <1>3, <1>4, <1>5 DEF Dated

\* A request that starts or goes on is no later than now.
LEMMA RequestDated ==
    ASSUME TypeOK, Dated, NEW r \in Requests, NEW q \in Requests
    PROVE  /\ Finish(r) => req'[q].at <= clock
           /\ Start(r) => req'[q].at <= clock
           /\ Continue(r) => req'[q].at <= clock
  <1>1. clock \in Nat /\ req[q].at <= clock /\ Idle.at = 0
    BY DEF TypeOK, Dated, Idle
  <1>2. Finish(r) => req'[q].at <= clock
    BY <1>1 DEF Finish, TypeOK
  <1>3. ASSUME Start(r)
        PROVE  req'[q].at <= clock
    <2>1. \A u \in Users : Register(r, u) => req'[q].at <= clock
      BY <1>1 DEF Register, Idle, TypeOK
    <2>6. \A u \in Users : OAuthRegister(r, u) => req'[q].at <= clock
      BY <1>1 DEF OAuthRegister, Idle, TypeOK
    <2>7. \A u \in Users : OAuthLoginRead(r, u) => req'[q].at <= clock
      BY <1>1 DEF OAuthLoginRead, Idle, TypeOK
    <2>2. \A u \in Users : LoginRead(r, u) => req'[q].at <= clock
      BY <1>1 DEF LoginRead, Idle, TypeOK
    <2>3. RefreshRead(r) => req'[q].at <= clock
      BY <1>1 DEF RefreshRead, Idle, TypeOK
    <2>4. LogoutRead(r) => req'[q].at <= clock
      BY <1>1 DEF LogoutRead, Idle, TypeOK
    <2>5. \A u \in Users, kind \in {"password", "reset", "ban"} :
             RevokePrepare(r, u, kind) => req'[q].at <= clock
      BY <1>1 DEF RevokePrepare, Idle, TypeOK
    <2> QED
      BY <1>3, <2>1, <2>2, <2>3, <2>4, <2>5, <2>6, <2>7 DEF Start
  <1>4. ASSUME Continue(r)
        PROVE  req'[q].at <= clock
    <2>1. LoginUnbans(r) \/ LoginTouches(r) \/ RevokeScan(r) => req'[q].at <= clock
      BY <1>1, <1>2 DEF LoginUnbans, LoginTouches, RevokeScan, TypeOK, Request
    <2>2. Sign(r) => req'[q].at <= clock
      BY <1>1 DEF Sign, TypeOK, Request
    <2>3. LoginRefused(r) \/ StoreTokens(r) \/ Rotate(r) \/ LogoutCommit(r)
            \/ RevokeCommit(r) => Finish(r)
      BY DEF LoginRefused, StoreTokens, Rotate, LogoutCommit, RevokeCommit
    <2> QED
      BY <1>2, <1>4, <2>1, <2>2, <2>3 DEF Continue
  <1> QED
    BY <1>2, <1>3, <1>4



\* Every step keeps the dates.
LEMMA DatedInductive == TypeOK /\ Dated /\ TypeOK' /\ [Next]_vars => Dated'
  <1> SUFFICES ASSUME TypeOK, Dated, TypeOK', [Next]_vars
               PROVE  Dated'
    OBVIOUS
  <1>c. clock \in Nat /\ clock' \in Nat
    BY DEF TypeOK
  <1>1. CASE Tick
    <2>1. \A r \in Requests : req[r].at \in Nat
      BY DEF TypeOK, Request
    <2>2. clock' >= clock /\ \A r \in Requests : req'[r].at <= clock'
      BY <1>1, <1>c, <2>1 DEF Tick, Dated
    <2> QED
      BY <1>1, <1>c, <2>2, DatedKept DEF Tick, accounts, tokens
  <1>2. CASE AccessLogout \/ CleanRefresh \/ CleanBlacklist
    <2>1. /\ clock' = clock /\ access' = access /\ status' = status
          /\ goneAt' = goneAt /\ req' = req /\ refresh' \subseteq refresh
      BY <1>2 DEF AccessLogout, CleanRefresh, CleanBlacklist, accounts
    <2>2. clock' >= clock /\ \A r \in Requests : req'[r].at <= clock'
      BY <1>c, <2>1 DEF Dated
    <2> QED
      BY <1>c, <2>1, <2>2, DatedKept
  <1>3. CASE Restart
    <2>1. /\ clock' = clock /\ access' = access /\ status' = status /\ goneAt' = goneAt
      BY <1>3 DEF Restart, accounts
    <2>2. \A t \in refresh' : \E s \in refresh : s.user = t.user
      BY <1>3 DEF Restart, TypeOK, Row
    <2>3. clock' >= clock /\ \A r \in Requests : req'[r].at <= clock'
      BY <1>3, <1>c, <2>1 DEF Restart, Idle
    <2> QED
      BY <1>c, <2>1, <2>2, <2>3, DatedKept
  <1>4. ASSUME NEW r \in Requests, Start(r)
        PROVE  Dated'
    <2>1. /\ clock' = clock /\ access' = access /\ goneAt' = goneAt /\ refresh' = refresh
          /\ \A u \in Users : \/ status'[u] = status[u]
                              \/ status[u] = "none" /\ status'[u] = "live"
      BY <1>4 DEF Start, Register, OAuthRegister, LoginRead, OAuthLoginRead,
                  RefreshRead, LogoutRead, RevokePrepare, tokens, accounts, TypeOK
    <2>2. clock' >= clock /\ \A q \in Requests : req'[q].at <= clock'
      BY <1>4, <1>c, <2>1, RequestDated
    <2> QED
      BY <1>c, <2>1, <2>2, DatedKept
  <1>5. ASSUME NEW r \in Requests, StoreTokens(r), Storable(r)
        PROVE  Dated'
    <2>1. /\ clock' = clock /\ status' = status /\ goneAt' = goneAt /\ Finish(r)
          /\ refresh' = refresh \cup {NewRow(r)}
          /\ access' = access \cup {NewToken(r)}
      BY <1>5 DEF StoreTokens, accounts
    <2>2. NewRow(r).user = req[r].user
      BY DEF NewRow
    <2> QED
      BY <1>5, <2>1, <2>2, DatedStored
  <1>6. ASSUME NEW r \in Requests, Rotate(r), Storable(r),
               RowsAt(req[r].user, req[r].key) # {}
        PROVE  Dated'
    <2> DEFINE old == RowsAt(req[r].user, req[r].key)
    <2>1. /\ clock' = clock /\ status' = status /\ goneAt' = goneAt /\ Finish(r)
          /\ refresh' = (refresh \ old) \cup {[t EXCEPT !.revoked = TRUE] : t \in old}
                           \cup {NewRow(r)}
          /\ access' = access \cup {NewToken(r)}
      BY <1>6 DEF Rotate, accounts
    <2>2. NewRow(r).user = req[r].user
      BY DEF NewRow
    <2>3. \A t \in old : t \in refresh /\ [t EXCEPT !.revoked = TRUE].user = t.user
      BY DEF RowsAt, TypeOK, Row
    <2>4. \A t \in refresh' : \/ \E s \in refresh : s.user = t.user
                             \/ t.user = req[r].user
      BY <2>1, <2>2, <2>3
    <2> QED
      BY <1>6, <2>1, <2>4, DatedStored
  <1>7. ASSUME NEW r \in Requests, Continue(r),
               ~(StoreTokens(r) /\ Storable(r)),
               ~(Rotate(r) /\ Storable(r) /\ RowsAt(req[r].user, req[r].key) # {})
        PROVE  Dated'
    <2>1. clock' = clock /\ status' = status /\ goneAt' = goneAt /\ access' = access
      BY <1>7 DEF Continue, LoginRefused, LoginUnbans, LoginTouches, Sign, StoreTokens,
                  Rotate, LogoutCommit, RevokeScan, RevokeCommit, accounts, tokens
    <2>2. \A t \in refresh' : \E s \in refresh : s.user = t.user
      <3>1. CASE LogoutCommit(r)
        <4>1. \A t \in RowsAt(req[r].user, req[r].key) :
                 t \in refresh /\ [t EXCEPT !.revoked = TRUE].user = t.user
          BY DEF RowsAt, TypeOK, Row
        <4>2. \A t \in refresh' : \/ t \in refresh
                                 \/ \E s \in RowsAt(req[r].user, req[r].key) :
                                       t = [s EXCEPT !.revoked = TRUE]
          BY <3>1 DEF LogoutCommit
        <4> QED
          BY <4>1, <4>2
      <3>2. CASE RevokeCommit(r)
        <4>1. \A t \in refresh : /\ Forget(r, t).user = t.user
                                 /\ Forget(r, [t EXCEPT !.revoked = TRUE]).user = t.user
          BY DEF Forget, TypeOK, Row
        <4>2. \A t \in refresh' : \E s \in refresh :
                 t = Forget(r, s) \/ t = Forget(r, [s EXCEPT !.revoked = TRUE])
          BY <3>2 DEF RevokeCommit
        <4> QED
          BY <4>1, <4>2
      <3>3. CASE ~LogoutCommit(r) /\ ~RevokeCommit(r)
        <4>1. refresh' = refresh
          BY <1>7, <3>3 DEF Continue, LoginRefused, LoginUnbans, LoginTouches, Sign,
                            StoreTokens, Rotate, RevokeScan, tokens
        <4> QED
          BY <4>1
      <3> QED
        BY <3>1, <3>2, <3>3
    <2>3. clock' >= clock /\ \A q \in Requests : req'[q].at <= clock'
      BY <1>7, <1>c, <2>1, RequestDated
    <2> QED
      BY <1>c, <2>1, <2>2, <2>3, DatedKept
  <1>8. ASSUME NEW u \in Users, DeleteUser(u)
        PROVE  Dated'
    <2>1. /\ clock' = clock /\ access' = access /\ req' = req
          /\ status' = [status EXCEPT ![u] = "gone"]
          /\ goneAt' = [goneAt EXCEPT ![u] = clock]
          /\ refresh' = {t \in refresh : t.user # u}
      BY <1>8 DEF DeleteUser
    <2>2. \A t \in refresh' : status'[t.user] = "live"
      BY <2>1 DEF Dated, TypeOK, Row
    <2>3. \A a \in access' : status'[a.user] = "gone" => a.at <= goneAt'[a.user]
      BY <2>1 DEF Dated, TypeOK, Token
    <2> QED
      BY <2>1, <2>2, <2>3 DEF Dated
  <1>9. CASE UNCHANGED vars
    BY <1>9 DEF vars, Dated
  <1>10. ASSUME NEW r \in Requests, Continue(r)
         PROVE  Dated'
    BY <1>10, <1>5, <1>6, <1>7
  <1> QED
    BY <1>1, <1>2, <1>3, <1>4, <1>8, <1>9, <1>10 DEF Next

\* A deleted account has no refresh token and gets no access token any more,
\* whatever logins, rotations and restarts were in progress.
THEOREM GoneStaysOut == Spec => []GoneGetNothing
  <1>1. Init => Dated
    BY DEF Init, Dated, Idle
  <1>2. Dated => GoneGetNothing
    BY DEF Dated, GoneGetNothing
  <1> QED
    BY <1>1, <1>2, TypeCorrect, DatedInductive, PTL DEF Spec

-----------------------------------------------------------------------------
(* Sessions implements AccessGate.                                         *)

\* What is let in after a step was issued and is not dead.
LEMMA OpenIsAlive ==
    ASSUME RevokedRejected'
    PROVE  /\ \A a \in AcceptedTokens' : a \in access' /\ a \notin Dead'
           /\ \A a \in Dead' : a \in access'
  BY DEF AcceptedTokens, Dead, Accepted, RevokedRejected

\* A dead token stays dead while time goes on and cuts only move forward.
LEMMA DeadStays ==
    ASSUME TypeOK, TypeOK', access \subseteq access', clock' >= clock,
           \A u \in Users : cut'[u] >= cut[u]
    PROVE  Dead \subseteq Dead'
  <1> SUFFICES ASSUME NEW a \in Dead
               PROVE  a \in Dead'
    OBVIOUS
  <1>1. /\ a \in access /\ a \in access' /\ a.iat \in Nat /\ a.user \in Users
        /\ clock \in Nat /\ clock' \in Nat
        /\ cut[a.user] \in Int /\ cut'[a.user] \in Int
    BY DEF Dead, TypeOK, Token
  <1>2. Ticks(a.iat) \in Nat /\ AccessTtl \in Nat
    BY <1>1, TimeAssumption DEF Ticks
  <1>3. CASE ~Unexpired(a.iat, AccessTtl)
    <2>1. /\ Sec(clock) \in Nat /\ Ticks(Sec(clock)) <= clock
          /\ Sec(clock') \in Nat /\ clock' < Ticks(Sec(clock') + 1)
      BY <1>1, SecBracket
    <2>2. Sec(clock) <= Sec(clock')
      <3> SUFFICES ASSUME Sec(clock') + 1 <= Sec(clock)
                   PROVE  FALSE
        BY <2>1
      <3>1. /\ Ticks(Sec(clock') + 1) <= Ticks(Sec(clock))
            /\ Ticks(Sec(clock') + 1) \in Nat /\ Ticks(Sec(clock)) \in Nat
        BY <2>1, TicksMonotonic
      <3> QED
        BY <1>1, <2>1, <3>1
    <2>3. Sec(clock) >= a.iat + AccessTtl
      BY <1>1, <1>2, <1>3, <2>1 DEF Unexpired
    <2>4. ~Unexpired(a.iat, AccessTtl)'
      BY <1>1, <1>2, <2>1, <2>2, <2>3 DEF Unexpired
    <2> QED
      BY <1>1, <2>4 DEF Dead
  <1>4. CASE Ticks(a.iat) <= cut[a.user]
    <2>1. Ticks(a.iat) <= cut'[a.user]
      BY <1>1, <1>2, <1>4
    <2> QED
      BY <1>1, <2>1 DEF Dead
  <1> QED
    BY <1>3, <1>4 DEF Dead

\* A step that leaves time and bans alone and hands out nothing lets nobody in
\* who was not before.
LEMMA GateKills ==
    ASSUME TypeOK, TypeOK', RevokedRejected', UNCHANGED <<access, clock, ban>>,
           \A u \in Users : cut'[u] >= cut[u],
           \A a \in access : Blacklisted(a) => Blacklisted(a)'
    PROVE  Gate!Kill
  <1>1. Dead \subseteq Dead'
    <2>1. clock' >= clock /\ access \subseteq access'
      BY DEF TypeOK
    <2> QED
      BY <2>1, DeadStays
  <1>2. /\ \A a \in AcceptedTokens' : a \in access' /\ a \notin Dead'
        /\ \A a \in Dead' : a \in access'
    BY OpenIsAlive
  <1>3. \A a \in AcceptedTokens' : a \in AcceptedTokens
    BY DEF AcceptedTokens, Accepted, Unexpired
  <1> QED
    BY <1>1, <1>2, <1>3 DEF Gate!Kill

\* One that moves time or a ban may let in again what is not dead.
LEMMA GateChanges ==
    ASSUME TypeOK, TypeOK', RevokedRejected', access' = access, clock' >= clock,
           \/ clock' # clock \/ ban' # ban,
           \A u \in Users : cut'[u] >= cut[u]
    PROVE  Gate!Change
  <1>1. Dead \subseteq Dead'
    BY DeadStays
  <1>2. /\ \A a \in AcceptedTokens' : a \in access' /\ a \notin Dead'
        /\ \A a \in Dead' : a \in access'
    BY OpenIsAlive
  <1>3. <<clock, ban>>' # <<clock, ban>>
    OBVIOUS
  <1> QED
    BY <1>1, <1>2, <1>3 DEF Gate!Change

\* A token is handed out: it may be dead by then, the others stay as they are.
LEMMA GateIssues ==
    ASSUME TypeOK, TypeOK', RevokedRejected', NEW t, t \notin access,
           access' = access \cup {t}, UNCHANGED <<clock, ban, blacklist, cut>>
    PROVE  Gate!Issue
  <1>1. \A a \in AcceptedTokens' : a \in access' /\ a \notin Dead'
    BY OpenIsAlive
  <1>2. \A a \in AcceptedTokens' : a \in AcceptedTokens \/ a = t
    BY DEF AcceptedTokens, Accepted, Unexpired, Blacklisted
  <1>3. Dead' = Dead \/ Dead' = Dead \cup {t}
    BY DEF Dead, Unexpired
  <1>4. AcceptedTokens' \subseteq (AcceptedTokens \cup {t}) \ Dead'
    BY <1>1, <1>2
  <1>5. t \in access' \ access
    OBVIOUS
  <1> QED
    BY <1>3, <1>4, <1>5 DEF Gate!Issue

\* A cut that is moved to a later time is moved forward.
LEMMA CutMoves ==
    ASSUME TypeOK, TypeOK', NEW v, NEW at,
           cut' = [cut EXCEPT ![v] = Later(@, at)], at \in Nat
    PROVE  \A u \in Users : cut'[u] >= cut[u]
  BY DEF Later, TypeOK

\* A step over requests and rows alone changes nothing at the gate.
LEMMA GateStays ==
    ASSUME UNCHANGED <<access, clock, ban, blacklist, cut>>
    PROVE  UNCHANGED <<access, Dead, AcceptedTokens, clock, ban>>
  BY DEF Dead, AcceptedTokens, Accepted, Unexpired, Blacklisted

\* A step at the gate.
GateStep == [Gate!Next]_<<access, Dead, AcceptedTokens, clock, ban>>

\* Every step of the sessions is a step of the gate.
LEMMA GateSteps ==
    ASSUME TypeOK, TypeOK', RevokedRejected', [Next]_vars
    PROVE  GateStep
  <1> USE DEF Gate!Next
  <1>c. clock \in Nat /\ \A u \in Users : cut[u] \in Int
    BY DEF TypeOK
  <1>1. CASE Tick
    <2>1. /\ clock' >= clock /\ clock' # clock /\ access' = access
          /\ \A u \in Users : cut'[u] >= cut[u]
      BY <1>1, <1>c DEF Tick, tokens
    <2> QED
      BY <2>1, GateChanges DEF GateStep
  <1>2. CASE AccessLogout
    <2>1. PICK a \in access :
            /\ blacklist' = blacklist \cup
                 {Entry(a.user, clock, clock + Ticks(ParsedTtl))}
            /\ cut' = [cut EXCEPT ![a.user] = Later(@, clock)]
      BY <1>2 DEF AccessLogout
    <2>2. UNCHANGED <<access, clock, ban>>
      BY <1>2 DEF AccessLogout, accounts
    <2>3. \A u \in Users : cut'[u] >= cut[u]
      BY <1>c, <2>1, CutMoves
    <2>4. \A b \in access : Blacklisted(b) => Blacklisted(b)'
      BY <2>1, <2>2 DEF Blacklisted
    <2> QED
      BY <2>2, <2>3, <2>4, GateKills DEF GateStep
  <1>3. CASE CleanBlacklist
    <2>1. /\ UNCHANGED <<access, clock, ban, cut>>
          /\ blacklist' = {b \in blacklist : ~(b.expiresAt < clock)}
      BY <1>3 DEF CleanBlacklist, accounts
    <2>2. \A u \in Users : cut'[u] >= cut[u]
      BY <1>c, <2>1
    <2>3. \A b \in blacklist : b.expiresAt \in Nat
      BY DEF TypeOK, Revocation
    <2>4. \A a \in access : Blacklisted(a) => Blacklisted(a)'
      BY <1>c, <2>1, <2>3 DEF Blacklisted
    <2> QED
      BY <2>1, <2>2, <2>4, GateKills DEF GateStep
  <1>4. CASE CleanRefresh \/ Restart \/ UNCHANGED vars
    <2>1. UNCHANGED <<access, clock, ban, blacklist, cut>>
      BY <1>4 DEF CleanRefresh, Restart, vars, accounts
    <2> QED
      BY <2>1, GateStays DEF GateStep
  <1>5. ASSUME NEW r \in Requests, Start(r)
        PROVE  GateStep
    <2>1. UNCHANGED <<access, clock, ban, blacklist, cut>>
      BY <1>5 DEF Start, Register, OAuthRegister, LoginRead, OAuthLoginRead, RefreshRead,
                  LogoutRead, RevokePrepare, tokens, accounts
    <2> QED
      BY <2>1, GateStays DEF GateStep
  <1>6. ASSUME NEW r \in Requests, LoginUnbans(r)
        PROVE  GateStep
    <2>1. UNCHANGED <<access, clock, blacklist, cut>>
      BY <1>6 DEF LoginUnbans, tokens
    <2>2. CASE ban' = ban
      BY <2>1, <2>2, GateStays DEF GateStep
    <2>3. CASE ban' # ban
      BY <1>c, <2>1, <2>3, GateChanges DEF GateStep
    <2> QED
      BY <2>2, <2>3
  <1>7. ASSUME NEW r \in Requests, StoreTokens(r) \/ Rotate(r)
        PROVE  GateStep
    <2>1. UNCHANGED <<clock, ban, blacklist, cut>>
      BY <1>7 DEF StoreTokens, Rotate, accounts
    <2>2. \/ access' = access
          \/ NewToken(r) \notin access /\ access' = access \cup {NewToken(r)}
      BY <1>7 DEF StoreTokens, Rotate
    <2>3. CASE access' = access
      BY <2>1, <2>3, GateStays DEF GateStep
    <2>4. CASE NewToken(r) \notin access /\ access' = access \cup {NewToken(r)}
      BY <2>1, <2>4, GateIssues DEF GateStep
    <2> QED
      BY <2>2, <2>3, <2>4
  <1>8. ASSUME NEW r \in Requests, LogoutCommit(r)
        PROVE  GateStep
    <2>1. UNCHANGED <<access, clock, ban>> /\ blacklist \subseteq blacklist'
      BY <1>8 DEF LogoutCommit, accounts
    <2>2. req[r].at \in Nat
      BY DEF TypeOK, Request
    <2>3. \A u \in Users : cut'[u] >= cut[u]
      <3>1. CASE cut' = cut
        BY <1>c, <3>1
      <3>2. CASE cut' = [cut EXCEPT ![req[r].user] = Later(@, req[r].at)]
        BY <2>2, <3>2, CutMoves
      <3> QED
        BY <1>8, <3>1, <3>2 DEF LogoutCommit
    <2>4. \A a \in access : Blacklisted(a) => Blacklisted(a)'
      BY <2>1 DEF Blacklisted
    <2> QED
      BY <2>1, <2>3, <2>4, GateKills DEF GateStep
  <1>9. ASSUME NEW r \in Requests, RevokeCommit(r)
        PROVE  GateStep
    <2>1. UNCHANGED <<access, clock>> /\ blacklist \subseteq blacklist'
      BY <1>9 DEF RevokeCommit
    <2>2. req[r].at \in Nat
      BY DEF TypeOK, Request
    <2>3. \A u \in Users : cut'[u] >= cut[u]
      BY <1>9, <2>2, CutMoves DEF RevokeCommit
    <2>4. \A a \in access : Blacklisted(a) => Blacklisted(a)'
      BY <2>1 DEF Blacklisted
    <2>5. CASE ban' = ban
      BY <2>1, <2>3, <2>4, <2>5, GateKills DEF GateStep
    <2>6. CASE ban' # ban
      BY <1>c, <2>1, <2>3, <2>6, GateChanges DEF GateStep
    <2> QED
      BY <2>5, <2>6
  <1>10. ASSUME NEW r \in Requests, LoginRefused(r) \/ LoginTouches(r) \/ Sign(r) \/ RevokeScan(r)
         PROVE  GateStep
    <2>1. UNCHANGED <<access, clock, ban, blacklist, cut>>
      BY <1>10 DEF LoginRefused, LoginTouches, Sign, RevokeScan, tokens, accounts
    <2> QED
      BY <2>1, GateStays DEF GateStep
  <1>11. ASSUME NEW u \in Users, DeleteUser(u)
         PROVE  GateStep
    <2>1. UNCHANGED <<access, clock, blacklist, cut>>
      BY <1>11 DEF DeleteUser
    <2>2. CASE ban' = ban
      BY <2>1, <2>2, GateStays DEF GateStep
    <2>3. CASE ban' # ban
      BY <1>c, <2>1, <2>3, GateChanges DEF GateStep
    <2> QED
      BY <2>2, <2>3
  <1> QED
    BY <1>1, <1>2, <1>3, <1>4, <1>5, <1>6, <1>7, <1>8, <1>9, <1>10, <1>11 DEF Next, Continue

\* The access control of the sessions implements the gate: once a token has
\* expired or been revoked it is never let in again, and one that is refused
\* for another reason is let in again only as time goes on or a ban changes.
THEOREM GateImplemented == Spec => GateSpec
  <1>1. Init => Gate!Init
    BY DEF Init, Gate!Init, Dead, AcceptedTokens
  <1>2. TypeOK /\ TypeOK' /\ RevokedRejected' /\ [Next]_vars => GateStep
    BY GateSteps
  <1> QED
    BY <1>1, <1>2, TypeCorrect, RevocationHolds, PTL DEF Spec, GateSpec, Gate!Spec, GateStep
=============================================================================
