---------------------------- MODULE PartsProofs -----------------------------
(***************************************************************************)
(* Theorems about the smaller parts of the server in one instance          *)
(* (MCParts), for every number of accounts, requests and other values of   *)
(* the constants.  Each part has a section and an inductive invariant of   *)
(* its own: the administrators, the recent views of a post, the pages of   *)
(* notices, the one-time codes, the best answers, the links to reset a     *)
(* password, the notices and the documents.  A step of one part leaves the *)
(* others alone; the last section puts them together.                      *)
(***************************************************************************)
EXTENDS MCParts, Sequences, FiniteSetTheorems, SequenceTheorems, TLAPS

\* Each named instance has the operators on finite sets under its own name.
LEMMA SameSets ==
    /\ \A S : B!IsFiniteSet(S) <=> IsFiniteSet(S)
    /\ \A S : B!Cardinality(S) = Cardinality(S)
    /\ \A S : R!IsFiniteSet(S) <=> IsFiniteSet(S)
    /\ \A S : R!Cardinality(S) = Cardinality(S)
    /\ \A S : O!IsFiniteSet(S) <=> IsFiniteSet(S)
    /\ \A S : O!Cardinality(S) = Cardinality(S)
    /\ \A S : N!Cardinality(S) = Cardinality(S)
    /\ \A S : V!Cardinality(S) = Cardinality(S)
    /\ \A S : L!Cardinality(S) = Cardinality(S)
    /\ \A S : F!IsFiniteSet(S) <=> IsFiniteSet(S)
    /\ \A S : F!Cardinality(S) = Cardinality(S)
  BY DEF B!IsFiniteSet, R!IsFiniteSet, O!IsFiniteSet, F!IsFiniteSet, IsFiniteSet,
         B!Cardinality, R!Cardinality, O!Cardinality, N!Cardinality,
         V!Cardinality, L!Cardinality, F!Cardinality, Cardinality
-----------------------------------------------------------------------------
(* The administrators (Administration).                                    *)

\* The parts of the state that only history looks at keep their types when
\* the role of an account changes.
LEMMA NoteTypes ==
    ASSUME TypeOK, NEW a, NEW u \in Users, NEW x \in Roles \cup {"gone"}, Note(a, u, x)
    PROVE  /\ lostAt' \in [Users -> Nat] /\ signing' \in [Users -> BOOLEAN]
           /\ unbacked' \in BOOLEAN /\ left' \in BOOLEAN
  <1>1. lostAt' \in [Users -> Nat]
    BY DEF TypeOK, Note
  <1>2. signing' \in [Users -> BOOLEAN]
    <2> DEFINE loses == role[u] = "ADMIN" /\ x # "ADMIN"
               busy == \E r \in Requests : /\ req[r].pc = "sign"
                                           /\ req[r].actor = u
                                           /\ req[r].role = "ADMIN"
    <2>1. signing' = [signing EXCEPT ![u] = IF loses THEN busy ELSE @]
      BY DEF Note
    <2>2. busy \in BOOLEAN
      OBVIOUS
    <2>3. signing \in [Users -> BOOLEAN]
      BY DEF TypeOK
    <2> HIDE DEF loses, busy
    <2> QED
      BY <2>1, <2>2, <2>3
  <1>3. unbacked' \in BOOLEAN /\ left' \in BOOLEAN
    BY DEF TypeOK, Note
  <1> QED
    BY <1>1, <1>2, <1>3

\* A request at work, and one that is idle again.
LEMMA RequestTypes ==
    ASSUME TypeOK, NEW r \in Requests
    PROVE  /\ req[r] \in Request
           /\ req[r].pc # "idle" => req[r].actor \in Users /\ req[r].target \in Users
           /\ Finish(r) => /\ req' \in [Requests -> Request]
                           /\ req'[r].pc = "idle"
                           /\ \A q \in Requests : q # r => req'[q] = req[q]
  BY DEF TypeOK, Finish, Idle, Request, Roles

\* The first state is well typed.
LEMMA TypeInit == Init => TypeOK
  <1> SUFFICES ASSUME Init PROVE TypeOK
    OBVIOUS
  <1>1. Idle \in Request /\ Idle.pc = "idle"
    BY DEF Idle, Request, Roles
  <1>2. /\ req \in [Requests -> Request]
        /\ \A r \in Requests : req[r].pc = "idle"
    BY <1>1 DEF Init
  <1>3. role \in [Users -> Roles \cup {"gone"}]
    BY DEF Init, Roles
  <1>4. /\ clock \in Nat /\ tokens = {}
        /\ lostAt \in [Users -> Nat] /\ signing \in [Users -> BOOLEAN]
        /\ unbacked \in BOOLEAN /\ left \in BOOLEAN
    BY DEF Init
  <1> QED
    BY <1>2, <1>3, <1>4 DEF TypeOK

\* Every step keeps the state well typed.
LEMMA TypeStep == TypeOK /\ [Next]_vars => TypeOK'
  <1> SUFFICES ASSUME TypeOK, [Next]_vars PROVE TypeOK'
    OBVIOUS
  <1> USE AdminAssumption
  <1>1. ASSUME NEW r \in Requests, NEW u \in Users, SessionRead(r, u) PROVE TypeOK'
    <2>1. role[u] \in Roles
      BY <1>1 DEF TypeOK, SessionRead, Exists
    <2> QED
      BY <1>1, <2>1 DEF TypeOK, SessionRead, Request
  <1>2. ASSUME NEW r \in Requests, SessionSign(r) PROVE TypeOK'
    <2> DEFINE new == [user |-> req[r].actor, role |-> req[r].role,
                       exp |-> clock + AccessTtl]
    <2>1. new \in Token /\ new.exp <= clock + AccessTtl
      BY <1>2, RequestTypes DEF TypeOK, SessionSign, Token, Request
    <2>2. tokens' \subseteq tokens \cup {new}
      BY <1>2 DEF SessionSign
    <2>3. tokens' \subseteq Token /\ \A t \in tokens' : t.exp <= clock + AccessTtl
      BY <2>1, <2>2 DEF TypeOK
    <2>4. UNCHANGED <<clock, role, lostAt, signing, unbacked, left>> /\ Finish(r)
      BY <1>2 DEF SessionSign
    <2> QED
      BY <2>3, <2>4, RequestTypes DEF TypeOK
  <1>3. ASSUME NEW r \in Requests, NEW t \in tokens, NEW u \in Users,
               NEW pc \in {"role", "user"}, Enter(r, t, u, pc)
        PROVE  TypeOK'
    <2>1. t.user \in Users
      BY DEF TypeOK, Token
    <2> QED
      BY <1>3, <2>1 DEF TypeOK, Enter, Request, Roles
  <1>4. ASSUME NEW r \in Requests, RoleRead(r) PROVE TypeOK'
    <2>1. PICK x \in Roles :
             req' = [req EXCEPT ![r] = [pc |-> "update", actor |-> req[r].actor,
                                        target |-> req[r].target, role |-> x]]
      BY <1>4 DEF RoleRead, TypeOK
    <2>2. req' \in [Requests -> Request]
      BY <2>1, RequestTypes DEF TypeOK, Request
    <2>3. \A q \in Requests : req'[q].pc # "idle" =>
             req'[q].actor \in Users /\ req'[q].target \in Users
      BY <1>4, <2>1 DEF TypeOK, RoleRead, Request
    <2> QED
      BY <1>4, <2>2, <2>3 DEF TypeOK, RoleRead
  <1>5. ASSUME NEW r \in Requests, RoleWrite(r) PROVE TypeOK'
    <2> DEFINE u == req[r].target
    <2>1. u \in Users /\ req[r].role \in Roles /\ Finish(r)
      BY <1>5, RequestTypes DEF RoleWrite, Request
    <2>2. CASE Exists(u)
      <3>1. role' = [role EXCEPT ![u] = req[r].role] /\ Note(req[r].actor, u, req[r].role)
        BY <1>5, <2>2 DEF RoleWrite
      <3>2. UNCHANGED <<clock, tokens>>
        BY <1>5 DEF RoleWrite
      <3> QED
        BY <2>1, <3>1, <3>2, NoteTypes, RequestTypes DEF TypeOK
    <2>3. CASE ~Exists(u)
      BY <1>5, <2>1, <2>3, RequestTypes DEF TypeOK, RoleWrite
    <2> QED
      BY <2>2, <2>3
  <1>6. ASSUME NEW r \in Requests, DeleteRead(r) PROVE TypeOK'
    BY <1>6, RequestTypes DEF TypeOK, DeleteRead, Goto, Request
  <1>7. ASSUME NEW r \in Requests, DeleteWrite(r) PROVE TypeOK'
    <2> DEFINE u == req[r].target
    <2>1. u \in Users /\ Finish(r)
      BY <1>7, RequestTypes DEF DeleteWrite
    <2>2. CASE Exists(u)
      <3>1. role' = [role EXCEPT ![u] = "gone"] /\ Note(req[r].actor, u, "gone")
        BY <1>7, <2>2 DEF DeleteWrite
      <3>2. UNCHANGED <<clock, tokens>>
        BY <1>7 DEF DeleteWrite
      <3> QED
        BY <2>1, <3>1, <3>2, NoteTypes, RequestTypes DEF TypeOK
    <2>3. CASE ~Exists(u)
      BY <1>7, <2>1, <2>3, RequestTypes DEF TypeOK, DeleteWrite
    <2> QED
      BY <2>2, <2>3
  <1>8. ASSUME NEW r \in Requests, Abort(r) PROVE TypeOK'
    BY <1>8, RequestTypes DEF TypeOK, Abort
  <1>9. ASSUME NEW u \in Users, Leave(u) PROVE TypeOK'
    <2>1. role' = [role EXCEPT ![u] = "gone"] /\ Note(u, u, "gone")
      BY <1>9 DEF Leave
    <2>2. UNCHANGED <<clock, tokens, req>>
      BY <1>9 DEF Leave
    <2> QED
      BY <2>1, <2>2, NoteTypes DEF TypeOK
  <1>10. ASSUME Tick PROVE TypeOK'
    <2>1. clock' \in Nat /\ clock' = clock + 1
      BY <1>10 DEF TypeOK, Tick
    <2>2. tokens' \subseteq tokens
      BY <1>10 DEF Tick
    <2>3. \A t \in tokens' : t \in Token /\ t.exp <= clock' + AccessTtl
      BY <2>1, <2>2 DEF TypeOK, Token
    <2>4. UNCHANGED <<role, req, lostAt, signing, unbacked, left>>
      BY <1>10 DEF Tick
    <2> QED
      BY <2>1, <2>3, <2>4 DEF TypeOK
  <1>11. ASSUME UNCHANGED vars PROVE TypeOK'
    BY <1>11 DEF TypeOK, vars
  <1> QED
    BY <1>1, <1>2, <1>3, <1>4, <1>5, <1>6, <1>7, <1>8, <1>9, <1>10, <1>11 DEF Next

\* The state of the administration is of the declared type, and no access token
\* outlives its time from now.
THEOREM AdministrationTypes == Spec => []TypeOK
  <1> QED
    BY TypeInit, TypeStep, PTL DEF Spec

-----------------------------------------------------------------------------
\* Inductive invariant of PowerEnds: an account that is no administrator lost
\* that in the past, its administrator's tokens date from before, and a request
\* that still signs one was noted as the account lost its role.
Lapsing ==
    /\ \A u \in Users : lostAt[u] <= clock
    /\ \A t \in tokens :
          t.role = "ADMIN" /\ role[t.user] # "ADMIN" /\ ~signing[t.user]
            => t.exp <= lostAt[t.user] + AccessTtl
    /\ \A r \in Requests :
          /\ req[r].pc = "sign" /\ req[r].role = "ADMIN"
          /\ role[req[r].actor] # "ADMIN"
          => signing[req[r].actor]

\* A change of one role keeps it, whatever the role was and becomes.
LEMMA LapsingKept ==
    ASSUME TypeOK, Lapsing, NEW a, NEW u \in Users, NEW x \in Roles \cup {"gone"},
           role' = [role EXCEPT ![u] = x], Note(a, u, x), UNCHANGED <<clock, tokens>>,
           \A q \in Requests : req'[q] = req[q] \/ req'[q].pc = "idle"
    PROVE  Lapsing'
  <1> USE AdminAssumption
  <1> DEFINE loses == role[u] = "ADMIN" /\ x # "ADMIN"
  <1>1. ASSUME NEW v \in Users, v # u
        PROVE  role'[v] = role[v] /\ lostAt'[v] = lostAt[v] /\ signing'[v] = signing[v]
    BY <1>1 DEF TypeOK, Note
  <1>2. role'[u] = x /\ lostAt'[u] = IF loses THEN clock ELSE lostAt[u]
    BY DEF TypeOK, Note
  <1>3. ~loses => signing'[u] = signing[u]
    BY DEF TypeOK, Note
  <1>4. ASSUME loses, NEW r \in Requests, req[r].pc = "sign", req[r].actor = u,
               req[r].role = "ADMIN"
        PROVE  signing'[u]
    BY <1>4 DEF TypeOK, Note
  <1>5. ASSUME NEW v \in Users PROVE lostAt'[v] <= clock'
    BY <1>1, <1>2, <1>5 DEF TypeOK, Lapsing
  <1>6. ASSUME NEW t \in tokens', t.role = "ADMIN", role'[t.user] # "ADMIN",
               ~signing'[t.user]
        PROVE  t.exp <= lostAt'[t.user] + AccessTtl
    <2>1. t \in tokens /\ t.user \in Users /\ t.exp \in Nat /\ t.exp <= clock + AccessTtl
      BY DEF TypeOK, Token
    <2>2. CASE t.user # u
      BY <1>1, <1>6, <2>1, <2>2 DEF Lapsing
    <2>3. CASE t.user = u /\ loses
      BY <1>2, <2>1, <2>3
    <2>4. CASE t.user = u /\ ~loses
      BY <1>2, <1>3, <1>6, <2>1, <2>4 DEF Lapsing
    <2> QED
      BY <2>2, <2>3, <2>4
  <1>7. ASSUME NEW r \in Requests, req'[r].pc = "sign", req'[r].role = "ADMIN",
               role'[req'[r].actor] # "ADMIN"
        PROVE  signing'[req'[r].actor]
    <2>1. req'[r] = req[r] /\ req[r].actor \in Users
      BY <1>7, RequestTypes
    <2>2. CASE req[r].actor # u
      BY <1>1, <1>7, <2>1, <2>2 DEF Lapsing
    <2>3. CASE req[r].actor = u /\ loses
      BY <1>4, <1>7, <2>1, <2>3
    <2>4. CASE req[r].actor = u /\ ~loses
      BY <1>2, <1>3, <1>7, <2>1, <2>4 DEF Lapsing
    <2> QED
      BY <2>2, <2>3, <2>4
  <1> HIDE DEF loses
  <1> QED
    BY <1>5, <1>6, <1>7 DEF Lapsing

\* A request alone changes, and does not begin to sign.
LEMMA LapsingRequest ==
    ASSUME TypeOK, Lapsing, UNCHANGED <<clock, role, tokens, lostAt, signing>>,
           \A q \in Requests : req'[q] = req[q] \/ req'[q].pc # "sign"
    PROVE  Lapsing'
  BY DEF Lapsing

\* Lapsing is inductive.
LEMMA LapsingStep == TypeOK /\ Lapsing /\ [Next]_vars => Lapsing'
  <1> SUFFICES ASSUME TypeOK, Lapsing, [Next]_vars PROVE Lapsing'
    OBVIOUS
  <1> USE AdminAssumption
  <1>1. ASSUME NEW r \in Requests, NEW u \in Users, SessionRead(r, u) PROVE Lapsing'
    <2>1. /\ req'[r].actor = u /\ req'[r].role = role[u]
          /\ \A q \in Requests : q # r => req'[q] = req[q]
      BY <1>1 DEF TypeOK, SessionRead
    <2>2. UNCHANGED <<clock, role, tokens, lostAt, signing>>
      BY <1>1 DEF SessionRead
    <2> QED
      BY <2>1, <2>2 DEF Lapsing
  <1>2. ASSUME NEW r \in Requests, SessionSign(r) PROVE Lapsing'
    <2> DEFINE new == [user |-> req[r].actor, role |-> req[r].role,
                       exp |-> clock + AccessTtl]
    <2>1. tokens' \subseteq tokens \cup {new} /\ UNCHANGED <<clock, role, lostAt, signing>>
      BY <1>2 DEF SessionSign
    <2>2. \A q \in Requests : req'[q] = req[q] \/ req'[q].pc = "idle"
      BY <1>2, RequestTypes DEF SessionSign
    <2>3. new.role = "ADMIN" /\ role[new.user] # "ADMIN" => signing[new.user]
      BY <1>2 DEF Lapsing, SessionSign
    <2>4. \A t \in tokens' :
             t.role = "ADMIN" /\ role[t.user] # "ADMIN" /\ ~signing[t.user]
               => t.exp <= lostAt[t.user] + AccessTtl
      BY <2>1, <2>3 DEF Lapsing
    <2> QED
      BY <2>1, <2>2, <2>4 DEF Lapsing
  <1>3. ASSUME NEW r \in Requests, NEW t \in tokens, NEW u \in Users,
               NEW pc \in {"role", "user"}, Enter(r, t, u, pc)
        PROVE  Lapsing'
    <2>1. \A q \in Requests : req'[q] = req[q] \/ req'[q].pc # "sign"
      BY <1>3 DEF TypeOK, Enter
    <2> QED
      BY <1>3, <2>1, LapsingRequest DEF Enter
  <1>4. ASSUME NEW r \in Requests, RoleRead(r) PROVE Lapsing'
    <2>1. \A q \in Requests : req'[q] = req[q] \/ req'[q].pc # "sign"
      BY <1>4 DEF TypeOK, RoleRead
    <2> QED
      BY <1>4, <2>1, LapsingRequest DEF RoleRead
  <1>5. ASSUME NEW r \in Requests, RoleWrite(r) PROVE Lapsing'
    <2> DEFINE u == req[r].target
    <2>1. u \in Users /\ req[r].role \in Roles /\ UNCHANGED <<clock, tokens>>
      BY <1>5, RequestTypes DEF RoleWrite, Request
    <2>2. \A q \in Requests : req'[q] = req[q] \/ req'[q].pc = "idle"
      BY <1>5, RequestTypes DEF RoleWrite
    <2>3. CASE Exists(u)
      <3>1. role' = [role EXCEPT ![u] = req[r].role] /\ Note(req[r].actor, u, req[r].role)
        BY <1>5, <2>3 DEF RoleWrite
      <3> QED
        BY <2>1, <2>2, <3>1, LapsingKept
    <2>4. CASE ~Exists(u)
      BY <1>5, <2>1, <2>2, <2>4, LapsingRequest DEF RoleWrite
    <2> QED
      BY <2>3, <2>4
  <1>6. ASSUME NEW r \in Requests, DeleteRead(r) PROVE Lapsing'
    <2>1. \A q \in Requests : req'[q] = req[q] \/ req'[q].pc # "sign"
      BY <1>6 DEF TypeOK, DeleteRead, Goto
    <2> QED
      BY <1>6, <2>1, LapsingRequest DEF DeleteRead
  <1>7. ASSUME NEW r \in Requests, DeleteWrite(r) PROVE Lapsing'
    <2> DEFINE u == req[r].target
    <2>1. u \in Users /\ UNCHANGED <<clock, tokens>>
      BY <1>7, RequestTypes DEF DeleteWrite
    <2>2. \A q \in Requests : req'[q] = req[q] \/ req'[q].pc = "idle"
      BY <1>7, RequestTypes DEF DeleteWrite
    <2>3. CASE Exists(u)
      <3>1. role' = [role EXCEPT ![u] = "gone"] /\ Note(req[r].actor, u, "gone")
        BY <1>7, <2>3 DEF DeleteWrite
      <3> QED
        BY <2>1, <2>2, <3>1, LapsingKept
    <2>4. CASE ~Exists(u)
      BY <1>7, <2>1, <2>2, <2>4, LapsingRequest DEF DeleteWrite
    <2> QED
      BY <2>3, <2>4
  <1>8. ASSUME NEW r \in Requests, Abort(r) PROVE Lapsing'
    <2>1. \A q \in Requests : req'[q] = req[q] \/ req'[q].pc # "sign"
      BY <1>8, RequestTypes DEF Abort
    <2> QED
      BY <1>8, <2>1, LapsingRequest DEF Abort
  <1>9. ASSUME NEW u \in Users, Leave(u) PROVE Lapsing'
    <2>1. /\ role' = [role EXCEPT ![u] = "gone"] /\ Note(u, u, "gone")
          /\ UNCHANGED <<clock, tokens, req>>
      BY <1>9 DEF Leave
    <2> QED
      BY <2>1, LapsingKept
  <1>10. ASSUME Tick PROVE Lapsing'
    <2>1. /\ clock' = clock + 1 /\ tokens' \subseteq tokens
          /\ UNCHANGED <<role, req, lostAt, signing>>
      BY <1>10 DEF Tick
    <2>2. \A u \in Users : lostAt'[u] <= clock'
      BY <2>1 DEF TypeOK, Lapsing
    <2> QED
      BY <2>1, <2>2 DEF Lapsing
  <1>11. ASSUME UNCHANGED vars PROVE Lapsing'
    BY <1>11 DEF Lapsing, vars
  <1> QED
    BY <1>1, <1>2, <1>3, <1>4, <1>5, <1>6, <1>7, <1>8, <1>9, <1>10, <1>11 DEF Next

\* One who was demoted or deleted keeps the power of an administrator for one
\* lifetime of an access token at most, unless a login or rotation of the
\* account was between its reading and its signing at that moment.
THEOREM PowerOfTheDemotedEnds == Spec => []PowerEnds
  <1>1. Init => Lapsing
    BY DEF Init, Lapsing, Idle
  <1>2. Lapsing => PowerEnds
    BY DEF Lapsing, PowerEnds, Passes
  <1> QED
    BY <1>1, <1>2, TypeInit, TypeStep, LapsingStep, PTL DEF Spec

-----------------------------------------------------------------------------
\* Inductive invariant of AdminRemains: who changes a role changes another's.
Guarded ==
    /\ \A r \in Requests :
          req[r].pc \in {"role", "update"} => req[r].actor # req[r].target
    /\ AdminRemains

\* After a change of the role of one by another, the other is left: or was no
\* administrator any more, or it was the own account that went.
LEMMA AdminKept ==
    ASSUME TypeOK, AdminRemains, NEW a \in Users, NEW u \in Users, NEW x,
           role' = [role EXCEPT ![u] = x], Note(a, u, x), a = u => x = "gone"
    PROVE  AdminRemains'
  <1> SUFFICES ASSUME ~unbacked', ~left' PROVE Admins' # {}
    BY DEF AdminRemains
  <1>1. ~unbacked /\ ~left /\ (a # u => role[a] = "ADMIN")
    BY DEF Note
  <1>2. \A v \in Users : v # u => role'[v] = role[v]
    BY DEF TypeOK
  <1>3. CASE a # u
    BY <1>1, <1>2, <1>3 DEF Admins
  <1>4. CASE a = u
    <2>1. role[u] # "ADMIN"
      BY <1>4 DEF Note
    <2>2. PICK v \in Users : role[v] = "ADMIN"
      BY <1>1 DEF AdminRemains, Admins
    <2> QED
      BY <1>2, <2>1, <2>2 DEF Admins
  <1> QED
    BY <1>3, <1>4

\* Guarded is inductive.
LEMMA GuardedStep == TypeOK /\ Guarded /\ [Next]_vars => Guarded'
  <1> SUFFICES ASSUME TypeOK, Guarded, [Next]_vars PROVE Guarded'
    OBVIOUS
  <1> DEFINE Others == \A r \in Requests :
                 req[r].pc \in {"role", "update"} => req[r].actor # req[r].target
  <1>1. ASSUME NEW r \in Requests, NEW u \in Users, SessionRead(r, u) PROVE Guarded'
    <2>1. Others' /\ UNCHANGED <<role, unbacked, left>>
      BY <1>1 DEF TypeOK, SessionRead, Guarded
    <2> QED
      BY <2>1 DEF Guarded, AdminRemains, Admins
  <1>2. ASSUME NEW r \in Requests, SessionSign(r) PROVE Guarded'
    <2>1. Others' /\ UNCHANGED <<role, unbacked, left>>
      BY <1>2, RequestTypes DEF SessionSign, Guarded
    <2> QED
      BY <2>1 DEF Guarded, AdminRemains, Admins
  <1>3. ASSUME NEW r \in Requests, NEW t \in tokens, NEW u \in Users,
               NEW pc \in {"role", "user"}, Enter(r, t, u, pc)
        PROVE  Guarded'
    <2>1. Others' /\ UNCHANGED <<role, unbacked, left>>
      BY <1>3 DEF TypeOK, Enter, Permitted, Guarded
    <2> QED
      BY <2>1 DEF Guarded, AdminRemains, Admins
  <1>4. ASSUME NEW r \in Requests, RoleRead(r) PROVE Guarded'
    <2>1. Others' /\ UNCHANGED <<role, unbacked, left>>
      BY <1>4 DEF TypeOK, RoleRead, Guarded
    <2> QED
      BY <2>1 DEF Guarded, AdminRemains, Admins
  <1>5. ASSUME NEW r \in Requests, RoleWrite(r) PROVE Guarded'
    <2> DEFINE a == req[r].actor
               u == req[r].target
    <2>1. a \in Users /\ u \in Users /\ a # u
      BY <1>5, RequestTypes DEF RoleWrite, Guarded
    <2>2. Others'
      BY <1>5, RequestTypes DEF RoleWrite, Guarded
    <2>3. CASE Exists(u)
      <3>1. role' = [role EXCEPT ![u] = req[r].role] /\ Note(a, u, req[r].role)
        BY <1>5, <2>3 DEF RoleWrite
      <3> QED
        BY <2>1, <2>2, <3>1, AdminKept DEF Guarded
    <2>4. CASE ~Exists(u)
      BY <1>5, <2>2, <2>4 DEF RoleWrite, Guarded, AdminRemains, Admins
    <2> QED
      BY <2>3, <2>4
  <1>6. ASSUME NEW r \in Requests, DeleteRead(r) PROVE Guarded'
    <2>1. Others' /\ UNCHANGED <<role, unbacked, left>>
      BY <1>6 DEF TypeOK, DeleteRead, Goto, Guarded
    <2> QED
      BY <2>1 DEF Guarded, AdminRemains, Admins
  <1>7. ASSUME NEW r \in Requests, DeleteWrite(r) PROVE Guarded'
    <2> DEFINE a == req[r].actor
               u == req[r].target
    <2>1. a \in Users /\ u \in Users
      BY <1>7, RequestTypes DEF DeleteWrite
    <2>2. Others'
      BY <1>7, RequestTypes DEF DeleteWrite, Guarded
    <2>3. CASE Exists(u)
      <3>1. role' = [role EXCEPT ![u] = "gone"] /\ Note(a, u, "gone")
        BY <1>7, <2>3 DEF DeleteWrite
      <3> QED
        BY <2>1, <2>2, <3>1, AdminKept DEF Guarded
    <2>4. CASE ~Exists(u)
      BY <1>7, <2>2, <2>4 DEF DeleteWrite, Guarded, AdminRemains, Admins
    <2> QED
      BY <2>3, <2>4
  <1>8. ASSUME NEW r \in Requests, Abort(r) PROVE Guarded'
    <2>1. Others' /\ UNCHANGED <<role, unbacked, left>>
      BY <1>8, RequestTypes DEF Abort, Guarded
    <2> QED
      BY <2>1 DEF Guarded, AdminRemains, Admins
  <1>9. ASSUME NEW u \in Users, Leave(u) PROVE Guarded'
    <2>1. /\ role' = [role EXCEPT ![u] = "gone"] /\ Note(u, u, "gone")
          /\ Others'
      BY <1>9 DEF Leave, Guarded
    <2> QED
      BY <2>1, AdminKept DEF Guarded
  <1>10. ASSUME Tick PROVE Guarded'
    BY <1>10 DEF Tick, Guarded, AdminRemains, Admins
  <1>11. ASSUME UNCHANGED vars PROVE Guarded'
    BY <1>11 DEF vars, Guarded, AdminRemains, Admins
  <1> QED
    BY <1>1, <1>2, <1>3, <1>4, <1>5, <1>6, <1>7, <1>8, <1>9, <1>10, <1>11 DEF Next

\* While every change of a role or deletion of another's account was made by
\* one who was administrator then, and no administrator left, one remains.
THEOREM AnAdministratorRemains == Spec => []AdminRemains
  <1>1. Init => Guarded
    BY AdminAssumption DEF Init, Guarded, Idle, AdminRemains, Admins
  <1>2. Guarded => AdminRemains
    BY DEF Guarded
  <1> QED
    BY <1>1, <1>2, TypeInit, TypeStep, GuardedStep, PTL DEF Spec

-----------------------------------------------------------------------------
(* The view counter (ViewTracker).                                         *)

\* The readers' views that counted since the process started.
Counted == {k \in V!ViewKeys : lastView[k] # V!Never}

\* The map holds the last view of whoever is in it; who is not in it and should
\* be has given way to the views that came since.
ViewInv ==
    /\ V!TypeOK /\ IsFiniteSet(Counted)
    /\ \A k \in DOMAIN cache : cache[k] = lastView[k]
    /\ \A k \in V!ViewKeys : lastView[k] <= viewClock
    /\ V!WindowKept

LEMMA ViewIdle ==
    ASSUME V!ViewAssumption
    PROVE  V!Idle \in V!Request
  <1>1. PICK p \in Posts, i \in Readers : TRUE
    BY DEF V!ViewAssumption
  <1>2. <<p, i>> \in V!ViewKeys
    BY DEF V!ViewKeys
  <1>3. (CHOOSE k \in V!ViewKeys : TRUE) \in V!ViewKeys
    BY <1>2
  <1> QED
    BY <1>3 DEF V!Idle, V!Request

\* Ten per cent of the map are at least one record, and never all of them
\* but of a map for one.
LEMMA EvictSome ==
    ASSUME V!ViewAssumption
    PROVE  V!EvictCount \in Nat /\ V!EvictCount >= 1 /\ V!EvictCount <= MaxCacheSize
  BY DEF V!ViewAssumption, V!EvictCount

\* The map holds counted views only, so it is finite.
LEMMA CacheFinite ==
    ASSUME ViewInv
    PROVE  /\ DOMAIN cache \subseteq Counted
           /\ IsFiniteSet(DOMAIN cache) /\ Cardinality(DOMAIN cache) \in Nat
           /\ Cardinality(DOMAIN cache) <= MaxCacheSize
  <1>1. \A k \in DOMAIN cache : k \in V!ViewKeys /\ cache[k] \in Nat
    BY DEF ViewInv, V!TypeOK
  <1>2. DOMAIN cache \subseteq Counted
    BY <1>1 DEF ViewInv, Counted, V!Never
  <1>3. Cardinality(DOMAIN cache) <= MaxCacheSize
    BY SameSets DEF ViewInv, V!TypeOK
  <1> QED
    BY <1>2, <1>3, FS_Subset, FS_CardinalityType DEF ViewInv

\* A view of k is recorded, after room was made if the map is full.
LEMMA ViewRecorded ==
    ASSUME V!ViewAssumption, ViewInv, NEW k \in V!ViewKeys, ~V!Fresh(k),
           cache' \in V!Recorded(k), lastView' = [lastView EXCEPT ![k] = viewClock],
           viewReq' \in [Requests -> V!Request],
           UNCHANGED <<viewClock, posts, viewCount>>
    PROVE  ViewInv'
  <1> DEFINE D == DOMAIN cache
  <1>1. PICK K : /\ K \in SUBSET D /\ IsFiniteSet(K) /\ Cardinality(K) \in Nat
                 /\ cache' = [j \in K \cup {k} |-> IF j = k THEN viewClock ELSE cache[j]]
                 /\ Cardinality(K) + 1 <= MaxCacheSize \/ (k \in K /\ K = D)
                 /\ K # D => /\ Cardinality(K) >= MaxCacheSize - V!EvictCount
                             /\ \A j \in K, e \in D \ K : cache[e] <= cache[j]
    <2>1. PICK K : /\ K \in (IF V!Cardinality(D) >= MaxCacheSize THEN V!Kept ELSE {D})
                   /\ cache' = [j \in K \cup {k} |->
                                  IF j = k THEN viewClock ELSE cache[j]]
      BY DEF V!Recorded
    <2>2. IsFiniteSet(D) /\ Cardinality(D) \in Nat /\ Cardinality(D) <= MaxCacheSize
      BY CacheFinite
    <2>3. MaxCacheSize \in Nat /\ V!Cardinality(D) = Cardinality(D)
      BY SameSets DEF V!ViewAssumption
    <2>4. CASE Cardinality(D) >= MaxCacheSize
      <3>1. /\ K \in SUBSET D /\ V!Cardinality(K) = V!Cardinality(D) - V!EvictCount
            /\ \A j \in K, e \in D \ K : cache[e] <= cache[j]
        BY <2>1, <2>3, <2>4 DEF V!Kept
      <3>2. Cardinality(K) = Cardinality(D) - V!EvictCount
        BY <3>1, SameSets
      <3>3. IsFiniteSet(K) /\ Cardinality(K) \in Nat
        BY <2>2, <3>1, FS_Subset, FS_CardinalityType
      <3>4. /\ Cardinality(K) + 1 <= MaxCacheSize
            /\ Cardinality(K) >= MaxCacheSize - V!EvictCount
        BY <2>2, <2>3, <2>4, <3>2, <3>3, EvictSome
      <3> QED
        BY <2>1, <3>1, <3>3, <3>4
    <2>5. CASE ~(Cardinality(D) >= MaxCacheSize)
      <3>1. K = D
        BY <2>1, <2>3, <2>5
      <3>2. Cardinality(K) + 1 <= MaxCacheSize
        BY <2>2, <2>3, <2>5, <3>1
      <3> QED
        BY <2>1, <2>2, <3>1, <3>2
    <2> QED
      BY <2>4, <2>5
  <1>2. /\ DOMAIN cache' = K \cup {k} /\ cache'[k] = viewClock
        /\ \A j \in K : j # k => cache'[j] = cache[j]
    BY <1>1
  <1>3. /\ viewClock \in Nat /\ lastView \in [V!ViewKeys -> Nat \cup {V!Never}]
        /\ D \subseteq V!ViewKeys /\ \A j \in D : cache[j] \in Nat
    BY DEF ViewInv, V!TypeOK
  <1>4. /\ lastView' \in [V!ViewKeys -> Nat \cup {V!Never}] /\ lastView'[k] = viewClock
        /\ \A j \in V!ViewKeys : j # k => lastView'[j] = lastView[j]
    BY <1>3
  <1>5. /\ \A j \in DOMAIN cache' : cache'[j] = lastView'[j]
        /\ \A j \in V!ViewKeys : lastView'[j] <= viewClock'
    BY <1>1, <1>2, <1>3, <1>4 DEF ViewInv
  <1>6. V!TypeOK'
    <2>1. Cardinality(K \cup {k}) <= MaxCacheSize
      <3>1. Cardinality(K \cup {k}) =
              IF k \in K THEN Cardinality(K) ELSE Cardinality(K) + 1
        BY <1>1, FS_AddElement
      <3>2. Cardinality(D) <= MaxCacheSize /\ MaxCacheSize \in Nat
        BY CacheFinite DEF V!ViewAssumption
      <3> QED
        BY <1>1, <3>1, <3>2
    <2>2. V!Cardinality(DOMAIN cache') <= MaxCacheSize
      BY <1>2, <2>1, SameSets
    <2>3. cache' \in [DOMAIN cache' -> Nat] /\ DOMAIN cache' \subseteq V!ViewKeys
      BY <1>1, <1>2, <1>3
    <2> QED
      BY <1>4, <2>2, <2>3 DEF ViewInv, V!TypeOK
  <1>7. Counted' = Counted \cup {k}
    BY <1>3, <1>4 DEF Counted, V!Never
  <1>8. IsFiniteSet(Counted')
    BY <1>7, FS_AddElement DEF ViewInv
  <1>9. V!WindowKept'
    <2> SUFFICES ASSUME NEW e \in V!ViewKeys, lastView'[e] # V!Never,
                        viewClock' - lastView'[e] < Ttl, e \notin DOMAIN cache'
                 PROVE  V!Cardinality({j \in V!ViewKeys \ {e} :
                                         lastView'[j] >= lastView'[e]})
                          >= MaxCacheSize - V!EvictCount
      BY DEF V!WindowKept
    <2> DEFINE Since == {j \in V!ViewKeys \ {e} : lastView'[j] >= lastView'[e]}
    <2>1. e # k /\ lastView'[e] = lastView[e] /\ viewClock' = viewClock
      BY <1>2, <1>4
    <2>2. IsFiniteSet(Since)
      <3>1. Since \subseteq Counted'
        BY <1>3, <1>4, <2>1 DEF Counted, V!Never
      <3> QED
        BY <1>8, <3>1, FS_Subset
    <2>3. CASE e \in D
      <3>1. e \in D \ K /\ K # D
        BY <1>2, <2>1, <2>3
      <3>2. K \subseteq Since
        <4> SUFFICES ASSUME NEW j \in K PROVE j \in Since
          OBVIOUS
        <4>1. j \in D /\ j \in V!ViewKeys /\ j # e /\ cache[e] <= cache[j]
          BY <1>1, <1>3, <3>1
        <4>2. cache[e] = lastView[e] /\ cache[j] = lastView[j]
          BY <2>3, <4>1 DEF ViewInv
        <4>3. lastView'[j] >= lastView'[e]
          BY <1>3, <1>4, <2>1, <2>3, <4>1, <4>2 DEF ViewInv
        <4> QED
          BY <4>1, <4>3
      <3>3. Cardinality(K) <= Cardinality(Since) /\ Cardinality(Since) \in Nat
        BY <2>2, <3>2, FS_Subset, FS_CardinalityType
      <3>4. Cardinality(Since) >= MaxCacheSize - V!EvictCount
        BY <1>1, <3>1, <3>3, EvictSome DEF V!ViewAssumption
      <3> QED
        BY <3>4, SameSets
    <2>4. CASE e \notin D
      <3> DEFINE Before == {j \in V!ViewKeys \ {e} : lastView[j] >= lastView[e]}
      <3>1. V!Cardinality(Before) >= MaxCacheSize - V!EvictCount
        BY <2>1, <2>4 DEF ViewInv, V!WindowKept
      <3>2. Before \subseteq Since
        BY <1>3, <1>4, <2>1 DEF ViewInv, V!Never
      <3>3. /\ Cardinality(Before) <= Cardinality(Since)
            /\ Cardinality(Since) \in Nat /\ Cardinality(Before) \in Nat
        BY <2>2, <3>2, FS_Subset, FS_CardinalityType
      <3>4. Cardinality(Since) >= MaxCacheSize - V!EvictCount
        BY <3>1, <3>3, SameSets, EvictSome DEF V!ViewAssumption
      <3> QED
        BY <3>4, SameSets
    <2> QED
      BY <2>3, <2>4
  <1> QED
    BY <1>5, <1>6, <1>8, <1>9 DEF ViewInv

LEMMA ViewStarts == V!ViewAssumption /\ V!Init => ViewInv
  <1> SUFFICES ASSUME V!ViewAssumption, V!Init
               PROVE  ViewInv
    OBVIOUS
  <1>1. /\ DOMAIN cache = {} /\ cache \in [DOMAIN cache -> Nat]
        /\ lastView \in [V!ViewKeys -> Nat \cup {V!Never}]
        /\ \A k \in V!ViewKeys : lastView[k] = V!Never
    BY DEF V!Init
  <1>2. Counted = {} /\ IsFiniteSet(Counted) /\ Cardinality({}) = 0
    BY <1>1, FS_EmptySet DEF Counted
  <1>3. V!TypeOK
    BY <1>1, <1>2, SameSets, ViewIdle DEF V!Init, V!TypeOK, V!ViewAssumption
  <1>4. V!WindowKept
    BY <1>1 DEF V!WindowKept
  <1>5. viewClock = 0
    BY DEF V!Init
  <1> QED
    BY <1>1, <1>2, <1>3, <1>4, <1>5 DEF ViewInv, V!Never

LEMMA ViewKept == V!ViewAssumption /\ ViewInv /\ [V!Next]_viewVars => ViewInv'
  <1> SUFFICES ASSUME V!ViewAssumption, ViewInv, [V!Next]_viewVars
               PROVE  ViewInv'
    OBVIOUS
  <1>1. /\ viewClock \in Nat /\ posts \subseteq Posts
        /\ cache \in [DOMAIN cache -> Nat] /\ DOMAIN cache \subseteq V!ViewKeys
        /\ viewCount \in [Posts -> Nat]
        /\ lastView \in [V!ViewKeys -> Nat \cup {V!Never}]
        /\ viewReq \in [Requests -> V!Request]
    BY DEF ViewInv, V!TypeOK
  <1>2. ASSUME UNCHANGED <<viewClock, cache, lastView>>,
               posts' \subseteq Posts, viewCount' \in [Posts -> Nat],
               viewReq' \in [Requests -> V!Request]
        PROVE  ViewInv'
    <2>1. V!TypeOK'
      BY <1>2 DEF ViewInv, V!TypeOK
    <2>2. V!WindowKept' /\ Counted' = Counted
      BY <1>2 DEF ViewInv, V!WindowKept, Counted
    <2> QED
      BY <1>2, <2>1, <2>2 DEF ViewInv
  <1>3. ASSUME NEW r \in Requests, V!Finish(r)
        PROVE  viewReq' \in [Requests -> V!Request]
    BY <1>1, <1>3, ViewIdle DEF V!Finish
  <1>4. ASSUME NEW r \in Requests, NEW p \in Posts, NEW i \in Readers, V!Find(r, p, i)
        PROVE  ViewInv'
    <2>1. [pc |-> "track", key |-> <<p, i>>] \in V!Request
      BY DEF V!Request, V!ViewKeys
    <2>2. viewReq' \in [Requests -> V!Request]
      BY <1>1, <1>4, <2>1 DEF V!Find
    <2> QED
      BY <1>1, <1>2, <1>4, <2>2 DEF V!Find
  <1>5. ASSUME NEW r \in Requests, V!Track(r)
        PROVE  ViewInv'
    <2>1. viewReq[r] \in V!Request /\ viewReq[r].key \in V!ViewKeys
      BY <1>1 DEF V!Request
    <2>2. CASE V!Fresh(viewReq[r].key)
      BY <1>1, <1>2, <1>3, <1>5, <2>2 DEF V!Track
    <2>3. CASE ~V!Fresh(viewReq[r].key)
      <3>1. viewReq' \in [Requests -> V!Request]
        BY <1>1, <1>5, <2>1, <2>3 DEF V!Track, V!Request
      <3> QED
        BY <1>5, <2>1, <2>3, <3>1, ViewRecorded DEF V!Track
    <2> QED
      BY <2>2, <2>3
  <1>6. ASSUME NEW r \in Requests, V!Count(r)
        PROVE  ViewInv'
    <2>1. PICK p : p = viewReq[r].key[1]
      OBVIOUS
    <2>2. viewCount' = [viewCount EXCEPT ![p] = IF p \in posts THEN viewCount[p] + 1
                                                              ELSE viewCount[p]]
      BY <1>6, <2>1 DEF V!Count
    <2>3. viewCount' \in [Posts -> Nat]
      <3>1. CASE p \in posts
        <4>1. viewCount[p] + 1 \in Nat
          BY <1>1, <3>1
        <4> QED
          BY <1>1, <2>2, <3>1, <4>1
      <3>2. CASE p \notin posts
        BY <1>1, <2>2, <3>2
      <3> QED
        BY <3>1, <3>2
    <2> QED
      BY <1>1, <1>2, <1>3, <1>6, <2>3 DEF V!Count
  <1>7. ASSUME V!Cleanup
        PROVE  ViewInv'
    <2> DEFINE K == {k \in DOMAIN cache : ~V!Stale(k)}
    <2>1. /\ cache' = [k \in K |-> cache[k]]
          /\ UNCHANGED <<viewClock, posts, viewCount, lastView, viewReq>>
      BY <1>7 DEF V!Cleanup, V!Only
    <2>2. DOMAIN cache' = K /\ K \subseteq DOMAIN cache
      BY <2>1
    <2>3. V!Cardinality(DOMAIN cache') <= MaxCacheSize
      <3>1. /\ Cardinality(K) <= Cardinality(DOMAIN cache) /\ Cardinality(K) \in Nat
            /\ Cardinality(DOMAIN cache) \in Nat /\ Cardinality(DOMAIN cache) <= MaxCacheSize
        BY <2>2, CacheFinite, FS_Subset, FS_CardinalityType
      <3>2. Cardinality(K) <= MaxCacheSize
        BY <3>1 DEF V!ViewAssumption
      <3> QED
        BY <2>2, <3>2, SameSets
    <2>4. V!TypeOK'
      BY <1>1, <2>1, <2>2, <2>3 DEF V!TypeOK
    <2>5. V!WindowKept'
      <3> SUFFICES ASSUME NEW e \in V!ViewKeys, lastView[e] # V!Never,
                          viewClock - lastView[e] < Ttl, e \notin K
                   PROVE  V!Cardinality({j \in V!ViewKeys \ {e} :
                                           lastView[j] >= lastView[e]})
                            >= MaxCacheSize - V!EvictCount
        BY <2>1, <2>2 DEF V!WindowKept
      <3>1. e \notin DOMAIN cache
        <4>1. ASSUME e \in DOMAIN cache PROVE FALSE
          <5>1. viewClock - cache[e] >= Ttl /\ cache[e] = lastView[e]
            BY <4>1 DEF V!Stale, ViewInv
          <5> QED
            BY <1>1, <5>1 DEF V!ViewAssumption
        <4> QED
          BY <4>1
      <3> QED
        BY <3>1 DEF ViewInv, V!WindowKept
    <2>6. Counted' = Counted
      BY <2>1 DEF Counted
    <2> QED
      BY <2>1, <2>2, <2>4, <2>5, <2>6 DEF ViewInv
  <1>8. ASSUME V!Tick
        PROVE  ViewInv'
    <2>1. viewClock' = viewClock + 1
          /\ UNCHANGED <<posts, cache, viewCount, lastView, viewReq>>
      BY <1>8 DEF V!Tick
    <2>2. V!TypeOK'
      BY <1>1, <2>1 DEF ViewInv, V!TypeOK
    <2>3. V!WindowKept'
      <3> SUFFICES ASSUME NEW e \in V!ViewKeys, lastView[e] # V!Never,
                          viewClock' - lastView[e] < Ttl, e \notin DOMAIN cache
                   PROVE  V!Cardinality({j \in V!ViewKeys \ {e} :
                                           lastView[j] >= lastView[e]})
                            >= MaxCacheSize - V!EvictCount
        BY <2>1 DEF V!WindowKept
      <3>1. viewClock - lastView[e] < Ttl
        BY <1>1, <2>1 DEF V!ViewAssumption, V!Never
      <3> QED
        BY <3>1 DEF ViewInv, V!WindowKept
    <2>4. Counted' = Counted
      BY <2>1 DEF Counted
    <2>5. \A k \in V!ViewKeys : lastView'[k] <= viewClock'
      BY <1>1, <2>1 DEF ViewInv, V!Never
    <2> QED
      BY <2>1, <2>2, <2>3, <2>4, <2>5 DEF ViewInv
  <1>9. ASSUME V!Restart
        PROVE  ViewInv'
    <2>1. /\ DOMAIN cache' = {} /\ cache' \in [DOMAIN cache' -> Nat]
          /\ lastView' \in [V!ViewKeys -> Nat \cup {V!Never}]
          /\ \A k \in V!ViewKeys : lastView'[k] = V!Never
          /\ viewReq' \in [Requests -> V!Request]
          /\ UNCHANGED <<viewClock, posts, viewCount>>
      BY <1>9, ViewIdle DEF V!Restart
    <2>2. Counted' = {} /\ IsFiniteSet(Counted') /\ Cardinality({}) = 0
      BY <2>1, FS_EmptySet DEF Counted
    <2>3. V!TypeOK'
      BY <1>1, <2>1, <2>2, SameSets DEF V!TypeOK, V!ViewAssumption
    <2>4. V!WindowKept'
      BY <2>1 DEF V!WindowKept
    <2> QED
      BY <1>1, <2>1, <2>2, <2>3, <2>4 DEF ViewInv, V!Never
  <1>10. CASE UNCHANGED viewVars
    BY <1>1, <1>2, <1>10 DEF viewVars
  <1>11. ASSUME NEW p \in Posts, V!DeletePost(p)
         PROVE  ViewInv'
    BY <1>1, <1>2, <1>11 DEF V!DeletePost
  <1>12. CASE V!Next
    BY <1>4, <1>5, <1>6, <1>7, <1>8, <1>9, <1>11, <1>12 DEF V!Next
  <1> QED
    BY <1>10, <1>12

-----------------------------------------------------------------------------
(* Paging through the notices (NoticeList).                                *)

\* The ids of some notices, those newer than one, and whether its instant is
\* its own.
IdsOf(S) == {n.id : n \in S}
Newer(n) == {m \in listed : m.at > n.at}
Alone(n) == \A m \in listed : m.at = n.at => m = n

\* What was there at the start and has not been seen yet is not on a page that
\* the client has left behind: as many notices as it has skipped are newer.
ListInv ==
    /\ L!TypeOK /\ IsFiniteSet(listed)
    /\ \A n \in listed : n.id \in reader.start /\ Alone(n) =>
          \/ n.id \in reader.seen
          \/ /\ reader.pc # "done"
             /\ Cardinality(IdsOf(Newer(n))) >= L!Skip(reader.page, reader.limit)

\* Notices have ids of their own: counting ids counts notices.
LEMMA CountIds ==
    ASSUME ListInv, NEW S \in SUBSET listed
    PROVE  /\ IsFiniteSet(S) /\ IsFiniteSet(IdsOf(S))
           /\ Cardinality(IdsOf(S)) = Cardinality(S) /\ Cardinality(S) \in Nat
  <1>1. IsFiniteSet(S) /\ Cardinality(S) \in Nat
    BY FS_Subset, FS_CardinalityType DEF ListInv
  <1> DEFINE f == [n \in S |-> n.id]
  <1>2. f \in Bijection(S, IdsOf(S))
    <2>1. \A m, n \in S : f[m] = f[n] => m = n
      BY DEF ListInv, L!TypeOK
    <2>2. f \in [S -> IdsOf(S)] /\ \A i \in IdsOf(S) : \E n \in S : f[n] = i
      BY DEF IdsOf
    <2> QED
      BY <2>1, <2>2 DEF Bijection, Injection, Surjection, IsInjective
  <1>3. ExistsBijection(S, IdsOf(S))
    BY <1>2 DEF ExistsBijection
  <1> QED
    BY <1>1, <1>3, FS_Bijection

\* How much is skipped before a page and before the one after it.
LEMMA SkipNext ==
    ASSUME L!ListAssumption, NEW page \in Nat \ {0}, NEW limit \in Limits \cup {1}
    PROVE  /\ L!SafeLimit(limit) \in Nat \ {0}
           /\ L!Skip(page, limit) \in Nat /\ L!Skip(1, limit) = 0
           /\ L!Skip(page + 1, limit) = L!Skip(page, limit) + L!SafeLimit(limit)
  <1>1. PICK s : s = L!SafeLimit(limit)
    OBVIOUS
  <1>2. s \in Nat \ {0}
    BY <1>1 DEF L!ListAssumption, L!SafeLimit
  <1>3. PICK p \in Nat : page = p + 1
    <2>1. page - 1 \in Nat /\ page = (page - 1) + 1
      OBVIOUS
    <2> QED
      BY <2>1
  <1>4. /\ p * s \in Nat /\ (p + 1) * s = p * s + s /\ 0 * s = 0
        /\ (p + 1) - 1 = p /\ (p + 1 + 1) - 1 = p + 1 /\ 1 - 1 = 0
    BY <1>2
  <1>5. /\ L!Skip(page, limit) = p * s /\ L!Skip(page + 1, limit) = (p + 1) * s
        /\ L!Skip(1, limit) = 0 * s
    BY <1>1, <1>3, <1>4 DEF L!Skip
  <1> QED
    BY <1>1, <1>2, <1>4, <1>5

\* A page that does not show a notice has one before it that is newer for every
\* row skipped and every row shown.
LEMMA PageShows ==
    ASSUME L!ListAssumption, ListInv, NEW n \in listed, Alone(n),
           NEW page \in Nat \ {0}, NEW limit \in Limits \cup {1},
           NEW P \in L!Pages(page, limit), n \notin P,
           Cardinality(IdsOf(Newer(n))) >= L!Skip(page, limit)
    PROVE  /\ P # {}
           /\ Cardinality(IdsOf(Newer(n))) >= L!Skip(page + 1, limit)
  <1> DEFINE skip == L!Skip(page, limit)
             safe == L!SafeLimit(limit)
             all == Cardinality(listed)
  <1>1. PICK before, size, Q :
           /\ before = (IF skip < all THEN skip ELSE all)
           /\ size = (IF safe < all - before THEN safe ELSE all - before)
           /\ P \in SUBSET listed /\ Q \in SUBSET (listed \ P)
           /\ Cardinality(P) = size /\ Cardinality(Q) = before
           /\ \A s \in Q, t \in listed \ Q : s.at >= t.at
           /\ \A s \in P, t \in listed \ (Q \cup P) : s.at >= t.at
    BY SameSets DEF L!Pages
  <1>2. /\ skip \in Nat /\ safe \in Nat \ {0} /\ all \in Nat
        /\ L!Skip(page + 1, limit) = skip + safe
    BY SkipNext, CountIds
  <1>3. \A m \in listed : m.at \in Nat
    BY DEF ListInv, L!TypeOK, L!Notice
  <1>4. /\ Newer(n) \in SUBSET listed /\ IsFiniteSet(Newer(n))
        /\ Cardinality(IdsOf(Newer(n))) = Cardinality(Newer(n))
        /\ Cardinality(Newer(n)) \in Nat
    <2>1. Newer(n) \in SUBSET listed
      BY DEF Newer
    <2> QED
      BY <2>1, CountIds
  <1>5. n \notin Q
    <2> SUFFICES ASSUME n \in Q PROVE FALSE
      OBVIOUS
    <2>1. Newer(n) \subseteq Q \ {n}
      BY <1>1, <1>3 DEF Newer
    <2>2. IsFiniteSet(Q) /\ IsFiniteSet(Q \ {n}) /\ Cardinality(Q \ {n}) = Cardinality(Q) - 1
      BY <1>1, CountIds, FS_RemoveElement
    <2>3. Cardinality(Newer(n)) <= Cardinality(Q) - 1
      BY <2>1, <2>2, FS_Subset
    <2>4. Cardinality(Q) \in Nat /\ Cardinality(Q) <= skip
      BY <1>1, <1>2
    <2> QED
      BY <1>2, <1>4, <2>3, <2>4
  <1>6. Q \cup P \subseteq Newer(n)
    <2> SUFFICES ASSUME NEW m \in Q \cup P PROVE m \in Newer(n)
      OBVIOUS
    <2>1. m \in listed /\ m # n /\ m.at >= n.at
      BY <1>1, <1>5
    <2>2. m.at # n.at
      BY <2>1 DEF Alone
    <2> QED
      BY <1>3, <2>1, <2>2 DEF Newer
  <1>7. /\ IsFiniteSet(Q) /\ IsFiniteSet(P) /\ IsFiniteSet(Q \cup P)
        /\ Cardinality(Q \cup P) = Cardinality(Q) + Cardinality(P)
        /\ Cardinality(Q) \in Nat /\ Cardinality(P) \in Nat
    <2>1. Q \in SUBSET listed /\ P \in SUBSET listed /\ Q \cap P = {}
      BY <1>1
    <2>2. IsFiniteSet(Q) /\ IsFiniteSet(P) /\ Cardinality(Q) \in Nat /\ Cardinality(P) \in Nat
      BY <2>1, CountIds
    <2>3. Cardinality(Q \cap P) = 0
      BY <2>1, FS_EmptySet
    <2>4. /\ IsFiniteSet(Q \cup P)
          /\ Cardinality(Q \cup P) = Cardinality(Q) + Cardinality(P) - Cardinality(Q \cap P)
      BY <2>2, FS_Union
    <2> QED
      BY <2>2, <2>3, <2>4
  <1>8. Cardinality(Q \cup P) < all
    <2>1. Q \cup P \subseteq listed \ {n}
      BY <1>1, <1>5
    <2>2. IsFiniteSet(listed \ {n}) /\ Cardinality(listed \ {n}) = all - 1
      BY FS_RemoveElement DEF ListInv
    <2>3. Cardinality(Q \cup P) <= all - 1
      BY <2>1, <2>2, FS_Subset
    <2> QED
      BY <1>2, <1>7, <2>3
  <1>9. before = skip /\ size = safe
    BY <1>1, <1>2, <1>7, <1>8
  <1>10. Cardinality(Q \cup P) <= Cardinality(Newer(n))
    BY <1>4, <1>6, FS_Subset
  <1>11. P # {}
    BY <1>1, <1>2, <1>9, FS_EmptySet
  <1> QED
    BY <1>1, <1>2, <1>4, <1>7, <1>9, <1>10, <1>11

LEMMA ListStarts == L!ListAssumption /\ L!Init => ListInv
  <1> SUFFICES ASSUME L!ListAssumption, L!Init
               PROVE  ListInv
    OBVIOUS
  <1>1. listed = {} /\ IsFiniteSet(listed) /\ listedId = 0 /\ listClock = 0
    BY FS_EmptySet DEF L!Init
  <1>2. reader = [pc |-> "idle", limit |-> 1, page |-> 1, total |-> 0,
                  start |-> {}, seen |-> {}]
    BY DEF L!Init, L!NoReader
  <1>3. L!TypeOK
    BY <1>1, <1>2 DEF L!TypeOK
  <1> QED
    BY <1>1, <1>3 DEF ListInv

\* Marks change neither ids nor instants.
LEMMA ListMarked ==
    ASSUME ListInv, NEW M \in SUBSET listed, L!Mark(M), UNCHANGED <<listClock, listedId, reader>>
    PROVE  ListInv'
  <1> DEFINE marked(n) == [n EXCEPT !.read = TRUE]
  <1>1. listed' = (listed \ M) \cup {marked(n) : n \in M}
    BY DEF L!Mark
  <1>2. listed \subseteq L!Notice /\ IsFiniteSet(listed)
    BY DEF ListInv, L!TypeOK
  <1>3. \A n \in M : marked(n) \in L!Notice /\ marked(n).id = n.id /\ marked(n).at = n.at
    BY <1>2 DEF L!Notice
  <1>4. \A n \in listed' : /\ n \in L!Notice
                           /\ \E m \in listed : m.id = n.id /\ m.at = n.at /\
                                 (n = IF m \in M THEN marked(m) ELSE m)
    BY <1>1, <1>2, <1>3
  <1>5. \A m \in listed : \E n \in listed' : m.id = n.id /\ m.at = n.at /\
                                 (n = IF m \in M THEN marked(m) ELSE m)
    BY <1>1, <1>3
  <1>6. \A m, n \in listed : m.id = n.id => m = n
    BY DEF ListInv, L!TypeOK
  <1>7. L!TypeOK'
    <2>1. \A m, n \in listed' : m.id = n.id => m = n
      <3> SUFFICES ASSUME NEW m \in listed', NEW n \in listed', m.id = n.id
                   PROVE  m = n
        OBVIOUS
      <3>1. PICK k \in listed : k.id = m.id /\ (m = IF k \in M THEN marked(k) ELSE k)
        BY <1>4
      <3>2. PICK l \in listed : l.id = n.id /\ (n = IF l \in M THEN marked(l) ELSE l)
        BY <1>4
      <3>3. k = l
        BY <1>6, <3>1, <3>2
      <3> QED
        BY <3>1, <3>2, <3>3
    <2>2. \A n \in listed' : n.id \in 1 .. listedId /\ n.at <= listClock
      BY <1>4 DEF ListInv, L!TypeOK
    <2> QED
      BY <1>4, <2>1, <2>2 DEF ListInv, L!TypeOK
  <1>8. IsFiniteSet(listed')
    <2>1. IsFiniteSet({marked(n) : n \in M})
      <3> DEFINE g == [n \in M |-> marked(n)]
      <3>1. g \in Surjection(M, {marked(n) : n \in M})
        BY DEF Surjection
      <3>2. IsFiniteSet(M)
        BY <1>2, FS_Subset
      <3> QED
        BY <3>1, <3>2, FS_Surjection
    <2> QED
      BY <1>1, <1>2, <2>1, FS_Difference, FS_Union
  <1>9. ASSUME NEW n \in listed', n.id \in reader'.start, Alone(n)'
        PROVE  \/ n.id \in reader'.seen
               \/ /\ reader'.pc # "done"
                  /\ Cardinality(IdsOf(Newer(n))') >= L!Skip(reader'.page, reader'.limit)
    <2>1. PICK m \in listed : /\ m.id = n.id /\ m.at = n.at
                              /\ n = IF m \in M THEN marked(m) ELSE m
      BY <1>4
    <2>2. Alone(m)
      <3> SUFFICES ASSUME NEW o \in listed, o.at = m.at PROVE o = m
        BY DEF Alone
      <3>1. PICK p \in listed' : o.id = p.id /\ o.at = p.at
        BY <1>5
      <3>2. p = n
        BY <1>9, <2>1, <3>1 DEF Alone
      <3> QED
        BY <1>6, <2>1, <3>1, <3>2
    <2>3. IdsOf(Newer(n))' = IdsOf(Newer(m))
      <3>1. \A i : i \in IdsOf(Newer(n))' => i \in IdsOf(Newer(m))
        BY <1>4, <2>1 DEF IdsOf, Newer
      <3>2. \A i : i \in IdsOf(Newer(m)) => i \in IdsOf(Newer(n))'
        BY <1>5, <2>1 DEF IdsOf, Newer
      <3> QED
        BY <3>1, <3>2
    <2> QED
      BY <1>9, <2>1, <2>2, <2>3 DEF ListInv
  <1> QED
    BY <1>7, <1>8, <1>9 DEF ListInv

LEMMA ListKept == L!ListAssumption /\ ListInv /\ [L!Next]_listVars => ListInv'
  <1> SUFFICES ASSUME L!ListAssumption, ListInv, [L!Next]_listVars
               PROVE  ListInv'
    OBVIOUS
  <1>1. /\ listClock \in Nat /\ listedId \in Nat /\ listed \subseteq L!Notice
        /\ \A n \in listed : n.id \in 1 .. listedId /\ n.at <= listClock
        /\ \A m, n \in listed : m.id = n.id => m = n
        /\ reader.pc \in {"idle", "count", "rows", "done"}
        /\ reader.page \in Nat \ {0} /\ reader.total \in Nat
        /\ reader.limit \in Limits \cup {1}
        /\ reader.start \subseteq 1 .. listedId /\ reader.seen \subseteq 1 .. listedId
        /\ IsFiniteSet(listed)
    BY DEF ListInv, L!TypeOK
  <1>2. ASSUME UNCHANGED <<listed, listedId, reader>>, listClock' \in Nat,
               listClock' >= listClock
        PROVE  ListInv'
    <2>1. \A n \in listed : n.at <= listClock'
      BY <1>1, <1>2 DEF L!Notice
    <2>2. L!TypeOK'
      BY <1>1, <1>2, <2>1 DEF L!TypeOK
    <2>3. \A n : Newer(n)' = Newer(n) /\ (Alone(n)' <=> Alone(n))
      BY <1>2 DEF Newer, Alone
    <2> QED
      BY <1>2, <2>2, <2>3 DEF ListInv, IdsOf
  <1>3. ASSUME L!Arrive
        PROVE  ListInv'
    <2>1. PICK new : new = [id |-> listedId + 1, at |-> listClock, read |-> FALSE]
      OBVIOUS
    <2>2. /\ listed' = listed \cup {new} /\ listedId' = listedId + 1
          /\ UNCHANGED <<listClock, reader>>
      BY <1>3, <2>1 DEF L!Arrive
    <2>3. new \in L!Notice /\ new.id = listedId + 1 /\ new.at = listClock
      BY <1>1, <2>1 DEF L!Notice
    <2>4. \A n \in listed : n.id # new.id
      BY <1>1, <2>3
    <2>5. L!TypeOK'
      <3>1. /\ \A n \in listed' : n.id \in 1 .. listedId' /\ n.at <= listClock'
            /\ \A m, n \in listed' : m.id = n.id => m = n
        BY <1>1, <2>2, <2>3, <2>4
      <3>2. listedId' \in Nat /\ 1 .. listedId \subseteq 1 .. listedId'
        BY <1>1, <2>2
      <3> QED
        BY <1>1, <2>2, <2>3, <3>1, <3>2 DEF L!TypeOK
    <2>6. IsFiniteSet(listed')
      BY <1>1, <2>2, FS_AddElement
    <2>7. ASSUME NEW n \in listed', n.id \in reader.start, Alone(n)'
          PROVE  \/ n.id \in reader.seen
                 \/ /\ reader.pc # "done"
                    /\ Cardinality(IdsOf(Newer(n))') >= L!Skip(reader.page, reader.limit)
      <3>1. n \in listed
        BY <1>1, <2>2, <2>3, <2>7
      <3>2. Alone(n)
        BY <2>2, <2>7 DEF Alone
      <3>3. CASE n.id \in reader.seen
        BY <3>3
      <3>4. CASE n.id \notin reader.seen
        <4>1. /\ reader.pc # "done"
              /\ Cardinality(IdsOf(Newer(n))) >= L!Skip(reader.page, reader.limit)
          BY <2>7, <3>1, <3>2, <3>4 DEF ListInv
        <4>2. /\ Newer(n) \subseteq Newer(n)' /\ Newer(n)' \subseteq listed'
              /\ Newer(n) \subseteq listed
          BY <2>2 DEF Newer
        <4>3. IsFiniteSet(IdsOf(Newer(n))') /\ Cardinality(IdsOf(Newer(n))') \in Nat
          <5>1. Newer(n)' \subseteq Newer(n) \cup {new}
            BY <2>2 DEF Newer
          <5>2. IdsOf(Newer(n))' \subseteq IdsOf(Newer(n)) \cup {new.id}
            BY <5>1 DEF IdsOf
          <5>3. IsFiniteSet(IdsOf(Newer(n)) \cup {new.id})
            BY <4>2, CountIds, FS_AddElement
          <5> QED
            BY <5>2, <5>3, FS_Subset, FS_CardinalityType
        <4>4. IdsOf(Newer(n)) \subseteq IdsOf(Newer(n))'
          BY <4>2 DEF IdsOf
        <4>5. /\ Cardinality(IdsOf(Newer(n))) <= Cardinality(IdsOf(Newer(n))')
              /\ Cardinality(IdsOf(Newer(n))) \in Nat
          BY <4>2, <4>3, <4>4, CountIds, FS_Subset, FS_CardinalityType
        <4>6. L!Skip(reader.page, reader.limit) \in Nat
          BY <1>1, SkipNext
        <4> QED
          BY <4>1, <4>3, <4>5, <4>6
      <3> QED
        BY <3>3, <3>4
    <2> QED
      BY <2>2, <2>5, <2>6, <2>7 DEF ListInv
  <1>4. ASSUME NEW limit \in Limits, L!ListStart(limit)
        PROVE  ListInv'
    <2>1. /\ UNCHANGED <<listClock, listed, listedId>>
          /\ reader' = [pc |-> "count", limit |-> limit, page |-> 1, total |-> 0,
                        start |-> {n.id : n \in listed}, seen |-> {}]
      BY <1>4 DEF L!ListStart
    <2>2. L!TypeOK'
      BY <1>1, <2>1 DEF L!TypeOK
    <2>3. reader'.pc # "done" /\ L!Skip(reader'.page, reader'.limit) = 0
      BY <2>1, SkipNext
    <2>4. \A n \in listed : Cardinality(IdsOf(Newer(n))) >= 0
      <3> SUFFICES ASSUME NEW n \in listed PROVE Cardinality(IdsOf(Newer(n))) >= 0
        OBVIOUS
      <3>1. Newer(n) \in SUBSET listed
        BY DEF Newer
      <3>2. Cardinality(IdsOf(Newer(n))) \in Nat
        BY <3>1, CountIds
      <3> QED
        BY <3>2
    <2>5. \A n : IdsOf(Newer(n))' = IdsOf(Newer(n))
      BY <2>1 DEF IdsOf, Newer
    <2> QED
      BY <1>1, <2>1, <2>2, <2>3, <2>4, <2>5 DEF ListInv
  <1>5. ASSUME L!ListCount
        PROVE  ListInv'
    <2>1. /\ UNCHANGED <<listClock, listed, listedId>>
          /\ reader'.pc = "rows" /\ reader'.total = Cardinality(listed)
          /\ reader'.page = reader.page /\ reader'.limit = reader.limit
          /\ reader'.start = reader.start /\ reader'.seen = reader.seen
      BY <1>1, <1>5, SameSets DEF L!ListCount, ListInv, L!TypeOK
    <2>2. Cardinality(listed) \in Nat
      BY <1>1, FS_CardinalityType
    <2>3. L!TypeOK'
      BY <1>1, <2>1, <2>2 DEF L!TypeOK
    <2>4. \A n : IdsOf(Newer(n))' = IdsOf(Newer(n)) /\ (Alone(n)' <=> Alone(n))
      BY <2>1 DEF IdsOf, Newer, Alone
    <2> QED
      BY <1>1, <2>1, <2>3, <2>4 DEF ListInv
  <1>6. ASSUME L!ListRows
        PROVE  ListInv'
    <2>1. PICK P \in L!Pages(reader.page, reader.limit) :
             reader' = [reader EXCEPT !.seen = @ \cup {n.id : n \in P},
                                      !.page = IF P = {} THEN @ ELSE @ + 1,
                                      !.pc = IF P = {} THEN "done" ELSE "count"]
      BY <1>6 DEF L!ListRows
    <2>2. UNCHANGED <<listClock, listed, listedId>>
      BY <1>6 DEF L!ListRows
    <2>3. /\ reader'.seen = reader.seen \cup {n.id : n \in P}
          /\ reader'.page = (IF P = {} THEN reader.page ELSE reader.page + 1)
          /\ reader'.pc = (IF P = {} THEN "done" ELSE "count")
          /\ reader'.limit = reader.limit /\ reader'.total = reader.total
          /\ reader'.start = reader.start
      BY <2>1
    <2>4. P \in SUBSET listed
      BY DEF L!Pages
    <2>5. L!TypeOK'
      <3>1. reader'.page \in Nat \ {0} /\ reader'.seen \subseteq 1 .. listedId
        BY <1>1, <2>3, <2>4
      <3> QED
        BY <1>1, <2>2, <2>3, <3>1 DEF L!TypeOK
    <2>6. ASSUME NEW n \in listed, n.id \in reader.start, Alone(n), n.id \notin reader'.seen
          PROVE  /\ reader'.pc # "done"
                 /\ Cardinality(IdsOf(Newer(n))) >= L!Skip(reader'.page, reader'.limit)
      <3>1. n \notin P /\ n.id \notin reader.seen
        BY <2>3, <2>6
      <3>2. Cardinality(IdsOf(Newer(n))) >= L!Skip(reader.page, reader.limit)
        BY <2>6, <3>1 DEF ListInv
      <3>3. /\ P # {}
            /\ Cardinality(IdsOf(Newer(n))) >= L!Skip(reader.page + 1, reader.limit)
        BY <1>1, <2>6, <3>1, <3>2, PageShows
      <3> QED
        BY <2>3, <3>3
    <2>7. \A n : IdsOf(Newer(n))' = IdsOf(Newer(n)) /\ (Alone(n)' <=> Alone(n))
      BY <2>2 DEF IdsOf, Newer, Alone
    <2> QED
      BY <1>1, <2>2, <2>3, <2>5, <2>6, <2>7 DEF ListInv
  <1>7. ASSUME L!ListEnd
        PROVE  ListInv'
    <2>1. /\ UNCHANGED <<listClock, listed, listedId>>
          /\ reader' = [pc |-> "idle", limit |-> 1, page |-> 1, total |-> 0,
                        start |-> {}, seen |-> {}]
      BY <1>7 DEF L!ListEnd, L!NoReader
    <2>2. L!TypeOK'
      BY <1>1, <2>1 DEF L!TypeOK
    <2> QED
      BY <1>1, <2>1, <2>2 DEF ListInv
  <1>8. ASSUME NEW n \in listed, L!MarkAsRead(n)
        PROVE  ListInv'
    BY <1>8, ListMarked DEF L!MarkAsRead
  <1>9. ASSUME L!MarkAllAsRead
        PROVE  ListInv'
    <2>1. {n \in listed : ~n.read} \in SUBSET listed
      OBVIOUS
    <2> QED
      BY <1>9, <2>1, ListMarked DEF L!MarkAllAsRead
  <1>10. ASSUME NEW n \in listed, L!Delete(n)
         PROVE  ListInv'
    <2>1. /\ UNCHANGED <<listClock, listedId>> /\ listed' = listed \ {n}
          /\ reader'.start = {} /\ reader'.pc = reader.pc
          /\ reader'.page = reader.page /\ reader'.limit = reader.limit
          /\ reader'.total = reader.total /\ reader'.seen = reader.seen
      BY <1>1, <1>10 DEF L!Delete
    <2>2. L!TypeOK' /\ IsFiniteSet(listed')
      BY <1>1, <2>1, FS_RemoveElement DEF L!TypeOK
    <2> QED
      BY <2>1, <2>2 DEF ListInv
  <1>11. CASE UNCHANGED listVars
    BY <1>1, <1>2, <1>11 DEF listVars
  <1>12. CASE L!Tick
    BY <1>1, <1>2, <1>12 DEF L!Tick
  <1>13. CASE L!Next
    BY <1>3, <1>4, <1>5, <1>6, <1>7, <1>8, <1>9, <1>10, <1>12, <1>13 DEF L!Next
  <1> QED
    BY <1>11, <1>13

LEMMA ListEnough ==
    ASSUME ListInv
    PROVE  L!PagingComplete
  BY DEF ListInv, L!PagingComplete, Alone

-----------------------------------------------------------------------------
(* The one-time codes of the social logins (OAuthCodes).                   *)

\* Who stores a code in one of the two places, or is about to, and who has
\* found it in Redis and will answer with its token.
InRedis(c) == \E e \in redis : e.code = c
InMap(c) == \E e \in fallback : e.code = c
At(c, pc) == {r \in Requests : oauthReq[r].pc = pc /\ oauthReq[r].code = c}
Answering(c) == At(c, "del") \cup At(c, "return")

\* A code is in one place, and while it is there nobody has had its token; once
\* it is nowhere it never comes back, so those who answer are all there will be.
Promised(c) ==
    /\ InRedis(c) \/ InMap(c) \/ At(c, "set") # {} =>
          handed[c] = 0 /\ At(c, "return") = {}
    /\ InMap(c) \/ At(c, "set") # {} => ~InRedis(c) /\ At(c, "del") = {}
    /\ InMap(c) => At(c, "set") = {}
    /\ \A r, s \in At(c, "set") : r = s
    /\ handed[c] + Cardinality(Answering(c)) <= Cardinality(Requests)

OAuthInv ==
    /\ O!TypeOK
    /\ IsFiniteSet(fallback) /\ Cardinality(fallback) <= MaxFallback
    /\ \A e \in fallback : e.expiresAt <= oauthClock + Lifetime
    /\ \A c \in Codes : Promised(c)

LEMMA OAuthIdle ==
    ASSUME O!OAuthAssumption
    PROVE  O!Idle \in O!Request /\ O!Idle.pc = "idle"
  BY DEF O!OAuthAssumption, O!Idle, O!Request

\* Sets of requests are finite, and there is at least one request.
LEMMA AnswerSets ==
    ASSUME O!OAuthAssumption, NEW S \in SUBSET Requests
    PROVE  /\ IsFiniteSet(S) /\ Cardinality(S) \in Nat /\ Cardinality(S) <= Cardinality(Requests)
           /\ Cardinality(Requests) \in Nat /\ Cardinality(Requests) >= 1
           /\ \A T \in SUBSET S : Cardinality(T) \in Nat /\ Cardinality(T) <= Cardinality(S)
           /\ \A r \in S : Cardinality(S \ {r}) = Cardinality(S) - 1
  <1>1. IsFiniteSet(Requests) /\ Requests # {}
    BY SameSets DEF O!OAuthAssumption
  <1>2. /\ IsFiniteSet(S) /\ Cardinality(S) <= Cardinality(Requests)
        /\ Cardinality(S) \in Nat /\ Cardinality(Requests) \in Nat
    BY <1>1, FS_Subset, FS_CardinalityType
  <1>3. Cardinality(Requests) # 0
    BY <1>1, FS_EmptySet
  <1>4. \A T \in SUBSET S : Cardinality(T) \in Nat /\ Cardinality(T) <= Cardinality(S)
    BY <1>2, FS_Subset, FS_CardinalityType
  <1>5. \A r \in S : Cardinality(S \ {r}) = Cardinality(S) - 1
    BY <1>2, FS_RemoveElement
  <1> QED
    BY <1>2, <1>3, <1>4, <1>5

\* A step of one request leaves the others where they are.
Moved(r, q) ==
    \A c, pc : At(c, pc)' = (At(c, pc) \ {r}) \cup
                           (IF q.pc = pc /\ q.code = c THEN {r} ELSE {})

LEMMA OAuthMoves ==
    ASSUME O!OAuthAssumption, OAuthInv, NEW r \in Requests, NEW q \in O!Request,
           oauthReq' = [oauthReq EXCEPT ![r] = q]
    PROVE  /\ oauthReq' \in [Requests -> O!Request] /\ oauthReq'[r] = q
           /\ Moved(r, q)
  <1>1. /\ oauthReq' \in [Requests -> O!Request] /\ oauthReq'[r] = q
        /\ \A s \in Requests : s # r => oauthReq'[s] = oauthReq[s]
    BY DEF OAuthInv, O!TypeOK
  <1> QED
    BY <1>1 DEF At, Moved

\* When a code leaves places and requests leave it, its promise stays.
LEMMA CodeShrinks ==
    ASSUME O!OAuthAssumption, OAuthInv, NEW c \in Codes, handed'[c] = handed[c],
           InRedis(c)' => InRedis(c), InMap(c)' => InMap(c),
           At(c, "set")' \subseteq At(c, "set"), At(c, "del")' \subseteq At(c, "del"),
           At(c, "return")' \subseteq At(c, "return")
    PROVE  Promised(c)'
  <1>1. handed'[c] + Cardinality(Answering(c)') <= Cardinality(Requests)
    <2>1. Answering(c)' \subseteq Answering(c) /\ Answering(c) \subseteq Requests
      BY DEF Answering, At
    <2>2. /\ Cardinality(Answering(c)') <= Cardinality(Answering(c))
          /\ Cardinality(Answering(c)') \in Nat /\ Cardinality(Answering(c)) \in Nat
          /\ Cardinality(Requests) \in Nat
      BY <2>1, AnswerSets
    <2>3. handed[c] \in Nat /\ handed[c] + Cardinality(Answering(c)) <= Cardinality(Requests)
      BY DEF OAuthInv, Promised, O!TypeOK
    <2> QED
      BY <2>2, <2>3
  <1> QED
    BY <1>1 DEF OAuthInv, Promised

\* The map loses codes only, and time goes on.
LEMMA MapShrinks ==
    ASSUME O!OAuthAssumption, OAuthInv, fallback' \subseteq fallback,
           oauthClock' >= oauthClock, oauthClock' \in Nat
    PROVE  /\ IsFiniteSet(fallback') /\ Cardinality(fallback') <= MaxFallback
           /\ \A e \in fallback' : e.expiresAt <= oauthClock' + Lifetime
           /\ \A c : InMap(c)' => InMap(c)
  <1>1. IsFiniteSet(fallback') /\ Cardinality(fallback') <= MaxFallback
    <2>1. /\ IsFiniteSet(fallback') /\ Cardinality(fallback') <= Cardinality(fallback)
          /\ Cardinality(fallback') \in Nat /\ Cardinality(fallback) \in Nat
      BY FS_Subset, FS_CardinalityType DEF OAuthInv
    <2> QED
      BY <2>1 DEF OAuthInv, O!OAuthAssumption
  <1>2. \A e \in fallback' : e.expiresAt <= oauthClock' + Lifetime
    BY DEF OAuthInv, O!TypeOK, O!Entry, O!OAuthAssumption
  <1>3. \A c : InMap(c)' => InMap(c)
    BY DEF InMap
  <1> QED
    BY <1>1, <1>2, <1>3

LEMMA OAuthStarts == O!OAuthAssumption /\ O!Init => OAuthInv
  <1> SUFFICES ASSUME O!OAuthAssumption, O!Init
               PROVE  OAuthInv
    OBVIOUS
  <1>1. /\ redis = {} /\ fallback = {} /\ oauthClock = 0
        /\ \A c \in Codes : handed[c] = 0
        /\ \A r \in Requests : oauthReq[r].pc = "idle"
    BY OAuthIdle DEF O!Init
  <1>2. O!TypeOK
    BY <1>1, OAuthIdle DEF O!Init, O!TypeOK
  <1>3. \A c : At(c, "set") = {} /\ At(c, "del") = {} /\ At(c, "return") = {}
    BY <1>1 DEF At, Moved
  <1>4. \A c : Answering(c) = {} /\ ~InRedis(c) /\ ~InMap(c)
    BY <1>1, <1>3 DEF Answering, InRedis, InMap
  <1>5. IsFiniteSet({}) /\ Cardinality({}) = 0 /\ Cardinality(Requests) \in Nat
    BY FS_EmptySet, AnswerSets
  <1>6. ASSUME NEW c \in Codes
        PROVE  Promised(c)
    <2>1. ~InRedis(c) /\ ~InMap(c) /\ At(c, "set") = {}
      BY <1>3, <1>4
    <2>2. handed[c] = 0
      BY <1>1, <1>6
    <2>3. Cardinality(Answering(c)) = 0
      <3>1. Answering(c) = {}
        BY <1>4
      <3> QED
        BY <3>1, <1>5
    <2>4. handed[c] + Cardinality(Answering(c)) <= Cardinality(Requests)
      BY <2>2, <2>3, <1>5
    <2>5. \A r, s \in At(c, "set") : r = s
      BY <2>1
    <2> QED
      BY <2>1, <2>4, <2>5 DEF Promised
  <1>7. IsFiniteSet(fallback) /\ Cardinality(fallback) <= MaxFallback
    BY <1>1, <1>5 DEF O!OAuthAssumption
  <1> QED
    BY <1>1, <1>2, <1>6, <1>7 DEF OAuthInv

\* What may be left of the map once it is cleaned and, when full, evicted from.
LEMMA MapEvicted ==
    ASSUME O!OAuthAssumption, OAuthInv, NEW K \in O!Evicted(O!Cleaned(fallback))
    PROVE  /\ K \subseteq fallback /\ IsFiniteSet(K) /\ Cardinality(K) \in Nat
           /\ Cardinality(K) + 1 <= MaxFallback
           /\ \A k \in K : k.expiresAt >= oauthClock
           /\ \A e \in fallback \ K, k \in K : e.expiresAt <= k.expiresAt
  <1> DEFINE M == O!Cleaned(fallback)
  <1>1. /\ M \subseteq fallback /\ \A e \in fallback : e.expiresAt \in Nat
        /\ \A e \in fallback : e \in M <=> ~(e.expiresAt < oauthClock)
        /\ oauthClock \in Nat
    BY DEF O!Cleaned, OAuthInv, O!TypeOK, O!Entry
  <1>2. /\ IsFiniteSet(M) /\ Cardinality(M) \in Nat /\ Cardinality(M) <= MaxFallback
    <2>1. /\ IsFiniteSet(M) /\ Cardinality(M) <= Cardinality(fallback)
          /\ Cardinality(M) \in Nat /\ Cardinality(fallback) \in Nat
      BY <1>1, FS_Subset, FS_CardinalityType DEF OAuthInv
    <2> QED
      BY <2>1 DEF OAuthInv, O!OAuthAssumption
  <1>3. /\ MaxFallback \in Nat /\ MaxFallback \div 2 \in Nat /\ MaxFallback \div 2 >= 1
    BY DEF O!OAuthAssumption
  <1>4. /\ K \in SUBSET M /\ Cardinality(K) + 1 <= MaxFallback
        /\ \A e \in M \ K, k \in K : e.expiresAt <= k.expiresAt
    <2>1. CASE Cardinality(M) < MaxFallback
      <3>1. K = M
        BY <2>1, SameSets DEF O!Evicted
      <3> QED
        BY <1>2, <1>3, <2>1, <3>1
    <2>2. CASE ~(Cardinality(M) < MaxFallback)
      <3>1. /\ K \in SUBSET M /\ O!Cardinality(K) = O!Cardinality(M) - MaxFallback \div 2
            /\ \A e \in M \ K, k \in K : e.expiresAt <= k.expiresAt
        BY <2>2, SameSets DEF O!Evicted
      <3>2. Cardinality(K) = Cardinality(M) - MaxFallback \div 2
        BY <3>1, SameSets
      <3> QED
        BY <1>2, <1>3, <3>1, <3>2
    <2> QED
      BY <2>1, <2>2
  <1>5. IsFiniteSet(K) /\ Cardinality(K) \in Nat
    BY <1>2, <1>4, FS_Subset, FS_CardinalityType
  <1>6. ASSUME NEW e \in fallback \ K, NEW k \in K
        PROVE  e.expiresAt <= k.expiresAt
    BY <1>1, <1>4, <1>6
  <1> QED
    BY <1>1, <1>4, <1>5, <1>6

\* A login stores its code in the map.
LEMMA MapStores ==
    ASSUME O!OAuthAssumption, OAuthInv, NEW c \in Codes, O!GenerateFallback(c)
    PROVE  OAuthInv'
  <1>1. PICK K \in O!Evicted(O!Cleaned(fallback)) : fallback' = K \cup {O!Fresh(c)}
    BY DEF O!GenerateFallback
  <1>2. UNCHANGED <<oauthClock, connected, redis, handed, oauthReq>> /\ ~O!Drawn(c)
    BY DEF O!GenerateFallback
  <1>3. /\ K \subseteq fallback /\ IsFiniteSet(K) /\ Cardinality(K) \in Nat
        /\ Cardinality(K) + 1 <= MaxFallback
    BY MapEvicted
  <1>4. /\ O!Fresh(c) \in O!Entry /\ O!Fresh(c).code = c
        /\ O!Fresh(c).expiresAt = oauthClock + Lifetime
    BY DEF O!Fresh, O!Entry, OAuthInv, O!TypeOK, O!OAuthAssumption
  <1>5. /\ IsFiniteSet(fallback') /\ Cardinality(fallback') <= MaxFallback
    <2>1. /\ IsFiniteSet(fallback')
          /\ Cardinality(fallback') = IF O!Fresh(c) \in K THEN Cardinality(K)
                                                        ELSE Cardinality(K) + 1
      BY <1>1, <1>3, FS_AddElement
    <2> QED
      BY <1>3, <2>1 DEF O!OAuthAssumption
  <1>6. \A e \in fallback' : e.expiresAt <= oauthClock' + Lifetime
    BY <1>1, <1>2, <1>3, <1>4 DEF OAuthInv, O!TypeOK, O!OAuthAssumption
  <1>7. O!TypeOK'
    BY <1>1, <1>2, <1>3, <1>4 DEF OAuthInv, O!TypeOK
  <1>8. \A d, pc : /\ At(d, pc)' = At(d, pc)
                   /\ InRedis(d)' <=> InRedis(d)
                   /\ d # c /\ InMap(d)' => InMap(d)
    BY <1>1, <1>2, <1>3, <1>4 DEF At, InRedis, InMap
  <1>9. ASSUME NEW d \in Codes
        PROVE  Promised(d)'
    <2>1. CASE d # c
      BY <1>2, <1>8, <2>1, CodeShrinks
    <2>2. CASE d = c
      <3>1. /\ handed[c] = 0 /\ ~InRedis(c) /\ ~InMap(c)
            /\ At(c, "set") = {} /\ At(c, "del") = {} /\ At(c, "return") = {}
        BY <1>2 DEF O!Drawn, InRedis, InMap, At, OAuthInv, O!TypeOK
      <3>2. Answering(c)' = {} /\ Cardinality({}) = 0 /\ Cardinality(Requests) \in Nat
        BY <1>8, <3>1, FS_EmptySet, AnswerSets DEF Answering
      <3> QED
        BY <1>2, <1>8, <2>2, <3>1, <3>2 DEF Promised
    <2> QED
      BY <2>1, <2>2
  <1> QED
    BY <1>5, <1>6, <1>7, <1>9 DEF OAuthInv

\* A code in the map is exchanged, or found expired.
LEMMA MapExchanges ==
    ASSUME O!OAuthAssumption, OAuthInv, NEW c \in Codes, O!ExchangeFallback(c)
    PROVE  OAuthInv'
  <1>1. PICK e \in fallback :
           /\ e.code = c /\ fallback' = {f \in fallback : f.code # c}
           /\ handed' = IF e.expiresAt < oauthClock THEN handed
                                                    ELSE [handed EXCEPT ![c] = @ + 1]
           /\ UNCHANGED <<oauthClock, connected, redis, oauthReq>>
    BY DEF O!ExchangeFallback
  <1>2. /\ oauthClock \in Nat /\ handed \in [Codes -> Nat]
    BY DEF OAuthInv, O!TypeOK
  <1>3. O!TypeOK'
    BY <1>1, <1>2 DEF OAuthInv, O!TypeOK
  <1>4. /\ IsFiniteSet(fallback') /\ Cardinality(fallback') <= MaxFallback
        /\ \A f \in fallback' : f.expiresAt <= oauthClock' + Lifetime
        /\ \A d : InMap(d)' => InMap(d)
    <2>1. fallback' \subseteq fallback /\ oauthClock' >= oauthClock /\ oauthClock' \in Nat
      BY <1>1, <1>2
    <2> QED
      BY <2>1, MapShrinks
  <1>5. \A d, pc : At(d, pc)' = At(d, pc) /\ (InRedis(d)' <=> InRedis(d))
    BY <1>1 DEF At, InRedis
  <1>6. ASSUME NEW d \in Codes
        PROVE  Promised(d)'
    <2>1. CASE d # c
      BY <1>1, <1>2, <1>4, <1>5, <2>1, CodeShrinks
    <2>2. CASE d = c
      <3>1. InMap(c)
        BY <1>1 DEF InMap
      <3>2. /\ handed[c] = 0 /\ ~InRedis(c)
            /\ At(c, "set") = {} /\ At(c, "del") = {} /\ At(c, "return") = {}
        BY <3>1 DEF OAuthInv, Promised
      <3>3. handed'[c] \in {0, 1} /\ ~InMap(c)'
        BY <1>1, <1>2, <3>2 DEF InMap
      <3>4. Answering(c)' = {} /\ Cardinality({}) = 0
            /\ Cardinality(Requests) \in Nat /\ Cardinality(Requests) >= 1
        BY <1>5, <3>2, FS_EmptySet, AnswerSets DEF Answering
      <3> QED
        BY <1>5, <2>2, <3>2, <3>3, <3>4 DEF Promised
    <2> QED
      BY <2>1, <2>2
  <1> QED
    BY <1>3, <1>4, <1>6 DEF OAuthInv

\* A request goes on with its code; what else it changes are Redis and what is
\* known of that code.
LEMMA CodeGoes ==
    ASSUME O!OAuthAssumption, OAuthInv, NEW r \in Requests, NEW q \in O!Request,
           NEW c \in Codes, oauthReq' = [oauthReq EXCEPT ![r] = q],
           oauthReq[r].code = c \/ oauthReq[r].pc = "idle", q.code = c \/ q.pc = "idle",
           UNCHANGED <<oauthClock, connected, fallback>>,
           redis' \subseteq O!Entry, \A e \in redis' : e.expiresAt > oauthClock,
           \A e \in redis' : e.code # c => e \in redis,
           handed' \in [Codes -> Nat], \A d \in Codes : d # c => handed'[d] = handed[d],
           Promised(c)'
    PROVE  OAuthInv'
  <1>1. /\ oauthReq' \in [Requests -> O!Request] /\ oauthReq'[r] = q
        /\ Moved(r, q)
    BY OAuthMoves
  <1>2. O!TypeOK'
    BY <1>1 DEF OAuthInv, O!TypeOK
  <1>3. ASSUME NEW d \in Codes, d # c
        PROVE  Promised(d)'
    <2>1. \A pc \in {"set", "del", "return"} : At(d, pc)' \subseteq At(d, pc)
      BY <1>1, <1>3 DEF Moved
    <2>2. InRedis(d)' => InRedis(d)
      BY <1>3 DEF InRedis
    <2>3. InMap(d)' => InMap(d)
      BY DEF InMap
    <2> QED
      BY <1>3, <2>1, <2>2, <2>3, CodeShrinks
  <1> QED
    BY <1>2, <1>3 DEF OAuthInv

\* The steps of the requests that use Redis, one after the other.
LEMMA RedisGoes ==
    ASSUME O!OAuthAssumption, OAuthInv, NEW r \in Requests,
           O!Continue(r) \/ \E c \in Codes : O!GenerateRedis(r, c) \/ O!ExchangeRedis(r, c)
    PROVE  OAuthInv'
  <1>1. /\ oauthReq \in [Requests -> O!Request] /\ oauthReq[r].code \in Codes
        /\ oauthClock \in Nat /\ redis \subseteq O!Entry
        /\ \A e \in redis : e.expiresAt > oauthClock
        /\ handed \in [Codes -> Nat]
    BY DEF OAuthInv, O!TypeOK, O!Request
  <1>2. \A c \in Codes, pc \in {"set", "get", "del", "return"} :
           [pc |-> pc, code |-> c] \in O!Request
    BY DEF O!Request
  <1>3. ASSUME NEW q \in O!Request, oauthReq' = [oauthReq EXCEPT ![r] = q]
        PROVE  Moved(r, q)
    BY <1>3, OAuthMoves
  <1>4. ASSUME NEW c \in Codes
        PROVE  /\ Answering(c) \subseteq Requests /\ Promised(c)
               /\ Cardinality(Answering(c)) <= Cardinality(Requests)
               /\ Cardinality(Answering(c)) \in Nat /\ Cardinality(Requests) \in Nat
    <2>1. Answering(c) \subseteq Requests
      BY DEF Answering, At
    <2> QED
      BY <2>1, AnswerSets DEF OAuthInv
  <1>5. ASSUME NEW c \in Codes, O!GenerateRedis(r, c)
        PROVE  OAuthInv'
    <2>1. PICK q \in O!Request : q = [pc |-> "set", code |-> c]
      BY <1>2
    <2>2. /\ oauthReq' = [oauthReq EXCEPT ![r] = q] /\ oauthReq[r].pc = "idle"
          /\ UNCHANGED <<oauthClock, connected, redis, fallback, handed>> /\ ~O!Drawn(c)
      BY <1>5, <2>1 DEF O!GenerateRedis, O!Goto
    <2>3. /\ handed[c] = 0 /\ ~InRedis(c) /\ ~InMap(c)
          /\ At(c, "set") = {} /\ At(c, "del") = {} /\ At(c, "return") = {}
      BY <1>1, <2>2 DEF O!Drawn, InRedis, InMap, At
    <2>m. Moved(r, q)
      BY <1>3, <2>2
    <2>4. /\ At(c, "set")' = {r} /\ At(c, "del")' = {} /\ At(c, "return")' = {}
      BY <2>m, <2>1, <2>2, <2>3 DEF Moved
    <2>5. Answering(c)' = {} /\ Cardinality({}) = 0 /\ ~InRedis(c)' /\ ~InMap(c)'
      BY <2>2, <2>3, <2>4, FS_EmptySet DEF Answering, InRedis, InMap
    <2>6. Promised(c)'
      BY <1>4, <2>2, <2>3, <2>4, <2>5 DEF Promised
    <2> QED
      BY <1>1, <2>1, <2>2, <2>6, CodeGoes
  <1>6. ASSUME NEW c \in Codes, O!ExchangeRedis(r, c)
        PROVE  OAuthInv'
    <2>1. PICK q \in O!Request : q = [pc |-> "get", code |-> c]
      BY <1>2
    <2>2. /\ oauthReq' = [oauthReq EXCEPT ![r] = q] /\ oauthReq[r].pc = "idle"
          /\ UNCHANGED <<oauthClock, connected, redis, fallback, handed>>
      BY <1>6, <2>1 DEF O!ExchangeRedis, O!Goto
    <2>m. Moved(r, q)
      BY <1>3, <2>2
    <2>3. \A pc \in {"set", "del", "return"} : At(c, pc)' \subseteq At(c, pc)
      BY <2>m, <2>1, <2>2 DEF Moved
    <2>4. Promised(c)'
      BY <2>2, <2>3, CodeShrinks DEF InRedis, InMap
    <2> QED
      BY <1>1, <2>1, <2>2, <2>4, CodeGoes
  <1> PICK c \in Codes : c = oauthReq[r].code
    BY <1>1
  <1>7. ASSUME O!SetInRedis(r)
        PROVE  OAuthInv'
    <2>1. PICK q \in O!Request : q = O!Idle /\ q.pc = "idle"
      BY OAuthIdle
    <2>2. /\ oauthReq' = [oauthReq EXCEPT ![r] = q] /\ oauthReq[r].pc = "set"
          /\ redis' = (IF connected THEN redis \cup {O!Fresh(c)} ELSE redis)
          /\ UNCHANGED <<oauthClock, connected, fallback, handed>>
      BY <1>7, <2>1 DEF O!SetInRedis, O!Finish
    <2>3. r \in At(c, "set")
      BY <2>2 DEF At
    <2>4. /\ handed[c] = 0 /\ ~InMap(c) /\ At(c, "del") = {} /\ At(c, "return") = {}
          /\ At(c, "set") = {r}
      BY <1>1, <1>4, <2>3 DEF Promised
    <2>m. Moved(r, q)
      BY <1>3, <2>2
    <2>5. At(c, "set")' = {} /\ At(c, "del")' = {} /\ At(c, "return")' = {}
      BY <1>1, <2>m, <2>1, <2>2, <2>4 DEF Moved
    <2>6. Answering(c)' = {} /\ Cardinality({}) = 0 /\ ~InMap(c)'
      BY <2>2, <2>4, <2>5, FS_EmptySet DEF Answering, InMap
    <2>7. Promised(c)'
      BY <1>1, <1>4, <2>2, <2>4, <2>5, <2>6 DEF Promised
    <2>8. /\ O!Fresh(c) \in O!Entry /\ O!Fresh(c).code = c
          /\ O!Fresh(c).expiresAt > oauthClock
      BY <1>1 DEF O!Fresh, O!Entry, O!OAuthAssumption
    <2>9. /\ redis' \subseteq O!Entry /\ \A e \in redis' : e.expiresAt > oauthClock
          /\ \A e \in redis' : e.code # c => e \in redis
      BY <1>1, <2>2, <2>8
    <2> QED
      BY <1>1, <2>1, <2>2, <2>7, <2>9, CodeGoes
  <1>8. ASSUME O!GetFromRedis(r)
        PROVE  OAuthInv'
    <2>1. UNCHANGED <<oauthClock, connected, redis, fallback, handed>> /\ oauthReq[r].pc = "get"
      BY <1>8 DEF O!GetFromRedis
    <2>2. CASE connected /\ InRedis(c)
      <3>1. PICK q \in O!Request : q = [pc |-> "del", code |-> c]
        BY <1>1, <1>2
      <3>2. oauthReq' = [oauthReq EXCEPT ![r] = q]
        BY <1>8, <2>2, <3>1 DEF O!GetFromRedis, O!Goto, InRedis
      <3>3. /\ handed[c] = 0 /\ At(c, "return") = {} /\ ~InMap(c) /\ At(c, "set") = {}
        BY <1>1, <1>4, <2>2 DEF Promised
      <3>m. Moved(r, q)
        BY <1>3, <3>2
      <3>4. At(c, "set")' = {} /\ At(c, "return")' = {}
        BY <1>1, <3>m, <3>1, <3>2, <3>3 DEF Moved
      <3>5. Answering(c)' \subseteq Requests
        BY DEF Answering, At
      <3>6. Cardinality(Answering(c)') <= Cardinality(Requests) /\ Cardinality(Answering(c)') \in Nat
        BY <3>5, AnswerSets
      <3>7. Promised(c)'
        BY <1>1, <1>4, <2>1, <3>3, <3>4, <3>6 DEF Promised, InMap
      <3> QED
        BY <1>1, <2>1, <3>1, <3>2, <3>7, CodeGoes
    <2>3. CASE ~(connected /\ InRedis(c))
      <3>1. PICK q \in O!Request : q = O!Idle /\ q.pc = "idle"
        BY OAuthIdle
      <3>2. oauthReq' = [oauthReq EXCEPT ![r] = q]
        BY <1>8, <2>3, <3>1 DEF O!GetFromRedis, O!Finish, InRedis
      <3>m. Moved(r, q)
        BY <1>3, <3>2
      <3>3. \A pc \in {"set", "del", "return"} : At(c, pc)' \subseteq At(c, pc)
        BY <1>1, <3>m, <3>1, <3>2 DEF Moved
      <3>4. Promised(c)'
        BY <1>1, <2>1, <3>3, CodeShrinks DEF InRedis, InMap
      <3> QED
        BY <1>1, <2>1, <3>1, <3>2, <3>4, CodeGoes
    <2> QED
      BY <2>2, <2>3
  <1>9. ASSUME O!DelInRedis(r)
        PROVE  OAuthInv'
    <2>1. UNCHANGED <<oauthClock, connected, fallback, handed>> /\ oauthReq[r].pc = "del"
      BY <1>9 DEF O!DelInRedis
    <2>2. r \in At(c, "del")
      BY <2>1 DEF At
    <2>3. ~InMap(c) /\ At(c, "set") = {}
      BY <1>1, <1>4, <2>2 DEF Promised
    <2>4. CASE connected
      <3>1. PICK q \in O!Request : q = [pc |-> "return", code |-> c]
        BY <1>1, <1>2
      <3>2. /\ oauthReq' = [oauthReq EXCEPT ![r] = q]
            /\ redis' = {e \in redis : e.code # c}
        BY <1>9, <2>4, <3>1 DEF O!DelInRedis, O!Goto
      <3>m. Moved(r, q)
        BY <1>3, <3>2
      <3>3. /\ At(c, "set")' = {} /\ Answering(c)' = Answering(c)
            /\ ~InMap(c)' /\ ~InRedis(c)'
        BY <1>1, <3>m, <2>1, <2>2, <2>3, <3>1, <3>2 DEF Answering, InMap, InRedis, Moved
      <3>4. Promised(c)'
        BY <1>1, <1>4, <2>1, <3>3 DEF Promised
      <3> QED
        BY <1>1, <2>1, <3>1, <3>2, <3>4, CodeGoes
    <2>5. CASE ~connected
      <3>1. PICK q \in O!Request : q = O!Idle /\ q.pc = "idle"
        BY OAuthIdle
      <3>2. oauthReq' = [oauthReq EXCEPT ![r] = q] /\ redis' = redis
        BY <1>9, <2>5, <3>1 DEF O!DelInRedis, O!Finish
      <3>m. Moved(r, q)
        BY <1>3, <3>2
      <3>3. \A pc \in {"set", "del", "return"} : At(c, pc)' \subseteq At(c, pc)
        BY <1>1, <3>m, <3>1, <3>2 DEF Moved
      <3>4. Promised(c)'
        BY <1>1, <2>1, <3>2, <3>3, CodeShrinks DEF InRedis, InMap
      <3> QED
        BY <1>1, <2>1, <3>1, <3>2, <3>4, CodeGoes
    <2> QED
      BY <2>4, <2>5
  <1>10. ASSUME O!Return(r)
         PROVE  OAuthInv'
    <2>1. PICK q \in O!Request : q = O!Idle /\ q.pc = "idle"
      BY OAuthIdle
    <2>2. /\ oauthReq' = [oauthReq EXCEPT ![r] = q] /\ oauthReq[r].pc = "return"
          /\ handed' = [handed EXCEPT ![c] = @ + 1]
          /\ UNCHANGED <<oauthClock, connected, redis, fallback>>
      BY <1>10, <2>1 DEF O!Return, O!Finish
    <2>3. /\ handed' \in [Codes -> Nat] /\ handed'[c] = handed[c] + 1
          /\ \A d \in Codes : d # c => handed'[d] = handed[d]
      BY <1>1, <2>2
    <2>4. r \in At(c, "return")
      BY <2>2 DEF At
    <2>5. ~InRedis(c) /\ ~InMap(c) /\ At(c, "set") = {}
      BY <1>1, <1>4, <2>4 DEF Promised
    <2>m. Moved(r, q)
      BY <1>3, <2>2
    <2>6. /\ At(c, "set")' = {} /\ ~InRedis(c)' /\ ~InMap(c)'
          /\ Answering(c)' \subseteq Answering(c) \ {r} /\ r \in Answering(c)
      BY <1>1, <2>m, <2>1, <2>2, <2>4, <2>5 DEF Answering, InRedis, InMap, At, Moved
    <2>7. /\ Cardinality(Answering(c)') <= Cardinality(Answering(c)) - 1
          /\ Cardinality(Answering(c)') \in Nat
      <3>1. /\ Cardinality(Answering(c) \ {r}) = Cardinality(Answering(c)) - 1
            /\ Answering(c) \ {r} \in SUBSET Requests
        BY <1>1, <1>4, <2>6, AnswerSets
      <3> QED
        BY <2>6, <3>1, AnswerSets
    <2>8. handed[c] + Cardinality(Answering(c)) <= Cardinality(Requests) /\ handed[c] \in Nat
      BY <1>1, <1>4 DEF Promised
    <2>9. Promised(c)'
      BY <1>1, <1>4, <2>3, <2>6, <2>7, <2>8 DEF Promised
    <2> QED
      BY <1>1, <2>1, <2>2, <2>3, <2>9, CodeGoes
  <1> QED
    BY <1>5, <1>6, <1>7, <1>8, <1>9, <1>10 DEF O!Continue

\* Places are emptied and requests end: what is promised stays true.
LEMMA OAuthShrinks ==
    ASSUME O!OAuthAssumption, OAuthInv, O!TypeOK',
           redis' \subseteq redis, fallback' \subseteq fallback, handed' = handed,
           oauthClock' >= oauthClock,
           \A r \in Requests : oauthReq'[r] = oauthReq[r] \/ oauthReq'[r].pc = "idle"
    PROVE  OAuthInv'
  <1>1. oauthClock' \in Nat
    BY DEF O!TypeOK
  <1>2. /\ IsFiniteSet(fallback') /\ Cardinality(fallback') <= MaxFallback
        /\ \A e \in fallback' : e.expiresAt <= oauthClock' + Lifetime
        /\ \A c : InMap(c)' => InMap(c)
    BY <1>1, MapShrinks
  <1>3. ASSUME NEW c \in Codes
        PROVE  Promised(c)'
    <2>1. /\ At(c, "set")' \subseteq At(c, "set") /\ At(c, "del")' \subseteq At(c, "del")
          /\ At(c, "return")' \subseteq At(c, "return")
      BY DEF At
    <2>2. InRedis(c)' => InRedis(c)
      BY DEF InRedis
    <2> QED
      BY <1>2, <2>1, <2>2, CodeShrinks
  <1> QED
    BY <1>2, <1>3 DEF OAuthInv

LEMMA OAuthKept == O!OAuthAssumption /\ OAuthInv /\ [O!Next]_oauthVars => OAuthInv'
  <1> SUFFICES ASSUME O!OAuthAssumption, OAuthInv, [O!Next]_oauthVars
               PROVE  OAuthInv'
    OBVIOUS
  <1>1. /\ oauthClock \in Nat /\ connected \in BOOLEAN /\ redis \subseteq O!Entry
        /\ \A e \in redis : e.expiresAt \in Nat /\ e.expiresAt > oauthClock
        /\ fallback \subseteq O!Entry /\ handed \in [Codes -> Nat]
        /\ oauthReq \in [Requests -> O!Request]
    BY DEF OAuthInv, O!TypeOK, O!Entry
  <1>3. CASE UNCHANGED oauthVars
    <2>1. UNCHANGED <<oauthClock, connected, redis, fallback, handed, oauthReq>>
      BY <1>3 DEF oauthVars
    <2>2. O!TypeOK'
      BY <1>1, <2>1 DEF O!TypeOK
    <2> QED
      BY <1>1, <2>1, <2>2, OAuthShrinks
  <1>4. CASE O!Tick
    <2>1. /\ oauthClock' = oauthClock + 1
          /\ redis' = {e \in redis : e.expiresAt > oauthClock'}
          /\ UNCHANGED <<connected, fallback, handed, oauthReq>>
      BY <1>4 DEF O!Tick
    <2>2. O!TypeOK' /\ oauthClock' >= oauthClock /\ redis' \subseteq redis
      BY <1>1, <2>1 DEF O!TypeOK
    <2> QED
      BY <2>1, <2>2, OAuthShrinks
  <1>5. CASE O!Disconnect
    <2>1. /\ connected' = FALSE /\ redis' \subseteq redis
          /\ UNCHANGED <<oauthClock, fallback, handed, oauthReq>>
      BY <1>5 DEF O!Disconnect
    <2>2. O!TypeOK'
      BY <1>1, <2>1 DEF O!TypeOK
    <2> QED
      BY <1>1, <2>1, <2>2, OAuthShrinks
  <1>6. CASE O!Reconnect
    <2>1. connected' = TRUE /\ UNCHANGED <<oauthClock, redis, fallback, handed, oauthReq>>
      BY <1>6 DEF O!Reconnect
    <2>2. O!TypeOK'
      BY <1>1, <2>1 DEF O!TypeOK
    <2> QED
      BY <1>1, <2>1, <2>2, OAuthShrinks
  <1>7. CASE O!Restart
    <2>1. /\ fallback' = {} /\ oauthReq' = [r \in Requests |-> O!Idle]
          /\ UNCHANGED <<oauthClock, connected, redis, handed>>
      BY <1>7 DEF O!Restart
    <2>2. /\ oauthReq' \in [Requests -> O!Request]
          /\ \A r \in Requests : oauthReq'[r].pc = "idle"
      BY <2>1, OAuthIdle
    <2>3. O!TypeOK'
      BY <1>1, <2>1, <2>2 DEF O!TypeOK
    <2> QED
      BY <1>1, <2>1, <2>2, <2>3, OAuthShrinks
  <1>8. ASSUME NEW r \in Requests,
               O!Continue(r) \/ \E c \in Codes : O!GenerateRedis(r, c) \/ O!ExchangeRedis(r, c)
        PROVE  OAuthInv'
    BY <1>8, RedisGoes
  <1>9. ASSUME NEW c \in Codes, O!GenerateFallback(c) \/ O!ExchangeFallback(c)
        PROVE  OAuthInv'
    BY <1>9, MapStores, MapExchanges
  <1>10. CASE O!Next
    BY <1>4, <1>5, <1>6, <1>7, <1>8, <1>9, <1>10 DEF O!Next
  <1> QED
    BY <1>3, <1>10

LEMMA HandedEnough ==
    ASSUME O!OAuthAssumption, OAuthInv
    PROVE  O!HandedBounded
  <1> SUFFICES ASSUME NEW c \in Codes PROVE handed[c] <= Cardinality(Requests)
    BY SameSets DEF O!HandedBounded
  <1>1. Answering(c) \subseteq Requests
    BY DEF Answering, At
  <1>2. Cardinality(Answering(c)) \in Nat /\ Cardinality(Requests) \in Nat
    BY <1>1, AnswerSets
  <1>3. handed[c] \in Nat /\ handed[c] + Cardinality(Answering(c)) <= Cardinality(Requests)
    BY DEF OAuthInv, Promised, O!TypeOK
  <1> QED
    BY <1>2, <1>3

\* A login never makes the map give up a code that would have outlived another.
LEMMA EvictionFair ==
    ASSUME O!OAuthAssumption, OAuthInv, NEW c \in Codes, O!GenerateFallback(c)
    PROVE  /\ O!Cardinality(fallback') <= MaxFallback
           /\ \E e \in fallback' : e.code = c
           /\ \A e \in fallback \ fallback', f \in fallback' : e.expiresAt <= f.expiresAt
  <1>1. PICK K \in O!Evicted(O!Cleaned(fallback)) : fallback' = K \cup {O!Fresh(c)}
    BY DEF O!GenerateFallback
  <1>2. \A e \in fallback \ K, k \in K : e.expiresAt <= k.expiresAt
    BY MapEvicted
  <1>3. O!Fresh(c).code = c /\ O!Fresh(c).expiresAt = oauthClock + Lifetime
    BY DEF O!Fresh
  <1>4. \A e \in fallback : e.expiresAt <= oauthClock + Lifetime
    BY DEF OAuthInv
  <1>5. OAuthInv'
    BY MapStores
  <1>6. O!Cardinality(fallback') <= MaxFallback
    BY <1>5, SameSets DEF OAuthInv
  <1> QED
    BY <1>1, <1>2, <1>3, <1>4, <1>6

-----------------------------------------------------------------------------
(* The best answer (BestAnswers).                                          *)

\* The transactions that have seen which answers are marked, and the marks
\* each of them will take away.
Selecting == {r \in Requests : bestReq[r].pc \in {"clear", "set"}}
Taken(r) == IF bestReq[r].pc = "clear" THEN bestReq[r].seen ELSE bestReq[r].cleared
Spared(A) == best \ UNION {Taken(r) : r \in A}

\* Were all of A to commit, each would add a mark to those that none of them
\* takes away: that is why the bound is about sets of transactions.
BestInv ==
    /\ B!TypeOK /\ IsFiniteSet(best)
    /\ \A r \in Requests : bestReq[r].pc # "set" => bestReq[r].cleared = {}
    /\ \A A \in SUBSET Selecting :
          Cardinality(Spared(A)) + Cardinality(A) <= Cardinality(Requests)

\* Counting what is spared: sets of marks and of transactions are finite.
LEMMA SparedFinite ==
    ASSUME B!AnswersAssumption, BestInv, NEW A \in SUBSET Selecting
    PROVE  /\ IsFiniteSet(Spared(A)) /\ Cardinality(Spared(A)) \in Nat
           /\ IsFiniteSet(A) /\ Cardinality(A) \in Nat
           /\ Cardinality(Requests) \in Nat
           /\ Cardinality(Spared(A)) + Cardinality(A) <= Cardinality(Requests)
  <1>1. Spared(A) \in SUBSET best /\ A \in SUBSET Requests
    BY DEF Spared, Selecting
  <1> QED
    BY <1>1, SameSets, FS_Subset, FS_CardinalityType DEF BestInv, B!AnswersAssumption

LEMMA BestIdle ==
    ASSUME B!AnswersAssumption
    PROVE  B!Idle \in B!Request /\ B!Idle.pc = "idle" /\ B!Idle.cleared = {}
  BY DEF B!AnswersAssumption, B!Idle, B!Request

LEMMA BestStarts == B!AnswersAssumption /\ B!Init => BestInv
  <1> SUFFICES ASSUME B!AnswersAssumption, B!Init
               PROVE  BestInv
    OBVIOUS
  <1>1. /\ best = {} /\ bestReq \in [Requests -> B!Request]
        /\ \A r \in Requests : bestReq[r].pc = "idle" /\ bestReq[r].cleared = {}
    BY BestIdle DEF B!Init
  <1>2. Selecting = {} /\ \A A : Spared(A) = {}
    BY <1>1 DEF Selecting, Spared
  <1>3. IsFiniteSet(best) /\ Cardinality({}) = 0 /\ Cardinality(Requests) \in Nat
    BY <1>1, SameSets, FS_EmptySet, FS_CardinalityType DEF B!AnswersAssumption
  <1>4. B!TypeOK
    BY <1>1 DEF B!Init, B!TypeOK
  <1>5. ASSUME NEW A \in SUBSET Selecting
        PROVE  Cardinality(Spared(A)) + Cardinality(A) <= Cardinality(Requests)
    <2>1. A = {} /\ Spared(A) = {}
      BY <1>2
    <2> QED
      BY <1>3, <2>1
  <1> QED
    BY <1>1, <1>3, <1>4, <1>5 DEF BestInv

\* Marks go and transactions end: what is spared does not grow.
LEMMA SparedLess ==
    ASSUME B!AnswersAssumption, BestInv, best' \subseteq best,
           Selecting' \subseteq Selecting,
           \A r \in Selecting' : Taken(r) \cap best \subseteq Taken(r)'
    PROVE  /\ IsFiniteSet(best')
           /\ \A A \in SUBSET Selecting' :
                 Cardinality(Spared(A)') + Cardinality(A) <= Cardinality(Requests)
  <1>1. IsFiniteSet(best')
    BY FS_Subset DEF BestInv
  <1>2. ASSUME NEW A \in SUBSET Selecting'
        PROVE  Cardinality(Spared(A)') + Cardinality(A) <= Cardinality(Requests)
    <2>1. A \in SUBSET Selecting
      BY <1>2
    <2>2. Spared(A)' \in SUBSET Spared(A)
      BY <2>1 DEF Spared
    <2>3. Cardinality(Spared(A)') <= Cardinality(Spared(A)) /\ Cardinality(Spared(A)') \in Nat
      BY <2>1, <2>2, SparedFinite, FS_Subset, FS_CardinalityType
    <2> QED
      BY <2>1, <2>3, SparedFinite
  <1> QED
    BY <1>1, <1>2

LEMMA BestKept ==
    ASSUME B!AnswersAssumption, BestInv, [B!Next]_bestVars
    PROVE  BestInv'
  <1>1. ASSUME NEW r \in Requests, NEW q \in B!Request,
               bestReq' = [bestReq EXCEPT ![r] = q],
               UNCHANGED <<row, best>>, q.pc # "set", q.cleared = {}, q.pc # "clear"
        PROVE  BestInv'
    <2>1. /\ bestReq' \in [Requests -> B!Request] /\ bestReq'[r] = q
          /\ \A s \in Requests : s # r => bestReq'[s] = bestReq[s]
      BY <1>1 DEF BestInv, B!TypeOK
    <2>2. B!TypeOK'
      BY <1>1, <2>1 DEF BestInv, B!TypeOK
    <2>3. \A s \in Selecting' : s \in Selecting /\ s # r /\ Taken(s)' = Taken(s)
      BY <1>1, <2>1 DEF Selecting, Taken
    <2>4. \A s \in Requests : bestReq'[s].pc # "set" => bestReq'[s].cleared = {}
      BY <1>1, <2>1 DEF BestInv
    <2> QED
      BY <1>1, <2>2, <2>3, <2>4, SparedLess DEF BestInv
  <1>2. CASE UNCHANGED bestVars
    <2>1. UNCHANGED <<row, best, bestReq>>
      BY <1>2 DEF bestVars
    <2>2. Selecting' = Selecting /\ \A A : Spared(A)' = Spared(A)
      BY <2>1 DEF Selecting, Spared, Taken
    <2>3. B!TypeOK'
      BY <2>1 DEF BestInv, B!TypeOK, B!Locked
    <2> QED
      BY <2>1, <2>2, <2>3 DEF BestInv
  <1>3. ASSUME NEW a \in Answers, B!AnswerCreate(a) \/ B!AnswerRemove(a)
        PROVE  BestInv'
    <2>1. /\ bestReq' = bestReq /\ best' \subseteq best
          /\ \/ row' = [row EXCEPT ![a] = "up"] /\ best' = best
             \/ row' = [row EXCEPT ![a] = "gone"] /\ best' = best \ {a}
      BY <1>3 DEF B!AnswerCreate, B!AnswerRemove
    <2>2. B!TypeOK'
      BY <2>1 DEF BestInv, B!TypeOK
    <2>3. Selecting' = Selecting /\ \A r \in Selecting : Taken(r)' = Taken(r)
      BY <2>1 DEF Selecting, Taken
    <2> QED
      BY <2>1, <2>2, <2>3, SparedLess DEF BestInv
  <1>4. ASSUME NEW r \in Requests, NEW a \in Answers, B!SelectRead(r, a)
        PROVE  BestInv'
    <2> DEFINE new == [B!Idle EXCEPT !.pc = "chosen", !.answer = a]
    <2>1. /\ new \in B!Request /\ new.pc = "chosen" /\ new.cleared = {}
      BY BestIdle DEF B!Request
    <2>2. bestReq' = [bestReq EXCEPT ![r] = new] /\ UNCHANGED <<row, best>>
      BY <1>4 DEF B!SelectRead
    <2> HIDE DEF new
    <2> QED
      BY <1>1, <2>1, <2>2
  <1>5. ASSUME NEW r \in Requests, B!ClearBegin(r)
        PROVE  BestInv'
    <2> DEFINE new == [bestReq[r] EXCEPT !.pc = "clear", !.seen = best]
    <2>1. /\ bestReq[r].pc = "chosen" /\ bestReq' = [bestReq EXCEPT ![r] = new]
          /\ UNCHANGED <<row, best>>
      BY <1>5 DEF B!ClearBegin, B!Marked
    <2>2. bestReq[r] \in B!Request /\ bestReq[r].cleared = {} /\ best \in SUBSET Answers
      BY <2>1 DEF BestInv, B!TypeOK
    <2>3. new \in B!Request /\ new.pc = "clear" /\ new.seen = best /\ new.cleared = {}
      BY <2>2 DEF B!Request
    <2> HIDE DEF new
    <2>4. /\ bestReq' \in [Requests -> B!Request] /\ bestReq'[r] = new
          /\ \A s \in Requests : s # r => bestReq'[s] = bestReq[s]
      BY <2>1, <2>3 DEF BestInv, B!TypeOK
    <2>5. B!TypeOK'
      BY <2>1, <2>2, <2>3, <2>4 DEF BestInv, B!TypeOK
    <2>6. ASSUME NEW A \in SUBSET Selecting'
          PROVE  Cardinality(Spared(A)') + Cardinality(A) <= Cardinality(Requests)
      <3>1. CASE r \in A
        <4>1. Spared(A)' = {}
          BY <2>1, <2>3, <2>4, <3>1 DEF Spared, Taken
        <4>2. A \in SUBSET Requests
          BY DEF Selecting
        <4> QED
          BY <4>1, <4>2, SameSets, FS_EmptySet, FS_Subset, FS_CardinalityType
             DEF B!AnswersAssumption
      <3>2. CASE r \notin A
        <4>1. A \in SUBSET Selecting /\ \A s \in A : Taken(s)' = Taken(s)
          BY <2>4, <3>2 DEF Selecting, Taken
        <4>2. Spared(A)' = Spared(A)
          BY <2>1, <4>1 DEF Spared
        <4> QED
          BY <4>1, <4>2 DEF BestInv
      <3> QED
        BY <3>1, <3>2
    <2>7. \A s \in Requests : bestReq'[s].pc # "set" => bestReq'[s].cleared = {}
      BY <2>3, <2>4 DEF BestInv
    <2> QED
      BY <2>1, <2>5, <2>6, <2>7 DEF BestInv
  <1>6. ASSUME NEW r \in Requests, B!Clear(r)
        PROVE  BestInv'
    <2> DEFINE new == [bestReq[r] EXCEPT !.pc = "set",
                                         !.cleared = bestReq[r].seen \cap best]
    <2>1. /\ bestReq[r].pc = "clear" /\ bestReq' = [bestReq EXCEPT ![r] = new]
          /\ UNCHANGED <<row, best>>
          /\ \A a \in bestReq[r].seen : \A s \in Requests : a \notin bestReq[s].cleared
      BY <1>6 DEF B!Clear, B!LocksFree, B!Locked
    <2>2. bestReq[r] \in B!Request
      BY DEF BestInv, B!TypeOK
    <2>3. /\ new \in B!Request /\ new.pc = "set" /\ new.seen = bestReq[r].seen
          /\ new.cleared = bestReq[r].seen \cap best
      BY <2>2 DEF B!Request
    <2> HIDE DEF new
    <2>4. /\ bestReq' \in [Requests -> B!Request] /\ bestReq'[r] = new
          /\ \A s \in Requests : s # r => bestReq'[s] = bestReq[s]
      BY <2>1, <2>3 DEF BestInv, B!TypeOK
    <2>5. B!TypeOK'
      BY <2>1, <2>3, <2>4 DEF BestInv, B!TypeOK
    <2>6. /\ Selecting' \subseteq Selecting
          /\ \A s \in Selecting' : Taken(s) \cap best \subseteq Taken(s)'
      BY <2>1, <2>3, <2>4 DEF Selecting, Taken
    <2>7. \A s \in Requests : bestReq'[s].pc # "set" => bestReq'[s].cleared = {}
      BY <2>3, <2>4 DEF BestInv
    <2> QED
      BY <2>1, <2>5, <2>6, <2>7, SparedLess DEF BestInv
  <1>7. ASSUME NEW r \in Requests, B!SetBest(r)
        PROVE  BestInv'
    <2> DEFINE a == bestReq[r].answer
    <2>1. /\ bestReq[r].pc = "set" /\ bestReq' = [bestReq EXCEPT ![r] = B!Idle]
          /\ row' = row
          /\ \/ row[a] = "up" /\ best' = (best \ bestReq[r].cleared) \cup {a}
             \/ best' = best
      BY <1>7 DEF B!SetBest, B!Finish
    <2>2. bestReq[r] \in B!Request /\ a \in Answers
      BY DEF BestInv, B!TypeOK, B!Request
    <2> HIDE DEF a
    <2>3. /\ bestReq' \in [Requests -> B!Request] /\ bestReq'[r] = B!Idle
          /\ \A s \in Requests : s # r => bestReq'[s] = bestReq[s]
      BY <2>1, BestIdle DEF BestInv, B!TypeOK
    <2>4. B!TypeOK'
      BY <2>1, <2>2, <2>3, BestIdle DEF BestInv, B!TypeOK
    <2>5. \A s \in Selecting' : s \in Selecting /\ s # r /\ Taken(s)' = Taken(s)
      BY <2>3, BestIdle DEF Selecting, Taken
    <2>6. \A s \in Requests : bestReq'[s].pc # "set" => bestReq'[s].cleared = {}
      BY <2>3, BestIdle DEF BestInv
    <2>7. CASE best' = best
      BY <2>4, <2>5, <2>6, <2>7, SparedLess DEF BestInv
    <2>8. CASE best' = (best \ bestReq[r].cleared) \cup {a}
      <3>1. IsFiniteSet(best')
        BY <2>8, FS_AddElement, FS_Subset DEF BestInv
      <3>2. ASSUME NEW A \in SUBSET Selecting'
            PROVE  Cardinality(Spared(A)') + Cardinality(A) <= Cardinality(Requests)
        <4> DEFINE C == A \cup {r}
        <4>1. C \in SUBSET Selecting /\ r \notin A
          BY <2>1, <2>5 DEF Selecting
        <4>2. Taken(r) = bestReq[r].cleared /\ \A s \in A : Taken(s)' = Taken(s)
          BY <2>1, <2>5 DEF Taken
        <4>3. Spared(A)' \in SUBSET (Spared(C) \cup {a})
          BY <2>8, <4>2 DEF Spared
        <4>4. /\ IsFiniteSet(Spared(C)) /\ Cardinality(Spared(C)) \in Nat
              /\ Cardinality(Spared(C)) + Cardinality(C) <= Cardinality(Requests)
              /\ Cardinality(Requests) \in Nat
          BY <4>1, SparedFinite
        <4>5. IsFiniteSet(A) /\ Cardinality(A) \in Nat
          BY <4>1, SparedFinite, FS_Subset, FS_CardinalityType
        <4>6. Cardinality(C) = Cardinality(A) + 1
          BY <4>1, <4>5, FS_AddElement
        <4>7. /\ Cardinality(Spared(A)') <= Cardinality(Spared(C) \cup {a})
              /\ Cardinality(Spared(A)') \in Nat
              /\ Cardinality(Spared(C) \cup {a}) <= Cardinality(Spared(C)) + 1
              /\ Cardinality(Spared(C) \cup {a}) \in Nat
          <5>1. /\ IsFiniteSet(Spared(C) \cup {a})
                /\ Cardinality(Spared(C) \cup {a}) =
                      IF a \in Spared(C) THEN Cardinality(Spared(C))
                                         ELSE Cardinality(Spared(C)) + 1
            BY <4>4, FS_AddElement
          <5>2. IsFiniteSet(Spared(A)') /\ Cardinality(Spared(A)')
                                               <= Cardinality(Spared(C) \cup {a})
            BY <4>3, <5>1, FS_Subset
          <5>3. Cardinality(Spared(A)') \in Nat
            BY <5>2, FS_CardinalityType
          <5> HIDE DEF C
          <5> QED
            BY <4>4, <5>1, <5>2, <5>3
        <4> HIDE DEF C
        <4> QED
          BY <4>4, <4>5, <4>6, <4>7
      <3> QED
        BY <2>4, <2>6, <3>1, <3>2 DEF BestInv
    <2> QED
      BY <2>1, <2>7, <2>8
  <1>8. ASSUME NEW r \in Requests, B!Abort(r)
        PROVE  BestInv'
    BY <1>1, <1>8, BestIdle DEF B!Abort, B!Finish
  <1> QED
    BY <1>2, <1>3, <1>4, <1>5, <1>6, <1>7, <1>8 DEF B!Next

LEMMA BestEnough == B!AnswersAssumption /\ BestInv => B!BestBounded
  <1> SUFFICES ASSUME B!AnswersAssumption, BestInv
               PROVE  Cardinality(best) <= Cardinality(Requests)
    BY SameSets DEF B!BestBounded
  <1>1. Spared({}) = best /\ {} \in SUBSET Selecting
    BY DEF Spared
  <1>2. Cardinality({}) = 0 /\ Cardinality(best) \in Nat
    BY FS_EmptySet, FS_CardinalityType DEF BestInv
  <1> QED
    BY <1>1, <1>2 DEF BestInv

-----------------------------------------------------------------------------
(* The links to reset a password (ResetTokens).                            *)

\* The transactions that will use a token, the requests that will create one
\* for an account, and the tokens it could be reset with.
Using(i) == {r \in Requests : resetReq[r].pc = "commit" /\ resetReq[r].id = i}
Creating(u) == {r \in Requests : resetReq[r].pc = "create" /\ resetReq[r].user = u}
Open(u) == {t \in resetTokens : t.user = u /\ R!Valid(t)}

\* A token that has been used is never read as valid again: what it will be
\* used are the transactions that read it before.  Likewise for what is open.
ResetInv ==
    /\ R!TypeOK
    /\ \A t \in resetTokens : t.used \/ uses[t.id] = 0
    /\ \A r \in Requests : resetReq[r].pc = "commit" => resetReq[r].id \in 1 .. resetId
    /\ \A i \in 1 .. resetId : uses[i] + Cardinality(Using(i)) <= Cardinality(Requests)
    /\ \A u \in Accounts :
          /\ IsFiniteSet(Open(u))
          /\ Cardinality(Open(u)) + Cardinality(Creating(u)) <= Cardinality(Requests)

\* Sets of requests are finite, and smaller when one has left them.
LEMMA RequestSets ==
    ASSUME R!ResetAssumption, NEW S \in SUBSET Requests
    PROVE  /\ IsFiniteSet(S) /\ Cardinality(S) \in Nat /\ Cardinality(Requests) \in Nat
           /\ Cardinality(S) <= Cardinality(Requests)
           /\ \A T \in SUBSET S : Cardinality(T) \in Nat /\ Cardinality(T) <= Cardinality(S)
           /\ \A r \in S : Cardinality(S \ {r}) = Cardinality(S) - 1
  <1>1. IsFiniteSet(Requests)
    BY SameSets DEF R!ResetAssumption
  <1>2. /\ IsFiniteSet(S) /\ Cardinality(S) <= Cardinality(Requests)
        /\ Cardinality(S) \in Nat /\ Cardinality(Requests) \in Nat
    BY <1>1, FS_Subset, FS_CardinalityType
  <1>3. \A T \in SUBSET S : Cardinality(T) \in Nat /\ Cardinality(T) <= Cardinality(S)
    BY <1>2, FS_Subset, FS_CardinalityType
  <1>4. \A r \in S : Cardinality(S \ {r}) = Cardinality(S) - 1
    BY <1>2, FS_RemoveElement
  <1> QED
    BY <1>2, <1>3, <1>4

LEMMA ResetIdle ==
    ASSUME R!ResetAssumption
    PROVE  R!Idle \in R!Request /\ R!Idle.pc = "idle"
  BY DEF R!ResetAssumption, R!Idle, R!Request

LEMMA ResetStarts == R!ResetAssumption /\ R!Init => ResetInv
  <1> SUFFICES ASSUME R!ResetAssumption, R!Init
               PROVE  ResetInv
    OBVIOUS
  <1>1. /\ resetTokens = {} /\ resetId = 0 /\ uses = <<>>
        /\ resetReq \in [Requests -> R!Request]
        /\ \A r \in Requests : resetReq[r].pc = "idle"
    BY ResetIdle DEF R!Init
  <1>2. 1 .. resetId = {} /\ uses \in [1 .. resetId -> Nat]
    BY <1>1
  <1>3. R!TypeOK
    BY <1>1, <1>2 DEF R!Init, R!TypeOK
  <1>4. \A u \in Accounts : Open(u) = {} /\ Creating(u) = {}
    BY <1>1 DEF Open, Creating
  <1>5. /\ IsFiniteSet({}) /\ Cardinality({}) = 0
        /\ Cardinality(Requests) \in Nat /\ Cardinality({}) + Cardinality({}) = 0
    BY FS_EmptySet, RequestSets
  <1>6. \A u \in Accounts :
           /\ IsFiniteSet(Open(u))
           /\ Cardinality(Open(u)) + Cardinality(Creating(u)) <= Cardinality(Requests)
    BY <1>4, <1>5
  <1> QED
    BY <1>1, <1>2, <1>3, <1>6 DEF ResetInv

\* Tokens are marked used or expired, or are deleted: nothing becomes open.
LEMMA TokensMarked ==
    ASSUME ResetInv, NEW S \in SUBSET resetTokens, NEW g \in [S -> R!Token],
           resetTokens' = {g[t] : t \in S},
           \A t \in S : /\ g[t].id = t.id /\ g[t].user = t.user
                        /\ t.used => g[t].used
                        /\ t.expired => g[t].expired
    PROVE  /\ resetTokens' \subseteq R!Token
           /\ \A s \in resetTokens' : s.id \in 1 .. resetId
           /\ \A s, t \in resetTokens' : s.id = t.id => s = t
           /\ \A u \in Accounts : Open(u)' \subseteq Open(u)
  <1>1. \A t \in S : t \in R!Token /\ t \in resetTokens
    BY DEF ResetInv, R!TypeOK
  <1>2. \A t \in S : R!Valid(g[t]) => g[t] = t
    BY <1>1 DEF R!Valid, R!Token
  <1>3. \A u \in Accounts : Open(u)' \subseteq Open(u)
    BY <1>1, <1>2 DEF Open
  <1> QED
    BY <1>1, <1>3 DEF ResetInv, R!TypeOK

\* Fewer tokens are open, and no request is about to create one that was not.
LEMMA OpenLess ==
    ASSUME R!ResetAssumption, ResetInv, NEW u \in Accounts,
           Open(u)' \subseteq Open(u), Creating(u)' \subseteq Creating(u)
    PROVE  /\ IsFiniteSet(Open(u)')
           /\ Cardinality(Open(u)') + Cardinality(Creating(u)') <= Cardinality(Requests)
  <1>1. Creating(u) \in SUBSET Requests
    BY DEF Creating
  <1>2. /\ IsFiniteSet(Open(u)') /\ Cardinality(Open(u)') \in Nat
        /\ Cardinality(Open(u)') <= Cardinality(Open(u)) /\ Cardinality(Open(u)) \in Nat
    BY FS_Subset, FS_CardinalityType DEF ResetInv
  <1>3. /\ Cardinality(Creating(u)') <= Cardinality(Creating(u))
        /\ Cardinality(Creating(u)') \in Nat /\ Cardinality(Creating(u)) \in Nat
        /\ Cardinality(Requests) \in Nat
    BY <1>1, RequestSets
  <1> QED
    BY <1>2, <1>3 DEF ResetInv

\* Nobody is about to use a token that was not, and it is not used more often.
LEMMA UsingLess ==
    ASSUME R!ResetAssumption, ResetInv, NEW i \in 1 .. resetId,
           uses'[i] = uses[i], Using(i)' \subseteq Using(i)
    PROVE  uses'[i] + Cardinality(Using(i)') <= Cardinality(Requests)
  <1>1. Using(i) \in SUBSET Requests
    BY DEF Using
  <1>2. /\ Cardinality(Using(i)') <= Cardinality(Using(i))
        /\ Cardinality(Using(i)') \in Nat /\ Cardinality(Using(i)) \in Nat
        /\ Cardinality(Requests) \in Nat /\ uses[i] \in Nat
    BY <1>1, RequestSets DEF ResetInv, R!TypeOK
  <1> QED
    BY <1>2 DEF ResetInv

\* A request begins or ends, and nothing else changes.
LEMMA ResetRequest ==
    ASSUME R!ResetAssumption, ResetInv, NEW r \in Requests, NEW q \in R!Request,
           resetReq' = [resetReq EXCEPT ![r] = q], q.pc \notin {"commit", "create"},
           UNCHANGED <<status, resetTokens, resetId, uses>>
    PROVE  ResetInv'
  <1>1. /\ resetReq' \in [Requests -> R!Request] /\ resetReq'[r] = q
        /\ \A s \in Requests : s # r => resetReq'[s] = resetReq[s]
    BY DEF ResetInv, R!TypeOK
  <1>2. R!TypeOK'
    BY <1>1 DEF ResetInv, R!TypeOK
  <1>3. /\ \A i : Using(i)' \subseteq Using(i)
        /\ \A u : Creating(u)' \subseteq Creating(u) /\ Open(u)' = Open(u)
    BY <1>1 DEF Using, Creating, Open
  <1>4. \A s \in Requests : resetReq'[s].pc = "commit" => resetReq'[s].id \in 1 .. resetId
    BY <1>1 DEF ResetInv
  <1> QED
    BY <1>2, <1>3, <1>4, OpenLess, UsingLess DEF ResetInv

LEMMA ForgotInvalidates ==
    ASSUME R!ResetAssumption, ResetInv, NEW r \in Requests, R!ForgotInvalidate(r)
    PROVE  ResetInv'
  <1>0. PICK u \in Accounts : u = resetReq[r].user
    BY DEF ResetInv, R!TypeOK, R!Request
  <1> DEFINE g == [t \in resetTokens |-> [t EXCEPT !.used = @ \/ t.user = u]]
             new == [resetReq[r] EXCEPT !.pc = "create"]
  <1>1. /\ resetReq[r].pc = "invalidate" /\ resetReq' = [resetReq EXCEPT ![r] = new]
        /\ resetTokens' = {g[t] : t \in resetTokens}
        /\ UNCHANGED <<status, resetId, uses>>
    BY <1>0 DEF R!ForgotInvalidate
  <1>2. resetReq[r] \in R!Request /\ resetTokens \subseteq R!Token
    BY DEF ResetInv, R!TypeOK
  <1>3. new \in R!Request /\ new.pc = "create" /\ new.user = u
    BY <1>0, <1>2 DEF R!Request
  <1>4. /\ g \in [resetTokens -> R!Token]
        /\ \A t \in resetTokens :
              /\ g[t].id = t.id /\ g[t].user = t.user
              /\ t.used => g[t].used
              /\ t.expired => g[t].expired
              /\ t.user = u => g[t].used
    BY <1>2 DEF R!Token
  <1> HIDE DEF g, new
  <1>5. /\ resetReq' \in [Requests -> R!Request] /\ resetReq'[r] = new
        /\ \A s \in Requests : s # r => resetReq'[s] = resetReq[s]
    BY <1>1, <1>3 DEF ResetInv, R!TypeOK
  <1>6. /\ resetTokens' \subseteq R!Token
        /\ \A s \in resetTokens' : s.id \in 1 .. resetId
        /\ \A s, t \in resetTokens' : s.id = t.id => s = t
        /\ \A v \in Accounts : Open(v)' \subseteq Open(v)
    BY <1>1, <1>4, TokensMarked
  <1>7. R!TypeOK'
    BY <1>1, <1>5, <1>6 DEF ResetInv, R!TypeOK
  <1>8. \A t \in resetTokens' : t.used \/ uses[t.id] = 0
    BY <1>1, <1>4 DEF ResetInv
  <1>9. /\ \A i : Using(i)' \subseteq Using(i)
        /\ \A v : v # u => Creating(v)' \subseteq Creating(v)
    BY <1>3, <1>5 DEF Using, Creating
  <1>10. \A s \in Requests : resetReq'[s].pc = "commit" => resetReq'[s].id \in 1 .. resetId
    BY <1>3, <1>5 DEF ResetInv
  <1>11. /\ IsFiniteSet(Open(u)')
         /\ Cardinality(Open(u)') + Cardinality(Creating(u)') <= Cardinality(Requests)
    <2>1. Open(u)' = {}
      <3> SUFFICES ASSUME NEW s \in resetTokens', s.user = u, R!Valid(s)
                   PROVE  FALSE
        BY DEF Open, R!Valid
      <3>1. PICK t \in resetTokens : s = g[t]
        BY <1>1
      <3> QED
        BY <1>4, <3>1 DEF R!Valid
    <2>2. Creating(u)' \in SUBSET Requests
      BY DEF Creating
    <2>3. Cardinality({}) = 0 /\ IsFiniteSet({})
      BY FS_EmptySet
    <2>4. /\ Cardinality(Creating(u)') <= Cardinality(Requests)
          /\ Cardinality(Creating(u)') \in Nat /\ Cardinality(Requests) \in Nat
      BY <2>2, RequestSets
    <2> QED
      BY <2>1, <2>3, <2>4
  <1>12. ASSUME NEW v \in Accounts
         PROVE  /\ IsFiniteSet(Open(v)')
                /\ Cardinality(Open(v)') + Cardinality(Creating(v)') <= Cardinality(Requests)
    <2>1. CASE v = u
      BY <1>11, <2>1
    <2>2. CASE v # u
      BY <1>6, <1>9, <2>2, OpenLess
    <2> QED
      BY <2>1, <2>2
  <1>13. \A i \in 1 .. resetId :
            uses'[i] + Cardinality(Using(i)') <= Cardinality(Requests)
    BY <1>1, <1>9, UsingLess
  <1> QED
    BY <1>1, <1>7, <1>8, <1>10, <1>12, <1>13 DEF ResetInv

\* The new token takes the place of the request that created it.
LEMMA ForgotCreates ==
    ASSUME R!ResetAssumption, ResetInv, NEW r \in Requests, R!ForgotCreate(r)
    PROVE  ResetInv'
  <1>0. PICK u \in Accounts : u = resetReq[r].user
    BY DEF ResetInv, R!TypeOK, R!Request
  <1> DEFINE new == [id |-> resetId + 1, user |-> u, used |-> FALSE, expired |-> FALSE]
  <1>1. /\ resetReq[r].pc = "create" /\ resetReq' = [resetReq EXCEPT ![r] = R!Idle]
        /\ status' = status
        /\ \/ /\ resetTokens' = resetTokens \cup {new}
              /\ resetId' = resetId + 1
              /\ uses' = [i \in 1 .. resetId + 1 |->
                             IF i = resetId + 1 THEN 0 ELSE uses[i]]
           \/ UNCHANGED <<resetTokens, resetId, uses>>
    BY <1>0 DEF R!ForgotCreate, R!Finish
  <1>2. resetId \in Nat /\ uses \in [1 .. resetId -> Nat]
    BY DEF ResetInv, R!TypeOK
  <1>3. CASE UNCHANGED <<resetTokens, resetId, uses>>
    BY <1>1, <1>3, ResetIdle, ResetRequest
  <1>4. CASE /\ resetTokens' = resetTokens \cup {new}
             /\ resetId' = resetId + 1
             /\ uses' = [i \in 1 .. resetId + 1 |->
                            IF i = resetId + 1 THEN 0 ELSE uses[i]]
    <2>1. /\ new \in R!Token /\ new.id = resetId + 1 /\ new.user = u
          /\ ~new.used
      BY <1>2 DEF R!Token
    <2> HIDE DEF new
    <2>2. /\ uses' \in [1 .. resetId' -> Nat] /\ uses'[resetId + 1] = 0
          /\ \A i \in 1 .. resetId : uses'[i] = uses[i]
      BY <1>2, <1>4
    <2>3. /\ resetReq' \in [Requests -> R!Request] /\ resetReq'[r] = R!Idle
          /\ \A s \in Requests : s # r => resetReq'[s] = resetReq[s]
      BY <1>1, ResetIdle DEF ResetInv, R!TypeOK
    <2>4. \A t \in resetTokens : t.id \in 1 .. resetId /\ t.id # resetId + 1
      BY <1>2 DEF ResetInv, R!TypeOK
    <2>5. R!TypeOK'
      <3>1. \A s, t \in resetTokens' : s.id = t.id => s = t
        BY <1>4, <2>1, <2>4 DEF ResetInv, R!TypeOK
      <3>2. \A s \in resetTokens' : s.id \in 1 .. resetId'
        BY <1>2, <1>4, <2>1, <2>4
      <3> QED
        BY <1>1, <1>2, <1>4, <2>1, <2>2, <2>3, <3>1, <3>2 DEF ResetInv, R!TypeOK
    <2>6. \A t \in resetTokens' : t.used \/ uses'[t.id] = 0
      BY <1>4, <2>1, <2>2, <2>4 DEF ResetInv
    <2>7. \A s \in Requests : resetReq'[s].pc = "commit" => resetReq'[s].id \in 1 .. resetId'
      BY <1>2, <1>4, <2>3, ResetIdle DEF ResetInv
    <2>8. ASSUME NEW i \in 1 .. resetId'
          PROVE  uses'[i] + Cardinality(Using(i)') <= Cardinality(Requests)
      <3>1. Using(i)' \subseteq Using(i)
        BY <2>3, ResetIdle DEF Using
      <3>2. CASE i \in 1 .. resetId
        BY <2>2, <3>1, <3>2, UsingLess
      <3>3. CASE i = resetId + 1
        <4>1. Using(i)' = {}
          BY <1>2, <3>1, <3>3 DEF Using, ResetInv
        <4>2. Cardinality({}) = 0 /\ Cardinality(Requests) \in Nat
          BY FS_EmptySet, RequestSets
        <4>3. Cardinality(Using(i)') = 0 /\ uses'[i] = 0
          BY <2>2, <3>3, <4>1, <4>2
        <4>4. 0 + 0 <= Cardinality(Requests)
          BY <4>2
        <4> QED
          BY <4>3, <4>4
      <3> QED
        BY <1>2, <1>4, <3>2, <3>3
    <2>9. ASSUME NEW v \in Accounts
          PROVE  /\ IsFiniteSet(Open(v)')
                 /\ Cardinality(Open(v)') + Cardinality(Creating(v)')
                      <= Cardinality(Requests)
      <3>1. CASE v # u
        <4>1. Open(v)' \subseteq Open(v) /\ Creating(v)' \subseteq Creating(v)
          BY <1>4, <2>1, <2>3, <3>1, ResetIdle DEF Open, Creating
        <4> QED
          BY <4>1, OpenLess
      <3>2. CASE v = u
        <4>1. /\ Open(u)' \subseteq Open(u) \cup {new}
              /\ Creating(u)' = Creating(u) \ {r} /\ r \in Creating(u)
          <5>1. Open(u)' \subseteq Open(u) \cup {new}
            BY <1>4 DEF Open, R!Valid
          <5>2. Creating(u)' = Creating(u) \ {r} /\ r \in Creating(u)
            BY <1>0, <1>1, <2>3, ResetIdle DEF Creating
          <5> QED
            BY <5>1, <5>2
        <4>2. /\ IsFiniteSet(Open(u)) /\ Cardinality(Open(u)) \in Nat
              /\ Cardinality(Open(u)) + Cardinality(Creating(u)) <= Cardinality(Requests)
          BY FS_CardinalityType DEF ResetInv
        <4>3. /\ IsFiniteSet(Open(u) \cup {new})
              /\ Cardinality(Open(u) \cup {new}) \in Nat
              /\ Cardinality(Open(u) \cup {new}) <= Cardinality(Open(u)) + 1
          <5>1. /\ IsFiniteSet(Open(u) \cup {new})
                /\ Cardinality(Open(u) \cup {new}) =
                     IF new \in Open(u) THEN Cardinality(Open(u))
                                        ELSE Cardinality(Open(u)) + 1
            BY <4>2, FS_AddElement
          <5> QED
            BY <4>2, <5>1
        <4>4. /\ IsFiniteSet(Open(u)') /\ Cardinality(Open(u)') \in Nat
              /\ Cardinality(Open(u)') <= Cardinality(Open(u) \cup {new})
          BY <4>1, <4>3, FS_Subset, FS_CardinalityType
        <4>5. /\ Cardinality(Creating(u)') = Cardinality(Creating(u)) - 1
              /\ Cardinality(Creating(u)) \in Nat /\ Cardinality(Requests) \in Nat
          <5>1. Creating(u) \in SUBSET Requests
            BY DEF Creating
          <5> QED
            BY <4>1, <5>1, RequestSets
        <4> QED
          BY <3>2, <4>2, <4>3, <4>4, <4>5
      <3> QED
        BY <3>1, <3>2
    <2> QED
      BY <2>5, <2>6, <2>7, <2>8, <2>9 DEF ResetInv
  <1> QED
    BY <1>1, <1>3, <1>4

\* A token that is read as valid has never been used.
LEMMA ResetReads ==
    ASSUME R!ResetAssumption, ResetInv, NEW r \in Requests, R!ResetRead(r)
    PROVE  ResetInv'
  <1>1. PICK t \in resetTokens :
           /\ R!Valid(t)
           /\ resetReq' = [resetReq EXCEPT ![r] =
                             [pc |-> "commit", user |-> t.user, id |-> t.id]]
    BY DEF R!ResetRead
  <1>2. resetReq[r].pc = "idle" /\ UNCHANGED <<status, resetTokens, resetId, uses>>
    BY DEF R!ResetRead
  <1> DEFINE new == [pc |-> "commit", user |-> t.user, id |-> t.id]
  <1>3. t \in R!Token /\ t.id \in 1 .. resetId /\ uses[t.id] = 0
    BY <1>1 DEF R!Valid, ResetInv, R!TypeOK
  <1>4. new \in R!Request /\ new.pc = "commit" /\ new.id = t.id
    BY <1>3 DEF R!Request, R!Token
  <1> HIDE DEF new
  <1>5. /\ resetReq' \in [Requests -> R!Request] /\ resetReq'[r] = new
        /\ \A s \in Requests : s # r => resetReq'[s] = resetReq[s]
    BY <1>1, <1>4 DEF ResetInv, R!TypeOK, new
  <1>6. R!TypeOK'
    BY <1>2, <1>5 DEF ResetInv, R!TypeOK
  <1>7. /\ \A i : i # t.id => Using(i)' \subseteq Using(i)
        /\ \A u : Creating(u)' \subseteq Creating(u) /\ Open(u)' = Open(u)
    BY <1>2, <1>4, <1>5 DEF Using, Creating, Open
  <1>8. \A s \in Requests : resetReq'[s].pc = "commit" => resetReq'[s].id \in 1 .. resetId
    BY <1>3, <1>4, <1>5 DEF ResetInv
  <1>9. uses'[t.id] + Cardinality(Using(t.id)') <= Cardinality(Requests)
    <2>1. Using(t.id)' \in SUBSET Requests
      BY DEF Using
    <2>2. /\ Cardinality(Using(t.id)') <= Cardinality(Requests)
          /\ Cardinality(Using(t.id)') \in Nat /\ Cardinality(Requests) \in Nat
      BY <2>1, RequestSets
    <2> QED
      BY <1>2, <1>3, <2>2
  <1>10. \A i \in 1 .. resetId :
            uses'[i] + Cardinality(Using(i)') <= Cardinality(Requests)
    BY <1>2, <1>7, <1>9, UsingLess
  <1> QED
    BY <1>2, <1>6, <1>7, <1>8, <1>10, OpenLess DEF ResetInv

\* The use of a token takes the place of the transaction that uses it.
LEMMA ResetCommits ==
    ASSUME R!ResetAssumption, ResetInv, NEW r \in Requests, R!ResetCommit(r)
    PROVE  ResetInv'
  <1>0. PICK id : id = resetReq[r].id
    OBVIOUS
  <1> DEFINE g == [t \in resetTokens |-> [t EXCEPT !.used = @ \/ t.id = id]]
  <1>1. /\ resetReq[r].pc = "commit" /\ resetReq' = [resetReq EXCEPT ![r] = R!Idle]
        /\ UNCHANGED <<status, resetId>>
        /\ \/ /\ resetTokens' = {g[t] : t \in resetTokens}
              /\ uses' = [uses EXCEPT ![id] = @ + 1]
           \/ UNCHANGED <<resetTokens, uses>>
    BY <1>0 DEF R!ResetCommit, R!Finish
  <1>2. CASE UNCHANGED <<resetTokens, uses>>
    BY <1>1, <1>2, ResetIdle, ResetRequest
  <1>3. CASE /\ resetTokens' = {g[t] : t \in resetTokens}
             /\ uses' = [uses EXCEPT ![id] = @ + 1]
    <2>1. id \in 1 .. resetId /\ resetTokens \subseteq R!Token
      BY <1>0, <1>1 DEF ResetInv, R!TypeOK
    <2>2. /\ g \in [resetTokens -> R!Token]
          /\ \A t \in resetTokens :
                /\ g[t].id = t.id /\ g[t].user = t.user
                /\ t.used => g[t].used
                /\ t.expired => g[t].expired
                /\ t.id = id => g[t].used
      BY <2>1 DEF R!Token
    <2> HIDE DEF g
    <2>3. /\ resetTokens' \subseteq R!Token
          /\ \A s \in resetTokens' : s.id \in 1 .. resetId
          /\ \A s, t \in resetTokens' : s.id = t.id => s = t
          /\ \A v \in Accounts : Open(v)' \subseteq Open(v)
      BY <1>3, <2>2, TokensMarked
    <2>4. /\ resetReq' \in [Requests -> R!Request] /\ resetReq'[r] = R!Idle
          /\ \A s \in Requests : s # r => resetReq'[s] = resetReq[s]
      BY <1>1, ResetIdle DEF ResetInv, R!TypeOK
    <2>5. /\ uses' \in [1 .. resetId -> Nat] /\ uses'[id] = uses[id] + 1
          /\ \A i \in 1 .. resetId : i # id => uses'[i] = uses[i]
          /\ uses[id] \in Nat
      BY <1>3, <2>1 DEF ResetInv, R!TypeOK
    <2>6. R!TypeOK'
      BY <1>1, <2>3, <2>4, <2>5 DEF ResetInv, R!TypeOK
    <2>7. \A t \in resetTokens' : t.used \/ uses'[t.id] = 0
      BY <1>3, <2>2, <2>5 DEF ResetInv, R!TypeOK
    <2>8. /\ \A i : Using(i)' \subseteq Using(i)
          /\ \A u : Creating(u)' \subseteq Creating(u)
          /\ Using(id)' = Using(id) \ {r} /\ r \in Using(id)
      BY <1>0, <1>1, <2>4, ResetIdle DEF Using, Creating
    <2>9. \A s \in Requests : resetReq'[s].pc = "commit" => resetReq'[s].id \in 1 .. resetId
      BY <2>4, ResetIdle DEF ResetInv
    <2>10. uses'[id] + Cardinality(Using(id)') <= Cardinality(Requests)
      <3>1. Using(id) \in SUBSET Requests
        BY DEF Using
      <3>2. /\ Cardinality(Using(id)') = Cardinality(Using(id)) - 1
            /\ Cardinality(Using(id)) \in Nat /\ Cardinality(Requests) \in Nat
        BY <2>8, <3>1, RequestSets
      <3>3. uses[id] + Cardinality(Using(id)) <= Cardinality(Requests)
        BY <2>1 DEF ResetInv
      <3> QED
        BY <2>5, <3>2, <3>3
    <2>11. ASSUME NEW i \in 1 .. resetId
           PROVE  uses'[i] + Cardinality(Using(i)') <= Cardinality(Requests)
      <3>1. CASE i = id
        BY <2>10, <3>1
      <3>2. CASE i # id
        BY <2>5, <2>8, <3>2, UsingLess
      <3> QED
        BY <3>1, <3>2
    <2> QED
      BY <1>1, <2>3, <2>6, <2>7, <2>8, <2>9, <2>11, OpenLess DEF ResetInv
  <1> QED
    BY <1>1, <1>2, <1>3

\* An account is deleted, or time passes.
LEMMA TokensEnd ==
    ASSUME R!ResetAssumption, ResetInv,
           R!Expire \/ \E u \in Accounts : R!DeleteUser(u)
    PROVE  ResetInv'
  <1>1. ASSUME NEW S \in SUBSET resetTokens, NEW g \in [S -> R!Token],
               resetTokens' = {g[t] : t \in S},
               \A t \in S : /\ g[t].id = t.id /\ g[t].user = t.user
                            /\ t.used <=> g[t].used
                            /\ t.expired => g[t].expired,
               status' \in [Accounts -> {"live", "gone"}],
               UNCHANGED <<resetId, uses, resetReq>>
        PROVE  ResetInv'
    <2>1. /\ resetTokens' \subseteq R!Token
          /\ \A s \in resetTokens' : s.id \in 1 .. resetId
          /\ \A s, t \in resetTokens' : s.id = t.id => s = t
          /\ \A v \in Accounts : Open(v)' \subseteq Open(v)
      <3>1. \A t \in S : /\ g[t].id = t.id /\ g[t].user = t.user
                         /\ t.used => g[t].used
                         /\ t.expired => g[t].expired
        BY <1>1
      <3> QED
        BY <1>1, <3>1, TokensMarked
    <2>2. R!TypeOK'
      BY <1>1, <2>1 DEF ResetInv, R!TypeOK
    <2>3. \A t \in resetTokens' : t.used \/ uses[t.id] = 0
      BY <1>1 DEF ResetInv
    <2>4. (\A i : Using(i)' = Using(i)) /\ \A u : Creating(u)' = Creating(u)
      BY <1>1 DEF Using, Creating
    <2> QED
      BY <1>1, <2>1, <2>2, <2>3, <2>4, OpenLess DEF ResetInv
  <1>2. resetTokens \subseteq R!Token
    BY DEF ResetInv, R!TypeOK
  <1>3. CASE R!Expire
    <2>1. PICK t \in resetTokens :
             resetTokens' = {[s EXCEPT !.expired = @ \/ s.id <= t.id] : s \in resetTokens}
      BY <1>3 DEF R!Expire
    <2> DEFINE g == [s \in resetTokens |-> [s EXCEPT !.expired = @ \/ s.id <= t.id]]
    <2>2. /\ g \in [resetTokens -> R!Token]
          /\ resetTokens' = {g[s] : s \in resetTokens}
          /\ \A s \in resetTokens : /\ g[s].id = s.id /\ g[s].user = s.user
                                    /\ s.used <=> g[s].used
                                    /\ s.expired => g[s].expired
      BY <1>2, <2>1 DEF R!Token
    <2>3. /\ status' \in [Accounts -> {"live", "gone"}]
          /\ UNCHANGED <<resetId, uses, resetReq>>
      BY <1>3 DEF R!Expire, ResetInv, R!TypeOK
    <2> HIDE DEF g
    <2> QED
      BY <1>1, <2>2, <2>3
  <1>4. ASSUME NEW u \in Accounts, R!DeleteUser(u)
        PROVE  ResetInv'
    <2> DEFINE S == {t \in resetTokens : t.user # u}
               g == [t \in S |-> t]
    <2>1. /\ S \in SUBSET resetTokens /\ g \in [S -> R!Token]
          /\ resetTokens' = {g[t] : t \in S} /\ \A t \in S : g[t] = t
      BY <1>2, <1>4 DEF R!DeleteUser
    <2>2. /\ status' \in [Accounts -> {"live", "gone"}]
          /\ UNCHANGED <<resetId, uses, resetReq>>
      BY <1>4 DEF R!DeleteUser, ResetInv, R!TypeOK
    <2> HIDE DEF S, g
    <2> QED
      BY <1>1, <2>1, <2>2
  <1> QED
    BY <1>3, <1>4

LEMMA ResetKept ==
    ASSUME R!ResetAssumption, ResetInv, [R!Next]_resetVars
    PROVE  ResetInv'
  <1>1. CASE UNCHANGED resetVars
    <2>1. UNCHANGED <<status, resetTokens, resetId, uses, resetReq>>
      BY <1>1 DEF resetVars
    <2>2. /\ \A u : Open(u)' = Open(u) /\ Creating(u)' = Creating(u)
          /\ \A i : Using(i)' = Using(i)
      BY <2>1 DEF Open, Creating, Using
    <2>3. R!TypeOK'
      BY <2>1 DEF ResetInv, R!TypeOK
    <2> QED
      BY <2>1, <2>2, <2>3 DEF ResetInv
  <1>2. ASSUME NEW r \in Requests, NEW u \in Accounts, R!ForgotRead(r, u)
        PROVE  ResetInv'
    <2> DEFINE new == [pc |-> "invalidate", user |-> u, id |-> 0]
    <2>1. /\ new \in R!Request /\ new.pc = "invalidate"
          /\ resetReq' = [resetReq EXCEPT ![r] = new]
          /\ UNCHANGED <<status, resetTokens, resetId, uses>>
      BY <1>2 DEF R!ForgotRead, R!Request
    <2> HIDE DEF new
    <2> QED
      BY <2>1, ResetRequest
  <1>3. ASSUME NEW r \in Requests, R!Abort(r)
        PROVE  ResetInv'
    BY <1>3, ResetIdle, ResetRequest DEF R!Abort, R!Finish
  <1> QED
    BY <1>1, <1>2, <1>3, ForgotInvalidates, ForgotCreates, ResetReads, ResetCommits,
       TokensEnd DEF R!Next

LEMMA ResetEnough == R!ResetAssumption /\ ResetInv => R!ResetsBounded /\ R!OpenBounded
  <1> SUFFICES ASSUME R!ResetAssumption, ResetInv
               PROVE  R!ResetsBounded /\ R!OpenBounded
    OBVIOUS
  <1>1. ASSUME NEW i \in 1 .. resetId
        PROVE  uses[i] <= Cardinality(Requests)
    <2>1. Using(i) \in SUBSET Requests
      BY DEF Using
    <2>2. Cardinality(Using(i)) \in Nat /\ Cardinality(Requests) \in Nat /\ uses[i] \in Nat
      BY <2>1, RequestSets DEF ResetInv, R!TypeOK
    <2> QED
      BY <2>2 DEF ResetInv
  <1>2. ASSUME NEW u \in Accounts
        PROVE  Cardinality(Open(u)) <= Cardinality(Requests)
    <2>1. Creating(u) \in SUBSET Requests
      BY DEF Creating
    <2>2. /\ Cardinality(Creating(u)) \in Nat /\ Cardinality(Requests) \in Nat
          /\ Cardinality(Open(u)) \in Nat
      BY <2>1, RequestSets, FS_CardinalityType DEF ResetInv
    <2> QED
      BY <2>2 DEF ResetInv
  <1> QED
    BY <1>1, <1>2, SameSets DEF R!ResetsBounded, R!OpenBounded, Open

-----------------------------------------------------------------------------
(* The notices (Notifications).                                            *)

\* A message is about something that was committed, and for the right account.
Caused(m) ==
    m.type \in {"COMMENT", "REPLY", "MENTION"} =>
        \E c \in written :
           /\ c.id = m.about /\ c.author = m.actor
           /\ m.type = "COMMENT" => m.user = Author /\ c.parent = 0
           /\ m.type = "REPLY" =>
                 \E p \in written : p.id = c.parent /\ p.author = m.user
           /\ m.type = "MENTION" => m.user = c.mention

\* A task and what it has yet to send: nothing twice, nothing that was sent,
\* and nothing about its comment before it has looked the parent up.
TaskRecord == [pc : {"idle", "like", "comment", "unowned", "parent", "send"}, actor : Accounts,
               about : Nat, queue : Seq(N!Message)]
Task(q) ==
    /\ q.pc = "like" => q.about = 0
    /\ q.pc = "parent" => q.about # 0
    /\ q.about # 0 => \E w \in written : w.id = q.about
    /\ \A i \in 1 .. Len(q.queue) : q.queue[i].about = q.about /\ Caused(q.queue[i])
    /\ q.about # 0 =>
          /\ \A i, j \in 1 .. Len(q.queue) : q.queue[i] = q.queue[j] => i = j
          /\ \A n \in notices, i \in 1 .. Len(q.queue) : n.msg # q.queue[i]
    /\ q.pc = "parent" =>
          /\ \A i \in 1 .. Len(q.queue) : q.queue[i].type = "MENTION"
          /\ \A n \in notices : n.msg.about # q.about

\* One task tells of one comment.
NoticeInv ==
    /\ N!TypeOK /\ noticeId \in Nat
    /\ IsFiniteSet(written)
    /\ \A c \in written : c.id \in 1 .. Cardinality(written)
    /\ \A c, d \in written : c.id = d.id => c = d
    /\ noticeReq \in [Senders -> TaskRecord]
    /\ \A r \in Senders : Task(noticeReq[r])
    /\ \A r, s \in Senders :
          noticeReq[r].about = noticeReq[s].about /\ noticeReq[r].about # 0 => r = s
    /\ \A n \in notices : Caused(n.msg) /\ n.msg.about <= Cardinality(written)
    /\ \A m, n \in notices : m.msg = n.msg /\ m.msg.about # 0 => m = n

LEMMA NoticeIdle ==
    ASSUME N!NoticeAssumption
    PROVE  /\ N!Idle \in TaskRecord /\ N!Idle.about = 0 /\ N!Idle.queue = <<>>
           /\ N!Idle.pc = "idle"
  BY DEF N!NoticeAssumption, N!Idle, N!None, TaskRecord

\* Comments are added and notices deleted: causes stay, tasks stay in order.
LEMMA TasksKept ==
    ASSUME NoticeInv, written \subseteq written', notices' \subseteq notices
    PROVE  /\ \A m : Caused(m) => Caused(m)'
           /\ \A q : Task(q) => Task(q)'
  <1>1. \A m : Caused(m) => Caused(m)'
    BY DEF Caused
  <1>2. ASSUME NEW q, Task(q)
        PROVE  Task(q)'
    BY <1>1, <1>2 DEF Task
  <1> QED
    BY <1>1, <1>2

\* A step of one task that writes no comment and sends no notice.
LEMMA TaskStep ==
    ASSUME NoticeInv, NEW r \in Senders, NEW q \in TaskRecord, Task(q)',
           noticeReq' = [noticeReq EXCEPT ![r] = q],
           q.about = 0 \/ q.about = noticeReq[r].about,
           UNCHANGED <<gone, written, comments, notices, noticeId>>,
           liked' \subseteq Accounts, applied' \subseteq Accounts
    PROVE  NoticeInv'
  <1>1. /\ noticeReq' \in [Senders -> TaskRecord] /\ noticeReq'[r] = q
        /\ \A s \in Senders : s # r => noticeReq'[s] = noticeReq[s]
    BY DEF NoticeInv
  <1>2. N!TypeOK'
    <2>1. \A s \in Senders : /\ noticeReq'[s].pc \in {"idle", "like", "comment", "unowned", "parent", "send"}
                             /\ noticeReq'[s].queue \in Seq(N!Message)
                             /\ noticeReq'[s].about \in Nat
      BY <1>1 DEF TaskRecord
    <2> QED
      BY <2>1 DEF NoticeInv, N!TypeOK
  <1>3. /\ \A m : Caused(m) => Caused(m)'
        /\ \A p : Task(p) => Task(p)'
    BY TasksKept
  <1>4. ASSUME NEW s \in Senders
        PROVE  Task(noticeReq[s])'
    <2>1. CASE s = r
      BY <1>1, <2>1
    <2>2. CASE s # r
      <3>1. Task(noticeReq[s])
        BY DEF NoticeInv
      <3> QED
        BY <1>1, <1>3, <2>2, <3>1
    <2> QED
      BY <2>1, <2>2
  <1>5. \A s, t \in Senders :
           noticeReq'[s].about = noticeReq'[t].about /\ noticeReq'[s].about # 0 => s = t
    BY <1>1 DEF NoticeInv
  <1> QED
    BY <1>1, <1>2, <1>3, <1>4, <1>5 DEF NoticeInv

\* A task that tells of no comment begins: of a like, an application, a decision.
LEMMA TaskBegins ==
    ASSUME N!NoticeAssumption, NoticeInv, NEW r \in Senders, NEW u \in Accounts,
           \/ N!LikeBegin(r, u) \/ N!CommentBegin(r, u)
           \/ N!Apply(r, u) \/ N!Decide(r, u)
    PROVE  NoticeInv'
  <1>1. ASSUME NEW pc \in {"like", "comment", "unowned", "send"}, NEW a \in Accounts, NEW queue,
               noticeReq' = [noticeReq EXCEPT ![r] =
                   [pc |-> pc, actor |-> a, about |-> 0, queue |-> queue]],
               \/ queue = <<>>
               \/ \E m \in N!Message : /\ queue = <<m>> /\ m.about = 0
                                       /\ m.type \notin {"COMMENT", "REPLY", "MENTION"},
               UNCHANGED <<gone, written, comments, notices, noticeId>>,
               liked' \subseteq Accounts, applied' \subseteq Accounts
        PROVE  NoticeInv'
    <2> DEFINE new == [pc |-> pc, actor |-> a, about |-> 0, queue |-> queue]
    <2>1. /\ queue \in Seq(N!Message)
          /\ \A i \in 1 .. Len(queue) : /\ queue[i].about = 0
                                        /\ queue[i].type \notin {"COMMENT", "REPLY", "MENTION"}
      <3>1. CASE queue = <<>>
        BY <3>1
      <3>2. ASSUME NEW m \in N!Message, queue = <<m>>, m.about = 0,
                   m.type \notin {"COMMENT", "REPLY", "MENTION"}
            PROVE  /\ queue \in Seq(N!Message)
                   /\ \A i \in 1 .. Len(queue) :
                         /\ queue[i].about = 0
                         /\ queue[i].type \notin {"COMMENT", "REPLY", "MENTION"}
        <4>1. queue \in Seq(N!Message) /\ Len(queue) = 1 /\ queue[1] = m
          BY <3>2
        <4> QED
          BY <3>2, <4>1
      <3> QED
        BY <1>1, <3>1, <3>2
    <2>2. /\ new \in TaskRecord /\ new.pc = pc /\ new.about = 0 /\ new.queue = queue
      BY <2>1 DEF TaskRecord
    <2> HIDE DEF new
    <2>3. Task(new)'
      BY <1>1, <2>1, <2>2 DEF Task, Caused
    <2> QED
      BY <1>1, <2>2, <2>3, TaskStep DEF new
  <1>2. /\ Author \in Accounts /\ gone \subseteq Accounts /\ liked \subseteq Accounts
        /\ applied \subseteq Accounts
    BY DEF N!NoticeAssumption, NoticeInv, N!TypeOK
  <1>3. ASSUME NEW type \in {"LIKE", "NEW_APPLICATION", "APPLICATION_STATUS"},
               NEW a \in Accounts, NEW b \in Accounts
        PROVE  \E m \in N!Message : /\ <<N!Message1(type, a, b, 0)>> = <<m>> /\ m.about = 0
                                    /\ m.type \notin {"COMMENT", "REPLY", "MENTION"}
    <2> DEFINE m == N!Message1(type, a, b, 0)
    <2>1. m \in N!Message /\ m.about = 0 /\ m.type = type
      BY DEF N!Message1, N!Message, N!Types
    <2> HIDE DEF m
    <2>2. m.type \notin {"COMMENT", "REPLY", "MENTION"}
      BY <2>1
    <2> QED
      BY <2>1, <2>2 DEF m
  <1>4. CASE N!LikeBegin(r, u)
    <2> DEFINE queue == N!ToWriter("LIKE", u, 0)
    <2>1. /\ noticeReq' = [noticeReq EXCEPT ![r] =
                [pc |-> "like", actor |-> u, about |-> 0, queue |-> queue]]
          /\ UNCHANGED <<gone, written, comments, liked, applied, notices, noticeId>>
      BY <1>4 DEF N!LikeBegin, N!Begin, N!None
    <2>2. queue = <<>> \/ queue = <<N!Message1("LIKE", Author, u, 0)>>
      BY DEF N!ToWriter
    <2>3. \E m \in N!Message : /\ <<N!Message1("LIKE", Author, u, 0)>> = <<m>> /\ m.about = 0
                               /\ m.type \notin {"COMMENT", "REPLY", "MENTION"}
      BY <1>2, <1>3
    <2> HIDE DEF queue
    <2> QED
      BY <1>1, <1>2, <2>1, <2>2, <2>3
  <1>5. CASE N!Apply(r, u)
    <2> DEFINE queue == N!ToWriter("NEW_APPLICATION", u, 0)
    <2>1. /\ noticeReq' = [noticeReq EXCEPT ![r] =
                [pc |-> "send", actor |-> u, about |-> 0, queue |-> queue]]
          /\ UNCHANGED <<gone, written, comments, liked, notices, noticeId>>
          /\ applied' = applied \cup {u}
      BY <1>5 DEF N!Apply, N!Begin, N!None
    <2>2. queue = <<>> \/ queue = <<N!Message1("NEW_APPLICATION", Author, u, 0)>>
      BY DEF N!ToWriter
    <2>3. \E m \in N!Message : /\ <<N!Message1("NEW_APPLICATION", Author, u, 0)>> = <<m>> /\ m.about = 0
                               /\ m.type \notin {"COMMENT", "REPLY", "MENTION"}
      BY <1>2, <1>3
    <2> HIDE DEF queue
    <2> QED
      BY <1>1, <1>2, <2>1, <2>2, <2>3
  <1>6. CASE N!Decide(r, u)
    <2> DEFINE queue == <<N!Message1("APPLICATION_STATUS", u, Author, 0)>>
    <2>1. /\ noticeReq' = [noticeReq EXCEPT ![r] =
                [pc |-> "send", actor |-> Author, about |-> 0, queue |-> queue]]
          /\ UNCHANGED <<gone, written, comments, liked, applied, notices, noticeId>>
      BY <1>6 DEF N!Decide, N!Begin, N!None
    <2>2. \E m \in N!Message : /\ queue = <<m>> /\ m.about = 0
                               /\ m.type \notin {"COMMENT", "REPLY", "MENTION"}
      BY <1>2, <1>3
    <2> HIDE DEF queue
    <2> QED
      BY <1>1, <1>2, <2>1, <2>2
  <1>7. CASE N!CommentBegin(r, u)
    <2> DEFINE pc == IF N!Live(Author) THEN "comment" ELSE "unowned"
    <2>1. /\ noticeReq' = [noticeReq EXCEPT ![r] =
                [pc |-> pc, actor |-> u, about |-> 0, queue |-> <<>>]]
          /\ UNCHANGED <<gone, written, comments, liked, applied, notices, noticeId>>
      BY <1>7 DEF N!CommentBegin, N!Begin, N!None
    <2>2. pc \in {"like", "comment", "unowned", "send"}
      OBVIOUS
    <2> HIDE DEF pc
    <2> QED
      BY <1>1, <1>2, <2>1, <2>2
  <1> QED
    BY <1>4, <1>5, <1>6, <1>7

\* A like is committed or rolled back; a task ends.
LEMMA TaskGoesOn ==
    ASSUME N!NoticeAssumption, NoticeInv, NEW r \in Senders, N!LikeEnd(r) \/ N!End(r)
    PROVE  NoticeInv'
  <1>1. CASE N!LikeEnd(r)
    <2> DEFINE new == [noticeReq[r] EXCEPT !.pc = "send"]
    <2>1. /\ noticeReq[r].pc = "like" /\ noticeReq' = [noticeReq EXCEPT ![r] = new]
          /\ UNCHANGED <<gone, written, comments, applied, notices, noticeId>>
          /\ liked' \in {liked, liked \cup ({noticeReq[r].actor} \ gone)}
      BY <1>1 DEF N!LikeEnd
    <2>2. noticeReq[r] \in TaskRecord /\ Task(noticeReq[r])
      BY DEF NoticeInv
    <2>3. /\ new \in TaskRecord /\ new.pc = "send" /\ new.about = 0
          /\ new.queue = noticeReq[r].queue
      BY <2>1, <2>2 DEF TaskRecord, Task
    <2>4. noticeReq[r].actor \in Accounts
      BY <2>2 DEF TaskRecord
    <2>5. liked' \subseteq Accounts /\ applied' \subseteq Accounts
      BY <2>1, <2>4 DEF NoticeInv, N!TypeOK
    <2>6. \A i \in 1 .. Len(noticeReq[r].queue) :
             noticeReq[r].queue[i].about = 0 /\ Caused(noticeReq[r].queue[i])
      BY <2>1, <2>2 DEF Task
    <2> HIDE DEF new
    <2>7. PICK q : q = new
      OBVIOUS
    <2>8. PICK queue : queue = noticeReq[r].queue
      OBVIOUS
    <2>9. \A i \in 1 .. Len(queue) : queue[i].about = 0 /\ Caused(queue[i])'
      BY <2>1, <2>6, <2>8, TasksKept
    <2>10. Task(q)'
      BY <2>3, <2>7, <2>8, <2>9 DEF Task
    <2> QED
      BY <2>1, <2>3, <2>5, <2>7, <2>10, TaskStep
  <1>2. CASE N!End(r)
    <2>1. /\ noticeReq' = [noticeReq EXCEPT ![r] = N!Idle]
          /\ UNCHANGED <<gone, written, comments, liked, applied, notices, noticeId>>
      BY <1>2 DEF N!End, N!Finish
    <2>2. liked' \subseteq Accounts /\ applied' \subseteq Accounts
      BY <2>1 DEF NoticeInv, N!TypeOK
    <2>3. PICK q : q = N!Idle
      OBVIOUS
    <2>4. Task(q)'
      BY <2>3, NoticeIdle DEF Task
    <2> QED
      BY <2>1, <2>2, <2>3, <2>4, NoticeIdle, TaskStep
  <1> QED
    BY <1>1, <1>2

\* Comments, likes, applications and notices go with what they belong to.
LEMMA NoticesLess ==
    ASSUME NoticeInv, comments' \subseteq comments, notices' \subseteq notices,
           gone' \subseteq Accounts, liked' \subseteq Accounts, applied' \subseteq Accounts,
           UNCHANGED <<written, noticeId, noticeReq>>
    PROVE  NoticeInv'
  <1>1. N!TypeOK'
    BY DEF NoticeInv, N!TypeOK
  <1>2. /\ \A m : Caused(m) => Caused(m)'
        /\ \A p : Task(p) => Task(p)'
    BY TasksKept
  <1>3. ASSUME NEW s \in Senders
        PROVE  Task(noticeReq[s])'
    <2>1. Task(noticeReq[s])
      BY DEF NoticeInv
    <2> QED
      BY <1>2, <2>1
  <1> QED
    BY <1>1, <1>2, <1>3 DEF NoticeInv

LEMMA NoticesGo ==
    ASSUME NoticeInv,
           \/ \E c \in comments : N!RemoveComment(c)
           \/ \E u \in Accounts : N!DeleteUser(u)
    PROVE  NoticeInv'
  <1>1. /\ gone \subseteq Accounts /\ liked \subseteq Accounts /\ applied \subseteq Accounts
    BY DEF NoticeInv, N!TypeOK
  <1>2. ASSUME NEW c \in comments, N!RemoveComment(c)
        PROVE  NoticeInv'
    BY <1>1, <1>2, NoticesLess DEF N!RemoveComment
  <1>3. ASSUME NEW u \in Accounts, N!DeleteUser(u)
        PROVE  NoticeInv'
    BY <1>1, <1>3, NoticesLess DEF N!DeleteUser
  <1> QED
    BY <1>2, <1>3

\* The comment of a task, as it looks it up.
LEMMA ById ==
    ASSUME NoticeInv, NEW i, \E w \in written : w.id = i
    PROVE  N!ById(i) \in written /\ N!ById(i).id = i
  BY DEF N!ById

\* The parent is looked up: the reply goes before the mention in it.
LEMMA ParentReads ==
    ASSUME N!NoticeAssumption, NoticeInv, NEW r \in Senders, N!ParentRead(r)
    PROVE  NoticeInv'
  <1>1. noticeReq[r] \in TaskRecord /\ Task(noticeReq[r]) /\ noticeReq[r].pc = "parent"
    BY DEF NoticeInv, N!ParentRead
  <1>2. PICK old : old = noticeReq[r]
    OBVIOUS
  <1>3. PICK c : c = N!ById(old.about)
    OBVIOUS
  <1>4. c \in written /\ c.id = old.about /\ old.about # 0
    BY <1>1, <1>2, <1>3, ById DEF Task
  <1> DEFINE to == N!ById(c.parent).author
  <1>5. PICK reply : reply = IF c.parent \in comments /\ to # c.author
                               THEN <<N!Message1("REPLY", to, c.author, c.id)>> ELSE <<>>
    OBVIOUS
  <1>6. /\ noticeReq' = [noticeReq EXCEPT ![r] =
              [pc |-> "send", actor |-> c.author, about |-> c.id,
               queue |-> reply \o old.queue]]
        /\ UNCHANGED <<gone, written, comments, liked, applied, notices, noticeId>>
    BY <1>2, <1>3, <1>5 DEF N!ParentRead, N!Begin
  <1>7. c \in N!Comment /\ c.author \in Accounts /\ c.id \in Nat
    BY <1>4 DEF NoticeInv, N!TypeOK, N!Comment
  <1>8. \/ reply = <<>>
        \/ \E m \in N!Message : /\ reply = <<m>> /\ m.about = c.id /\ m.type = "REPLY"
                                /\ Caused(m)
    <2>1. CASE c.parent \in comments /\ to # c.author
      <3>1. \E p \in written : p.id = c.parent
        BY <2>1 DEF NoticeInv, N!TypeOK
      <3>2. N!ById(c.parent) \in written /\ N!ById(c.parent).id = c.parent
        BY <3>1, ById
      <3>3. to \in Accounts
        BY <3>2 DEF NoticeInv, N!TypeOK, N!Comment
      <3>4. PICK m : m = N!Message1("REPLY", to, c.author, c.id)
        OBVIOUS
      <3>5. /\ m \in N!Message /\ m.about = c.id /\ m.type = "REPLY"
            /\ m.user = to /\ m.actor = c.author
        BY <1>7, <3>3, <3>4 DEF N!Message1, N!Message, N!Types
      <3>6. Caused(m)
        BY <1>4, <3>2, <3>5 DEF Caused
      <3> HIDE DEF to
      <3> QED
        BY <1>5, <2>1, <3>4, <3>5, <3>6
    <2>2. CASE ~(c.parent \in comments /\ to # c.author)
      BY <1>5, <2>2
    <2> QED
      BY <2>1, <2>2
  <1> DEFINE queue == reply \o old.queue
             new == [pc |-> "send", actor |-> c.author, about |-> c.id, queue |-> queue]
  <1>9. /\ old.queue \in Seq(N!Message)
        /\ \A i \in 1 .. Len(old.queue) :
              /\ old.queue[i].about = c.id /\ Caused(old.queue[i])
              /\ old.queue[i].type = "MENTION"
              /\ \A j \in 1 .. Len(old.queue) : old.queue[i] = old.queue[j] => i = j
        /\ \A n \in notices : n.msg.about # c.id
    BY <1>1, <1>2, <1>4 DEF TaskRecord, Task
  <1>10. /\ queue \in Seq(N!Message)
         /\ \A i \in 1 .. Len(queue) : queue[i].about = c.id /\ Caused(queue[i])
         /\ \A i, j \in 1 .. Len(queue) : queue[i] = queue[j] => i = j
    <2>1. CASE reply = <<>>
      <3>1. queue = old.queue
        BY <1>9, <2>1
      <3> HIDE DEF queue
      <3> QED
        BY <1>9, <3>1
    <2>2. ASSUME NEW m \in N!Message, reply = <<m>>, m.about = c.id, m.type = "REPLY",
                 Caused(m)
          PROVE  /\ queue \in Seq(N!Message)
                 /\ \A i \in 1 .. Len(queue) : queue[i].about = c.id /\ Caused(queue[i])
                 /\ \A i, j \in 1 .. Len(queue) : queue[i] = queue[j] => i = j
      <3>1. /\ queue \in Seq(N!Message) /\ Len(queue) = 1 + Len(old.queue)
            /\ queue[1] = m
            /\ \A i \in 1 .. Len(queue) : i # 1 =>
                  i - 1 \in 1 .. Len(old.queue) /\ queue[i] = old.queue[i - 1]
        BY <1>9, <2>2
      <3> HIDE DEF queue
      <3>2. Len(old.queue) \in Nat
        BY <1>9
      <3>3. ASSUME NEW i \in 1 .. Len(queue)
            PROVE  /\ queue[i].about = c.id /\ Caused(queue[i])
                   /\ i # 1 => queue[i].type = "MENTION"
        <4>1. CASE i = 1
          BY <2>2, <3>1, <4>1
        <4>2. CASE i # 1
          <5>1. PICK k \in 1 .. Len(old.queue) : queue[i] = old.queue[k]
            BY <3>1, <4>2
          <5> QED
            BY <1>9, <5>1, <4>2
        <4> QED
          BY <4>1, <4>2
      <3>4. ASSUME NEW i \in 1 .. Len(queue), NEW j \in 1 .. Len(queue), queue[i] = queue[j]
            PROVE  i = j
        <4>1. CASE i = 1 \/ j = 1
          <5>1. queue[i].type = "REPLY"
            BY <2>2, <3>1, <3>4, <4>1
          <5>2. i = 1 /\ j = 1
            BY <3>3, <3>4, <5>1
          <5> QED
            BY <5>2
        <4>2. CASE i # 1 /\ j # 1
          <5>1. i - 1 = j - 1
            BY <1>9, <3>1, <3>4, <4>2
          <5> QED
            BY <5>1, <3>1, <3>2
        <4> QED
          BY <4>1, <4>2
      <3> QED
        BY <3>1, <3>3, <3>4
    <2> QED
      BY <1>8, <2>1, <2>2
  <1> HIDE DEF queue
  <1>11. /\ new \in TaskRecord /\ new.pc = "send" /\ new.about = c.id /\ new.queue = queue
    BY <1>7, <1>10 DEF TaskRecord
  <1> HIDE DEF new
  <1>12. PICK q : q = new
    OBVIOUS
  <1>13. PICK s : s = queue
    OBVIOUS
  <1>14. \A i \in 1 .. Len(s) : s[i].about = c.id /\ Caused(s[i])'
    BY <1>6, <1>10, <1>13, TasksKept
  <1>15. Task(q)'
    BY <1>4, <1>6, <1>9, <1>10, <1>11, <1>12, <1>13, <1>14 DEF Task
  <1>16. liked' \subseteq Accounts /\ applied' \subseteq Accounts
    BY <1>6 DEF NoticeInv, N!TypeOK
  <1> QED
    BY <1>2, <1>4, <1>6, <1>11, <1>12, <1>15, <1>16, TaskStep DEF queue, new


\* A comment is committed: its id is new, so nothing yet tells of it.
LEMMA NewTask ==
    ASSUME NoticeInv, NEW r \in Senders, NEW c \in N!Comment,
           c.id = Cardinality(written) + 1,
           NEW pc \in {"parent", "send"}, NEW queue \in Seq(N!Message),
           \A i \in 1 .. Len(queue) : queue[i].about = c.id /\ Caused(queue[i])',
           \A i, j \in 1 .. Len(queue) : queue[i] = queue[j] => i = j,
           pc = "parent" => \A i \in 1 .. Len(queue) : queue[i].type = "MENTION",
           written' = written \cup {c}, comments' = comments \cup {c.id},
           noticeReq' = [noticeReq EXCEPT ![r] =
               [pc |-> pc, actor |-> c.author, about |-> c.id, queue |-> queue]],
           UNCHANGED <<gone, liked, applied, notices, noticeId>>
    PROVE  NoticeInv'
  <1> DEFINE new == [pc |-> pc, actor |-> c.author, about |-> c.id, queue |-> queue]
  <1>1. c.id \in Nat /\ c.author \in Accounts /\ Cardinality(written) \in Nat
    BY FS_CardinalityType DEF NoticeInv, N!Comment
  <1>2. /\ new \in TaskRecord /\ new.pc = pc /\ new.about = c.id /\ new.queue = queue
    BY <1>1 DEF TaskRecord
  <1>3. noticeReq' = [noticeReq EXCEPT ![r] = new]
    OBVIOUS
  <1> HIDE DEF new
  <1>4. /\ noticeReq' \in [Senders -> TaskRecord] /\ noticeReq'[r] = new
        /\ \A s \in Senders : s # r => noticeReq'[s] = noticeReq[s]
    BY <1>2, <1>3 DEF NoticeInv
  <1>5. \A w \in written : w.id \in 1 .. Cardinality(written) /\ w.id < c.id
    BY <1>1 DEF NoticeInv
  <1>6. /\ IsFiniteSet(written') /\ Cardinality(written') = Cardinality(written) + 1
    <2>1. c \notin written
      BY <1>1, <1>5
    <2> QED
      BY <2>1, FS_AddElement DEF NoticeInv
  <1>7. /\ \A w \in written' : w.id \in 1 .. Cardinality(written')
        /\ \A w, x \in written' : w.id = x.id => w = x
    <2>1. ASSUME NEW w \in written'
          PROVE  w.id \in 1 .. Cardinality(written')
      BY <1>1, <1>5, <1>6
    <2>2. ASSUME NEW w \in written', NEW x \in written', w.id = x.id
          PROVE  w = x
      <3>1. CASE w \in written /\ x \in written
        BY <2>2, <3>1 DEF NoticeInv
      <3>2. CASE w = c \/ x = c
        BY <1>1, <1>5, <2>2, <3>2
      <3> QED
        BY <3>1, <3>2
    <2> QED
      BY <2>1, <2>2
  <1>8. N!TypeOK'
    <2>1. \A s \in Senders : /\ noticeReq'[s].pc \in {"idle", "like", "comment", "unowned", "parent", "send"}
                             /\ noticeReq'[s].queue \in Seq(N!Message)
                             /\ noticeReq'[s].about \in Nat
      BY <1>4 DEF TaskRecord
    <2>2. written' \subseteq N!Comment /\ comments' \subseteq {w.id : w \in written'}
      BY DEF NoticeInv, N!TypeOK
    <2> QED
      BY <2>1, <2>2 DEF NoticeInv, N!TypeOK
  <1>9. /\ \A m : Caused(m) => Caused(m)'
        /\ \A p : Task(p) => Task(p)'
    BY TasksKept
  <1>10. \A n \in notices : n.msg.about <= Cardinality(written) /\ n.msg.about # c.id
    <2>1. ASSUME NEW n \in notices
          PROVE  n.msg.about <= Cardinality(written) /\ n.msg.about # c.id
      <3>1. n.msg.about \in Nat
        BY DEF NoticeInv, N!TypeOK, N!Notice, N!Message
      <3>2. n.msg.about <= Cardinality(written)
        BY DEF NoticeInv
      <3> QED
        BY <1>1, <3>1, <3>2
    <2> QED
      BY <2>1
  <1>11. ASSUME NEW s \in Senders, s # r
         PROVE  noticeReq[s].about # c.id
    <2>1. noticeReq[s].about # 0 => \E w \in written : w.id = noticeReq[s].about
      BY DEF NoticeInv, Task
    <2> QED
      BY <1>1, <1>5, <2>1
  <1>12. PICK q : q = new
    OBVIOUS
  <1>13. Task(q)'
    <2>1. q.pc = pc /\ q.about = c.id /\ q.queue = queue
      BY <1>2, <1>12
    <2>2. \A n \in notices, i \in 1 .. Len(queue) : n.msg # queue[i]
      BY <1>10
    <2> QED
      BY <1>1, <1>10, <2>1, <2>2 DEF Task
  <1>14. ASSUME NEW s \in Senders
         PROVE  Task(noticeReq[s])'
    <2>1. CASE s = r
      BY <1>4, <1>12, <1>13, <2>1
    <2>2. CASE s # r
      <3>1. Task(noticeReq[s])
        BY DEF NoticeInv
      <3> QED
        BY <1>4, <1>9, <2>2, <3>1
    <2> QED
      BY <2>1, <2>2
  <1>15. \A s, t \in Senders :
            noticeReq'[s].about = noticeReq'[t].about /\ noticeReq'[s].about # 0 => s = t
    BY <1>2, <1>4, <1>11 DEF NoticeInv
  <1>16. \A n \in notices' : Caused(n.msg)' /\ n.msg.about <= Cardinality(written')
    <2>1. ASSUME NEW n \in notices
          PROVE  Caused(n.msg)' /\ n.msg.about <= Cardinality(written) + 1
      <3>1. n.msg.about \in Nat
        BY DEF NoticeInv, N!TypeOK, N!Notice, N!Message
      <3>2. Caused(n.msg)
        BY DEF NoticeInv
      <3> QED
        BY <1>1, <1>9, <1>10, <3>1, <3>2
    <2> QED
      BY <1>6, <2>1
  <1> QED
    BY <1>4, <1>6, <1>7, <1>8, <1>14, <1>15, <1>16 DEF NoticeInv

\* Sequences of no more than two members, joined.
LEMMA EmptyJoins ==
    /\ <<>> \o <<>> = <<>>
    /\ \A m : <<>> \o <<m>> = <<m>> /\ <<m>> \o <<>> = <<m>>
    /\ \A m, n : <<m>> \o <<n>> = <<m, n>>
  <1>1. <<>> \o <<>> = <<>>
    <2>1. <<>> \in Seq({})
      OBVIOUS
    <2> QED
      BY <2>1, ConcatEmptySeq
  <1>2. ASSUME NEW m
        PROVE  <<>> \o <<m>> = <<m>> /\ <<m>> \o <<>> = <<m>>
    <2>1. <<m>> \in Seq({m})
      OBVIOUS
    <2> QED
      BY <2>1, ConcatEmptySeq
  <1>3. ASSUME NEW m, NEW n
        PROVE  <<m>> \o <<n>> = <<m, n>>
    <2> DEFINE s == <<m>>
               t == <<n>>
               st == s \o t
               mn == <<m, n>>
    <2>1. /\ s \in Seq({m, n}) /\ t \in Seq({m, n}) /\ mn \in Seq({m, n})
          /\ Len(s) = 1 /\ Len(t) = 1 /\ Len(mn) = 2
          /\ s[1] = m /\ t[1] = n /\ mn[1] = m /\ mn[2] = n
      OBVIOUS
    <2> HIDE DEF s, t, mn
    <2>2. /\ st \in Seq({m, n}) /\ Len(st) = Len(s) + Len(t)
          /\ \A i \in 1 .. Len(s) + Len(t) :
                st[i] = IF i <= Len(s) THEN s[i] ELSE t[i - Len(s)]
      BY <2>1, ConcatProperties
    <2> HIDE DEF st
    <2>3. Len(st) = 2 /\ st[1] = m /\ st[2] = n
      <3>1. 1 \in 1 .. 2 /\ 2 \in 1 .. 2
        OBVIOUS
      <3>2. st[1] = s[1] /\ st[2] = t[1]
        BY <2>1, <2>2, <3>1
      <3> QED
        BY <2>1, <2>2, <3>2
    <2>4. st = mn
      <3>1. \A i \in 1 .. Len(st) : i = 1 \/ i = 2
        BY <2>3
      <3>2. \A i \in 1 .. Len(st) : st[i] = mn[i]
        BY <2>1, <2>3, <3>1
      <3> QED
        BY <2>1, <2>2, <2>3, <3>2, SeqEqual
    <2> QED
      BY <2>4 DEF st, s, t, mn
  <1> QED
    BY <1>1, <1>2, <1>3

LEMMA CommentCommits ==
    ASSUME N!NoticeAssumption, NoticeInv, NEW r \in Senders, N!CommentCommit(r)
    PROVE  NoticeInv'
  <1> DEFINE u == noticeReq[r].actor
  <1>0. PICK owned \in BOOLEAN : owned = (noticeReq[r].pc = "comment")
    OBVIOUS
  <1>1. PICK c \in N!Drafts(u) :
           /\ written' = written \cup {c} /\ comments' = comments \cup {c.id}
           /\ IF c.parent = 0
                THEN N!Begin(r, "send", u, c.id, N!ToPostWriter(c, owned) \o N!Mentions(c))
                ELSE N!Begin(r, "parent", u, c.id, N!Mentions(c))
    BY <1>0 DEF N!CommentCommit, N!None
  <1>2. UNCHANGED <<gone, liked, applied, notices, noticeId>>
    BY DEF N!CommentCommit
  <1>3. /\ Cardinality(written) \in Nat
        /\ \A w \in written : w.id \in Nat
        /\ gone \subseteq Accounts /\ Author \in Accounts /\ u \in Accounts
    BY FS_CardinalityType DEF NoticeInv, N!TypeOK, N!Comment, N!NoticeAssumption, TaskRecord
  <1> HIDE DEF u
  <1>4. /\ c \in N!Comment /\ c.id = Cardinality(written) + 1 /\ c.author = u
    <2>0. PICK x \in {0} \cup {i \in comments : N!ById(i).parent = 0},
               m \in {0} \cup (Accounts \ gone) :
             c = [id |-> N!Cardinality(written) + 1, author |-> u, parent |-> x,
                  mention |-> m]
      BY DEF N!Drafts, N!None
    <2>1. PICK p \in {0} \cup comments :
             c = [id |-> Cardinality(written) + 1, author |-> u, parent |-> p,
                  mention |-> m]
      BY <2>0, SameSets
    <2>2. p \in Nat
      BY <1>3 DEF NoticeInv, N!TypeOK
    <2> QED
      BY <1>3, <2>1, <2>2 DEF N!Comment, N!None
  <1>5. \/ N!Mentions(c) = <<>>
        \/ \E m \in N!Message : /\ N!Mentions(c) = <<m>> /\ m.about = c.id
                                /\ m.type = "MENTION" /\ Caused(m)'
    <2>1. CASE c.mention = 0 \/ c.mention = c.author
      BY <2>1 DEF N!Mentions, N!None
    <2>2. CASE ~(c.mention = 0 \/ c.mention = c.author)
      <3>1. PICK m : m = N!Message1("MENTION", c.mention, c.author, c.id)
        OBVIOUS
      <3>2. c.mention \in Accounts /\ c.author \in Accounts /\ c.id \in Nat
        BY <1>4, <2>2 DEF N!Comment, N!None
      <3>3. /\ m \in N!Message /\ m.about = c.id /\ m.type = "MENTION"
            /\ m.user = c.mention /\ m.actor = c.author
        BY <3>1, <3>2 DEF N!Message1, N!Message, N!Types
      <3>4. Caused(m)'
        BY <1>1, <3>3 DEF Caused
      <3>5. N!Mentions(c) = <<m>>
        BY <2>2, <3>1 DEF N!Mentions, N!None
      <3> QED
        BY <3>3, <3>4, <3>5
    <2> QED
      BY <2>1, <2>2
  <1>6. \/ N!ToPostWriter(c, owned) = <<>>
        \/ c.parent # 0
        \/ \E m \in N!Message : /\ N!ToPostWriter(c, owned) = <<m>> /\ m.about = c.id
                                /\ m.type = "COMMENT" /\ Caused(m)'
    <2>1. CASE ~owned \/ c.author = Author
      BY <2>1 DEF N!ToPostWriter
    <2>2. CASE owned /\ c.author # Author /\ c.parent = 0
      <3>1. PICK m : m = N!Message1("COMMENT", Author, c.author, c.id)
        OBVIOUS
      <3>2. c.author \in Accounts /\ c.id \in Nat
        BY <1>4 DEF N!Comment
      <3>3. /\ m \in N!Message /\ m.about = c.id /\ m.type = "COMMENT"
            /\ m.user = Author /\ m.actor = c.author
        BY <1>3, <3>1, <3>2 DEF N!Message1, N!Message, N!Types
      <3>4. Caused(m)'
        BY <1>1, <2>2, <3>3 DEF Caused
      <3>5. N!ToPostWriter(c, owned) = <<m>>
        BY <2>2, <3>1 DEF N!ToPostWriter
      <3> QED
        BY <3>3, <3>4, <3>5
    <2> QED
      BY <2>1, <2>2
  <1>7. CASE c.parent = 0
    <2>1. PICK queue : queue = N!ToPostWriter(c, owned) \o N!Mentions(c)
      OBVIOUS
    <2>2. \/ queue = <<>>
          \/ \E m \in N!Message : queue = <<m>> /\ m.about = c.id /\ Caused(m)'
          \/ \E m \in N!Message, n \in N!Message :
                /\ queue = <<m, n>> /\ m # n
                /\ m.about = c.id /\ Caused(m)' /\ n.about = c.id /\ Caused(n)'
      <3>1. CASE N!ToPostWriter(c, owned) = <<>>
        <4>1. CASE N!Mentions(c) = <<>>
          BY <2>1, <3>1, <4>1, EmptyJoins
        <4>2. ASSUME NEW m \in N!Message, N!Mentions(c) = <<m>>, m.about = c.id, Caused(m)'
              PROVE  queue = <<m>>
          BY <2>1, <3>1, <4>2, EmptyJoins
        <4> QED
          BY <1>5, <4>1, <4>2
      <3>2. ASSUME NEW m \in N!Message, N!ToPostWriter(c, owned) = <<m>>, m.about = c.id,
                   m.type = "COMMENT", Caused(m)'
            PROVE  \/ queue = <<m>>
                   \/ \E n \in N!Message : /\ queue = <<m, n>> /\ m # n
                                           /\ n.about = c.id /\ Caused(n)'
        <4>1. CASE N!Mentions(c) = <<>>
          BY <2>1, <3>2, <4>1, EmptyJoins
        <4>2. ASSUME NEW n \in N!Message, N!Mentions(c) = <<n>>, n.about = c.id,
                     n.type = "MENTION", Caused(n)'
              PROVE  queue = <<m, n>> /\ m # n
          <5>1. m # n
            BY <3>2, <4>2
          <5> QED
            BY <2>1, <3>2, <4>2, <5>1, EmptyJoins
        <4> QED
          BY <1>5, <4>1, <4>2
      <3> QED
        BY <1>6, <1>7, <3>1, <3>2
    <2>3. /\ queue \in Seq(N!Message)
          /\ \A i \in 1 .. Len(queue) : queue[i].about = c.id /\ Caused(queue[i])'
          /\ \A i, j \in 1 .. Len(queue) : queue[i] = queue[j] => i = j
      <3>1. CASE queue = <<>>
        BY <3>1
      <3>2. ASSUME NEW m \in N!Message, queue = <<m>>, m.about = c.id, Caused(m)'
            PROVE  /\ queue \in Seq(N!Message)
                   /\ \A i \in 1 .. Len(queue) : queue[i].about = c.id /\ Caused(queue[i])'
                   /\ \A i, j \in 1 .. Len(queue) : queue[i] = queue[j] => i = j
        <4>1. queue \in Seq(N!Message) /\ Len(queue) = 1 /\ queue[1] = m
          BY <3>2
        <4>2. \A i \in 1 .. Len(queue) : i = 1
          BY <4>1
        <4> QED
          BY <3>2, <4>1, <4>2
      <3>3. ASSUME NEW m \in N!Message, NEW n \in N!Message, queue = <<m, n>>, m # n,
                   m.about = c.id, Caused(m)', n.about = c.id, Caused(n)'
            PROVE  /\ queue \in Seq(N!Message)
                   /\ \A i \in 1 .. Len(queue) : queue[i].about = c.id /\ Caused(queue[i])'
                   /\ \A i, j \in 1 .. Len(queue) : queue[i] = queue[j] => i = j
        <4>1. /\ queue \in Seq(N!Message) /\ Len(queue) = 2
              /\ queue[1] = m /\ queue[2] = n
          BY <3>3
        <4>2. \A i \in 1 .. Len(queue) : i = 1 \/ i = 2
          BY <4>1
        <4> QED
          BY <3>3, <4>1, <4>2
      <3> QED
        BY <2>2, <3>1, <3>2, <3>3
    <2>4. noticeReq' = [noticeReq EXCEPT ![r] =
             [pc |-> "send", actor |-> c.author, about |-> c.id, queue |-> queue]]
      BY <1>1, <1>4, <1>7, <2>1 DEF N!Begin
    <2> QED
      BY <1>1, <1>2, <1>4, <2>3, <2>4, NewTask
  <1>8. CASE c.parent # 0
    <2> DEFINE queue == N!Mentions(c)
    <2>1. /\ queue \in Seq(N!Message)
          /\ \A i \in 1 .. Len(queue) : /\ queue[i].about = c.id /\ Caused(queue[i])'
                                        /\ queue[i].type = "MENTION"
          /\ \A i, j \in 1 .. Len(queue) : queue[i] = queue[j] => i = j
      <3>1. CASE queue = <<>>
        BY <3>1
      <3>2. ASSUME NEW m \in N!Message, queue = <<m>>, m.about = c.id, Caused(m)',
                   m.type = "MENTION"
            PROVE  /\ queue \in Seq(N!Message)
                   /\ \A i \in 1 .. Len(queue) : /\ queue[i].about = c.id
                                                 /\ Caused(queue[i])'
                                                 /\ queue[i].type = "MENTION"
                   /\ \A i, j \in 1 .. Len(queue) : queue[i] = queue[j] => i = j
        <4>1. queue \in Seq(N!Message) /\ Len(queue) = 1 /\ queue[1] = m
          BY <3>2
        <4> HIDE DEF queue
        <4>2. \A i \in 1 .. Len(queue) : i = 1
          BY <4>1
        <4> QED
          BY <3>2, <4>1, <4>2
      <3> QED
        BY <1>5, <3>1, <3>2
    <2>2. noticeReq' = [noticeReq EXCEPT ![r] =
             [pc |-> "parent", actor |-> c.author, about |-> c.id, queue |-> queue]]
      BY <1>1, <1>4, <1>8 DEF N!Begin
    <2> HIDE DEF queue
    <2> QED
      BY <1>1, <1>2, <1>4, <2>1, <2>2, NewTask
  <1> QED
    BY <1>7, <1>8

\* A notice is sent: the first of the messages of one task.
LEMMA NoticeSent ==
    ASSUME NoticeInv, NEW r \in Senders, N!Send(r)
    PROVE  NoticeInv'
  <1>1. noticeReq[r] \in TaskRecord /\ Task(noticeReq[r]) /\ noticeReq[r].pc # "parent"
    BY DEF NoticeInv, N!Send
  <1>2. PICK old : old = noticeReq[r]
    OBVIOUS
  <1>3. PICK m : m = Head(old.queue)
    OBVIOUS
  <1>4. /\ old.queue \in Seq(N!Message) /\ old.queue # <<>> /\ old.about \in Nat
        /\ m \in N!Message /\ m = old.queue[1] /\ Len(old.queue) \in Nat
        /\ 1 \in 1 .. Len(old.queue)
    BY <1>1, <1>2, <1>3 DEF TaskRecord, N!Send
  <1>5. m.about = old.about /\ Caused(m)
    BY <1>1, <1>2, <1>4 DEF Task
  <1>6. PICK queue : queue = IF N!Unsent(m) \/ N!Live(m.user) THEN Tail(old.queue) ELSE <<>>
    OBVIOUS
  <1>7. /\ noticeReq' = [noticeReq EXCEPT ![r].queue = queue]
        /\ UNCHANGED <<gone, written, comments, liked, applied>>
    BY <1>2, <1>3, <1>6 DEF N!Send
  <1>8. /\ queue \in Seq(N!Message)
        /\ \A i \in 1 .. Len(queue) :
              \E k \in 1 .. Len(old.queue) : k = i + 1 /\ queue[i] = old.queue[k]
    <2>1. CASE queue = <<>>
      BY <2>1
    <2>2. CASE queue = Tail(old.queue)
      <3>1. queue \in Seq(N!Message) /\ Len(queue) = Len(old.queue) - 1
        BY <1>4, <2>2
      <3>2. \A i \in 1 .. Len(queue) : queue[i] = old.queue[i + 1]
        BY <1>4, <2>2
      <3> QED
        BY <1>4, <3>1, <3>2
    <2> QED
      BY <1>6, <2>1, <2>2
  <1> DEFINE new == [old EXCEPT !.queue = queue]
  <1>9. /\ new \in TaskRecord /\ new.pc = old.pc /\ new.about = old.about
        /\ new.queue = queue
    BY <1>1, <1>2, <1>8 DEF TaskRecord
  <1>10. noticeReq' = [noticeReq EXCEPT ![r] = new]
    BY <1>2, <1>7
  <1> HIDE DEF new
  <1>11. /\ noticeReq' \in [Senders -> TaskRecord] /\ noticeReq'[r] = new
         /\ \A s \in Senders : s # r => noticeReq'[s] = noticeReq[s]
    BY <1>9, <1>10 DEF NoticeInv
  <1>12. \/ UNCHANGED <<notices, noticeId>>
         \/ /\ notices' = notices \cup {[id |-> noticeId + 1, msg |-> m]}
            /\ noticeId' = noticeId + 1 /\ m.user # m.actor
    BY <1>2, <1>3 DEF N!Send, N!Unsent
  <1>13. PICK sent : sent = [id |-> noticeId + 1, msg |-> m]
    OBVIOUS
  <1>14. /\ sent.id = noticeId + 1 /\ sent.msg = m /\ sent \in N!Notice
    BY <1>4, <1>13 DEF NoticeInv, N!Notice
  <1>15. /\ notices \subseteq notices' /\ notices' \subseteq notices \cup {sent}
         /\ noticeId' \in Nat /\ noticeId' >= noticeId
         /\ sent \in notices' /\ sent \notin notices =>
               noticeId' = noticeId + 1 /\ m.user # m.actor
    BY <1>12, <1>13 DEF NoticeInv
  <1>16. N!TypeOK'
    <2>1. \A s \in Senders : /\ noticeReq'[s].pc \in {"idle", "like", "comment", "unowned", "parent", "send"}
                             /\ noticeReq'[s].queue \in Seq(N!Message)
                             /\ noticeReq'[s].about \in Nat
      BY <1>11 DEF TaskRecord
    <2>2. \A n \in notices : n.id \in 1 .. noticeId /\ n.msg.user # n.msg.actor
      BY DEF NoticeInv, N!TypeOK
    <2>3. noticeId \in Nat /\ notices' \subseteq N!Notice
      BY <1>14, <1>15 DEF NoticeInv, N!TypeOK
    <2>4. ASSUME NEW n \in notices'
          PROVE  n.id \in 1 .. noticeId' /\ n.msg.user # n.msg.actor
      <3>1. CASE n \in notices
        BY <1>15, <2>2, <2>3, <3>1
      <3>2. CASE n \notin notices
        BY <1>14, <1>15, <2>3, <2>4, <3>2
      <3> QED
        BY <3>1, <3>2
    <2>5. ASSUME NEW a \in notices', NEW b \in notices', a.id = b.id
          PROVE  a = b
      <3>1. CASE a \in notices /\ b \in notices
        BY <2>5, <3>1 DEF NoticeInv, N!TypeOK
      <3>2. CASE a \notin notices /\ b \notin notices
        BY <1>15, <2>5, <3>2
      <3>3. CASE (a \in notices) # (b \in notices)
        <4>1. PICK n \in notices : n.id = noticeId + 1
          BY <1>14, <1>15, <2>5, <3>3
        <4> QED
          BY <2>2, <2>3, <4>1
      <3> QED
        BY <3>1, <3>2, <3>3
    <2> QED
      BY <1>7, <2>1, <2>3, <2>4, <2>5 DEF NoticeInv, N!TypeOK
  <1>17. \A x : Caused(x) => Caused(x)'
    BY <1>7 DEF Caused
  <1>18. ASSUME NEW n \in notices', n.msg = m \/ n \in notices
         PROVE  Caused(n.msg)' /\ n.msg.about <= Cardinality(written')
    <2>1. CASE n \in notices
      BY <1>7, <1>17, <2>1 DEF NoticeInv
    <2>2. CASE n.msg = m
      <3>1. m.about <= Cardinality(written)
        <4>1. Cardinality(written) \in Nat
          BY FS_CardinalityType DEF NoticeInv
        <4>2. CASE old.about = 0
          BY <1>5, <4>1, <4>2
        <4>3. CASE old.about # 0
          <5>1. PICK w \in written : w.id = old.about
            BY <1>1, <1>2, <4>3 DEF Task
          <5>2. w.id \in 1 .. Cardinality(written)
            BY DEF NoticeInv
          <5> QED
            BY <1>5, <4>1, <5>1, <5>2
        <4> QED
          BY <4>2, <4>3
      <3> QED
        BY <1>5, <1>7, <1>17, <2>2, <3>1
    <2> QED
      BY <1>18, <2>1, <2>2
  <1>19. ASSUME NEW a \in notices', NEW b \in notices', a.msg = b.msg, a.msg.about # 0
         PROVE  a = b
    <2>1. CASE a \in notices /\ b \in notices
      BY <1>19, <2>1 DEF NoticeInv
    <2>2. CASE a \notin notices /\ b \notin notices
      BY <1>15, <2>2
    <2>3. CASE (a \in notices) # (b \in notices)
      <3>1. PICK n \in notices : n.msg = m
        BY <1>14, <1>15, <1>19, <2>3
      <3>2. m.about # 0
        BY <1>14, <1>15, <1>19, <2>3
      <3>3. \A k \in notices, i \in 1 .. Len(old.queue) : k.msg # old.queue[i]
        BY <1>1, <1>2, <1>5, <3>2 DEF Task
      <3> QED
        BY <1>4, <3>1, <3>3
    <2> QED
      BY <2>1, <2>2, <2>3
  <1>20. PICK q : q = new
    OBVIOUS
  <1>21. Task(q)'
    <2>1. /\ q.pc = old.pc /\ q.about = old.about /\ q.queue = queue
          /\ q.pc # "parent" /\ (q.pc = "like" => q.about = 0)
          /\ (q.about # 0 => \E w \in written' : w.id = q.about)
      BY <1>1, <1>2, <1>7, <1>9, <1>20 DEF Task
    <2>2. \A i \in 1 .. Len(old.queue) : old.queue[i].about = old.about /\ Caused(old.queue[i])
      BY <1>1, <1>2 DEF Task
    <2>3. \A i \in 1 .. Len(queue) : queue[i].about = q.about /\ Caused(queue[i])'
      BY <1>8, <1>17, <2>1, <2>2
    <2>4. ASSUME q.about # 0
          PROVE  /\ \A i, j \in 1 .. Len(queue) : queue[i] = queue[j] => i = j
                 /\ \A n \in notices', i \in 1 .. Len(queue) : n.msg # queue[i]
      <3>1. /\ \A i, j \in 1 .. Len(old.queue) : old.queue[i] = old.queue[j] => i = j
            /\ \A n \in notices, i \in 1 .. Len(old.queue) : n.msg # old.queue[i]
        BY <1>1, <1>2, <2>1, <2>4 DEF Task
      <3>2. ASSUME NEW i \in 1 .. Len(queue), NEW j \in 1 .. Len(queue),
                   queue[i] = queue[j]
            PROVE  i = j
        <4>1. i + 1 = j + 1
          BY <1>8, <3>1, <3>2
        <4> QED
          BY <4>1
      <3>3. ASSUME NEW n \in notices', NEW i \in 1 .. Len(queue)
            PROVE  n.msg # queue[i]
        <4>1. PICK k \in 1 .. Len(old.queue) : k = i + 1 /\ queue[i] = old.queue[k]
          BY <1>8
        <4>2. k # 1
          BY <4>1
        <4>3. CASE n \in notices
          BY <3>1, <4>1, <4>3
        <4>4. CASE n \notin notices
          <5>1. n.msg = old.queue[1]
            BY <1>4, <1>14, <1>15, <4>4
          <5> QED
            BY <1>4, <3>1, <4>1, <4>2, <5>1
        <4> QED
          BY <4>3, <4>4
      <3> QED
        BY <3>2, <3>3
    <2> QED
      BY <2>1, <2>3, <2>4 DEF Task
  <1>22. ASSUME NEW s \in Senders, s # r, NEW p, p = noticeReq[s]
         PROVE  Task(p)'
    <2>1. Task(p)
      BY <1>22 DEF NoticeInv
    <2>2. p.about # 0 => p.about # old.about
      BY <1>2, <1>22 DEF NoticeInv
    <2>3. /\ (p.pc = "like" => p.about = 0) /\ (p.pc = "parent" => p.about # 0)
          /\ (p.about # 0 => \E w \in written' : w.id = p.about)
          /\ \A i \in 1 .. Len(p.queue) : p.queue[i].about = p.about /\ Caused(p.queue[i])'
      BY <1>7, <1>17, <2>1 DEF Task
    <2>4. \A n \in notices' : n \in notices \/ n.msg.about = old.about
      BY <1>5, <1>14, <1>15
    <2>5. p.about # 0 =>
             /\ \A i, j \in 1 .. Len(p.queue) : p.queue[i] = p.queue[j] => i = j
             /\ \A n \in notices', i \in 1 .. Len(p.queue) : n.msg # p.queue[i]
      BY <2>1, <2>2, <2>4 DEF Task
    <2>6. p.pc = "parent" =>
             /\ \A i \in 1 .. Len(p.queue) : p.queue[i].type = "MENTION"
             /\ \A n \in notices' : n.msg.about # p.about
      BY <2>1, <2>2, <2>3, <2>4 DEF Task
    <2> QED
      BY <2>3, <2>5, <2>6 DEF Task
  <1>23. ASSUME NEW s \in Senders
         PROVE  Task(noticeReq[s])'
    <2>1. CASE s = r
      BY <1>11, <1>20, <1>21, <2>1
    <2>2. CASE s # r
      <3>1. PICK p : p = noticeReq[s]
        OBVIOUS
      <3>2. Task(p)'
        BY <1>22, <2>2, <3>1
      <3> QED
        BY <1>11, <2>2, <3>1, <3>2
    <2> QED
      BY <2>1, <2>2
  <1>24. \A s, t \in Senders :
            noticeReq'[s].about = noticeReq'[t].about /\ noticeReq'[s].about # 0 => s = t
    BY <1>2, <1>9, <1>11 DEF NoticeInv
  <1>25. \A n \in notices' : n.msg = m \/ n \in notices
    BY <1>14, <1>15
  <1> QED
    BY <1>7, <1>11, <1>15, <1>16, <1>18, <1>19, <1>23, <1>24, <1>25 DEF NoticeInv

LEMMA NoticeStarts ==
    ASSUME N!NoticeAssumption, N!Init
    PROVE  NoticeInv
  <1>1. \A r \in Senders : noticeReq[r] = N!Idle
    BY DEF N!Init
  <1>2. PICK q : q = N!Idle
    OBVIOUS
  <1>3. Task(q)
    BY <1>2, NoticeIdle DEF Task
  <1>4. N!TypeOK
    BY <1>1, NoticeIdle DEF N!TypeOK, N!Init, TaskRecord
  <1> QED
    BY <1>1, <1>2, <1>3, <1>4, NoticeIdle, FS_EmptySet DEF NoticeInv, N!Init

LEMMA NoticeKept ==
    ASSUME N!NoticeAssumption, NoticeInv, [N!Next]_noticeVars
    PROVE  NoticeInv'
  <1>1. ASSUME NEW r \in Senders, NEW u \in Accounts,
               \/ N!LikeBegin(r, u) \/ N!CommentBegin(r, u)
               \/ N!Apply(r, u) \/ N!Decide(r, u)
        PROVE  NoticeInv'
    BY <1>1, TaskBegins
  <1>2. ASSUME NEW r \in Senders,
               \/ N!CommentCommit(r) \/ N!LikeEnd(r) \/ N!ParentRead(r)
               \/ N!Send(r) \/ N!End(r)
        PROVE  NoticeInv'
    BY <1>2, CommentCommits, TaskGoesOn, ParentReads, NoticeSent
  <1>3. CASE \/ \E c \in comments : N!RemoveComment(c)
             \/ \E u \in Accounts : N!DeleteUser(u)
    BY <1>3, NoticesGo
  <1>4. CASE UNCHANGED noticeVars
    <2>1. UNCHANGED <<gone, written, comments, liked, applied, notices, noticeId, noticeReq>>
      BY <1>4 DEF noticeVars
    <2> QED
      BY <2>1, NoticesLess DEF NoticeInv, N!TypeOK
  <1>5. CASE N!Next
    BY <1>1, <1>2, <1>3, <1>5 DEF N!Next
  <1> QED
    BY <1>4, <1>5

LEMMA NoticeEnough ==
    ASSUME NoticeInv
    PROVE  N!NoticeHasCause
  <1>1. \A m, n \in notices : m.msg = n.msg /\ m.msg.about # 0 => m = n
    BY DEF NoticeInv
  <1>2. \A n \in notices : Caused(n.msg)
    BY DEF NoticeInv
  <1> QED
    BY <1>1, <1>2 DEF N!NoticeHasCause, Caused, N!None
-----------------------------------------------------------------------------
(* The documents (DocumentFiles).                                          *)

\* Files are numbered in the order in which they are saved, and nothing names
\* a file that has not been saved.
FilesNumbered ==
    /\ IsFiniteSet(files) /\ Cardinality(files) <= MaxFiles
    /\ \A f \in files : f.id <= Cardinality(files)
    /\ \A x \in rows : x.id <= Cardinality(files)
    /\ \A g \in given : g[2] <= Cardinality(files)
    /\ \A r \in Requests : fileReq[r].pc # "idle" =>
          fileReq[r].id \in F!Ids /\ fileReq[r].id <= Cardinality(files)

\* A request that is about to insert a row: its file is there, opens in the
\* way the row will say, and nobody else knows of it.
InsertPending ==
    \A r \in Requests : fileReq[r].pc = "insert" =>
        /\ fileReq[r].actor \in Accounts
        /\ \E f \in files : f.id = fileReq[r].id
        /\ \A f \in files : f.id = fileReq[r].id =>
              F!Opens(f, f.key, fileReq[r].isEncrypted) /\ F!Fits(fileReq[r].fileType, f.content)
        /\ ~F!HasRow(fileReq[r].id)
        /\ \A g \in given : g[2] # fileReq[r].id
        /\ \A s \in Requests : fileReq[s].pc # "idle" /\ fileReq[s].id = fileReq[r].id => s = r

\* A download that has got as far as the document is in the log.
DownloadsWatched ==
    \A r \in Requests :
        /\ fileReq[r].pc \in {"log", "serve"} => fileReq[r].actor \in {Admin}
        /\ fileReq[r].pc = "serve" =>
              \/ <<fileReq[r].actor, fileReq[r].id>> \in logs
              \/ fileReq[r].actor \notin present
              \/ ~F!HasRow(fileReq[r].id)

\* The inductive invariant.
FilesInv == F!TypeOK /\ FilesNumbered /\ InsertPending /\ DownloadsWatched /\ F!DocumentsHeld /\ F!Audited

-----------------------------------------------------------------------------
\* A request that has not begun is well typed, and 0 is not the number of a file.
LEMMA FileIdle ==
    ASSUME F!FilesAssumption
    PROVE  F!Idle \in F!Request /\ F!Idle.pc = "idle"
  BY DEF F!FilesAssumption, F!Idle, F!Request, F!Kinds

\* The numbers of files.
LEMMA FileIds ==
    ASSUME F!FilesAssumption
    PROVE  /\ F!Ids \subseteq Nat \ {0}
           /\ \A n \in Nat \ {0} : n <= MaxFiles => n \in F!Ids
  <1>1. Cardinality(Requests) \in Nat
    BY SameSets, FS_CardinalityType DEF F!FilesAssumption
  <1> QED
    BY <1>1, SameSets DEF F!FilesAssumption, F!Ids

\* The first states.
LEMMA FilesStart == F!FilesAssumption /\ F!Init => FilesInv
  <1> SUFFICES ASSUME F!FilesAssumption, F!Init PROVE FilesInv
    OBVIOUS
  <1>1. fileReq \in [Requests -> F!Request] /\ \A r \in Requests : fileReq[r].pc = "idle"
    BY FileIdle DEF F!Init
  <1>2. present \subseteq Accounts \cup {Admin} /\ key \in Keys \cup {NoKey}
        /\ logs = {} /\ given = {}
    BY DEF F!Init
  <1>3. CASE files = {} /\ rows = {}
    <2>1. IsFiniteSet(files) /\ Cardinality(files) = 0
      BY <1>3, FS_EmptySet
    <2> QED
      BY <1>1, <1>2, <1>3, <2>1
      DEF FilesInv, F!TypeOK, FilesNumbered, InsertPending, DownloadsWatched, F!DocumentsHeld, F!Audited,
          F!FilesAssumption
  <1>4. ASSUME NEW form \in {"v1", "v1two"}, NEW u \in Accounts, NEW k \in F!Kinds, key # NoKey,
               files = {[id |-> 1, form |-> form, key |-> key, content |-> k]},
               rows = {[id |-> 1, user |-> u, fileType |-> k, isEncrypted |-> TRUE]}
        PROVE  FilesInv
    <2>1. IsFiniteSet(files) /\ Cardinality(files) = 1
      BY <1>4, FS_Singleton
    <2>2. 1 \in F!Ids
      BY FileIds DEF F!FilesAssumption
    <2>3. form \in {"v1", "v1two"} /\ key \in Keys
      BY <1>2, <1>4 DEF F!FilesAssumption
    <2>4. files \subseteq F!File /\ rows \subseteq F!Row
      BY <1>4, <2>2, <2>3 DEF F!File, F!Row
    <2>5. \A x \in rows, f \in files : F!Fits(x.fileType, f.content)
      BY <1>4 DEF F!Fits
    <2>6. F!DocumentsHeld
      BY <1>4, <2>3 DEF F!DocumentsHeld, F!Opens
    <2> QED
      BY <1>1, <1>2, <1>4, <2>1, <2>4, <2>5, <2>6
      DEF FilesInv, F!TypeOK, FilesNumbered, InsertPending, DownloadsWatched, F!Audited, F!FilesAssumption
  <1> QED
    BY <1>3, <1>4 DEF F!Init

-----------------------------------------------------------------------------
\* A document is saved under the next number.
LEMMA FileSaved ==
    ASSUME F!FilesAssumption, FilesInv, NEW r \in Requests, NEW u \in Accounts,
           F!CreateSave(r, u)
    PROVE  FilesInv'
  <1>1. PICK fileType \in F!Kinds \cup {Junk}, content \in F!Kinds \cup {Junk} :
           /\ F!Acceptable(fileType, content)
           /\ files' = files \cup {F!Stored(content)}
           /\ fileReq' = [fileReq EXCEPT ![r] =
                 [pc |-> "insert", actor |-> u, id |-> F!NextId, fileType |-> fileType,
                  isEncrypted |-> key # NoKey]]
    BY DEF F!CreateSave
  <1>2. UNCHANGED <<present, key, rows, logs, given>> /\ Cardinality(files) < MaxFiles
    BY SameSets DEF F!CreateSave
  <1> DEFINE n == Cardinality(files)
             new == F!Stored(content)
             request == [pc |-> "insert", actor |-> u, id |-> F!NextId,
                         fileType |-> fileType, isEncrypted |-> key # NoKey]
  <1>3. n \in Nat /\ F!NextId = n + 1 /\ F!NextId \in F!Ids
    <2>1. n \in Nat
      BY FS_CardinalityType DEF FilesInv, FilesNumbered
    <2> QED
      BY <1>2, <2>1, FileIds, SameSets DEF F!NextId, F!FilesAssumption
  <1>4. fileType \in F!Kinds /\ content \in F!Kinds /\ F!Fits(fileType, content)
    BY <1>1 DEF F!Acceptable, F!Fits, F!Kinds
  <1>5. /\ new \in F!File /\ new.id = n + 1 /\ new.content = content
        /\ F!Opens(new, new.key, key # NoKey)
    BY <1>3, <1>4 DEF F!Stored, F!File, F!Opens, FilesInv, F!TypeOK
  <1>6. \A f \in files : f.id \in Nat /\ f.id <= n
    BY FileIds DEF FilesInv, F!TypeOK, F!File, FilesNumbered
  <1>7. \A x \in rows : x.id \in Nat /\ x.id <= n
    BY FileIds DEF FilesInv, F!TypeOK, F!Row, FilesNumbered
  <1>8. IsFiniteSet(files') /\ Cardinality(files') = n + 1
    <2>1. new \notin files
      BY <1>3, <1>5, <1>6
    <2>2. IsFiniteSet(files)
      BY DEF FilesInv, FilesNumbered
    <2> HIDE DEF new
    <2> QED
      BY <1>1, <2>1, <2>2, FS_AddElement DEF new
  <1>9. request \in F!Request
    BY <1>3, <1>4 DEF F!Request
  <1>10. /\ fileReq' \in [Requests -> F!Request] /\ fileReq'[r] = request
         /\ \A q \in Requests : q # r => fileReq'[q] = fileReq[q]
    BY <1>1, <1>9 DEF FilesInv, F!TypeOK
  <1>11. \A f \in files' : f \in files \/ f = new
    BY <1>1
  <1>12. files \subseteq files' /\ new \in files'
    BY <1>1
  <1> HIDE DEF n, new, request
  <1>13. F!TypeOK'
    <2>1. \A x, y \in files' : x.id = y.id => x = y
      BY <1>3, <1>5, <1>6, <1>11 DEF FilesInv, F!TypeOK
    <2>2. \A x \in rows', f \in files' : x.id = f.id => F!Fits(x.fileType, f.content)
      BY <1>2, <1>3, <1>5, <1>7, <1>11 DEF FilesInv, F!TypeOK
    <2>3. files' \subseteq F!File
      BY <1>5, <1>11 DEF FilesInv, F!TypeOK
    <2> QED
      BY <1>2, <1>10, <2>1, <2>2, <2>3 DEF FilesInv, F!TypeOK
  <1>14. FilesNumbered'
    <2>1. \A g \in given' : g[2] <= Cardinality(files')
      <3>1. \A g \in given : g[2] \in Nat /\ g[2] <= n
        BY FileIds DEF FilesInv, F!TypeOK, FilesNumbered, n
      <3> QED
        BY <1>2, <1>3, <1>8, <3>1
    <2>2. \A q \in Requests : fileReq'[q].pc # "idle" =>
             fileReq'[q].id \in F!Ids /\ fileReq'[q].id <= Cardinality(files')
      <3>1. \A q \in Requests : fileReq[q].pc # "idle" =>
               fileReq[q].id \in F!Ids /\ fileReq[q].id \in Nat /\ fileReq[q].id <= n
        BY FileIds DEF FilesInv, FilesNumbered, n
      <3> QED
        BY <1>3, <1>8, <1>10, <3>1 DEF request
    <2>3. Cardinality(files') <= MaxFiles
      BY <1>2, <1>3, <1>8 DEF F!FilesAssumption, n
    <2>4. \A f \in files' : f.id <= Cardinality(files')
      BY <1>3, <1>5, <1>6, <1>8, <1>11
    <2>5. \A x \in rows' : x.id <= Cardinality(files')
      BY <1>2, <1>3, <1>7, <1>8
    <2> QED
      BY <1>8, <2>1, <2>2, <2>3, <2>4, <2>5 DEF FilesNumbered
  <1>15. InsertPending'
    <2>1. ASSUME NEW q \in Requests, fileReq'[q].pc = "insert", q # r
          PROVE  /\ fileReq'[q].actor \in Accounts
                 /\ \E f \in files' : f.id = fileReq'[q].id
                 /\ \A f \in files' : f.id = fileReq'[q].id =>
                       /\ F!Opens(f, f.key, fileReq'[q].isEncrypted)
                       /\ F!Fits(fileReq'[q].fileType, f.content)
                 /\ ~F!HasRow(fileReq[q].id)'
                 /\ \A g \in given' : g[2] # fileReq'[q].id
                 /\ \A s \in Requests :
                       fileReq'[s].pc # "idle" /\ fileReq'[s].id = fileReq'[q].id => s = q
      <3>1. fileReq'[q] = fileReq[q] /\ fileReq[q].pc = "insert"
        BY <1>10, <2>1
      <3>2. fileReq[q].id \in Nat /\ fileReq[q].id <= n
        BY <3>1, FileIds DEF FilesInv, FilesNumbered, n
      <3>3. fileReq[q].id # n + 1 /\ fileReq'[r].id = n + 1
        BY <1>3, <1>10, <3>2 DEF request
      <3>4. /\ fileReq[q].actor \in Accounts
            /\ \E f \in files : f.id = fileReq[q].id
            /\ \A f \in files : f.id = fileReq[q].id =>
                  F!Opens(f, f.key, fileReq[q].isEncrypted) /\ F!Fits(fileReq[q].fileType, f.content)
            /\ ~F!HasRow(fileReq[q].id)
            /\ \A g \in given : g[2] # fileReq[q].id
            /\ \A s \in Requests :
                  fileReq[s].pc # "idle" /\ fileReq[s].id = fileReq[q].id => s = q
        BY <3>1 DEF FilesInv, InsertPending
      <3>5. \A f \in files' : f.id = fileReq[q].id => f \in files
        BY <1>5, <1>11, <3>3
      <3>6. \A s \in Requests :
               fileReq'[s].pc # "idle" /\ fileReq'[s].id = fileReq[q].id => s = q
        BY <1>10, <3>3, <3>4
      <3>7. ~F!HasRow(fileReq[q].id)'
        BY <1>2, <3>1, <3>4 DEF F!HasRow
      <3> QED
        BY <1>2, <1>12, <3>1, <3>4, <3>5, <3>6, <3>7
    <2>2. /\ fileReq'[r].actor \in Accounts /\ fileReq'[r].id = n + 1
          /\ fileReq'[r].fileType = fileType /\ fileReq'[r].isEncrypted = (key # NoKey)
      BY <1>3, <1>10 DEF request
    <2>3. /\ \E f \in files' : f.id = fileReq'[r].id
          /\ \A f \in files' : f.id = fileReq'[r].id =>
                /\ F!Opens(f, f.key, fileReq'[r].isEncrypted)
                /\ F!Fits(fileReq'[r].fileType, f.content)
      BY <1>3, <1>4, <1>5, <1>6, <1>11, <1>12, <2>2
    <2>4. ~F!HasRow(fileReq[r].id)' /\ \A g \in given' : g[2] # fileReq'[r].id
      <3>1. \A g \in given : g[2] \in Nat /\ g[2] <= n
        BY FileIds DEF FilesInv, F!TypeOK, FilesNumbered, n
      <3> QED
        BY <1>2, <1>3, <1>7, <2>2, <3>1 DEF F!HasRow
    <2>5. \A s \in Requests : fileReq'[s].pc # "idle" /\ fileReq'[s].id = fileReq'[r].id => s = r
      <3>1. \A q \in Requests : fileReq[q].pc # "idle" => fileReq[q].id \in Nat /\ fileReq[q].id <= n
        BY FileIds DEF FilesInv, FilesNumbered, n
      <3> QED
        BY <1>3, <1>10, <2>2, <3>1
    <2> QED
      BY <2>1, <2>2, <2>3, <2>4, <2>5 DEF InsertPending
  <1>16. DownloadsWatched'
    <2>1. request.pc = "insert"
      BY DEF request
    <2> QED
      BY <1>2, <1>10, <2>1 DEF FilesInv, DownloadsWatched, F!HasRow
  <1>17. F!DocumentsHeld' /\ F!Audited'
    BY <1>2, <1>12 DEF FilesInv, F!DocumentsHeld, F!Audited, F!HasRow
  <1> QED
    BY <1>13, <1>14, <1>15, <1>16, <1>17 DEF FilesInv

\* A request goes on within its kind, or ends: nothing becomes pending.
LEMMA PendingKept ==
    ASSUME FilesInv, UNCHANGED <<files, rows, given>>,
           \A q \in Requests : fileReq'[q] = fileReq[q] \/ fileReq'[q].pc = "idle"
    PROVE  InsertPending'
  BY DEF FilesInv, InsertPending, F!HasRow

\* The row of a saved document is inserted.
LEMMA FileRowInserted ==
    ASSUME F!FilesAssumption, FilesInv, NEW r \in Requests, F!CreateInsert(r)
    PROVE  FilesInv'
  <1> DEFINE q == fileReq[r]
             new == [id |-> q.id, user |-> q.actor, fileType |-> q.fileType,
                     isEncrypted |-> q.isEncrypted]
  <1>1. /\ q.pc = "insert" /\ q \in F!Request /\ F!Finish(r)
        /\ UNCHANGED <<present, key, files, logs, given>>
        /\ rows' \subseteq rows \cup {new} /\ rows \subseteq rows'
    BY DEF F!CreateInsert, FilesInv, F!TypeOK
  <1>2. /\ q.actor \in Accounts /\ q.id \in F!Ids /\ q.id <= Cardinality(files)
        /\ \E f \in files : f.id = q.id
        /\ \A f \in files : f.id = q.id =>
              F!Opens(f, f.key, q.isEncrypted) /\ F!Fits(q.fileType, f.content)
        /\ ~F!HasRow(q.id)
        /\ \A g \in given : g[2] # q.id
        /\ \A s \in Requests : fileReq[s].pc # "idle" /\ fileReq[s].id = q.id => s = r
    BY <1>1 DEF FilesInv, InsertPending, FilesNumbered
  <1>3. new \in F!Row
    BY <1>1, <1>2 DEF F!Row, F!Request
  <1>4. /\ fileReq' \in [Requests -> F!Request] /\ fileReq'[r].pc = "idle"
        /\ \A s \in Requests : s # r => fileReq'[s] = fileReq[s]
    BY <1>1, FileIdle DEF F!Finish, FilesInv, F!TypeOK
  <1>5. new.id = q.id /\ new.fileType = q.fileType /\ new.isEncrypted = q.isEncrypted
    OBVIOUS
  <1>6. \A x \in rows' : x \in rows \/ x = new
    BY <1>1
  <1> HIDE DEF new
  <1>7. \A i : i # q.id /\ F!HasRow(i)' => F!HasRow(i)
    BY <1>5, <1>6 DEF F!HasRow
  <1>8. F!TypeOK'
    <2>1. rows' \subseteq F!Row
      BY <1>3, <1>6 DEF FilesInv, F!TypeOK
    <2>2. \A x, y \in rows' : x.id = y.id => x = y
      BY <1>2, <1>5, <1>6 DEF FilesInv, F!TypeOK, F!HasRow
    <2>3. \A x \in rows', f \in files' : x.id = f.id => F!Fits(x.fileType, f.content)
      BY <1>1, <1>2, <1>5, <1>6 DEF FilesInv, F!TypeOK
    <2> QED
      BY <1>1, <1>4, <2>1, <2>2, <2>3 DEF FilesInv, F!TypeOK
  <1>9. FilesNumbered'
    BY <1>1, <1>2, <1>4, <1>5, <1>6 DEF FilesInv, FilesNumbered
  <1>10. InsertPending'
    <2> SUFFICES ASSUME NEW p \in Requests, fileReq'[p].pc = "insert"
                 PROVE  /\ fileReq'[p].actor \in Accounts
                        /\ \E f \in files' : f.id = fileReq'[p].id
                        /\ \A f \in files' : f.id = fileReq'[p].id =>
                              /\ F!Opens(f, f.key, fileReq'[p].isEncrypted)
                              /\ F!Fits(fileReq'[p].fileType, f.content)
                        /\ ~(\E x \in rows' : x.id = fileReq'[p].id)
                        /\ \A g \in given' : g[2] # fileReq'[p].id
                        /\ \A s \in Requests :
                              fileReq'[s].pc # "idle" /\ fileReq'[s].id = fileReq'[p].id => s = p
      BY DEF InsertPending, F!HasRow
    <2>1. p # r /\ fileReq'[p] = fileReq[p] /\ fileReq[p].pc = "insert" /\ fileReq[p].id # q.id
      BY <1>1, <1>2, <1>4
    <2>2. /\ fileReq[p].actor \in Accounts
          /\ \E f \in files : f.id = fileReq[p].id
          /\ \A f \in files : f.id = fileReq[p].id =>
                F!Opens(f, f.key, fileReq[p].isEncrypted) /\ F!Fits(fileReq[p].fileType, f.content)
          /\ ~F!HasRow(fileReq[p].id)
          /\ \A g \in given : g[2] # fileReq[p].id
          /\ \A s \in Requests :
                fileReq[s].pc # "idle" /\ fileReq[s].id = fileReq[p].id => s = p
      BY <2>1 DEF FilesInv, InsertPending
    <2>3. \A s \in Requests : fileReq'[s].pc # "idle" /\ fileReq'[s].id = fileReq[p].id => s = p
      BY <1>4, <2>2
    <2>4. ~(\E x \in rows' : x.id = fileReq[p].id)
      BY <1>5, <1>6, <2>1, <2>2 DEF F!HasRow
    <2> QED
      BY <1>1, <2>1, <2>2, <2>3, <2>4
  <1>11. DownloadsWatched'
    <2> SUFFICES ASSUME NEW p \in Requests
                 PROVE  /\ fileReq'[p].pc \in {"log", "serve"} => fileReq'[p].actor \in {Admin}
                        /\ fileReq'[p].pc = "serve" =>
                              \/ <<fileReq'[p].actor, fileReq'[p].id>> \in logs'
                              \/ fileReq'[p].actor \notin present'
                              \/ ~(\E x \in rows' : x.id = fileReq'[p].id)
      BY DEF DownloadsWatched, F!HasRow
    <2>1. CASE p = r
      BY <1>4, <2>1
    <2>2. CASE p # r
      <3>1. fileReq'[p] = fileReq[p] /\ (fileReq[p].pc # "idle" => fileReq[p].id # q.id)
        BY <1>2, <1>4, <2>2
      <3> QED
        BY <1>1, <1>5, <1>6, <3>1 DEF FilesInv, DownloadsWatched, F!HasRow
    <2> QED
      BY <2>1, <2>2
  <1>12. F!DocumentsHeld'
    BY <1>1, <1>2, <1>5, <1>6 DEF FilesInv, F!DocumentsHeld
  <1>13. F!Audited'
    BY <1>1, <1>2, <1>5, <1>6 DEF FilesInv, F!Audited, F!HasRow
  <1> QED
    BY <1>8, <1>9, <1>10, <1>11, <1>12, <1>13 DEF FilesInv

-----------------------------------------------------------------------------
\* A download finds a row, and so a document no request is about to insert.
LEMMA DownloadReads ==
    ASSUME F!FilesAssumption, FilesInv, NEW r \in Requests, NEW a \in {Admin},
           NEW x \in rows, F!DownloadRead(r, a, x)
    PROVE  FilesInv'
  <1> DEFINE new == [F!Idle EXCEPT !.pc = "log", !.actor = a, !.id = x.id,
                                 !.isEncrypted = x.isEncrypted]
  <1>1. x \in F!Row /\ x.id \in F!Ids /\ x.id <= Cardinality(files) /\ F!HasRow(x.id)
    BY DEF FilesInv, F!TypeOK, FilesNumbered, F!Row, F!HasRow
  <1>2. new \in F!Request /\ new.pc = "log" /\ new.actor = a /\ new.id = x.id
    BY <1>1, FileIdle DEF F!Request, F!Row
  <1>3. /\ fileReq' = [fileReq EXCEPT ![r] = new] /\ UNCHANGED <<present, key, files, rows, logs, given>>
    BY DEF F!DownloadRead
  <1> HIDE DEF new
  <1>4. /\ fileReq' \in [Requests -> F!Request] /\ fileReq'[r] = new
        /\ \A s \in Requests : s # r => fileReq'[s] = fileReq[s]
    BY <1>2, <1>3 DEF FilesInv, F!TypeOK
  <1>5. F!TypeOK'
    BY <1>3, <1>4 DEF FilesInv, F!TypeOK
  <1>6. FilesNumbered'
    BY <1>1, <1>2, <1>3, <1>4 DEF FilesInv, FilesNumbered
  <1>7. InsertPending'
    <2> SUFFICES ASSUME NEW p \in Requests, fileReq'[p].pc = "insert"
                 PROVE  /\ fileReq'[p] = fileReq[p] /\ fileReq[p].pc = "insert"
                        /\ \A s \in Requests :
                              fileReq'[s].pc # "idle" /\ fileReq'[s].id = fileReq[p].id => s = p
      BY <1>3 DEF FilesInv, InsertPending, F!HasRow
    <2>1. p # r /\ fileReq'[p] = fileReq[p] /\ fileReq[p].pc = "insert"
      BY <1>2, <1>4
    <2>2. x.id # fileReq[p].id
      BY <1>1, <2>1 DEF FilesInv, InsertPending
    <2> QED
      BY <1>2, <1>4, <2>1, <2>2 DEF FilesInv, InsertPending
  <1>8. DownloadsWatched'
    BY <1>2, <1>3, <1>4 DEF FilesInv, DownloadsWatched, F!HasRow
  <1>9. F!DocumentsHeld' /\ F!Audited'
    BY <1>3 DEF FilesInv, F!DocumentsHeld, F!Audited, F!HasRow
  <1> QED
    BY <1>5, <1>6, <1>7, <1>8, <1>9 DEF FilesInv

\* The access is written to the log.
LEMMA DownloadLogs ==
    ASSUME F!FilesAssumption, FilesInv, NEW r \in Requests, F!DownloadLog(r)
    PROVE  FilesInv'
  <1> DEFINE q == fileReq[r]
  <1>1. /\ q.pc = "log" /\ q \in F!Request
        /\ logs' = logs \cup {<<q.actor, q.id>>} /\ F!Goto(r, "serve")
        /\ UNCHANGED <<present, key, files, rows, given>>
    BY DEF F!DownloadLog, FilesInv, F!TypeOK
  <1>2. q.actor \in {Admin} /\ q.id \in F!Ids
    BY <1>1 DEF FilesInv, DownloadsWatched, FilesNumbered
  <1>3. /\ fileReq' \in [Requests -> F!Request]
        /\ fileReq'[r].pc = "serve" /\ fileReq'[r].actor = q.actor /\ fileReq'[r].id = q.id
        /\ \A s \in Requests : s # r => fileReq'[s] = fileReq[s]
    BY <1>1 DEF F!Goto, FilesInv, F!TypeOK, F!Request
  <1>4. F!TypeOK'
    BY <1>1, <1>2, <1>3 DEF FilesInv, F!TypeOK
  <1>5. FilesNumbered'
    BY <1>1, <1>3 DEF FilesInv, FilesNumbered
  <1>6. InsertPending'
    <2> SUFFICES ASSUME NEW p \in Requests, fileReq'[p].pc = "insert"
                 PROVE  /\ fileReq'[p] = fileReq[p] /\ fileReq[p].pc = "insert"
                        /\ \A s \in Requests :
                              fileReq'[s].pc # "idle" /\ fileReq'[s].id = fileReq[p].id => s = p
      BY <1>1 DEF FilesInv, InsertPending, F!HasRow
    <2>1. p # r /\ fileReq'[p] = fileReq[p] /\ fileReq[p].pc = "insert"
      BY <1>3
    <2> QED
      BY <1>1, <1>3, <2>1 DEF FilesInv, InsertPending
  <1>7. DownloadsWatched'
    BY <1>1, <1>2, <1>3 DEF FilesInv, DownloadsWatched, F!HasRow
  <1>8. F!DocumentsHeld' /\ F!Audited'
    BY <1>1 DEF FilesInv, F!DocumentsHeld, F!Audited, F!HasRow
  <1> QED
    BY <1>4, <1>5, <1>6, <1>7, <1>8 DEF FilesInv

\* What ends a request and changes no file or row keeps all that is not about
\* who was given a document.
LEMMA FileRequestEnds ==
    ASSUME F!FilesAssumption, FilesInv, NEW r \in Requests, F!Finish(r),
           UNCHANGED <<present, key, files, rows, logs>>
    PROVE  /\ fileReq' \in [Requests -> F!Request] /\ fileReq'[r].pc = "idle"
           /\ \A s \in Requests : s # r => fileReq'[s] = fileReq[s]
           /\ DownloadsWatched' /\ F!DocumentsHeld'
  <1>1. /\ fileReq' \in [Requests -> F!Request] /\ fileReq'[r].pc = "idle"
        /\ \A s \in Requests : s # r => fileReq'[s] = fileReq[s]
    BY FileIdle DEF F!Finish, FilesInv, F!TypeOK
  <1> QED
    BY <1>1 DEF FilesInv, DownloadsWatched, F!DocumentsHeld, F!HasRow

\* The document is sent to one who is in the log.
LEMMA DownloadServes ==
    ASSUME F!FilesAssumption, FilesInv, NEW r \in Requests, F!Serve(r)
    PROVE  FilesInv'
  <1> DEFINE q == fileReq[r]
  <1>1. /\ q.pc = "serve" /\ given' = given \cup {<<q.actor, q.id>>} /\ F!Finish(r)
        /\ UNCHANGED <<present, key, files, rows, logs>>
    BY DEF F!Serve
  <1>2. q.actor \in {Admin} /\ q.id \in F!Ids /\ q.id <= Cardinality(files)
    BY <1>1 DEF FilesInv, DownloadsWatched, FilesNumbered
  <1>3. /\ fileReq' \in [Requests -> F!Request] /\ fileReq'[r].pc = "idle"
        /\ \A s \in Requests : s # r => fileReq'[s] = fileReq[s]
        /\ DownloadsWatched' /\ F!DocumentsHeld'
    BY <1>1, FileRequestEnds
  <1>4. F!TypeOK'
    BY <1>1, <1>2, <1>3 DEF FilesInv, F!TypeOK
  <1>5. FilesNumbered'
    BY <1>1, <1>2, <1>3 DEF FilesInv, FilesNumbered
  <1>6. InsertPending'
    <2> SUFFICES ASSUME NEW p \in Requests, fileReq'[p].pc = "insert"
                 PROVE  /\ fileReq'[p] = fileReq[p] /\ fileReq[p].pc = "insert"
                        /\ \A g \in given' : g[2] # fileReq[p].id
                        /\ \A s \in Requests :
                              fileReq'[s].pc # "idle" /\ fileReq'[s].id = fileReq[p].id => s = p
      BY <1>1 DEF FilesInv, InsertPending, F!HasRow
    <2>1. p # r /\ fileReq'[p] = fileReq[p] /\ fileReq[p].pc = "insert"
      BY <1>3
    <2>2. q.id # fileReq[p].id
      BY <1>1, <2>1 DEF FilesInv, InsertPending
    <2> QED
      BY <1>1, <1>3, <2>1, <2>2 DEF FilesInv, InsertPending
  <1>7. F!Audited'
    BY <1>1 DEF FilesInv, F!Audited, DownloadsWatched, F!HasRow
  <1> QED
    BY <1>3, <1>4, <1>5, <1>6, <1>7 DEF FilesInv

\* A request fails.
LEMMA FileAborts ==
    ASSUME F!FilesAssumption, FilesInv, NEW r \in Requests, F!Abort(r)
    PROVE  FilesInv'
  <1>1. F!Finish(r) /\ UNCHANGED <<present, key, files, rows, logs, given>>
    BY DEF F!Abort
  <1>2. /\ fileReq' \in [Requests -> F!Request]
        /\ \A s \in Requests : fileReq'[s] = fileReq[s] \/ fileReq'[s].pc = "idle"
        /\ DownloadsWatched' /\ F!DocumentsHeld'
    BY <1>1, FileRequestEnds
  <1>3. F!TypeOK' /\ FilesNumbered' /\ F!Audited'
    BY <1>1, <1>2 DEF FilesInv, F!TypeOK, FilesNumbered, F!Audited, F!HasRow
  <1> QED
    BY <1>1, <1>2, <1>3, PendingKept DEF FilesInv

\* An account is deleted: rows and log go together.
LEMMA FilesOfDeleted ==
    ASSUME F!FilesAssumption, FilesInv, NEW u \in Accounts \cup {Admin}, F!DeleteAccount(u)
    PROVE  FilesInv'
  <1> DEFINE ids == {x.id : x \in {y \in rows : y.user = u}}
             Kept(l) == l[1] # u /\ l[2] \notin ids
  <1>1. /\ present' = present \ {u} /\ rows' = {x \in rows : x.user # u}
        /\ logs' = {l \in logs : Kept(l)} /\ given' = {g \in given : Kept(g)}
        /\ UNCHANGED <<key, files, fileReq>>
    BY DEF F!DeleteAccount
  <1>2. \A i \in ids : ~(\E x \in rows' : x.id = i)
    BY <1>1 DEF FilesInv, F!TypeOK
  <1>3. rows' \subseteq rows /\ logs' \subseteq logs /\ given' \subseteq given
    BY <1>1
  <1>4. \A a, i : <<a, i>> \in logs /\ a # u /\ i \notin ids => <<a, i>> \in logs'
    BY <1>1
  <1>5. \A g \in given' : g \in given /\ g[1] # u /\ g[2] \notin ids
    BY <1>1
  <1>6. \A l \in logs : l[1] # u /\ l[2] \notin ids => l \in logs'
    BY <1>1
  <1> HIDE DEF ids, Kept
  <1>7. F!TypeOK'
    BY <1>1, <1>3 DEF FilesInv, F!TypeOK
  <1>8. FilesNumbered'
    BY <1>1, <1>3 DEF FilesInv, FilesNumbered
  <1>9. InsertPending'
    <2>1. \A r \in Requests : ~F!HasRow(fileReq[r].id) => ~(\E x \in rows' : x.id = fileReq[r].id)
      BY <1>3 DEF F!HasRow
    <2> QED
      BY <1>1, <1>3, <2>1 DEF FilesInv, InsertPending, F!HasRow
  <1>10. DownloadsWatched'
    <2> SUFFICES ASSUME NEW r \in Requests
                 PROVE  /\ fileReq[r].pc \in {"log", "serve"} => fileReq[r].actor \in {Admin}
                        /\ fileReq[r].pc = "serve" =>
                              \/ <<fileReq[r].actor, fileReq[r].id>> \in logs'
                              \/ fileReq[r].actor \notin present'
                              \/ ~(\E x \in rows' : x.id = fileReq[r].id)
      BY <1>1 DEF DownloadsWatched, F!HasRow
    <2> QED
      BY <1>1, <1>2, <1>3, <1>4 DEF FilesInv, DownloadsWatched, F!HasRow
  <1>11. F!DocumentsHeld'
    BY <1>1, <1>3 DEF FilesInv, F!DocumentsHeld
  <1>12. F!Audited'
    BY <1>1, <1>3, <1>5, <1>6 DEF FilesInv, F!Audited, F!HasRow
  <1> QED
    BY <1>7, <1>8, <1>9, <1>10, <1>11, <1>12 DEF FilesInv

\* The server comes up again, without any request.
LEMMA FilesRestart ==
    ASSUME F!FilesAssumption, FilesInv, F!Restart
    PROVE  FilesInv'
  <1>1. /\ key' \in Keys \cup {NoKey} /\ UNCHANGED <<present, files, rows, logs, given>>
        /\ fileReq' \in [Requests -> F!Request] /\ \A r \in Requests : fileReq'[r].pc = "idle"
    BY FileIdle DEF F!Restart
  <1> QED
    BY <1>1 DEF FilesInv, F!TypeOK, FilesNumbered, InsertPending, DownloadsWatched, F!DocumentsHeld, F!Audited, F!HasRow

\* FilesInv is inductive.
LEMMA FilesKept == F!FilesAssumption /\ FilesInv /\ [F!Next]_F!vars => FilesInv'
  <1> SUFFICES ASSUME F!FilesAssumption, FilesInv, [F!Next]_F!vars PROVE FilesInv'
    OBVIOUS
  <1>1. ASSUME UNCHANGED F!vars PROVE FilesInv'
    BY <1>1 DEF F!vars, FilesInv, F!TypeOK, FilesNumbered, InsertPending, DownloadsWatched, F!DocumentsHeld,
                F!Audited, F!HasRow
  <1> QED
    BY <1>1, FileSaved, FileRowInserted, DownloadReads, DownloadLogs, DownloadServes,
       FileAborts, FilesOfDeleted, FilesRestart DEF F!Next

-----------------------------------------------------------------------------

-----------------------------------------------------------------------------
(* The instance as a whole: a step of one part is a step of each other part *)
(* that leaves its state alone.                                             *)

LEMMA StepOfParts ==
    ASSUME [PartsNext]_partsVars
    PROVE  /\ [Next]_vars /\ [O!Next]_oauthVars /\ [R!Next]_resetVars
           /\ [B!Next]_bestVars /\ [V!Next]_viewVars /\ [N!Next]_noticeVars
           /\ [L!Next]_listVars /\ [F!Next]_fileVars /\ part' = part
  BY DEF PartsNext, AdminStep, OAuthStep, ResetStep, BestStep, ViewStep, NoticeStep,
         ListStep, FileStep, partsVars

\* Running the parts side by side adds no behaviour to any of them: the instance
\* implements the specification of each (the modules of src/ share no state).
THEOREM PartsImplemented ==
    PartsSpec => /\ Spec /\ O!Spec /\ R!Spec /\ B!Spec
                 /\ V!Spec /\ N!Spec /\ L!Spec /\ F!Spec
  <1>1. PartsInit => /\ Init /\ O!Init /\ R!Init /\ B!Init
                     /\ V!Init /\ N!Init /\ L!Init /\ F!Init
    BY DEF PartsInit
  <1>2. [PartsNext]_partsVars =>
           /\ [Next]_vars /\ [O!Next]_(O!vars) /\ [R!Next]_(R!vars) /\ [B!Next]_(B!vars)
           /\ [V!Next]_(V!vars) /\ [N!Next]_(N!vars) /\ [L!Next]_(L!vars) /\ [F!Next]_(F!vars)
    BY StepOfParts DEF oauthVars, resetVars, bestVars, viewVars, noticeVars, listVars,
       fileVars, O!vars, R!vars, B!vars, V!vars, N!vars, L!vars, F!vars
  <1> QED
    BY <1>1, <1>2, PTL DEF PartsSpec, Spec, O!Spec, R!Spec, B!Spec, V!Spec, N!Spec,
       L!Spec, F!Spec

\* The inductive invariant of the instance.
PartsInv ==
    /\ part \in Parts
    /\ TypeOK /\ ViewInv /\ ListInv /\ OAuthInv
    /\ BestInv /\ ResetInv /\ NoticeInv /\ FilesInv

LEMMA PartsStart ==
    ASSUME PartsAssumption, PartsInit
    PROVE  PartsInv
  BY TypeInit, ViewStarts, ListStarts, OAuthStarts, BestStarts, ResetStarts,
     NoticeStarts, FilesStart
  DEF PartsAssumption, PartsInit, PartsInv

LEMMA PartsStep ==
    ASSUME PartsAssumption, PartsInv, [PartsNext]_partsVars
    PROVE  PartsInv'
  <1>1. TypeOK'
    BY StepOfParts, TypeStep DEF PartsAssumption, PartsInv
  <1>2. ViewInv'
    BY StepOfParts, ViewKept DEF PartsAssumption, PartsInv
  <1>3. ListInv'
    BY StepOfParts, ListKept DEF PartsAssumption, PartsInv
  <1>4. OAuthInv'
    BY StepOfParts, OAuthKept DEF PartsAssumption, PartsInv
  <1>5. BestInv'
    BY StepOfParts, BestKept DEF PartsAssumption, PartsInv
  <1>6. ResetInv'
    BY StepOfParts, ResetKept DEF PartsAssumption, PartsInv
  <1>7. NoticeInv'
    BY StepOfParts, NoticeKept DEF PartsAssumption, PartsInv
  <1>8. FilesInv'
    BY StepOfParts, FilesKept DEF PartsAssumption, PartsInv, fileVars, F!vars
  <1>9. (part \in Parts)'
    BY StepOfParts DEF PartsInv
  <1> QED
    BY <1>1, <1>2, <1>3, <1>4, <1>5, <1>6, <1>7, <1>8, <1>9 DEF PartsInv

LEMMA PartsHold == PartsAssumption => (PartsSpec => []PartsInv)
  <1> SUFFICES ASSUME PartsAssumption PROVE PartsSpec => []PartsInv
    OBVIOUS
  <1>1. PartsInit => PartsInv
    BY PartsStart
  <1>2. PartsInv /\ [PartsNext]_partsVars => PartsInv'
    BY PartsStep
  <1> QED
    BY <1>1, <1>2, PTL DEF PartsSpec

\* Every part keeps to its types, whichever of them moves (MCParts).
THEOREM PartsTypes == PartsAssumption => (PartsSpec => []PartsTypeOK)
  <1> SUFFICES ASSUME PartsAssumption PROVE PartsSpec => []PartsTypeOK
    OBVIOUS
  <1>1. PartsInv => PartsTypeOK
    BY DEF PartsTypeOK, PartsInv, ViewInv, ListInv, OAuthInv, BestInv, ResetInv,
       NoticeInv, FilesInv
  <1> QED
    BY <1>1, PartsHold, PTL

\* A view is forgotten within its time only when as many others came since as
\* the map keeps when it makes room (view-tracker.util.ts).
THEOREM ViewsRemembered == PartsAssumption => (PartsSpec => []WindowKept)
  <1> SUFFICES ASSUME PartsAssumption PROVE PartsSpec => []WindowKept
    OBVIOUS
  <1>1. PartsInv => WindowKept
    BY DEF PartsInv, ViewInv, WindowKept
  <1> QED
    BY <1>1, PartsHold, PTL

\* One who pages through the notices until a page is empty misses none that was
\* there at the start, though new ones arrive (notifications.service.ts).
THEOREM PagingMissesNone == PartsAssumption => (PartsSpec => []PagingComplete)
  <1> SUFFICES ASSUME PartsAssumption PROVE PartsSpec => []PagingComplete
    OBVIOUS
  <1>1. PartsInv => PagingComplete
    BY ListEnough DEF PartsInv, PagingComplete
  <1> QED
    BY <1>1, PartsHold, PTL

\* A one-time code is exchanged for its token at most once for every request
\* that was going on, through losses of Redis and restarts (auth.service.ts).
THEOREM ExchangesAreBounded == PartsAssumption => (PartsSpec => []HandedBounded)
  <1> SUFFICES ASSUME PartsAssumption PROVE PartsSpec => []HandedBounded
    OBVIOUS
  <1>1. PartsInv => HandedBounded
    BY HandedEnough DEF PartsInv, HandedBounded, PartsAssumption
  <1> QED
    BY <1>1, PartsHold, PTL

\* While Redis is away a login keeps the map of codes within its limit, and what
\* it evicts would have expired first (auth.service.ts, generateOAuthCode).
THEOREM OldestEvicted == PartsAssumption => (PartsSpec => EvictsOldest)
  <1> SUFFICES ASSUME PartsAssumption PROVE PartsSpec => EvictsOldest
    OBVIOUS
  <1> DEFINE Fair(c) ==
                /\ O!Cardinality(fallback') <= MaxFallback
                /\ \E e \in fallback' : e.code = c
                /\ \A e \in fallback \ fallback', f \in fallback' :
                      e.expiresAt <= f.expiresAt
  <1>1. PartsInv => \A c \in Codes : O!GenerateFallback(c) => Fair(c)
    BY EvictionFair DEF PartsInv, PartsAssumption
  <1>2. PartsInv => [\A c \in Codes : O!GenerateFallback(c) => Fair(c)]_(O!vars)
    BY <1>1
  <1> QED
    BY <1>2, PartsHold, PTL DEF EvictsOldest, O!EvictsOldest

\* The answers marked best to one question never outnumber the markings of it
\* that went on at one time (answers.service.ts, markAsBest).
THEOREM BestAnswersBounded == PartsAssumption => (PartsSpec => []BestBounded)
  <1> SUFFICES ASSUME PartsAssumption PROVE PartsSpec => []BestBounded
    OBVIOUS
  <1>1. PartsInv => BestBounded
    BY BestEnough DEF PartsInv, BestBounded, PartsAssumption
  <1> QED
    BY <1>1, PartsHold, PTL

\* A link to reset a password sets it at most once for every request that
\* was going on (auth.service.ts, resetPassword).
THEOREM ResetsAreBounded == PartsAssumption => (PartsSpec => []ResetsBounded)
  <1> SUFFICES ASSUME PartsAssumption PROVE PartsSpec => []ResetsBounded
    OBVIOUS
  <1>1. PartsInv => ResetsBounded
    BY ResetEnough DEF PartsInv, ResetsBounded, PartsAssumption
  <1> QED
    BY <1>1, PartsHold, PTL

\* The requests for a link leave an account at most as many links that still
\* work as there were requests at one time (auth.service.ts, forgotPassword).
THEOREM OpenTokensBounded == PartsAssumption => (PartsSpec => []OpenBounded)
  <1> SUFFICES ASSUME PartsAssumption PROVE PartsSpec => []OpenBounded
    OBVIOUS
  <1>1. PartsInv => OpenBounded
    BY ResetEnough DEF PartsInv, OpenBounded, PartsAssumption
  <1> QED
    BY <1>1, PartsHold, PTL

\* Every notice of a comment, a reply or a mention is about a comment that was
\* committed and goes to the one it concerns, and nobody is told of a comment
\* the same thing twice (notifications.service.ts, comments.service.ts).
THEOREM NoticesHaveCause == PartsAssumption => (PartsSpec => []NoticeHasCause)
  <1> SUFFICES ASSUME PartsAssumption PROVE PartsSpec => []NoticeHasCause
    OBVIOUS
  <1>1. PartsInv => NoticeHasCause
    BY NoticeEnough DEF PartsInv, NoticeHasCause
  <1> QED
    BY <1>1, PartsHold, PTL

\* The document of every request for verification is on the disk, whenever the
\* server died (verifications.service.ts), and opens as its row says if it is
\* no file of the first version whose first byte is 2.
THEOREM DocumentsAreKept == PartsAssumption => (PartsSpec => []DocumentsHeld)
  <1> SUFFICES ASSUME PartsAssumption PROVE PartsSpec => []DocumentsHeld
    OBVIOUS
  <1>1. PartsInv => DocumentsHeld
    BY DEF PartsInv, FilesInv, DocumentsHeld
  <1> QED
    BY <1>1, PartsHold, PTL

\* Every document an administrator was given is in the log of accesses, as long
\* as both are there (admin.controller.ts).
THEOREM DownloadsAreAudited == PartsAssumption => (PartsSpec => []Audited)
  <1> SUFFICES ASSUME PartsAssumption PROVE PartsSpec => []Audited
    OBVIOUS
  <1>1. PartsInv => Audited
    BY DEF PartsInv, FilesInv, Audited
  <1> QED
    BY <1>1, PartsHold, PTL
=============================================================================
