--------------------------- MODULE Administration ---------------------------
(***************************************************************************)
(* Who is an administrator.  The guard of the administration looks at the  *)
(* role written into the access token (roles.guard.ts); an account is      *)
(* read for its role only when a login or a rotation signs a token         *)
(* (auth.service.ts).  Changing a role or deleting an account              *)
(* (admin.service.ts) ends no session, so tokens outlive the role and even *)
(* the account.  Bans and logouts, which do end sessions, are in Sessions. *)
(***************************************************************************)
EXTENDS Integers, FiniteSets

CONSTANTS
    Users, Requests,
    FirstAdmins,   \* administrators to begin with
    AccessTtl,     \* lifetime of an access token
    MaxClock       \* bound on time

ASSUME AdminAssumption ==
    /\ FirstAdmins \subseteq Users /\ FirstAdmins # {}
    /\ AccessTtl \in Nat \ {0} /\ MaxClock \in Nat

VARIABLES
    clock,
    role,       \* "USER", "ADMIN", or "gone" for a deleted account
    tokens,     \* access tokens in the hands of clients
    req,
    lostAt,     \* history: when an account last ceased to be administrator
    signing,    \* history: whether a token with the lost role was being signed then
    unbacked,   \* history: a change was made by one who was no administrator any more
    left        \* history: an administrator deleted the own account

vars == <<clock, role, tokens, req, lostAt, signing, unbacked, left>>

Roles == {"USER", "ADMIN"}
Token == [user : Users, role : Roles, exp : Nat]
Request == [pc : {"idle", "sign", "role", "update", "user", "delete"},
            actor : Users \cup {"nobody"}, target : Users \cup {"nobody"},
            role : Roles]
Idle == [pc |-> "idle", actor |-> "nobody", target |-> "nobody", role |-> "USER"]

\* Types; no token outlives its time from now, and a request names accounts.
TypeOK ==
    /\ clock \in Nat
    /\ role \in [Users -> Roles \cup {"gone"}]
    /\ tokens \subseteq Token
    /\ \A t \in tokens : t.exp <= clock + AccessTtl
    /\ req \in [Requests -> Request]
    /\ \A r \in Requests : req[r].pc # "idle" =>
          req[r].actor \in Users /\ req[r].target \in Users
    /\ lostAt \in [Users -> Nat] /\ signing \in [Users -> BOOLEAN]
    /\ unbacked \in BOOLEAN /\ left \in BOOLEAN

-----------------------------------------------------------------------------
Exists(u) == role[u] # "gone"
Admins == {u \in Users : role[u] = "ADMIN"}
Finish(r) == req' = [req EXCEPT ![r] = Idle]
Goto(r, pc) == req' = [req EXCEPT ![r].pc = pc]

\* What history notes of a change of u's role from now on to x by actor a.
Note(a, u, x) ==
    LET loses == role[u] = "ADMIN" /\ x # "ADMIN" IN
    /\ lostAt' = [lostAt EXCEPT ![u] = IF loses THEN clock ELSE @]
    /\ signing' = [signing EXCEPT ![u] =
           IF loses THEN \E r \in Requests : /\ req[r].pc = "sign"
                                             /\ req[r].actor = u
                                             /\ req[r].role = "ADMIN"
                    ELSE @]
    /\ unbacked' = (unbacked \/ (a # u /\ role[a] # "ADMIN"))
    /\ left' = (left \/ (a = u /\ loses /\ x = "gone"))

Init ==
    /\ clock = 0
    /\ role = [u \in Users |-> IF u \in FirstAdmins THEN "ADMIN" ELSE "USER"]
    /\ tokens = {}
    /\ req = [r \in Requests |-> Idle]
    /\ lostAt = [u \in Users |-> 0] /\ signing = [u \in Users |-> FALSE]
    /\ unbacked = FALSE /\ left = FALSE

\* Mutant of SessionRead: a rotation copies the role of the token it replaces.
SessionCopies(r, u) ==
    /\ req[r].pc = "idle" /\ Exists(u)
    /\ \E x \in {role[u]} \cup {t.role : t \in {s \in tokens : s.user = u}} :
          req' = [req EXCEPT ![r] = [pc |-> "sign", actor |-> u, target |-> u,
                                     role |-> x]]
    /\ UNCHANGED <<clock, role, tokens, lostAt, signing, unbacked, left>>

\* A login or a rotation reads the account ...
SessionRead(r, u) ==
    /\ req[r].pc = "idle" /\ Exists(u)
    /\ req' = [req EXCEPT ![r] = [pc |-> "sign", actor |-> u, target |-> u,
                                  role |-> role[u]]]
    /\ UNCHANGED <<clock, role, tokens, lostAt, signing, unbacked, left>>

\* ... and hands out a token with the role it read.  The refresh token that
\* goes with it cannot be stored for a deleted account, and then none is.
SessionSign(r) ==
    LET u == req[r].actor IN
    /\ req[r].pc = "sign"
    /\ tokens' = IF Exists(u)
                   THEN tokens \cup {[user |-> u, role |-> req[r].role,
                                      exp |-> clock + AccessTtl]}
                   ELSE tokens
    /\ Finish(r)
    /\ UNCHANGED <<clock, role, lostAt, signing, unbacked, left>>

\* RolesGuard: the role in a token that has not expired.
Passes(t) == t.role = "ADMIN" /\ t.exp > clock

\* Mutant of Permitted: an administrator may change the own role.
PermittedSelf(actor, target) == TRUE

\* updateUserRole: "you cannot change your own role".
Permitted(actor, target) == actor # target

\* A request to change a role or to delete an account passes the guard.
Enter(r, t, u, pc) ==
    /\ req[r].pc = "idle" /\ t \in tokens /\ Passes(t)
    /\ pc = "role" => Permitted(t.user, u)
    /\ req' = [req EXCEPT ![r] = [pc |-> pc, actor |-> t.user, target |-> u,
                                  role |-> "USER"]]
    /\ UNCHANGED <<clock, role, tokens, lostAt, signing, unbacked, left>>

\* updateUserRole finds the account ...
RoleRead(r) ==
    /\ req[r].pc = "role" /\ Exists(req[r].target)
    /\ \E x \in Roles :
          req' = [req EXCEPT ![r] = [pc |-> "update", actor |-> @.actor,
                                     target |-> @.target, role |-> x]]
    /\ UNCHANGED <<clock, role, tokens, lostAt, signing, unbacked, left>>

\* ... and writes the new role; the update fails if it is gone.
RoleWrite(r) ==
    LET u == req[r].target IN
    /\ req[r].pc = "update"
    /\ IF Exists(u)
         THEN /\ role' = [role EXCEPT ![u] = req[r].role]
              /\ Note(req[r].actor, u, req[r].role)
         ELSE UNCHANGED <<role, lostAt, signing, unbacked, left>>
    /\ Finish(r)
    /\ UNCHANGED <<clock, tokens>>

\* deleteUser finds the account, which must not be an administrator's ...
DeleteRead(r) ==
    /\ req[r].pc = "user" /\ role[req[r].target] = "USER"
    /\ Goto(r, "delete")
    /\ UNCHANGED <<clock, role, tokens, lostAt, signing, unbacked, left>>

\* ... and deletes it, whatever its role is by now.  (It may be the own one.)
DeleteWrite(r) ==
    LET u == req[r].target IN
    /\ req[r].pc = "delete"
    /\ IF Exists(u)
         THEN role' = [role EXCEPT ![u] = "gone"] /\ Note(req[r].actor, u, "gone")
         ELSE UNCHANGED <<role, lostAt, signing, unbacked, left>>
    /\ Finish(r)
    /\ UNCHANGED <<clock, tokens>>

\* users.remove: anyone may leave, an administrator too.
Leave(u) ==
    /\ Exists(u)
    /\ role' = [role EXCEPT ![u] = "gone"]
    /\ Note(u, u, "gone")
    /\ UNCHANGED <<clock, tokens, req>>

\* Refused (no such account, an administrator's), failed, or the server died.
Abort(r) ==
    /\ req[r].pc # "idle"
    /\ Finish(r)
    /\ UNCHANGED <<clock, role, tokens, lostAt, signing, unbacked, left>>

\* Time passes; tokens that have expired open nothing any more.
Tick ==
    /\ clock < MaxClock
    /\ clock' = clock + 1
    /\ tokens' = {t \in tokens : t.exp > clock'}
    /\ UNCHANGED <<role, req, lostAt, signing, unbacked, left>>

Next ==
    \/ \E r \in Requests :
          \/ \E u \in Users : SessionRead(r, u)
          \/ SessionSign(r)
          \/ \E t \in tokens, u \in Users, pc \in {"role", "user"} : Enter(r, t, u, pc)
          \/ RoleRead(r) \/ RoleWrite(r) \/ DeleteRead(r) \/ DeleteWrite(r)
          \/ Abort(r)
    \/ \E u \in Users : Leave(u)
    \/ Tick

Spec == Init /\ [][Next]_vars

-----------------------------------------------------------------------------
\* One who is demoted or deleted has power for one lifetime of a token more,
\* unless a login or rotation of the account was under way when it happened.
PowerEnds ==
    \A t \in tokens :
        Passes(t) /\ role[t.user] # "ADMIN" /\ ~signing[t.user]
          => t.exp <= lostAt[t.user] + AccessTtl

\* As nobody changes the own role, the administrators cannot all lose theirs:
\* unless one acted without being one any more, or left.
AdminRemains == ~unbacked /\ ~left => Admins # {}

\* What admin.service.ts:195 says, and a promotion that comes between refutes:
\* an administrator's account cannot be deleted by another.
AdminsNotDeleted ==
    [][\A r \in Requests :
          req[r].pc = "delete" /\ req'[r].pc = "idle" /\ role[req[r].target] = "ADMIN"
            => role'[req[r].target] = "ADMIN"]_vars
=============================================================================
