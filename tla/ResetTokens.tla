---------------------------- MODULE ResetTokens -----------------------------
(***************************************************************************)
(* The mailed tokens with which a forgotten password is replaced           *)
(* (forgotPassword and resetPassword in auth.service.ts).  The token is    *)
(* read and checked, the new password is hashed meanwhile, and a           *)
(* transaction sets it and marks the token used, whatever the token has    *)
(* become by then.  The sessions it ends are in module Sessions.           *)
(***************************************************************************)
EXTENDS Integers, FiniteSets

CONSTANTS
    Users,      \* accounts with a password
    Requests,
    MaxTokens   \* bound: no token is asked for after this many

ResetAssumption ==
    IsFiniteSet(Requests) /\ Users # {} /\ MaxTokens \in Nat

VARIABLES
    status,   \* account: "live" or "gone"
    tokens,   \* rows of password_reset_tokens
    lastId,
    uses,     \* history: how often the token set the password
    req

vars == <<status, tokens, lastId, uses, req>>

Token == [id : Nat, user : Users, used : BOOLEAN, expired : BOOLEAN]
Request == [pc : {"idle", "invalidate", "create", "commit"},
            user : Users, id : Nat]
Idle == [pc |-> "idle", user |-> CHOOSE u \in Users : TRUE, id |-> 0]

\* Types; ids are unique and below the counter.
TypeOK ==
    /\ status \in [Users -> {"live", "gone"}]
    /\ tokens \subseteq Token
    /\ lastId \in Nat
    /\ uses \in [1 .. lastId -> Nat]
    /\ req \in [Requests -> Request]
    /\ \A s \in tokens : s.id \in 1 .. lastId
    /\ \A s, t \in tokens : s.id = t.id => s = t

-----------------------------------------------------------------------------
WithId(id) == {t \in tokens : t.id = id}
Finish(r) == req' = [req EXCEPT ![r] = Idle]

Init ==
    /\ status = [u \in Users |-> "live"]
    /\ tokens = {} /\ lastId = 0 /\ uses = <<>>
    /\ req = [r \in Requests |-> Idle]

\* forgotPassword finds the account ...
ForgotRead(r, u) ==
    /\ req[r].pc = "idle" /\ lastId < MaxTokens /\ status[u] = "live"
    /\ req' = [req EXCEPT ![r] = [pc |-> "invalidate", user |-> u, id |-> 0]]
    /\ UNCHANGED <<status, tokens, lastId, uses>>

\* Mutant of ForgotInvalidate: the old tokens are left alone.
ForgotKeeps(r) ==
    /\ req[r].pc = "invalidate"
    /\ req' = [req EXCEPT ![r].pc = "create"]
    /\ UNCHANGED <<status, tokens, lastId, uses>>

\* ... invalidates its unused tokens ...
ForgotInvalidate(r) ==
    /\ req[r].pc = "invalidate"
    /\ tokens' = {[t EXCEPT !.used = @ \/ t.user = req[r].user] : t \in tokens}
    /\ req' = [req EXCEPT ![r].pc = "create"]
    /\ UNCHANGED <<status, lastId, uses>>

\* ... and creates and mails a new one, unless the account is gone.
ForgotCreate(r) ==
    /\ req[r].pc = "create"
    /\ IF status[req[r].user] = "live"
         THEN /\ tokens' = tokens \cup {[id |-> lastId + 1, user |-> req[r].user,
                                         used |-> FALSE, expired |-> FALSE]}
              /\ lastId' = lastId + 1
              /\ uses' = [i \in 1 .. lastId + 1 |->
                             IF i = lastId + 1 THEN 0 ELSE uses[i]]
         ELSE UNCHANGED <<tokens, lastId, uses>>
    /\ Finish(r)
    /\ UNCHANGED status

\* Mutant of Valid: usedAt is not looked at.
ValidUsed(t) == ~t.expired

Valid(t) == ~t.used /\ ~t.expired

\* resetPassword reads the token and checks it.
ResetRead(r) ==
    /\ req[r].pc = "idle"
    /\ \E t \in tokens :
          /\ Valid(t)
          /\ req' = [req EXCEPT ![r] = [pc |-> "commit", user |-> t.user, id |-> t.id]]
    /\ UNCHANGED <<status, tokens, lastId, uses>>

\* Its transaction; the token of a deleted account is gone.
ResetCommit(r) ==
    LET id == req[r].id IN
    /\ req[r].pc = "commit"
    /\ IF WithId(id) # {}
         THEN /\ tokens' = {[t EXCEPT !.used = @ \/ t.id = id] : t \in tokens}
              /\ uses' = [uses EXCEPT ![id] = @ + 1]
         ELSE UNCHANGED <<tokens, uses>>
    /\ Finish(r)
    /\ UNCHANGED <<status, lastId>>

\* The account is deleted and its tokens with it.
DeleteUser(u) ==
    /\ status[u] = "live"
    /\ status' = [status EXCEPT ![u] = "gone"]
    /\ tokens' = {t \in tokens : t.user # u}
    /\ UNCHANGED <<lastId, uses, req>>

\* An hour passes for every token up to some id.
Expire ==
    /\ \E t \in tokens :
          /\ ~t.expired
          /\ tokens' = {[s EXCEPT !.expired = @ \/ s.id <= t.id] : s \in tokens}
    /\ UNCHANGED <<status, lastId, uses, req>>

\* The server dies, or one of a request's statements fails.
Abort(r) ==
    /\ req[r].pc # "idle"
    /\ Finish(r)
    /\ UNCHANGED <<status, tokens, lastId, uses>>

Next ==
    \/ \E r \in Requests :
          \/ \E u \in Users : ForgotRead(r, u)
          \/ ForgotInvalidate(r) \/ ForgotCreate(r)
          \/ ResetRead(r) \/ ResetCommit(r) \/ Abort(r)
    \/ \E u \in Users : DeleteUser(u)
    \/ Expire

Spec == Init /\ [][Next]_vars

-----------------------------------------------------------------------------
\* A token that is used twice was presented by requests that overlapped: it
\* sets the password at most once for every request in progress.
ResetsBounded == \A i \in 1 .. lastId : uses[i] <= Cardinality(Requests)

\* Requests for a token that overlap leave each its own token open, and the
\* next one closes them all.
OpenBounded ==
    \A u \in Users : Cardinality({t \in tokens : t.user = u /\ Valid(t)})
                       <= Cardinality(Requests)

\* What auth.service.ts:603 says, and overlapping requests refute: a token that
\* was used is refused.
UsedOnce == \A i \in 1 .. lastId : uses[i] <= 1
=============================================================================
