----------------------------- MODULE EmailCodes -----------------------------
(***************************************************************************)
(* The six-digit codes that verify an e-mail address (sendVerificationEmail*)
(* and verifyEmail in auth.service.ts), and the profile update that takes  *)
(* the verification back when the address changes (users.service.ts).      *)
(*                                                                         *)
(* Neither operation is a transaction but for the last two writes of       *)
(* verifyEmail: every await is a step, and what verifyEmail read of the    *)
(* code and of its account may be stale when it uses it.  Rows are never   *)
(* deleted but with their account, and the hash of the digits is unique    *)
(* over all of them.                                                       *)
(***************************************************************************)
EXTENDS Integers, FiniteSets

CONSTANTS
    Users, Requests,
    Digits,        \* the possible codes
    MaxAttempts,   \* default of the column maxAttempts
    MaxCodes,      \* bound: no code is begun after this many
    MaxAddresses   \* bound on the addresses one account has in turn

ASSUME CodesAssumption ==
    /\ IsFiniteSet(Requests) /\ Users # {} /\ Digits # {}
    /\ MaxAttempts \in Nat \ {0} /\ MaxCodes \in Nat /\ MaxAddresses \in Nat

VARIABLES
    status,     \* account: "none", "live" or "gone"
    address,    \* how often the account's address has changed
    verified,   \* the column isVerified
    codes,      \* rows of email_verification_tokens
    lastId,     \* id of the latest code
    proven,     \* history: the address of the last code that verified
    req

vars == <<status, address, verified, codes, lastId, proven, req>>
account == <<status, address, verified, proven>>

\* used: verifiedAt is set; address: the one the code was mailed to.
Code == [id : Nat, user : Users, digits : Digits, address : Nat,
         attempts : Nat, used : BOOLEAN, expired : BOOLEAN]
Request == [pc : {"idle", "invalidate", "create", "bump", "retire", "commit"},
            user : Users, address : Nat, id : Nat, read : Nat,
            right : BOOLEAN, verified : BOOLEAN]

Idle == [pc |-> "idle", user |-> CHOOSE u \in Users : TRUE, address |-> 0,
         id |-> 0, read |-> 0, right |-> FALSE, verified |-> FALSE]

\* Types; ids are unique and the hash of the digits is, too.
TypeOK ==
    /\ status \in [Users -> {"none", "live", "gone"}]
    /\ address \in [Users -> Nat]
    /\ verified \in [Users -> BOOLEAN]
    /\ codes \subseteq Code
    /\ lastId \in Nat
    /\ proven \in [Users -> Int]
    /\ req \in [Requests -> Request]
    /\ \A c, d \in codes : c.id = d.id \/ c.digits = d.digits => c = d

-----------------------------------------------------------------------------
Unused(u) == {c \in codes : c.user = u /\ ~c.used}

\* The newest of the user's unused codes that have not expired.
Latest(u) ==
    {c \in Unused(u) : /\ ~c.expired
                       /\ \A d \in Unused(u) : ~d.expired => d.id <= c.id}

WithId(id) == {c \in codes : c.id = id}
Changed(id, new(_)) == {IF c.id = id THEN new(c) ELSE c : c \in codes}
Used(c) == [c EXCEPT !.used = TRUE]
Bumped(c) == [c EXCEPT !.attempts = @ + 1]

Goto(r, pc) == req' = [req EXCEPT ![r].pc = pc]
Finish(r) == req' = [req EXCEPT ![r] = Idle]

Init ==
    /\ status = [u \in Users |-> "none"]
    /\ address = [u \in Users |-> 0]
    /\ verified = [u \in Users |-> FALSE]
    /\ codes = {} /\ lastId = 0
    /\ proven = [u \in Users |-> -1]
    /\ req = [r \in Requests |-> Idle]

\* register creates the account and sends the first code; a failure to send
\* is caught there.
Register(r, u) ==
    /\ req[r].pc = "idle" /\ status[u] = "none"
    /\ status' = [status EXCEPT ![u] = "live"]
    /\ req' = [req EXCEPT ![r] = [Idle EXCEPT !.pc = "invalidate", !.user = u]]
    /\ UNCHANGED <<address, verified, codes, lastId, proven>>

\* resendVerificationEmail reads the account.
Resend(r, u) ==
    /\ req[r].pc = "idle" /\ lastId < MaxCodes
    /\ status[u] = "live" /\ ~verified[u]
    /\ req' = [req EXCEPT ![r] = [Idle EXCEPT !.pc = "invalidate", !.user = u,
                                    !.address = address[u]]]
    /\ UNCHANGED <<account, codes, lastId>>

SendInvalidate(r) ==
    /\ req[r].pc = "invalidate"
    /\ codes' = {IF c.user = req[r].user THEN Used(c) ELSE c : c \in codes}
    /\ Goto(r, "create")
    /\ UNCHANGED <<account, lastId>>

\* Mutant of HashFree: the hash is unique per account only.
HashFreeOfUser(u, d) == \A c \in codes : ~(c.user = u /\ c.digits = d)

\* The unique index over the hashes looks at the codes of every account.
HashFree(u, d) == \A c \in codes : c.digits # d

\* The code is drawn, its row created and the mail sent.  A hash that is
\* taken, or an account that is gone, ends the request without a code.
SendCreate(r) ==
    LET u == req[r].user IN
    /\ req[r].pc = "create"
    /\ \E d \in Digits :
         IF status[u] = "live" /\ HashFree(u, d)
           THEN /\ codes' = codes \cup
                      {[id |-> lastId + 1, user |-> u, digits |-> d,
                        address |-> req[r].address, attempts |-> 0,
                        used |-> FALSE, expired |-> FALSE]}
                /\ lastId' = lastId + 1
           ELSE UNCHANGED <<codes, lastId>>
    /\ Finish(r)
    /\ UNCHANGED account

\* Mutant of Exhausted: the limit is not looked at.
ExhaustedNever(c) == FALSE

Exhausted(c) == c.attempts >= MaxAttempts

\* verifyEmail finds the newest code and its account.
VerifyRead(r, u, guess) ==
    /\ req[r].pc = "idle"
    /\ \E c \in Latest(u) :
          req' = [req EXCEPT ![r] =
                    [pc |-> IF Exhausted(c) THEN "retire" ELSE "bump",
                     user |-> u, address |-> c.address, id |-> c.id,
                     read |-> c.attempts, right |-> c.digits = guess,
                     verified |-> verified[u]]]
    /\ UNCHANGED <<account, codes, lastId>>

\* Mutant of Last: the attempt just made is counted twice.
LastEarly(r) == MaxAttempts - req[r].read - 2 <= 0

\* remainingAttempts, from what was read before the increment.
Last(r) == MaxAttempts - req[r].read - 1 <= 0

\* The attempt is counted before the digits are compared.
VerifyBump(r) ==
    /\ req[r].pc = "bump"
    /\ codes' = Changed(req[r].id, Bumped)
    /\ IF WithId(req[r].id) = {}
         THEN Finish(r)
         ELSE CASE ~req[r].right /\ Last(r) -> Goto(r, "retire")
                [] req[r].right /\ ~req[r].verified -> Goto(r, "commit")
                [] OTHER -> Finish(r)
    /\ UNCHANGED <<account, lastId>>

\* Too many attempts: the code is invalidated.
VerifyRetire(r) ==
    /\ req[r].pc = "retire"
    /\ codes' = Changed(req[r].id, Used)
    /\ Finish(r)
    /\ UNCHANGED <<account, lastId>>

\* One transaction: the account is verified and the code used up.
VerifyCommit(r) ==
    LET u == req[r].user IN
    /\ req[r].pc = "commit"
    /\ IF WithId(req[r].id) # {}
         THEN /\ verified' = [verified EXCEPT ![u] = TRUE]
              /\ proven' = [proven EXCEPT ![u] = req[r].address]
              /\ codes' = Changed(req[r].id, Used)
         ELSE UNCHANGED <<verified, proven, codes>>
    /\ Finish(r)
    /\ UNCHANGED <<status, address, lastId>>

\* users.update with a new address; the codes stay as they are.
ChangeEmail(u) ==
    /\ status[u] = "live" /\ address[u] < MaxAddresses
    /\ address' = [address EXCEPT ![u] = @ + 1]
    /\ verified' = [verified EXCEPT ![u] = FALSE]
    /\ UNCHANGED <<status, codes, lastId, proven, req>>

\* The account is deleted and its codes with it.
DeleteUser(u) ==
    /\ status[u] = "live"
    /\ status' = [status EXCEPT ![u] = "gone"]
    /\ verified' = [verified EXCEPT ![u] = FALSE]
    /\ codes' = {c \in codes : c.user # u}
    /\ UNCHANGED <<address, lastId, proven, req>>

\* Ten minutes pass for every code up to some id.
Expire ==
    /\ \E c \in codes :
          /\ ~c.expired
          /\ codes' = {[d EXCEPT !.expired = @ \/ d.id <= c.id] : d \in codes}
    /\ UNCHANGED <<account, lastId, req>>

\* The server dies, or one of a request's statements fails.
Abort(r) ==
    /\ req[r].pc # "idle"
    /\ Finish(r)
    /\ UNCHANGED <<account, codes, lastId>>

Start(r) ==
    \E u \in Users :
        \/ Register(r, u) \/ Resend(r, u)
        \/ \E guess \in Digits : VerifyRead(r, u, guess)

Continue(r) ==
    \/ SendInvalidate(r) \/ SendCreate(r)
    \/ VerifyBump(r) \/ VerifyRetire(r) \/ VerifyCommit(r)

Next ==
    \/ \E r \in Requests : Start(r) \/ Continue(r) \/ Abort(r)
    \/ \E u \in Users : ChangeEmail(u) \/ DeleteUser(u)
    \/ Expire

Spec == Init /\ [][Next]_vars

-----------------------------------------------------------------------------
(* What the codes promise.                                                 *)

\* Guesses that race each other pass the check of one count together, but no
\* more of them than there are requests: a code is tried at most MaxAttempts
\* times and once more for every other request in progress.
GuessesBounded ==
    \A c \in codes : c.attempts <= MaxAttempts + Cardinality(Requests) - 1

\* A code is taken out of use only by the owner's request for a new one, by
\* the attempts that exhausted it, or by verifying the account.
RetiredForCause ==
    [][\A c \in codes : (\A d \in codes' : d.id = c.id => d.used) /\ ~c.used =>
          \/ c.attempts >= MaxAttempts
          \/ verified'[c.user]
          \/ status'[c.user] = "gone"
          \/ \E r \in Requests : /\ req[r].pc = "invalidate"
                                 /\ req[r].user = c.user
                                 /\ req'[r].pc = "create"]_vars

-----------------------------------------------------------------------------
(* What comments of the code say of it, and the code does not do.          *)

\* A code is tried at most MaxAttempts times (auth.service.ts:425).
AttemptLimit == \A c \in codes : c.attempts <= MaxAttempts

\* The codes an account has not used are invalidated before it gets a new one
\* (auth.service.ts:384): it never has two of them.
OneUnusedCode == \A u \in Users : Cardinality(Unused(u)) <= 1

\* A change of the address takes the verification back
\* (users.service.ts:117): an account is verified for the address it has.
VerifiedAddressProven == \A u \in Users : verified[u] => proven[u] = address[u]
=============================================================================
