-------------------------- MODULE DocumentReviews ---------------------------
(***************************************************************************)
(* Verification by documents: an account asks for it, an administrator     *)
(* decides (verifications.service.ts, admin.service.ts).  An approval      *)
(* marks the account as verified, as a mailed code does.  What was checked *)
(* at first, for a request and for a decision, is not looked at again when *)
(* it is written.  The files are in DocumentFiles.                         *)
(***************************************************************************)
EXTENDS Integers, FiniteSets

CONSTANTS
    Users,      \* accounts that ask for verification
    Admins,     \* administrators (other accounts)
    Requests,
    MaxRows     \* bound: no request is made after so many

ASSUME ReviewAssumption ==
    /\ Users # {} /\ Users \cap Admins = {}
    /\ IsFiniteSet(Requests) /\ MaxRows \in Nat

VARIABLES
    present,    \* accounts not deleted, administrators too
    verified,   \* accounts with isVerified
    rows,       \* verification_requests
    notices,    \* notices of decisions
    req,
    mailed,     \* history: accounts verified by mail since the address changed
    approved    \* history: ids of the rows approved since then

vars == <<present, verified, rows, notices, req, mailed, approved>>

Ids == 1 .. MaxRows + 2 * Cardinality(Requests)
Verdicts == {"APPROVED", "REJECTED", "PENDING"}   \* what the DTO lets through
\* decided and past are history: how often the request was decided since it
\* was last PENDING, and all it ever was.
Row == [id : Ids, user : Users, status : Verdicts,
        decided : Nat, past : SUBSET Verdicts]
\* A notice names neither the request nor the reason.
Notice == [user : Users, type : {"VERIFICATION_APPROVED", "VERIFICATION_REJECTED"}]
Request == [pc : {"idle", "insert", "commit", "notify"},
            actor : Users \cup Admins, id : Ids \cup {0}, verdict : Verdicts]
Idle == [pc |-> "idle", actor |-> CHOOSE u \in Users : TRUE, id |-> 0,
         verdict |-> "PENDING"]

\* Types; no two rows have one id; only one who exists is verified.
TypeOK ==
    /\ present \subseteq Users \cup Admins
    /\ verified \subseteq Users /\ verified \subseteq present /\ mailed \subseteq verified
    /\ rows \subseteq Row /\ \A x, y \in rows : x.id = y.id => x = y
    /\ \A x \in rows : x.user \in present
    /\ notices \subseteq Notice /\ \A n \in notices : n.user \in present
    /\ req \in [Requests -> Request]
    /\ approved \subseteq Ids

-----------------------------------------------------------------------------
Finish(r) == req' = [req EXCEPT ![r] = Idle]
RowsOf(u) == {x \in rows : x.user = u}
RowOf(i) == CHOOSE x \in rows : x.id = i
HasRow(i) == \E x \in rows : x.id = i
Named(i) == HasRow(i) \/ \E r \in Requests : req[r].id = i
NextId == CHOOSE i \in Ids : ~Named(i)
Waiting(u) == {x \in RowsOf(u) : x.past = {"PENDING"}}   \* never decided

Init ==
    /\ present = Users \cup Admins /\ verified = {}
    /\ rows = {} /\ notices = {}
    /\ req = [r \in Requests |-> Idle]
    /\ mailed = {} /\ approved = {}

\* create: "there is a request that waits already".
MayCreate(u) == \A x \in RowsOf(u) : x.status # "PENDING"

\* create looks for a request of the account that waits ...
CreateRead(r, u) ==
    /\ req[r].pc = "idle" /\ u \in present /\ MayCreate(u)
    /\ Cardinality(rows) < MaxRows
    /\ req' = [req EXCEPT ![r] = [Idle EXCEPT !.pc = "insert", !.actor = u]]
    /\ UNCHANGED <<present, verified, rows, notices, mailed, approved>>

\* Mutant of Insertable: no foreign key refuses the row.
InsertableGone(u) == TRUE

\* The foreign key: the account is there.
Insertable(u) == u \in present

\* ... and, with the file saved, inserts one.  It fails if the account is gone.
CreateInsert(r) ==
    LET u == req[r].actor IN
    /\ req[r].pc = "insert"
    /\ rows' = IF Insertable(u)
                 THEN rows \cup {[id |-> NextId, user |-> u, status |-> "PENDING",
                                  decided |-> 0, past |-> {"PENDING"}]}
                 ELSE rows
    /\ Finish(r)
    /\ UNCHANGED <<present, verified, notices, mailed, approved>>

\* Mutant of Undecided: a decision may be made again.
UndecidedAny(x) == TRUE

\* processVerification: "the request has been processed already".
Undecided(x) == x.status = "PENDING"

\* processVerification reads the request ...
ProcessRead(r, a, x, v) ==
    /\ req[r].pc = "idle" /\ a \in present /\ Undecided(x)
    /\ req' = [req EXCEPT ![r] = [pc |-> "commit", actor |-> a, id |-> x.id,
                                  verdict |-> v]]
    /\ UNCHANGED <<present, verified, rows, notices, mailed, approved>>

Decided(x, v) ==
    [x EXCEPT !.status = v, !.past = @ \cup {v},
              !.decided = IF v = "PENDING" THEN 0 ELSE @ + 1]

\* Mutant of ProcessCommit: row and account are not written in one transaction.
ProcessCommitApart(r) ==
    LET q == req[r]  x == RowOf(q.id) IN
    /\ q.pc = "commit" /\ HasRow(q.id) /\ q.actor \in present
    /\ rows' = (rows \ {x}) \cup {Decided(x, q.verdict)}
    /\ verified' \in IF q.verdict = "APPROVED"
                       THEN {verified, verified \cup {x.user}} ELSE {verified}
    /\ approved' = IF q.verdict = "APPROVED" THEN approved \cup {x.id} ELSE approved
    /\ req' = [req EXCEPT ![r].pc = "notify"]
    /\ UNCHANGED <<present, notices, mailed>>

\* ... and writes the verdict, whatever the request is by now, and with an
\* approval the account, in one transaction.  It fails when the one who
\* decides or the request is gone.
ProcessCommit(r) ==
    LET q == req[r]  x == RowOf(q.id) IN
    /\ q.pc = "commit" /\ HasRow(q.id) /\ q.actor \in present
    /\ rows' = (rows \ {x}) \cup {Decided(x, q.verdict)}
    /\ IF q.verdict = "APPROVED"
         THEN verified' = verified \cup {x.user} /\ approved' = approved \cup {x.id}
         ELSE UNCHANGED <<verified, approved>>
    /\ req' = [req EXCEPT ![r].pc = "notify"]
    /\ UNCHANGED <<present, notices, mailed>>

\* Then the account is told: whatever is no approval is a rejection.  The
\* insert of the notice fails when the account, and so its request, is gone.
Notify(r) ==
    LET q == req[r] IN
    /\ q.pc = "notify" /\ HasRow(q.id)
    /\ notices' = notices \cup
          {[user |-> RowOf(q.id).user,
            type |-> IF q.verdict = "APPROVED" THEN "VERIFICATION_APPROVED"
                                              ELSE "VERIFICATION_REJECTED"]}
    /\ Finish(r)
    /\ UNCHANGED <<present, verified, rows, mailed, approved>>

\* A statement fails, or the server dies, and with it what it had begun.
Abort(r) ==
    /\ req[r].pc # "idle"
    /\ Finish(r)
    /\ UNCHANGED <<present, verified, rows, notices, mailed, approved>>

\* users.update: another e-mail address is not verified.
ChangeEmail(u) ==
    /\ u \in present
    /\ verified' = verified \ {u} /\ mailed' = mailed \ {u}
    /\ approved' = approved \ {x.id : x \in RowsOf(u)}
    /\ UNCHANGED <<present, rows, notices, req>>

\* verifyEmail: a mailed code is entered; nothing happens if one is verified.
VerifyEmail(u) ==
    /\ u \in present \ verified
    /\ verified' = verified \cup {u} /\ mailed' = mailed \cup {u}
    /\ UNCHANGED <<present, rows, notices, req, approved>>

\* An account is deleted, with its requests and notices; of the requests an
\* administrator decided only the name of who did it goes.
DeleteAccount(u) ==
    /\ u \in present
    /\ present' = present \ {u}
    /\ verified' = verified \ {u} /\ mailed' = mailed \ {u}
    /\ approved' = approved \ {x.id : x \in RowsOf(u)}
    /\ rows' = rows \ RowsOf(u)
    /\ notices' = {n \in notices : n.user # u}
    /\ UNCHANGED req

Next ==
    \/ \E r \in Requests :
          \/ \E u \in Users : CreateRead(r, u)
          \/ CreateInsert(r)
          \/ \E a \in Admins, x \in rows, v \in Verdicts : ProcessRead(r, a, x, v)
          \/ ProcessCommit(r) \/ Notify(r) \/ Abort(r)
    \/ \E u \in Users : ChangeEmail(u) \/ VerifyEmail(u)
    \/ \E u \in Users \cup Admins : DeleteAccount(u)

Spec == Init /\ [][Next]_vars

-----------------------------------------------------------------------------
\* What the account says and what the requests say never part, whatever
\* decisions, changes of the address and crashes come between: the account of
\* a request approved since the last change of its address is verified, and
\* one that is verified got a mailed code or an approval since.
VerdictsMatchAccount ==
    /\ \A x \in rows : x.id \in approved => x.user \in verified
    /\ \A u \in verified : u \in mailed \/ \E x \in RowsOf(u) : x.id \in approved

\* The checks are made once and not again, so creations that overlap make
\* several requests that wait, and decisions that overlap overrule each other:
\* but never more than the server handles at once.
OverlapBounded ==
    /\ \A u \in Users : Cardinality(Waiting(u)) <= Cardinality(Requests)
    /\ \A x \in rows : x.decided <= Cardinality(Requests)

\* What schema.prisma says of the notice, and a verdict PENDING refutes: who
\* is told of a rejection was rejected.
RejectionNoticeTrue ==
    \A n \in notices : n.type = "VERIFICATION_REJECTED" =>
        \E x \in RowsOf(n.user) : "REJECTED" \in x.past

\* What verifications.service.ts checks and overlapping creations refute.
OneWaits == \A u \in Users : Cardinality(Waiting(u)) <= 1
=============================================================================
