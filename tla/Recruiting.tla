----------------------------- MODULE Recruiting -----------------------------
(***************************************************************************)
(* Job postings and the applications for them (applications.service.ts),   *)
(* and the daily job that closes postings whose deadline has passed        *)
(* (job-auto-close.service.ts).                                            *)
(*                                                                         *)
(* Every operation reads, decides and then writes without a transaction:   *)
(* an application is made, cancelled or decided on by what was read.       *)
(***************************************************************************)
EXTENDS Naturals, FiniteSets

CONSTANTS
    Users, Jobs, Requests,
    Recruiter,     \* who wrote a posting
    Anonymous,     \* postings written anonymously: their authorId is null
    MaxEdits       \* bound on the edits of one posting

ASSUME RecruitingAssumption ==
    /\ Recruiter \in [Jobs -> Users] /\ Anonymous \subseteq Jobs
    /\ Users # {} /\ Jobs # {} /\ MaxEdits \in Nat

VARIABLES
    users,       \* accounts that exist
    job,         \* rows of posts: exists, isRecruiting, isAutoClose, deadline
    edits,
    applications,
    isRunning,   \* the flag of JobAutoCloseService
    closing,     \* its statement is on the way
    req

cron == <<isRunning, closing>>
vars == <<users, job, edits, applications, cron, req>>

Statuses == {"pending", "reviewing", "accepted", "rejected", "cancelled"}
Job == [exists : BOOLEAN, recruiting : BOOLEAN, autoClose : BOOLEAN,
        passed : BOOLEAN]
Application == [job : Jobs, applicant : Users, status : Statuses]
Request == [pc : {"idle", "check", "create", "decide", "cancel"},
            job : Jobs, applicant : Users, status : Statuses]
Idle == [pc |-> "idle", job |-> CHOOSE j \in Jobs : TRUE,
         applicant |-> CHOOSE u \in Users : TRUE, status |-> "pending"]

Row(j, u) == {a \in applications : a.job = j /\ a.applicant = u}

\* Types; applications are those of existing accounts for existing postings.
TypeOK ==
    /\ users \subseteq Users
    /\ job \in [Jobs -> Job]
    /\ edits \in [Jobs -> Nat]
    /\ applications \subseteq Application
    /\ isRunning \in BOOLEAN /\ closing \in BOOLEAN
    /\ req \in [Requests -> Request]
    /\ \A a \in applications : a.applicant \in users /\ job[a.job].exists

-----------------------------------------------------------------------------
\* authorId of a posting; users can only edit and staff what bears their id.
Owns(u, j) == u = Recruiter[j] /\ j \notin Anonymous /\ u \in users

Finish(r) == req' = [req EXCEPT ![r] = Idle]
Begin(r, pc, j, u, status) ==
    req' = [req EXCEPT ![r] = [pc |-> pc, job |-> j, applicant |-> u,
                               status |-> status]]

Init ==
    /\ users = Users
    /\ job \in [Jobs -> [exists : {TRUE}, recruiting : {TRUE},
                         autoClose : BOOLEAN, passed : {FALSE}]]
    /\ edits = [j \in Jobs |-> 0]
    /\ applications = {}
    /\ isRunning = FALSE /\ closing = FALSE
    /\ req = [r \in Requests |-> Idle]

board == <<users, job, edits>>

\* create reads the posting, which must be open and not the applicant's own ...
ApplyRead(r, u, j) ==
    /\ req[r].pc = "idle" /\ u \in users
    /\ job[j].exists /\ job[j].recruiting /\ ~Owns(u, j)
    /\ Begin(r, "check", j, u, "pending")
    /\ UNCHANGED <<board, applications, cron>>

\* ... looks for an application that exists, cancelled or not ...
ApplyCheck(r) ==
    /\ req[r].pc = "check"
    /\ IF Row(req[r].job, req[r].applicant) = {}
         THEN req' = [req EXCEPT ![r].pc = "create"] ELSE Finish(r)
    /\ UNCHANGED <<board, applications, cron>>

\* Mutants of Insertable: no unique index; no foreign keys.
InsertableTwice(r) == req[r].applicant \in users /\ job[req[r].job].exists
InsertableLoose(r) == Row(req[r].job, req[r].applicant) = {}

Insertable(r) ==
    /\ req[r].applicant \in users /\ job[req[r].job].exists
    /\ Row(req[r].job, req[r].applicant) = {}

\* ... and creates it, open or not by now; the recruiter is notified.
ApplyCreate(r) ==
    /\ req[r].pc = "create"
    /\ applications' = IF Insertable(r)
          THEN applications \cup {[job |-> req[r].job, applicant |-> req[r].applicant,
                                   status |-> "pending"]}
          ELSE applications
    /\ Finish(r)
    /\ UNCHANGED <<board, cron>>

\* The update by id of an application that may be gone.
SetStatus(r, status) ==
    applications' = {IF a.job = req[r].job /\ a.applicant = req[r].applicant
                     THEN [a EXCEPT !.status = status] ELSE a : a \in applications}

\* updateStatus: the recruiter may set any status, whatever it was.
DecideRead(r, status) ==
    /\ req[r].pc = "idle"
    /\ \E a \in applications :
          /\ Owns(Recruiter[a.job], a.job)
          /\ Begin(r, "decide", a.job, a.applicant, status)
    /\ UNCHANGED <<board, applications, cron>>

DecideWrite(r) ==
    /\ req[r].pc = "decide"
    /\ SetStatus(r, req[r].status)
    /\ Finish(r)
    /\ UNCHANGED <<board, cron>>

\* cancel is refused for what was decided ...
CancelRead(r) ==
    /\ req[r].pc = "idle"
    /\ \E a \in applications :
          /\ a.status \notin {"accepted", "rejected"}
          /\ Begin(r, "cancel", a.job, a.applicant, "cancelled")
    /\ UNCHANGED <<board, applications, cron>>

\* ... when it was read.
CancelWrite(r) ==
    /\ req[r].pc = "cancel"
    /\ SetStatus(r, "cancelled")
    /\ Finish(r)
    /\ UNCHANGED <<board, cron>>

\* posts.update by the recruiter: any of the three columns.
Edit(j) ==
    /\ Owns(Recruiter[j], j) /\ job[j].exists /\ edits[j] < MaxEdits
    /\ edits' = [edits EXCEPT ![j] = @ + 1]
    /\ job' \in {[job EXCEPT ![j] = new] :
                    new \in [exists : {TRUE}, recruiting : BOOLEAN,
                             autoClose : BOOLEAN, passed : BOOLEAN]}
    /\ UNCHANGED <<users, applications, cron, req>>

\* posts.remove, with the applications.
RemoveJob(j) ==
    /\ job[j].exists
    /\ job' = [job EXCEPT ![j].exists = FALSE]
    /\ applications' = {a \in applications : a.job # j}
    /\ UNCHANGED <<users, edits, cron, req>>

\* An account is deleted; its applications go, its postings stay.
DeleteUser(u) ==
    /\ u \in users
    /\ users' = users \ {u}
    /\ applications' = {a \in applications : a.applicant # u}
    /\ UNCHANGED <<job, edits, cron, req>>

DeadlinePasses(j) ==
    /\ job[j].exists /\ ~job[j].passed
    /\ job' = [job EXCEPT ![j].passed = TRUE]
    /\ UNCHANGED <<users, edits, applications, cron, req>>

\* handleCron at midnight; a run that is still going on makes it return.
CronStart ==
    /\ ~isRunning
    /\ isRunning' = TRUE /\ closing' = TRUE
    /\ UNCHANGED <<board, applications, req>>

Due(j) == job[j].exists /\ job[j].recruiting /\ job[j].autoClose /\ job[j].passed

\* Mutant of CronEnd: the flag is not reset after a failure.
CronEndStuck(failed) == closing' = FALSE /\ isRunning' = failed

\* The finally block.
CronEnd(failed) == closing' = FALSE /\ isRunning' = FALSE

\* closeExpiredJobs: one statement over all postings.
CloseExpiredJobs ==
    /\ closing
    /\ job' = [j \in Jobs |-> [job[j] EXCEPT !.recruiting = @ /\ ~Due(j)]]
    /\ CronEnd(FALSE)
    /\ UNCHANGED <<users, edits, applications, req>>

\* The statement fails: it is logged.
CloseFails ==
    /\ closing
    /\ CronEnd(TRUE)
    /\ UNCHANGED <<board, applications, req>>

\* The server dies and starts again, the flag down.
Restart ==
    /\ req' = [r \in Requests |-> Idle]
    /\ isRunning' = FALSE /\ closing' = FALSE
    /\ UNCHANGED <<board, applications>>

Continue(r) ==
    \/ ApplyCheck(r) \/ ApplyCreate(r) \/ DecideWrite(r) \/ CancelWrite(r)

Next ==
    \/ \E r \in Requests :
          \/ \E u \in Users, j \in Jobs : ApplyRead(r, u, j)
          \/ \E status \in Statuses : DecideRead(r, status)
          \/ CancelRead(r) \/ Continue(r)
    \/ \E j \in Jobs : Edit(j) \/ RemoveJob(j) \/ DeadlinePasses(j)
    \/ \E u \in Users : DeleteUser(u)
    \/ CronStart \/ CloseExpiredJobs \/ CloseFails \/ Restart

Spec == Init /\ [][Next]_vars

-----------------------------------------------------------------------------
(* What the job board promises.                                            *)

\* However requests overlap, an account has one application for a posting,
\* whose status then changes; a cancelled one is not made a second time.
OneApplication ==
    \A a, b \in applications :
        a.job = b.job /\ a.applicant = b.applicant => a = b

\* Fairness: the clock starts the job again and again, and its statement does
\* not fail every single time.
FairSpec == Spec /\ WF_vars(CronStart) /\ SF_vars(CloseExpiredJobs)

\* A posting past its deadline is closed in the end (unless the recruiter
\* changes or deletes it), although runs are skipped, fail and die.
ExpiredClosed == \A j \in Jobs : Due(j) ~> ~Due(j)

-----------------------------------------------------------------------------
(* What comments of the code say of it, and the code does not do.          *)

\* An application that was decided on is not cancelled
\* (applications.service.ts:221).
DecidedNotCancelled ==
    [][\A r \in Requests : CancelWrite(r) =>
          \A a \in Row(req[r].job, req[r].applicant) :
              a.status \notin {"accepted", "rejected"}]_vars

\* Nobody applies for a posting of their own (applications.service.ts:46).
OwnPostingRefused ==
    \A a \in applications : a.applicant # Recruiter[a.job]
=============================================================================
