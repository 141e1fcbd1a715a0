-------------------------- MODULE RecruitingProofs --------------------------
(***************************************************************************)
(* Theorems about Recruiting, for every number of accounts, postings and   *)
(* requests: an account has one application for a posting, and every       *)
(* application is of an account and for a posting that exist.              *)
(***************************************************************************)
EXTENDS Recruiting, TLAPS

\* The inductive invariant.
RecruitingInv == TypeOK /\ OneApplication

-----------------------------------------------------------------------------
\* A request that has not begun, or begins, is well typed.
LEMMA IdleType ==
    ASSUME RecruitingAssumption
    PROVE  Idle \in Request
  <1>1. (CHOOSE u \in Users : TRUE) \in Users /\ (CHOOSE j \in Jobs : TRUE) \in Jobs
    BY DEF RecruitingAssumption
  <1> QED
    BY <1>1 DEF Idle, Request, Statuses

LEMMA BeginType ==
    ASSUME RecruitingInv, NEW r \in Requests, NEW pc \in {"check", "decide", "cancel"},
           NEW j \in Jobs, NEW u \in Users, NEW status \in Statuses,
           Begin(r, pc, j, u, status)
    PROVE  req' \in [Requests -> Request]
  BY DEF Begin, Request, RecruitingInv, TypeOK

LEMMA FinishType ==
    ASSUME RecruitingAssumption, RecruitingInv, NEW r \in Requests, Finish(r)
    PROVE  req' \in [Requests -> Request]
  BY IdleType DEF Finish, RecruitingInv, TypeOK

\* Only the requests change, or the flags of the daily job, or edits.
LEMMA SameRows ==
    ASSUME RecruitingAssumption, RecruitingInv, UNCHANGED <<users, job, applications>>,
           edits' \in [Jobs -> Nat], isRunning' \in BOOLEAN, closing' \in BOOLEAN,
           req' \in [Requests -> Request]
    PROVE  RecruitingInv'
  BY DEF RecruitingInv, TypeOK, OneApplication

\* Another status for the applications of a request, and for no others, makes
\* no application of another account or for another posting.
LEMMA StatusSet ==
    ASSUME RecruitingAssumption, RecruitingInv, NEW r \in Requests,
           NEW status \in Statuses, SetStatus(r, status), Finish(r),
           UNCHANGED <<board, cron>>
    PROVE  RecruitingInv'
  <1> DEFINE New(a) == IF a.job = req[r].job /\ a.applicant = req[r].applicant
                         THEN [a EXCEPT !.status = status] ELSE a
  <1>1. \A a \in applications : /\ New(a) \in Application
                                /\ New(a).job = a.job /\ New(a).applicant = a.applicant
    BY DEF RecruitingInv, TypeOK, Application
  <1>2. applications' = {New(a) : a \in applications}
    BY DEF SetStatus
  <1> HIDE DEF New
  <1>3. \A b \in applications' : \E a \in applications :
           /\ b = New(a) /\ b \in Application
           /\ b.job = a.job /\ b.applicant = a.applicant
    BY <1>1, <1>2
  <1>4. UNCHANGED <<users, job, edits, isRunning, closing>>
    BY DEF board, cron
  <1>5. TypeOK'
    <2>1. req' \in [Requests -> Request]
      BY FinishType
    <2>2. applications' \subseteq Application
      BY <1>3
    <2>3. \A b \in applications' : b.applicant \in users' /\ job'[b.job].exists
      BY <1>3, <1>4 DEF RecruitingInv, TypeOK
    <2> QED
      BY <1>4, <2>1, <2>2, <2>3 DEF RecruitingInv, TypeOK
  <1>6. OneApplication'
    <2> SUFFICES ASSUME NEW a \in applications', NEW b \in applications',
                        a.job = b.job, a.applicant = b.applicant
                 PROVE  a = b
      BY DEF OneApplication
    <2>1. PICK c \in applications : /\ a = New(c)
                                    /\ a.job = c.job /\ a.applicant = c.applicant
      BY <1>3
    <2>2. PICK d \in applications : /\ b = New(d)
                                    /\ b.job = d.job /\ b.applicant = d.applicant
      BY <1>3
    <2>3. c = d
      BY <2>1, <2>2 DEF RecruitingInv, OneApplication
    <2> QED
      BY <2>1, <2>2, <2>3
  <1> QED
    BY <1>5, <1>6 DEF RecruitingInv

-----------------------------------------------------------------------------
\* The first states.
LEMMA Starts ==
    ASSUME RecruitingAssumption, Init
    PROVE  RecruitingInv
  BY IdleType DEF Init, RecruitingInv, TypeOK, OneApplication, Job

\* The check that an account has no application yet and the insertion are two
\* steps of one of several requests; the insertion looks again.
LEMMA Creates ==
    ASSUME RecruitingAssumption, RecruitingInv, NEW r \in Requests, ApplyCreate(r)
    PROVE  RecruitingInv'
  <1> DEFINE new == [job |-> req[r].job, applicant |-> req[r].applicant,
                     status |-> "pending"]
  <1>1. req' \in [Requests -> Request]
    BY FinishType DEF ApplyCreate
  <1>2. CASE ~Insertable(r)
    BY <1>1, <1>2, SameRows DEF ApplyCreate, board, cron, RecruitingInv, TypeOK
  <1>3. CASE Insertable(r)
    <2>1. applications' = applications \cup {new}
          /\ UNCHANGED <<users, job, edits, isRunning, closing>>
      BY <1>3 DEF ApplyCreate, board, cron
    <2>2. new \in Application /\ new.job = req[r].job /\ new.applicant = req[r].applicant
      BY DEF RecruitingInv, TypeOK, Request, Application, Statuses
    <2>3. new.applicant \in users /\ job[new.job].exists
      BY <1>3, <2>2 DEF Insertable
    <2>4. \A a \in applications : ~(a.job = new.job /\ a.applicant = new.applicant)
      BY <1>3, <2>2 DEF Insertable, Row
    <2> HIDE DEF new
    <2> QED
      BY <1>1, <2>1, <2>2, <2>3, <2>4 DEF RecruitingInv, TypeOK, OneApplication
  <1> QED
    BY <1>2, <1>3

\* A step of a request.
LEMMA RequestSteps ==
    ASSUME RecruitingAssumption, RecruitingInv, NEW r \in Requests,
           \/ \E u \in Users, j \in Jobs : ApplyRead(r, u, j)
           \/ \E status \in Statuses : DecideRead(r, status)
           \/ CancelRead(r) \/ Continue(r)
    PROVE  RecruitingInv'
  <1> USE DEF board, cron
  <1>1. edits \in [Jobs -> Nat] /\ isRunning \in BOOLEAN /\ closing \in BOOLEAN
    BY DEF RecruitingInv, TypeOK
  <1>2. ASSUME NEW u \in Users, NEW j \in Jobs, ApplyRead(r, u, j)
        PROVE  RecruitingInv'
    <2>1. req' \in [Requests -> Request]
      BY <1>2, BeginType DEF ApplyRead, Statuses
    <2> QED
      BY <1>1, <1>2, <2>1, SameRows DEF ApplyRead
  <1>3. ASSUME NEW status \in Statuses, DecideRead(r, status)
        PROVE  RecruitingInv'
    <2>1. PICK a \in applications : Begin(r, "decide", a.job, a.applicant, status)
      BY <1>3 DEF DecideRead
    <2>2. a.job \in Jobs /\ a.applicant \in Users
      BY DEF RecruitingInv, TypeOK, Application
    <2>3. req' \in [Requests -> Request]
      BY <2>1, <2>2, BeginType
    <2> QED
      BY <1>1, <1>3, <2>3, SameRows DEF DecideRead
  <1>4. CASE CancelRead(r)
    <2>1. PICK a \in applications : Begin(r, "cancel", a.job, a.applicant, "cancelled")
      BY <1>4 DEF CancelRead
    <2>2. a.job \in Jobs /\ a.applicant \in Users /\ "cancelled" \in Statuses
      BY DEF RecruitingInv, TypeOK, Application, Statuses
    <2>3. req' \in [Requests -> Request]
      BY <2>1, <2>2, BeginType
    <2> QED
      BY <1>1, <1>4, <2>3, SameRows DEF CancelRead
  <1>5. CASE ApplyCheck(r)
    <2>1. CASE Finish(r)
      BY <1>1, <1>5, <2>1, FinishType, SameRows DEF ApplyCheck
    <2>2. CASE req' = [req EXCEPT ![r].pc = "create"]
      <3>1. [req[r] EXCEPT !.pc = "create"] \in Request
        BY DEF RecruitingInv, TypeOK, Request
      <3>2. req' \in [Requests -> Request]
        BY <2>2, <3>1 DEF RecruitingInv, TypeOK
      <3> QED
        BY <1>1, <1>5, <3>2, SameRows DEF ApplyCheck
    <2> QED
      BY <1>5, <2>1, <2>2 DEF ApplyCheck
  <1>6. CASE DecideWrite(r)
    <2>1. req[r].status \in Statuses
      BY DEF RecruitingInv, TypeOK, Request
    <2> QED
      BY <1>6, <2>1, StatusSet DEF DecideWrite
  <1>7. CASE CancelWrite(r)
    <2>1. "cancelled" \in Statuses
      BY DEF Statuses
    <2> QED
      BY <1>7, <2>1, StatusSet DEF CancelWrite
  <1> QED
    BY <1>2, <1>3, <1>4, <1>5, <1>6, <1>7, Creates DEF Continue

\* A step of the board: postings are edited, deleted and grow old, accounts go.
LEMMA BoardSteps ==
    ASSUME RecruitingAssumption, RecruitingInv,
           \/ \E j \in Jobs : Edit(j) \/ RemoveJob(j) \/ DeadlinePasses(j)
           \/ \E u \in Users : DeleteUser(u)
    PROVE  RecruitingInv'
  <1> USE DEF cron
  <1>1. ASSUME NEW j \in Jobs, Edit(j)
        PROVE  RecruitingInv'
    <2>1. PICK new \in [exists : {TRUE}, recruiting : BOOLEAN,
                        autoClose : BOOLEAN, passed : BOOLEAN] :
             job' = [job EXCEPT ![j] = new]
      BY <1>1 DEF Edit
    <2>2. new \in Job /\ new.exists
      BY DEF Job
    <2> QED
      BY <1>1, <2>1, <2>2 DEF Edit, RecruitingInv, TypeOK, OneApplication, Application
  <1>2. ASSUME NEW j \in Jobs, RemoveJob(j)
        PROVE  RecruitingInv'
    <2>0. job[j] \in Job
      BY DEF RecruitingInv, TypeOK
    <2>1. [job[j] EXCEPT !.exists = FALSE] \in Job
      BY <2>0 DEF Job
    <2>2. job' = [job EXCEPT ![j] = [job[j] EXCEPT !.exists = FALSE]]
      BY <1>2 DEF RemoveJob
    <2>3. job' \in [Jobs -> Job] /\ \A k \in Jobs : k # j => job'[k] = job[k]
      BY <2>1, <2>2 DEF RecruitingInv, TypeOK
    <2> QED
      BY <1>2, <2>3 DEF RemoveJob, RecruitingInv, TypeOK, OneApplication, Application
  <1>3. ASSUME NEW j \in Jobs, DeadlinePasses(j)
        PROVE  RecruitingInv'
    <2>1. [job[j] EXCEPT !.passed = TRUE] \in Job
          /\ [job[j] EXCEPT !.passed = TRUE].exists = job[j].exists
      BY DEF RecruitingInv, TypeOK, Job
    <2>2. job' = [job EXCEPT ![j] = [job[j] EXCEPT !.passed = TRUE]]
      BY <1>3 DEF DeadlinePasses
    <2>3. job' \in [Jobs -> Job] /\ \A k \in Jobs : job'[k].exists = job[k].exists
      BY <2>1, <2>2 DEF RecruitingInv, TypeOK
    <2> QED
      BY <1>3, <2>3 DEF DeadlinePasses, RecruitingInv, TypeOK, OneApplication, Application
  <1>4. ASSUME NEW u \in Users, DeleteUser(u)
        PROVE  RecruitingInv'
    BY <1>4 DEF DeleteUser, RecruitingInv, TypeOK, OneApplication
  <1> QED
    BY <1>1, <1>2, <1>3, <1>4

\* A step of the daily job, or a restart.
LEMMA ServerSteps ==
    ASSUME RecruitingAssumption, RecruitingInv,
           CronStart \/ CloseExpiredJobs \/ CloseFails \/ Restart
    PROVE  RecruitingInv'
  <1> USE DEF board, cron, CronEnd
  <1>1. CASE CronStart \/ CloseFails
    BY <1>1, SameRows DEF CronStart, CloseFails, RecruitingInv, TypeOK
  <1>2. CASE Restart
    <2>1. req' \in [Requests -> Request]
      BY <1>2, IdleType DEF Restart
    <2> QED
      BY <1>2, <2>1, SameRows DEF Restart, RecruitingInv, TypeOK
  <1>3. CASE CloseExpiredJobs
    <2>1. \A j \in Jobs : job'[j] = [job[j] EXCEPT !.recruiting = @ /\ ~Due(j)]
      BY <1>3 DEF CloseExpiredJobs
    <2>2. ASSUME NEW j \in Jobs
          PROVE  job'[j] \in Job /\ job'[j].exists = job[j].exists
      <3>1. job[j] \in Job
        BY DEF RecruitingInv, TypeOK
      <3>2. (job[j].recruiting /\ ~Due(j)) \in BOOLEAN
        OBVIOUS
      <3> QED
        BY <2>1, <3>1, <3>2 DEF Job
    <2>3. job' \in [Jobs -> Job]
      BY <1>3, <2>2 DEF CloseExpiredJobs
    <2> QED
      BY <1>3, <2>2, <2>3
      DEF CloseExpiredJobs, RecruitingInv, TypeOK, OneApplication, Application
  <1> QED
    BY <1>1, <1>2, <1>3

\* Every step keeps the inductive invariant.
LEMMA StepKeeps ==
    ASSUME RecruitingAssumption, RecruitingInv, [Next]_vars
    PROVE  RecruitingInv'
  <1>1. CASE UNCHANGED vars
    BY <1>1 DEF vars, cron, RecruitingInv, TypeOK, OneApplication
  <1> QED
    BY <1>1, RequestSteps, BoardSteps, ServerSteps DEF Next

-----------------------------------------------------------------------------
\* Every behaviour is in the inductive invariant in every state.
LEMMA RecruitingInvariant == RecruitingAssumption => (Spec => []RecruitingInv)
  <1> SUFFICES ASSUME RecruitingAssumption
               PROVE  Spec => []RecruitingInv
    OBVIOUS
  <1>1. Init => RecruitingInv
    BY Starts
  <1>2. RecruitingInv /\ [Next]_vars => RecruitingInv'
    BY StepKeeps
  <1> QED
    BY <1>1, <1>2, PTL DEF Spec

\* The variables have their types, and every application is of an account and
\* for a posting that exist, however their deletion overlaps an application.
THEOREM TypeCorrect == Spec => []TypeOK
  <1>1. RecruitingInv => TypeOK
    BY DEF RecruitingInv
  <1> QED
    BY <1>1, RecruitingInvariant, RecruitingAssumption, PTL

\* However the requests of an account overlap, and through every change of
\* status, it has one application for a posting (applications.service.ts).
THEOREM AppliedOnce == Spec => []OneApplication
  <1>1. RecruitingInv => OneApplication
    BY DEF RecruitingInv
  <1> QED
    BY <1>1, RecruitingInvariant, RecruitingAssumption, PTL
=============================================================================
