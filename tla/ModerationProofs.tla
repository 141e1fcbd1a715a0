-------------------------- MODULE ModerationProofs --------------------------
(***************************************************************************)
(* Theorems about Moderation, for every number of accounts, posts,         *)
(* comments and admins, and every report a client may send: a deletion     *)
(* that a report records was carried out.                                  *)
(***************************************************************************)
EXTENDS Moderation, TLAPS

\* A reference that is read as null, or that no longer is the subject, tells
\* that the subject is gone: a reference is never set to anything else.
RefsTell ==
    \A p \in reports :
        /\ p.id <= lastId
        /\ p.type # "user" => /\ Subject(p.type, p.refs) \in {p.subject, Null}
                              /\ p.subject \in things <=>
                                    Subject(p.type, p.refs) = p.subject
        /\ p.type = "user" => p.subject \in Users

\* What a deletion was asked to delete.
Target(q) == IF q.action = "post_delete" THEN q.refs.post ELSE q.refs.comment

\* A report about to be written has a subject; a deletion under way is of the
\* subject of its report or finds it gone; its outcome is written when it is.
Underway ==
    \A r \in Requests :
        /\ req[r].pc \in {"check", "create"} =>
              Subject(req[r].type, req[r].refs) \in Users \cup Things
        /\ req[r].pc \in {"act", "update"} => req[r].id <= lastId
        /\ req[r].pc = "act" /\ req[r].action \in Deletions =>
              \A p \in WithId(req[r].id) :
                 \/ Target(req[r]) = p.subject
                 \/ Target(req[r]) = Null /\ p.subject \notin things
        /\ req[r].pc = "update" /\ req[r].action \in Deletions =>
              \A p \in WithId(req[r].id) : p.subject \notin things

\* The inductive invariant.
ModerationInv == TypeOK /\ RefsTell /\ Underway /\ DeletionDone

-----------------------------------------------------------------------------
\* A request that has not begun is well typed.
LEMMA IdleType ==
    ASSUME ModerationAssumption
    PROVE  Idle \in Request /\ Idle.pc = "idle"
  <1>1. (CHOOSE u \in Users : TRUE) \in Users
    BY DEF ModerationAssumption
  <1> QED
    BY <1>1 DEF Idle, Request, NoRefs, Refs, Types, Statuses, Outcomes, Actions

\* What a report refers to is an account, a post, a comment or nothing.
LEMMA SubjectType ==
    ASSUME ModerationAssumption, NEW type \in Types, NEW refs \in Refs
    PROVE  /\ Subject(type, refs) \in Users \cup Things \cup {Null}
           /\ type = "user" /\ Subject(type, refs) # Null => Subject(type, refs) \in Users
           /\ type # "user" /\ Subject(type, refs) # Null => Subject(type, refs) \in Things
           /\ type = "post" => Subject(type, refs) = refs.post
           /\ type = "comment" => Subject(type, refs) = refs.comment
  BY DEF Types, Refs, Subject, Things

\* The writer of a post or a comment, when there is one to be found.
LEMMA CulpritType ==
    ASSUME ModerationAssumption, NEW refs \in Refs
    PROVE  Culprit(refs) \in Users \cup {Null}
  <1>1. \A t \in Things : Author(t) \in Users \cup {Null}
    BY DEF Author, ModerationAssumption
  <1> QED
    BY <1>1 DEF Culprit, Refs, Things

\* ON DELETE SET NULL: a reference is kept or set to null, and afterwards
\* refers to nothing that was deleted.
LEMMA ClearedRefs ==
    ASSUME ModerationAssumption, NEW refs \in Refs, NEW gone, Null \notin gone,
           NEW type \in Types
    PROVE  LET new == Cleared(refs, gone) IN
           /\ new \in Refs
           /\ {new.user, new.post, new.comment}
                 \subseteq ({refs.user, refs.post, refs.comment} \ gone) \cup {Null}
           /\ Subject(type, new) = IF Subject(type, refs) \in gone THEN Null
                                                                  ELSE Subject(type, refs)
  BY DEF Cleared, Refs, Subject, Types

\* A step that ends requests, leaves the subjects of the reports found before
\* as they are and brings nothing back keeps what the other requests rely on.
LEMMA UnderwayKept ==
    ASSUME ModerationAssumption, ModerationInv,
           \A q \in Requests : req'[q] = req[q] \/ req'[q] = Idle,
           lastId' \in Nat, lastId <= lastId', things' \subseteq things,
           \A p \in reports' : p.id <= lastId =>
              \E o \in reports : o.id = p.id /\ o.subject = p.subject
    PROVE  Underway'
  <1> DEFINE Fine(q) ==
                /\ q.pc \in {"check", "create"} =>
                      Subject(q.type, q.refs) \in Users \cup Things
                /\ q.pc \in {"act", "update"} => q.id <= lastId'
                /\ q.pc = "act" /\ q.action \in Deletions =>
                      \A p \in reports' : p.id = q.id =>
                         \/ Target(q) = p.subject
                         \/ Target(q) = Null /\ p.subject \notin things'
                /\ q.pc = "update" /\ q.action \in Deletions =>
                      \A p \in reports' : p.id = q.id => p.subject \notin things'
  <1> SUFFICES ASSUME NEW r \in Requests
               PROVE  Fine(req'[r])
    BY DEF Underway, WithId, Subject, Target
  <1>1. lastId \in Nat /\ req[r].id \in Nat
    BY DEF ModerationInv, TypeOK, Request
  <1>2. req[r].pc \in {"act", "update"} => req[r].id <= lastId
    BY DEF ModerationInv, Underway
  <1>3. ASSUME NEW p \in reports', p.id = req[r].id, req[r].pc \in {"act", "update"}
        PROVE  \E o \in WithId(req[r].id) : o.subject = p.subject
    BY <1>2, <1>3 DEF WithId
  <1>4. req[r].pc \in {"act", "update"} => req[r].id <= lastId'
    BY <1>1, <1>2
  <1>5. req[r].pc \in {"check", "create"} =>
           Subject(req[r].type, req[r].refs) \in Users \cup Things
    BY DEF ModerationInv, Underway
  <1>6. ASSUME req[r].pc = "act", req[r].action \in Deletions,
               NEW p \in reports', p.id = req[r].id
        PROVE  \/ Target(req[r]) = p.subject
               \/ Target(req[r]) = Null /\ p.subject \notin things'
    <2>1. PICK o \in WithId(req[r].id) : o.subject = p.subject
      BY <1>3, <1>6
    <2> QED
      BY <1>6, <2>1 DEF ModerationInv, Underway
  <1>7. ASSUME req[r].pc = "update", req[r].action \in Deletions,
               NEW p \in reports', p.id = req[r].id
        PROVE  p.subject \notin things'
    <2>1. PICK o \in WithId(req[r].id) : o.subject = p.subject
      BY <1>3, <1>7
    <2> QED
      BY <1>7, <2>1 DEF ModerationInv, Underway
  <1>8. Fine(req[r])
    BY <1>4, <1>5, <1>6, <1>7
  <1>9. Fine(Idle)
    BY IdleType
  <1> QED
    BY <1>8, <1>9

\* The types of the requests after one has ended.
LEMMA Ended ==
    ASSUME ModerationAssumption, ModerationInv, NEW r \in Requests, Finish(r)
    PROVE  /\ req' \in [Requests -> Request]
           /\ \A q \in Requests : req'[q] = req[q] \/ req'[q] = Idle
  BY IdleType DEF Finish, ModerationInv, TypeOK

\* A step that changes no row.
LEMMA SameRows ==
    ASSUME ModerationAssumption, ModerationInv,
           UNCHANGED <<users, things, reports, lastId>>,
           req' \in [Requests -> Request], banned' \subseteq Users
    PROVE  TypeOK' /\ RefsTell' /\ DeletionDone'
  <1>1. TypeOK'
    BY DEF ModerationInv, TypeOK, Valid, Existing
  <1>2. RefsTell' /\ DeletionDone'
    BY DEF ModerationInv, RefsTell, DeletionDone
  <1> QED
    BY <1>1, <1>2

\* A request that goes on: it suffices to look at what it relies on.
LEMMA GoesOn ==
    ASSUME ModerationAssumption, ModerationInv, NEW r \in Requests, NEW q \in Request,
           UNCHANGED <<users, things, reports, lastId>>, banned' \subseteq Users,
           req' = [req EXCEPT ![r] = q],
           q.pc \in {"check", "create"} => Subject(q.type, q.refs) \in Users \cup Things,
           q.pc \in {"act", "update"} => q.id <= lastId,
           q.pc = "act" /\ q.action \in Deletions =>
              \A p \in WithId(q.id) : \/ Target(q) = p.subject
                                      \/ Target(q) = Null /\ p.subject \notin things,
           q.pc = "update" /\ q.action \in Deletions =>
              \A p \in WithId(q.id) : p.subject \notin things
    PROVE  ModerationInv'
  <1>1. req' \in [Requests -> Request] /\ req'[r] = q
        /\ \A s \in Requests : s # r => req'[s] = req[s]
    BY DEF ModerationInv, TypeOK
  <1>2. TypeOK' /\ RefsTell' /\ DeletionDone'
    BY <1>1, SameRows
  <1>3. Underway'
    <2> SUFFICES ASSUME NEW s \in Requests
                 PROVE  /\ req'[s].pc \in {"check", "create"} =>
                              Subject(req'[s].type, req'[s].refs) \in Users \cup Things
                        /\ req'[s].pc \in {"act", "update"} => req'[s].id <= lastId
                        /\ req'[s].pc = "act" /\ req'[s].action \in Deletions =>
                              \A p \in WithId(req'[s].id) :
                                 \/ Target(req'[s]) = p.subject
                                 \/ Target(req'[s]) = Null /\ p.subject \notin things
                        /\ req'[s].pc = "update" /\ req'[s].action \in Deletions =>
                              \A p \in WithId(req'[s].id) : p.subject \notin things
      BY DEF Underway, WithId, Subject, Target
    <2>1. CASE s = r
      BY <1>1, <2>1
    <2>2. CASE s # r
      BY <1>1, <2>2 DEF ModerationInv, Underway
    <2> QED
      BY <2>1, <2>2
  <1> QED
    BY <1>2, <1>3 DEF ModerationInv

\* A request that ends without changing a row.
LEMMA GivesUp ==
    ASSUME ModerationAssumption, ModerationInv, NEW r \in Requests, Finish(r),
           UNCHANGED <<users, things, reports, lastId>>, banned' \subseteq Users
    PROVE  ModerationInv'
  <1>1. /\ req' \in [Requests -> Request]
        /\ \A q \in Requests : req'[q] = req[q] \/ req'[q] = Idle
    BY Ended
  <1>2. TypeOK' /\ RefsTell' /\ DeletionDone'
    BY <1>1, SameRows
  <1>3. lastId' \in Nat /\ lastId <= lastId'
    BY DEF ModerationInv, TypeOK
  <1>4. Underway'
    BY <1>1, <1>3, UnderwayKept
  <1> QED
    BY <1>2, <1>4 DEF ModerationInv

\* What Without makes of the reports.
LEMMA WithoutRows ==
    ASSUME NEW gone, ModerationInv
    PROVE  /\ \A p \in Without(gone) : \E o \in reports :
                 p = [o EXCEPT !.refs = Cleared(o.refs, gone)] /\ o.reporter \notin gone
           /\ \A o \in reports : LET p == [o EXCEPT !.refs = Cleared(o.refs, gone)] IN
                 /\ p.id = o.id /\ p.type = o.type /\ p.reporter = o.reporter
                 /\ p.subject = o.subject /\ p.status = o.status /\ p.action = o.action
                 /\ p.refs = Cleared(o.refs, gone)
                 /\ p = [id |-> o.id, type |-> o.type, reporter |-> o.reporter,
                         refs |-> Cleared(o.refs, gone), subject |-> o.subject,
                         status |-> o.status, action |-> o.action]
  BY DEF Without, ModerationInv, TypeOK, Report

\* Accounts and things are deleted, and every reference to them set to null.
LEMMA Nulled ==
    ASSUME ModerationAssumption, ModerationInv,
           NEW gone \in SUBSET (Users \cup Things),
           users' = users \ gone, things' = things \ gone, reports' = Without(gone),
           lastId' = lastId, banned' \subseteq Users, req' \in [Requests -> Request]
    PROVE  TypeOK' /\ RefsTell' /\ DeletionDone'
  <1>1. Null \notin gone
    BY DEF ModerationAssumption
  <1>2. ASSUME NEW p \in reports'
        PROVE  \E o \in reports :
                  /\ p \in Report /\ o \in Report /\ p.id = o.id /\ p.type = o.type
                  /\ p.reporter = o.reporter /\ p.subject = o.subject
                  /\ p.action = o.action /\ p.refs = Cleared(o.refs, gone)
                  /\ o.reporter \notin gone
                  /\ p = [o EXCEPT !.refs = Cleared(o.refs, gone)]
    <2>1. PICK o \in reports : /\ p = [o EXCEPT !.refs = Cleared(o.refs, gone)]
                               /\ o.reporter \notin gone
      BY <1>2, WithoutRows
    <2>2. o \in Report
      BY DEF ModerationInv, TypeOK
    <2>3. o.refs \in Refs /\ o.type \in Types
      BY <2>2 DEF Report
    <2>4. Cleared(o.refs, gone) \in Refs
      BY <1>1, <2>3, ClearedRefs
    <2>5. p \in Report
      BY <2>1, <2>2, <2>4, WithoutRows DEF Report
    <2> QED
      BY <2>1, <2>2, <2>5, WithoutRows
  <1>3. TypeOK'
    <2>1. reports' \subseteq Report
      BY <1>2
    <2>2. \A p, q \in reports' : p.id = q.id => p = q
      <3> SUFFICES ASSUME NEW p \in reports', NEW q \in reports', p.id = q.id
                   PROVE  p = q
        OBVIOUS
      <3>1. PICK o \in reports : p.id = o.id /\ p = [o EXCEPT !.refs = Cleared(o.refs, gone)]
        BY <1>2
      <3>2. PICK n \in reports : q.id = n.id /\ q = [n EXCEPT !.refs = Cleared(n.refs, gone)]
        BY <1>2
      <3>3. o = n
        BY <3>1, <3>2 DEF ModerationInv, TypeOK
      <3> QED
        BY <3>1, <3>2, <3>3
    <2>3. \A p \in reports' : p.reporter \in users' /\ Valid(p.refs)'
      <3> SUFFICES ASSUME NEW p \in reports'
                   PROVE  p.reporter \in users' /\ Valid(p.refs)'
        OBVIOUS
      <3>1. PICK o \in reports : /\ p.reporter = o.reporter /\ o \in Report
                                 /\ p.refs = Cleared(o.refs, gone)
                                 /\ o.reporter \notin gone
        BY <1>2
      <3>2. o.reporter \in users
            /\ {o.refs.user, o.refs.post, o.refs.comment} \subseteq users \cup things \cup {Null}
        BY DEF ModerationInv, TypeOK, Valid, Existing
      <3>3. {p.refs.user, p.refs.post, p.refs.comment}
               \subseteq ({o.refs.user, o.refs.post, o.refs.comment} \ gone) \cup {Null}
        BY <1>1, <3>1, ClearedRefs DEF Report
      <3> QED
        BY <3>1, <3>2, <3>3 DEF Valid, Existing
    <2>4. users' \subseteq Users /\ things' \subseteq Things /\ lastId' \in Nat
      BY DEF ModerationInv, TypeOK
    <2> QED
      BY <2>1, <2>2, <2>3, <2>4 DEF TypeOK
  <1>4. RefsTell'
    <2> SUFFICES ASSUME NEW p \in reports'
                 PROVE  /\ p.id <= lastId
                        /\ p.type # "user" =>
                              /\ Subject(p.type, p.refs) \in {p.subject, Null}
                              /\ p.subject \in things' <=>
                                    Subject(p.type, p.refs) = p.subject
                        /\ p.type = "user" => p.subject \in Users
      BY DEF RefsTell, Subject
    <2>1. PICK o \in reports :
             /\ p \in Report /\ o \in Report /\ p.id = o.id /\ p.type = o.type
             /\ p.subject = o.subject /\ p.refs = Cleared(o.refs, gone)
      BY <1>2
    <2>2. /\ o.refs \in Refs /\ o.type \in Types
          /\ o.subject \in Users \cup Things /\ o.subject # Null
      BY <2>1 DEF Report, ModerationAssumption
    <2>3. Subject(p.type, p.refs) = IF Subject(o.type, o.refs) \in gone THEN Null
                                    ELSE Subject(o.type, o.refs)
      BY <1>1, <2>1, <2>2, ClearedRefs
    <2> QED
      BY <2>1, <2>2, <2>3 DEF ModerationInv, RefsTell
  <1>5. DeletionDone'
    <2> SUFFICES ASSUME NEW p \in reports', p.action \in Deletions
                 PROVE  p.subject \notin things'
      BY DEF DeletionDone
    <2>1. PICK o \in reports : p.subject = o.subject /\ p.action = o.action
      BY <1>2
    <2> QED
      BY <2>1 DEF ModerationInv, DeletionDone
  <1> QED
    BY <1>3, <1>4, <1>5

\* The subjects of the reports that Without leaves.
LEMMA SameSubjects ==
    ASSUME NEW gone, ModerationInv
    PROVE  \A p \in Without(gone) :
              \E o \in reports : o.id = p.id /\ o.subject = p.subject
  <1> SUFFICES ASSUME NEW p \in Without(gone)
               PROVE  \E o \in reports : o.id = p.id /\ o.subject = p.subject
    OBVIOUS
  <1>1. PICK o \in reports : p = [o EXCEPT !.refs = Cleared(o.refs, gone)]
    BY WithoutRows
  <1> QED
    BY <1>1, WithoutRows

-----------------------------------------------------------------------------
\* The first states.
LEMMA Starts ==
    ASSUME ModerationAssumption, Init
    PROVE  ModerationInv
  <1>1. TypeOK
    BY IdleType DEF Init, TypeOK
  <1>2. RefsTell /\ DeletionDone
    BY DEF Init, RefsTell, DeletionDone
  <1>3. Underway
    BY IdleType DEF Init, Underway
  <1> QED
    BY <1>1, <1>2, <1>3 DEF ModerationInv

LEMMA Validates ==
    ASSUME ModerationAssumption, ModerationInv, NEW r \in Requests,
           NEW u \in Users, NEW type \in Types, NEW refs \in Asked,
           ReportValidate(r, u, type, refs)
    PROVE  ModerationInv'
  <1> DEFINE new == [Idle EXCEPT !.pc = "check", !.type = type, !.reporter = u, !.refs = refs]
  <1>1. refs \in Refs
    BY DEF ModerationAssumption
  <1>2. /\ new \in Request /\ new.pc = "check" /\ new.type = type /\ new.refs = refs
    BY <1>1, IdleType DEF Request
  <1>3. req' = [req EXCEPT ![r] = new]
    BY DEF ReportValidate
  <1> HIDE DEF new
  <1>4. Subject(type, refs) \in Users \cup Things
    BY DEF ReportValidate, ModerationInv, TypeOK
  <1>5. UNCHANGED <<users, things, reports, lastId>> /\ banned' \subseteq Users
    BY DEF ReportValidate, ModerationInv, TypeOK
  <1> QED
    BY <1>2, <1>3, <1>4, <1>5, GoesOn

LEMMA Checks ==
    ASSUME ModerationAssumption, ModerationInv, NEW r \in Requests, ReportCheck(r)
    PROVE  ModerationInv'
  <1>1. UNCHANGED <<users, things, reports, lastId>> /\ banned' \subseteq Users
    BY DEF ReportCheck, ModerationInv, TypeOK
  <1>2. CASE Finish(r)
    BY <1>1, <1>2, GivesUp
  <1>3. CASE req' = [req EXCEPT ![r].pc = "create"]
    <2> DEFINE new == [req[r] EXCEPT !.pc = "create"]
    <2>1. req[r] \in Request
      BY DEF ModerationInv, TypeOK
    <2>2. /\ new \in Request /\ new.pc = "create"
          /\ new.type = req[r].type /\ new.refs = req[r].refs
      BY <2>1 DEF Request
    <2>3. req' = [req EXCEPT ![r] = new]
      BY <1>3
    <2> HIDE DEF new
    <2>4. Subject(new.type, new.refs) \in Users \cup Things
      BY <2>2 DEF ReportCheck, ModerationInv, Underway
    <2> QED
      BY <1>1, <2>2, <2>3, <2>4, GoesOn
  <1> QED
    BY <1>2, <1>3 DEF ReportCheck

LEMMA Creates ==
    ASSUME ModerationAssumption, ModerationInv, NEW r \in Requests, ReportCreate(r)
    PROVE  ModerationInv'
  <1> DEFINE q == req[r]
             new == [id |-> lastId + 1, type |-> q.type, reporter |-> q.reporter,
                     refs |-> q.refs, subject |-> Subject(q.type, q.refs),
                     status |-> "pending", action |-> "none"]
  <1>1. Finish(r) /\ UNCHANGED <<users, things, banned>> /\ q.pc = "create"
    BY DEF ReportCreate
  <1>2. CASE ~(q.reporter \in users /\ Valid(q.refs))
    <2>1. UNCHANGED <<users, things, reports, lastId>> /\ banned' \subseteq Users
      BY <1>1, <1>2 DEF ReportCreate, ModerationInv, TypeOK
    <2> QED
      BY <1>1, <2>1, GivesUp
  <1>3. CASE q.reporter \in users /\ Valid(q.refs)
    <2>1. reports' = reports \cup {new} /\ lastId' = lastId + 1 /\ lastId \in Nat
      BY <1>3 DEF ReportCreate, ModerationInv, TypeOK
    <2>2. /\ q \in Request /\ q.refs \in Refs /\ q.type \in Types
          /\ Subject(q.type, q.refs) \in Users \cup Things
      BY <1>1 DEF ModerationInv, TypeOK, Underway, Request
    <2>3. /\ new \in Report /\ new.id = lastId + 1 /\ new.type = q.type
          /\ new.refs = q.refs /\ new.subject = Subject(q.type, q.refs)
          /\ new.action = "none" /\ new.reporter = q.reporter
      BY <2>1, <2>2 DEF Report, Request, Statuses, Actions
    <2>4. /\ req' \in [Requests -> Request]
          /\ \A s \in Requests : req'[s] = req[s] \/ req'[s] = Idle
      BY <1>1, Ended
    <2>5. new.subject # Null /\ (new.type = "user" => new.subject \in Users)
          /\ (new.type # "user" => new.subject \in Things)
      BY <2>2, <2>3, SubjectType DEF ModerationAssumption
    <2>6. new.type # "user" => new.subject \in things
      <3>1. new.subject \in Existing
        BY <1>3, <2>2, <2>3 DEF Valid, Subject, Types
      <3> QED
        BY <2>5, <3>1 DEF Existing, ModerationInv, TypeOK, ModerationAssumption
    <2> HIDE DEF new
    <2>7. TypeOK'
      <3>1. \A p \in reports : p.id <= lastId /\ p.id \in Nat
        BY DEF ModerationInv, RefsTell, TypeOK, Report
      <3>2. \A o, p \in reports' : o.id = p.id => o = p
        BY <2>1, <2>3, <3>1 DEF ModerationInv, TypeOK
      <3>3. \A p \in reports' : p.reporter \in users' /\ Valid(p.refs)'
        BY <1>1, <1>3, <2>1, <2>3 DEF ModerationInv, TypeOK, Valid, Existing
      <3> QED
        BY <1>1, <2>1, <2>3, <2>4, <3>2, <3>3 DEF ModerationInv, TypeOK
    <2>8. RefsTell'
      <3>1. \A p \in reports : p.id <= lastId + 1
        BY <2>1 DEF ModerationInv, RefsTell, TypeOK, Report
      <3>2. new.id <= lastId + 1
        BY <2>1, <2>3
      <3> QED
        BY <1>1, <2>1, <2>3, <2>5, <2>6, <3>1, <3>2
        DEF ModerationInv, RefsTell, Subject
    <2>9. DeletionDone'
      BY <1>1, <2>1, <2>3 DEF ModerationInv, DeletionDone, Deletions
    <2>10. Underway'
      <3>1. \A p \in reports' : p.id <= lastId => p \in reports
        BY <2>1, <2>3
      <3>2. lastId' \in Nat /\ lastId <= lastId' /\ things' \subseteq things
        BY <1>1, <2>1
      <3> QED
        BY <2>4, <3>1, <3>2, UnderwayKept
    <2> QED
      BY <2>7, <2>8, <2>9, <2>10 DEF ModerationInv
  <1> QED
    BY <1>2, <1>3

LEMMA Reads ==
    ASSUME ModerationAssumption, ModerationInv, NEW r \in Requests,
           NEW status \in Outcomes, NEW action \in Actions,
           ProcessRead(r, status, action)
    PROVE  ModerationInv'
  <1>1. PICK p \in reports :
          /\ Fits(p.type, action)
          /\ req' = [req EXCEPT ![r] = [Idle EXCEPT
                        !.pc = IF action = "none" THEN "update" ELSE "act",
                        !.id = p.id, !.status = status, !.action = action,
                        !.refs = IF action \in Deletions THEN p.refs ELSE NoRefs,
                        !.culprit = IF action = "ban" THEN Culprit(p.refs) ELSE Null]]
    BY DEF ProcessRead
  <1> DEFINE pc == IF action = "none" THEN "update" ELSE "act"
             refs == IF action \in Deletions THEN p.refs ELSE NoRefs
             culprit == IF action = "ban" THEN Culprit(p.refs) ELSE Null
             new == [Idle EXCEPT !.pc = pc, !.id = p.id, !.status = status,
                       !.action = action, !.refs = refs, !.culprit = culprit]
  <1>2. p \in Report /\ p.refs \in Refs /\ p.id \in Nat /\ p.id <= lastId
    BY DEF ModerationInv, TypeOK, Report, RefsTell
  <1>3. refs \in Refs /\ culprit \in Users \cup {Null}
    BY <1>2, CulpritType DEF NoRefs, Refs
  <1>4. /\ new \in Request /\ new.pc = pc /\ new.id = p.id /\ new.refs = refs
        /\ new.action = action
    <2> HIDE DEF refs, culprit
    <2> QED
      BY <1>2, <1>3, IdleType DEF Request
  <1>5. req' = [req EXCEPT ![r] = new]
    BY <1>1
  <1> HIDE DEF new
  <1>6. \A o \in WithId(p.id) : o = p
    BY DEF WithId, ModerationInv, TypeOK
  <1>7. action \in Deletions =>
           \/ Target(new) = p.subject
           \/ Target(new) = Null /\ p.subject \notin things
    <2> SUFFICES ASSUME action \in Deletions
                 PROVE  \/ Target(new) = p.subject
                        \/ Target(new) = Null /\ p.subject \notin things
      OBVIOUS
    <2>1. p.type # "user" /\ Target(new) = Subject(p.type, p.refs)
      BY <1>1, <1>4 DEF Fits, Deletions, Target, Subject
    <2>2. p.subject # Null
      BY <1>2 DEF Report, ModerationAssumption
    <2> QED
      BY <2>1, <2>2 DEF ModerationInv, RefsTell
  <1>8. action \in Deletions => pc = "act"
    BY DEF Deletions
  <1>9. UNCHANGED <<users, things, reports, lastId>> /\ banned' \subseteq Users
    BY DEF ProcessRead, ModerationInv, TypeOK
  <1>10. pc \in {"act", "update"}
    OBVIOUS
  <1> HIDE DEF pc
  <1> QED
    BY <1>2, <1>4, <1>5, <1>6, <1>7, <1>8, <1>9, <1>10, GoesOn

\* A request whose action is carried out is well typed, of the same report.
LEMMA ActedType ==
    ASSUME ModerationAssumption, NEW q \in Request
    PROVE  /\ Acted(q) \in Request /\ Acted(q).pc = "update"
           /\ Acted(q).id = q.id /\ Acted(q).action = q.action
  <1>1. NoRefs \in Refs
    BY DEF NoRefs, Refs
  <1> QED
    BY <1>1 DEF Acted, Request

LEMMA Bans ==
    ASSUME ModerationAssumption, ModerationInv, NEW r \in Requests, ActBan(r)
    PROVE  ModerationInv'
  <1>1. UNCHANGED <<users, things, reports, lastId>> /\ banned' \subseteq Users
    BY DEF ActBan, ModerationInv, TypeOK
  <1>2. CASE Finish(r)
    BY <1>1, <1>2, GivesUp
  <1>3. CASE req' = [req EXCEPT ![r] = Acted(@)]
    <2> DEFINE new == Acted(req[r])
    <2>1. req[r] \in Request
      BY DEF ModerationInv, TypeOK
    <2>2. new \in Request /\ new.pc = "update" /\ new.id = req[r].id /\ new.action = "ban"
      BY <2>1, ActedType DEF ActBan
    <2>3. req' = [req EXCEPT ![r] = new]
      BY <1>3
    <2> HIDE DEF new
    <2>4. new.id <= lastId
      BY <2>2 DEF ActBan, ModerationInv, Underway
    <2> QED
      BY <1>1, <2>2, <2>3, <2>4, GoesOn DEF Deletions
  <1> QED
    BY <1>2, <1>3 DEF ActBan

\* A deletion that succeeds has its subject gone, one that is passed over
\* found it gone.
LEMMA ActDeletes ==
    ASSUME ModerationAssumption, ModerationInv, NEW r \in Requests, ActDelete(r)
    PROVE  ModerationInv'
  <1> DEFINE t == Target(req[r])
             passed == t = Null \/ (t \in Comments \ things)
             deleted == t \in things /\ (t \in Comments => CommentsDeletable)
  <1>1. /\ req[r] \in Request /\ req[r].pc = "act" /\ req[r].action \in Deletions
        /\ UNCHANGED <<users, banned, lastId>>
        /\ DeleteTarget(r, t)
    BY DEF ActDelete, Target, Deletions, ModerationInv, TypeOK
  <1> HIDE DEF t
  <1>2. \A p \in WithId(req[r].id) : t = p.subject \/ (t = Null /\ p.subject \notin things)
    BY <1>1 DEF t, ModerationInv, Underway
  <1>3. req[r].id <= lastId /\ req[r].id \in Nat /\ lastId \in Nat
    BY <1>1 DEF ModerationInv, Underway, TypeOK, Request
  <1>4. banned' \subseteq Users
    BY <1>1 DEF ModerationInv, TypeOK
  <1> DEFINE new == Acted(req[r])
  <1>5. /\ new \in Request /\ new.pc = "update" /\ new.id = req[r].id
        /\ new.action = req[r].action
    BY <1>1, ActedType
  <1>6. CASE ~deleted /\ ~passed
    <2>1. UNCHANGED <<things, reports>> /\ Finish(r)
      BY <1>1, <1>6 DEF DeleteTarget
    <2> QED
      BY <1>1, <1>4, <2>1, GivesUp
  <1>7. CASE ~deleted /\ passed
    <2>1. UNCHANGED <<things, reports>> /\ req' = [req EXCEPT ![r] = new]
      BY <1>1, <1>7 DEF DeleteTarget
    <2>2. \A p \in WithId(req[r].id) : p.subject \notin things
      <3>1. \A p \in WithId(req[r].id) : p.subject # Null
        BY DEF WithId, ModerationInv, TypeOK, Report, ModerationAssumption
      <3> QED
        BY <1>2, <1>7, <3>1
    <2> HIDE DEF new
    <2> QED
      BY <1>1, <1>3, <1>4, <1>5, <2>1, <2>2, GoesOn
  <1>8. CASE deleted
    <2>1. /\ things' = things \ {t} /\ reports' = Without({t})
          /\ req' = [req EXCEPT ![r] = new]
      BY <1>1, <1>8 DEF DeleteTarget
    <2>2. {t} \in SUBSET (Users \cup Things) /\ users' = users \ {t}
      BY <1>1, <1>8 DEF ModerationInv, TypeOK, ModerationAssumption
    <2> HIDE DEF new
    <2>3. /\ req' \in [Requests -> Request] /\ req'[r] = new
          /\ \A s \in Requests : s # r => req'[s] = req[s]
      BY <1>5, <2>1 DEF ModerationInv, TypeOK
    <2>4. TypeOK' /\ RefsTell' /\ DeletionDone'
      BY <1>1, <1>4, <2>1, <2>2, <2>3, Nulled
    <2>5. Underway'
      <3>1. \A p \in reports' : \E o \in reports : o.id = p.id /\ o.subject = p.subject
        BY <2>1, SameSubjects
      <3> SUFFICES ASSUME NEW s \in Requests
                   PROVE  /\ req'[s].pc \in {"check", "create"} =>
                                Subject(req'[s].type, req'[s].refs) \in Users \cup Things
                          /\ req'[s].pc \in {"act", "update"} => req'[s].id <= lastId
                          /\ req'[s].pc = "act" /\ req'[s].action \in Deletions =>
                                \A p \in reports' : p.id = req'[s].id =>
                                   \/ Target(req'[s]) = p.subject
                                   \/ Target(req'[s]) = Null /\ p.subject \notin things'
                          /\ req'[s].pc = "update" /\ req'[s].action \in Deletions =>
                                \A p \in reports' : p.id = req'[s].id =>
                                   p.subject \notin things'
        BY <1>1 DEF Underway, WithId, Subject, Target
      <3>2. CASE s = r
        <4>1. \A p \in reports' : p.id = req[r].id => p.subject \notin things'
          <5> SUFFICES ASSUME NEW p \in reports', p.id = req[r].id
                       PROVE  p.subject \notin things'
            OBVIOUS
          <5>1. PICK o \in WithId(req[r].id) : o.subject = p.subject
            BY <3>1 DEF WithId
          <5> QED
            BY <1>2, <2>1, <5>1
        <4> QED
          BY <1>3, <1>5, <2>3, <3>2, <4>1
      <3>3. CASE s # r
        <4>1. req'[s] = req[s]
          BY <2>3, <3>3
        <4>2. ASSUME NEW p \in reports', p.id = req[s].id
              PROVE  \E o \in WithId(req[s].id) : o.subject = p.subject
          BY <3>1, <4>2 DEF WithId
        <4>3. things' \subseteq things
          BY <2>1
        <4>4. ASSUME req[s].pc = "act", req[s].action \in Deletions,
                     NEW p \in reports', p.id = req[s].id
              PROVE  \/ Target(req[s]) = p.subject
                     \/ Target(req[s]) = Null /\ p.subject \notin things'
          BY <4>2, <4>3, <4>4 DEF ModerationInv, Underway
        <4>5. ASSUME req[s].pc = "update", req[s].action \in Deletions,
                     NEW p \in reports', p.id = req[s].id
              PROVE  p.subject \notin things'
          BY <4>2, <4>3, <4>5 DEF ModerationInv, Underway
        <4>6. /\ req[s].pc \in {"check", "create"} =>
                    Subject(req[s].type, req[s].refs) \in Users \cup Things
              /\ req[s].pc \in {"act", "update"} => req[s].id <= lastId
          BY DEF ModerationInv, Underway
        <4> QED
          BY <4>1, <4>4, <4>5, <4>6
      <3> QED
        BY <3>2, <3>3
    <2> QED
      BY <2>4, <2>5 DEF ModerationInv
  <1> QED
    BY <1>6, <1>7, <1>8

\* The outcome goes to the report of that id, if it is still there, and to no
\* other.
LEMMA Updates ==
    ASSUME ModerationAssumption, ModerationInv, NEW r \in Requests, ProcessUpdate(r)
    PROVE  ModerationInv'
  <1> DEFINE q == req[r]
             Outcome(p) == [p EXCEPT !.action = q.action,
                              !.status = IF q.status = "omitted" THEN @ ELSE q.status]
  <1>1. /\ Finish(r) /\ UNCHANGED <<users, things, banned, lastId>> /\ q.pc = "update"
        /\ reports' = {IF p.id # q.id THEN p ELSE Outcome(p) : p \in reports}
    BY DEF ProcessUpdate
  <1>2. q \in Request /\ q.action \in Actions /\ q.status \in Outcomes
    BY DEF ModerationInv, TypeOK, Request
  <1>3. ASSUME NEW o \in reports
        PROVE  /\ Outcome(o) \in Report /\ Outcome(o).id = o.id
               /\ Outcome(o).type = o.type /\ Outcome(o).reporter = o.reporter
               /\ Outcome(o).refs = o.refs /\ Outcome(o).subject = o.subject
               /\ Outcome(o).action = q.action
    <2>1. o \in Report
      BY DEF ModerationInv, TypeOK
    <2>2. (IF q.status = "omitted" THEN o.status ELSE q.status) \in Statuses
      BY <1>2, <2>1 DEF Report, Outcomes
    <2> QED
      BY <1>2, <2>1, <2>2 DEF Report
  <1>4. /\ req' \in [Requests -> Request]
        /\ \A s \in Requests : req'[s] = req[s] \/ req'[s] = Idle
    BY <1>1, Ended
  <1> HIDE DEF q, Outcome
  <1>5. ASSUME NEW p \in reports'
        PROVE  \E o \in reports :
                  /\ p \in Report /\ p.id = o.id /\ p.type = o.type
                  /\ p.reporter = o.reporter /\ p.refs = o.refs /\ p.subject = o.subject
                  /\ p = IF o.id # q.id THEN o ELSE Outcome(o)
    <2>1. PICK o \in reports : p = IF o.id # q.id THEN o ELSE Outcome(o)
      BY <1>1, <1>5
    <2>2. o \in Report
      BY DEF ModerationInv, TypeOK
    <2> QED
      BY <1>3, <2>1, <2>2
  <1>6. TypeOK'
    <2>1. reports' \subseteq Report
      BY <1>5
    <2>2. \A m, n \in reports' : m.id = n.id => m = n
      <3> SUFFICES ASSUME NEW m \in reports', NEW n \in reports', m.id = n.id
                   PROVE  m = n
        OBVIOUS
      <3>1. PICK o \in reports : m.id = o.id /\ m = IF o.id # q.id THEN o ELSE Outcome(o)
        BY <1>5
      <3>2. PICK p \in reports : n.id = p.id /\ n = IF p.id # q.id THEN p ELSE Outcome(p)
        BY <1>5
      <3>3. o = p
        BY <3>1, <3>2 DEF ModerationInv, TypeOK
      <3> QED
        BY <3>1, <3>2, <3>3
    <2>3. \A p \in reports' : p.reporter \in users' /\ Valid(p.refs)'
      BY <1>1, <1>5 DEF ModerationInv, TypeOK, Valid, Existing
    <2> QED
      BY <1>1, <1>4, <2>1, <2>2, <2>3 DEF ModerationInv, TypeOK
  <1>7. RefsTell'
    <2> SUFFICES ASSUME NEW p \in reports'
                 PROVE  /\ p.id <= lastId
                        /\ p.type # "user" =>
                              /\ Subject(p.type, p.refs) \in {p.subject, Null}
                              /\ p.subject \in things <=>
                                    Subject(p.type, p.refs) = p.subject
                        /\ p.type = "user" => p.subject \in Users
      BY <1>1 DEF RefsTell, Subject
    <2>1. PICK o \in reports : /\ p.id = o.id /\ p.type = o.type
                               /\ p.refs = o.refs /\ p.subject = o.subject
      BY <1>5
    <2> QED
      BY <2>1 DEF ModerationInv, RefsTell
  <1>8. DeletionDone'
    <2> SUFFICES ASSUME NEW p \in reports', p.action \in Deletions
                 PROVE  p.subject \notin things
      BY <1>1 DEF DeletionDone, Deletions
    <2>1. PICK o \in reports : /\ p.id = o.id /\ p.subject = o.subject
                               /\ p = IF o.id # q.id THEN o ELSE Outcome(o)
      BY <1>5
    <2>2. CASE o.id # q.id
      BY <2>1, <2>2 DEF ModerationInv, DeletionDone, Deletions
    <2>3. CASE o.id = q.id
      <3>1. q.action \in Deletions /\ o \in WithId(q.id)
        BY <1>3, <2>1, <2>3 DEF WithId
      <3> QED
        BY <1>1, <2>1, <3>1 DEF ModerationInv, Underway, q
    <2> QED
      BY <2>2, <2>3
  <1>9. Underway'
    <2>1. lastId' \in Nat /\ lastId <= lastId' /\ things' \subseteq things
      BY <1>1 DEF ModerationInv, TypeOK
    <2> QED
      BY <1>4, <1>5, <2>1, UnderwayKept
  <1> QED
    BY <1>6, <1>7, <1>8, <1>9 DEF ModerationInv

\* A deletion outside of moderation, of a thing or of an account.
LEMMA Vanishes ==
    ASSUME ModerationAssumption, ModerationInv,
           NEW gone \in SUBSET (Users \cup Things),
           users' = users \ gone, things' = things \ gone, reports' = Without(gone),
           UNCHANGED <<banned, lastId, req>>
    PROVE  ModerationInv'
  <1>1. /\ req' \in [Requests -> Request] /\ banned' \subseteq Users
        /\ lastId' \in Nat /\ lastId <= lastId' /\ things' \subseteq things
    BY DEF ModerationInv, TypeOK
  <1>2. TypeOK' /\ RefsTell' /\ DeletionDone'
    BY <1>1, Nulled
  <1>3. \A p \in reports' : \E o \in reports : o.id = p.id /\ o.subject = p.subject
    BY SameSubjects
  <1>4. Underway'
    BY <1>1, <1>3, UnderwayKept
  <1> QED
    BY <1>2, <1>4 DEF ModerationInv

LEMMA Removes ==
    ASSUME ModerationAssumption, ModerationInv, NEW t \in Things, Remove(t)
    PROVE  ModerationInv'
  <1>1. users' = users \ {t}
    BY DEF Remove, ModerationInv, TypeOK, ModerationAssumption
  <1> QED
    BY <1>1, Vanishes DEF Remove

LEMMA UserDeletes ==
    ASSUME ModerationAssumption, ModerationInv, NEW u \in Users, DeleteUser(u)
    PROVE  ModerationInv'
  <1> DEFINE gone == {u} \cup {c \in Comments : Writer[c] = u}
  <1>1. gone \in SUBSET (Users \cup Things)
    BY DEF Things
  <1>2. /\ users' = users \ gone /\ things' = things \ gone /\ reports' = Without(gone)
        /\ UNCHANGED <<banned, lastId, req>>
    BY DEF DeleteUser
  <1> HIDE DEF gone
  <1> QED
    BY <1>1, <1>2, Vanishes

\* Every step keeps the inductive invariant.
LEMMA StepKeeps ==
    ASSUME ModerationAssumption, ModerationInv, [Next]_vars
    PROVE  ModerationInv'
  <1>1. CASE UNCHANGED vars
    <2>1. /\ UNCHANGED <<users, things, reports, lastId>> /\ banned' \subseteq Users
          /\ req' = req /\ req' \in [Requests -> Request]
          /\ lastId' \in Nat /\ lastId <= lastId'
      BY <1>1 DEF vars, ModerationInv, TypeOK
    <2>2. TypeOK' /\ RefsTell' /\ DeletionDone'
      BY <2>1, SameRows
    <2>3. Underway'
      BY <2>1, UnderwayKept
    <2> QED
      BY <2>2, <2>3 DEF ModerationInv
  <1>2. ASSUME NEW r \in Requests, NEW u \in Users, NEW type \in Types, NEW refs \in Asked,
               ReportValidate(r, u, type, refs)
        PROVE  ModerationInv'
    BY <1>2, Validates
  <1>3. ASSUME NEW r \in Requests, ReportCheck(r) \/ ReportCreate(r)
        PROVE  ModerationInv'
    BY <1>3, Checks, Creates
  <1>4. ASSUME NEW r \in Requests, NEW status \in Outcomes, NEW action \in Actions,
               ProcessRead(r, status, action)
        PROVE  ModerationInv'
    BY <1>4, Reads
  <1>5. ASSUME NEW r \in Requests, ActDelete(r) \/ ActBan(r) \/ ProcessUpdate(r)
        PROVE  ModerationInv'
    BY <1>5, ActDeletes, Bans, Updates
  <1>6. ASSUME NEW r \in Requests, Abort(r)
        PROVE  ModerationInv'
    <2>1. banned' \subseteq Users
      BY <1>6 DEF Abort, ModerationInv, TypeOK
    <2> QED
      BY <1>6, <2>1, GivesUp DEF Abort
  <1>7. ASSUME NEW t \in Things, Remove(t)
        PROVE  ModerationInv'
    BY <1>7, Removes
  <1>8. ASSUME NEW u \in Users, DeleteUser(u)
        PROVE  ModerationInv'
    BY <1>8, UserDeletes
  <1> QED
    BY <1>1, <1>2, <1>3, <1>4, <1>5, <1>6, <1>7, <1>8 DEF Next, Work

-----------------------------------------------------------------------------
\* Every behaviour is in the inductive invariant in every state.
LEMMA ModerationInvariant == ModerationAssumption => (Spec => []ModerationInv)
  <1> SUFFICES ASSUME ModerationAssumption
               PROVE  Spec => []ModerationInv
    OBVIOUS
  <1>1. Init => ModerationInv
    BY Starts
  <1>2. ModerationInv /\ [Next]_vars => ModerationInv'
    BY StepKeeps
  <1> QED
    BY <1>1, <1>2, PTL DEF Spec

\* The variables have their types, the ids of reports are unique, and no
\* report refers to what does not exist, whatever is deleted meanwhile.
THEOREM TypeCorrect == Spec => []TypeOK
  <1>1. ModerationInv => TypeOK
    BY DEF ModerationInv
  <1> QED
    BY <1>1, ModerationInvariant, ModerationAssumption, PTL

\* A report that says a post or a comment was deleted is about something that
\* is gone, whichever admins processed it and whatever failed between reading
\* it, deleting and writing the outcome (reports.service.ts, process).
THEOREM DeletionCarriedOut == Spec => []DeletionDone
  <1>1. ModerationInv => DeletionDone
    BY DEF ModerationInv
  <1> QED
    BY <1>1, ModerationInvariant, ModerationAssumption, PTL

=============================================================================
