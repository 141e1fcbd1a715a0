----------------------------- MODULE Moderation -----------------------------
(***************************************************************************)
(* Reports of users, posts and comments and how an admin processes them    *)
(* (reports.service.ts).  Processing reads the report, carries the action  *)
(* out and only then writes the outcome to the report: three steps that    *)
(* another admin, a deletion or a crash may come between.                  *)
(*                                                                         *)
(* A report keeps three references, each set to null when what it refers   *)
(* to is deleted.  The post of an anonymous writer has no authorId.        *)
(***************************************************************************)
EXTENDS Naturals, FiniteSets

CONSTANTS
    Users, Posts, Comments, Requests,
    Null,             \* a reference that is null
    Anonymous,        \* posts written anonymously
    Writer,           \* who wrote a post or a comment
    Asked,            \* the references the clients' reports have
    CommentsDeletable,\* the transaction that deletes a comment succeeds
    MaxReports        \* bound: no report is begun after this many

Things == Posts \cup Comments
Refs == [user : Users \cup {Null}, post : Posts \cup {Null},
         comment : Comments \cup {Null}]

ASSUME ModerationAssumption ==
    /\ Users # {}
    /\ Null \notin Users \cup Things /\ Users \cap Things = {}
    /\ Posts \cap Comments = {} /\ Anonymous \subseteq Posts
    /\ Writer \in [Things -> Users] /\ Asked \subseteq Refs
    /\ CommentsDeletable \in BOOLEAN /\ MaxReports \in Nat

VARIABLES
    users,     \* accounts that exist
    things,    \* posts and comments that exist
    banned,    \* history: accounts that were banned
    reports,   \* rows of reports
    lastId,
    req

vars == <<users, things, banned, reports, lastId, req>>

Types == {"user", "post", "comment"}
Statuses == {"pending", "closed"}    \* closed: reviewed, resolved, dismissed
Outcomes == Statuses \cup {"omitted"}  \* what the request may say of the status
Actions == {"none", "post_delete", "comment_delete", "ban"}   \* none: or warning
Deletions == {"post_delete", "comment_delete"}

\* subject (history): what the report of its type was first about.
Report == [id : Nat, type : Types, reporter : Users, refs : Refs,
           subject : Users \cup Things, status : Statuses, action : Actions]

NoRefs == [user |-> Null, post |-> Null, comment |-> Null]
Request == [pc : {"idle", "check", "create", "act", "update"},
            type : Types, reporter : Users, id : Nat, refs : Refs,
            status : Outcomes, action : Actions, culprit : Users \cup {Null}]
Idle == [pc |-> "idle", type |-> "user", reporter |-> CHOOSE u \in Users : TRUE,
         id |-> 0, refs |-> NoRefs, status |-> "pending", action |-> "none",
         culprit |-> Null]

-----------------------------------------------------------------------------
\* The authorId of a post (null for an anonymous one, and set to null with its
\* author) or of a comment (deleted with its author).
Author(t) == IF t \in Anonymous \/ Writer[t] \notin users THEN Null ELSE Writer[t]

\* The reference a report of this type must have.
Subject(type, refs) ==
    CASE type = "user" -> refs.user
      [] type = "post" -> refs.post
      [] type = "comment" -> refs.comment

Existing == users \cup things \cup {Null}
Valid(refs) == {refs.user, refs.post, refs.comment} \subseteq Existing

\* Types; ids are unique, and no report refers to what does not exist.
TypeOK ==
    /\ users \subseteq Users /\ things \subseteq Things /\ banned \subseteq Users
    /\ reports \subseteq Report
    /\ lastId \in Nat
    /\ req \in [Requests -> Request]
    /\ \A p, q \in reports : p.id = q.id => p = q
    /\ \A p \in reports : p.reporter \in users /\ Valid(p.refs)

WithId(id) == {p \in reports : p.id = id}
Finish(r) == req' = [req EXCEPT ![r] = Idle]

\* ON DELETE SET NULL, over all references to what is deleted.
Cleared(refs, gone) ==
    [user |-> IF refs.user \in gone THEN Null ELSE refs.user,
     post |-> IF refs.post \in gone THEN Null ELSE refs.post,
     comment |-> IF refs.comment \in gone THEN Null ELSE refs.comment]

\* Mutant of Without: the foreign keys of the references are not nulled.
WithoutKept(gone) == {p \in reports : p.reporter \notin gone}

Without(gone) ==
    {[p EXCEPT !.refs = Cleared(@, gone)] : p \in {q \in reports : q.reporter \notin gone}}

Init ==
    /\ users = Users /\ things = Things /\ banned = {}
    /\ reports = {} /\ lastId = 0
    /\ req = [r \in Requests |-> Idle]

\* create validates the reference of the report's type and only that one: it
\* must exist and not be the reporter's own.
ReportValidate(r, u, type, refs) ==
    LET t == Subject(type, refs) IN
    /\ req[r].pc = "idle" /\ lastId < MaxReports /\ u \in users
    /\ t \in (users \cup things) \ {u}
    /\ type # "user" => Author(t) # u
    /\ req' = [req EXCEPT ![r] = [Idle EXCEPT !.pc = "check", !.type = type,
                                    !.reporter = u, !.refs = refs]]
    /\ UNCHANGED <<users, things, banned, reports, lastId>>

\* A reference the request leaves out is no condition of the query.
SamePending(r) ==
    {p \in reports : /\ p.reporter = req[r].reporter /\ p.status = "pending"
                     /\ \A f \in DOMAIN NoRefs :
                           req[r].refs[f] \in {Null, p.refs[f]}}

\* It looks for a pending report of the same target by the same user ...
ReportCheck(r) ==
    /\ req[r].pc = "check"
    /\ IF SamePending(r) = {} THEN req' = [req EXCEPT ![r].pc = "create"]
                              ELSE Finish(r)
    /\ UNCHANGED <<users, things, banned, reports, lastId>>

\* ... and creates the row, if the foreign keys let it.
ReportCreate(r) ==
    LET q == req[r] IN
    /\ q.pc = "create"
    /\ IF q.reporter \in users /\ Valid(q.refs)
         THEN /\ reports' = reports \cup
                    {[id |-> lastId + 1, type |-> q.type, reporter |-> q.reporter,
                      refs |-> q.refs, subject |-> Subject(q.type, q.refs),
                      status |-> "pending", action |-> "none"]}
              /\ lastId' = lastId + 1
         ELSE UNCHANGED <<reports, lastId>>
    /\ Finish(r)
    /\ UNCHANGED <<users, things, banned>>

\* validateActionForReportType
Fits(type, action) ==
    /\ action = "post_delete" => type = "post"
    /\ action = "comment_delete" => type = "comment"

\* banUser's choice: the user, else the post's author, else the comment's.
Culprit(refs) ==
    CASE refs.user # Null -> refs.user
      [] refs.user = Null /\ refs.post # Null -> Author(refs.post)
      [] refs.user = Null /\ refs.post = Null /\ refs.comment # Null -> Author(refs.comment)
      [] OTHER -> Null

\* process reads the report, which must be pending, and keeps what the action
\* needs of it.  The status is optional in the request, and may be PENDING.
ProcessRead(r, status, action) ==
    /\ req[r].pc = "idle"
    /\ \E p \in reports :
          /\ p.status = "pending" /\ Fits(p.type, action)
          /\ req' = [req EXCEPT ![r] = [Idle EXCEPT
                        !.pc = IF action = "none" THEN "update" ELSE "act",
                        !.id = p.id, !.status = status, !.action = action,
                        !.refs = IF action \in Deletions THEN p.refs ELSE NoRefs,
                        !.culprit = IF action = "ban" THEN Culprit(p.refs) ELSE Null]]
    /\ UNCHANGED <<users, things, banned, reports, lastId>>

\* The action is carried out: what is left is to record it.
Acted(q) == [q EXCEPT !.pc = "update", !.refs = NoRefs, !.culprit = Null]

\* Mutant of DeleteTarget: the deletion is not awaited, and its failure not seen.
DeleteTargetLoose(r, t) ==
    /\ \/ UNCHANGED <<things, reports>>
       \/ /\ t \in things /\ (t \in Comments => CommentsDeletable)
          /\ things' = things \ {t} /\ reports' = Without({t})
    /\ req' = [req EXCEPT ![r] = Acted(@)]

\* Mutant of DeleteTarget: what has no target any more cannot be processed.
DeleteTargetStrict(r, t) ==
    /\ IF t \in things /\ (t \in Comments => CommentsDeletable)
         THEN /\ things' = things \ {t} /\ reports' = Without({t})
              /\ req' = [req EXCEPT ![r] = Acted(@)]
         ELSE Finish(r) /\ UNCHANGED <<things, reports>>

\* Deleting what was read as t: a null reference and a comment that is gone
\* are passed over, a post that is gone is an error and ends the request.
DeleteTarget(r, t) ==
    LET passed == t = Null \/ (t \in Comments \ things)
        deleted == t \in things /\ (t \in Comments => CommentsDeletable)
    IN
    /\ IF deleted THEN things' = things \ {t} /\ reports' = Without({t})
                  ELSE UNCHANGED <<things, reports>>
    /\ IF deleted \/ passed THEN req' = [req EXCEPT ![r] = Acted(@)]
                            ELSE Finish(r)

ActDelete(r) ==
    /\ req[r].pc = "act" /\ req[r].action \in Deletions
    /\ DeleteTarget(r, IF req[r].action = "post_delete" THEN req[r].refs.post
                                                        ELSE req[r].refs.comment)
    /\ UNCHANGED <<users, banned, lastId>>

\* banUser returns when there is nobody to ban; an account that is gone by now
\* is an error.
ActBan(r) ==
    LET u == req[r].culprit IN
    /\ req[r].pc = "act" /\ req[r].action = "ban"
    /\ banned' = IF u \in users THEN banned \cup {u} ELSE banned
    /\ IF u \in users \cup {Null} THEN req' = [req EXCEPT ![r] = Acted(@)]
                                  ELSE Finish(r)
    /\ UNCHANGED <<users, things, reports, lastId>>

\* The outcome is written whatever the report's status is now, also PENDING
\* over a report that was closed meanwhile; a status left out changes nothing.
ProcessUpdate(r) ==
    /\ req[r].pc = "update"
    /\ reports' = {IF p.id # req[r].id THEN p
                   ELSE [p EXCEPT !.action = req[r].action,
                            !.status = IF req[r].status = "omitted" THEN @
                                       ELSE req[r].status] : p \in reports}
    /\ Finish(r)
    /\ UNCHANGED <<users, things, banned, lastId>>

\* A post or a comment is deleted by its writer.
Remove(t) ==
    /\ t \in things
    /\ things' = things \ {t}
    /\ reports' = Without({t})
    /\ UNCHANGED <<users, banned, lastId, req>>

\* An account is deleted, with its comments and the reports it made.
DeleteUser(u) ==
    LET gone == {u} \cup {c \in Comments : Writer[c] = u} IN
    /\ u \in users
    /\ users' = users \ gone
    /\ things' = things \ gone
    /\ reports' = Without(gone)
    /\ UNCHANGED <<banned, lastId, req>>

\* The server dies, or a statement fails.
Abort(r) ==
    /\ req[r].pc # "idle"
    /\ Finish(r)
    /\ UNCHANGED <<users, things, banned, reports, lastId>>

Work ==
    \/ \E r \in Requests :
          \/ \E u \in Users, type \in Types, refs \in Asked :
                ReportValidate(r, u, type, refs)
          \/ ReportCheck(r) \/ ReportCreate(r)
          \/ \E status \in Outcomes, action \in Actions : ProcessRead(r, status, action)
          \/ ActDelete(r) \/ ActBan(r) \/ ProcessUpdate(r)
    \/ \E t \in Things : Remove(t)
    \/ \E u \in Users : DeleteUser(u)

Next == Work \/ \E r \in Requests : Abort(r)

Spec == Init /\ [][Next]_vars

-----------------------------------------------------------------------------
(* What processing promises.                                               *)

\* The outcome is written last: a report that records a deletion is about
\* something that is gone, whoever else processed it, whatever crashed.
DeletionDone ==
    \A p \in reports :
        p.action \in Deletions => p.subject \notin things

-----------------------------------------------------------------------------
(* What comments of the code say of it, and the code does not do.          *)

\* A processed report is not processed again (reports.service.ts:241).
ProcessedOnce ==
    [][\A p \in reports : p.status = "closed" =>
          \A q \in reports' : q.id = p.id => q.action = p.action]_vars

\* A user has one pending report of a target (reports.service.ts:29).
OnePendingPerTarget ==
    \A p, q \in reports :
        /\ p.reporter = q.reporter /\ p.refs = q.refs
        /\ p.status = "pending" /\ q.status = "pending"
        => p = q

\* A ban is possible for a report of any type and falls on the writer of what
\* was reported (reports.service.ts:283).
BanFallsOnWriter ==
    \A p \in reports : p.action = "ban" =>
        (IF p.type = "user" THEN p.subject ELSE Writer[p.subject]) \in banned

\* Nobody reports a post of their own (reports.service.ts:88).
NoReportOfOwn ==
    \A p \in reports : p.type = "post" => p.reporter # Writer[p.subject]

\* A report refers to what its type says only (schema.prisma:454).
OneReference ==
    \A p \in reports :
        /\ p.type # "user" => p.refs.user = Null
        /\ p.type # "post" => p.refs.post = Null
        /\ p.type # "comment" => p.refs.comment = Null
=============================================================================
