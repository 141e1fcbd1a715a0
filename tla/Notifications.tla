--------------------------- MODULE Notifications ----------------------------
(***************************************************************************)
(* Notices (notifications.service.ts) and the operations that send them:   *)
(* a like, a comment or reply and a mention in it, an application and the  *)
(* decision on it, all on one post of one writer.  A request here is the   *)
(* asynchronous task of the server: only the decision on an application    *)
(* waits for its notice, the others answer the client before.  A like      *)
(* launches its notice inside its transaction.  (The notices of the        *)
(* verification of documents are in DocumentReviews; listing and reading   *)
(* notices is in NoticeList.)                                              *)
(***************************************************************************)
EXTENDS Integers, FiniteSets, Sequences

CONSTANTS
    Users, Requests,
    Writer,       \* the author of the post
    MaxWritten, MaxNotices   \* bounds: comments, notices

NoticeAssumption ==
    /\ Writer \in Users
    /\ MaxWritten \in Nat /\ MaxNotices \in Nat

VARIABLES
    gone,       \* deleted accounts
    written,    \* history: all comments ever committed
    comments,   \* the ids of those that are still there
    liked,      \* users whose like is committed
    applied,    \* users with an application
    notices,    \* the table notifications
    lastId,
    req

vars == <<gone, written, comments, liked, applied, notices, lastId, req>>

None == 0
Types == {"LIKE", "COMMENT", "REPLY", "MENTION", "NEW_APPLICATION", "APPLICATION_STATUS"}
Comment == [id : Nat, author : Users, parent : Nat, mention : Users \cup {None}]
Message == [type : Types, user : Users, actor : Users, about : Nat]
Notice == [id : Nat, msg : Message]

\* Types; nobody is sent a notice of the own doing, and ids are unique.
TypeOK ==
    /\ gone \subseteq Users /\ liked \subseteq Users /\ applied \subseteq Users
    /\ written \subseteq Comment /\ comments \subseteq {c.id : c \in written}
    /\ notices \subseteq Notice
    /\ \A n \in notices : n.id \in 1 .. lastId /\ n.msg.user # n.msg.actor
    /\ \A m, n \in notices : m.id = n.id => m = n
    /\ \A r \in Requests :
          /\ req[r].pc \in {"idle", "like", "comment", "unowned", "parent", "send"}
          /\ req[r].queue \in Seq(Message) /\ req[r].about \in Nat

-----------------------------------------------------------------------------
Idle == [pc |-> "idle", actor |-> Writer, about |-> None, queue |-> <<>>]
Live(u) == u \notin gone
ById(c) == CHOOSE w \in written : w.id = c
Message1(type, user, actor, about) ==
    [type |-> type, user |-> user, actor |-> actor, about |-> about]
ToWriter(type, actor, about) ==
    IF Live(Writer) THEN <<Message1(type, Writer, actor, about)>> ELSE <<>>
Begin(r, pc, u, about, queue) ==
    req' = [req EXCEPT ![r] = [pc |-> pc, actor |-> u, about |-> about, queue |-> queue]]
Finish(r) == req' = [req EXCEPT ![r] = Idle]

Init ==
    /\ gone = {} /\ written = {} /\ comments = {} /\ liked = {} /\ applied = {}
    /\ notices = {} /\ lastId = 0
    /\ req = [r \in Requests |-> Idle]

Free(r, u) == req[r].pc = "idle" /\ Live(u) /\ lastId < MaxNotices

\* toggleLike: the notice is under way before the transaction has ended ...
LikeBegin(r, u) ==
    /\ Free(r, u) /\ u \notin liked
    /\ Begin(r, "like", u, None, ToWriter("LIKE", u, None))
    /\ UNCHANGED <<gone, written, comments, liked, applied, notices, lastId>>

\* ... by a commit, or by a rollback that does not call the notice back.
LikeEnd(r) ==
    /\ req[r].pc = "like"
    /\ liked' \in {liked, liked \cup ({req[r].actor} \ gone)}
    /\ req' = [req EXCEPT ![r].pc = "send"]
    /\ UNCHANGED <<gone, written, comments, applied, notices, lastId>>

\* The notice of a comment c that is no reply, and of the mention in it.
Mentions(c) ==
    IF c.mention = None \/ c.mention = c.author THEN <<>>
    ELSE <<Message1("MENTION", c.mention, c.author, c.id)>>
ToPostWriter(c, owned) ==
    IF owned /\ c.author # Writer
      THEN <<Message1("COMMENT", Writer, c.author, c.id)>> ELSE <<>>

Drafts(u) ==
    {[id |-> Cardinality(written) + 1, author |-> u, parent |-> p, mention |-> m] :
        p \in {None} \cup {x \in comments : ById(x).parent = None},
        m \in {None} \cup (Users \ gone)}

\* comments.create reads the post, which has a writer or has none any more ...
CommentBegin(r, u) ==
    /\ Free(r, u)
    /\ Begin(r, IF Live(Writer) THEN "comment" ELSE "unowned", u, None, <<>>)
    /\ UNCHANGED <<gone, written, comments, liked, applied, notices, lastId>>

\* Mutant of CommentCommit: the notices are launched in the transaction.
CommentLaunch(r) ==
    LET u == req[r].actor IN
    /\ req[r].pc \in {"comment", "unowned"} /\ Live(u)
    /\ Cardinality(written) < MaxWritten
    /\ \E c \in Drafts(u), commits \in BOOLEAN :
          /\ written' = IF commits THEN written \cup {c} ELSE written
          /\ comments' = IF commits THEN comments \cup {c.id} ELSE comments
          /\ Begin(r, "send", u, c.id,
                   ToPostWriter(c, req[r].pc = "comment") \o Mentions(c))
    /\ UNCHANGED <<gone, liked, applied, notices, lastId>>

\* ... and commits; the notice goes to the writer it read, a reply looks its
\* parent up again for its notice.
CommentCommit(r) ==
    LET u == req[r].actor IN
    /\ req[r].pc \in {"comment", "unowned"} /\ Live(u)
    /\ Cardinality(written) < MaxWritten
    /\ \E c \in Drafts(u) :
          /\ written' = written \cup {c}
          /\ comments' = comments \cup {c.id}
          /\ IF c.parent = None
               THEN Begin(r, "send", u, c.id,
                          ToPostWriter(c, req[r].pc = "comment") \o Mentions(c))
               ELSE Begin(r, "parent", u, c.id, Mentions(c))
    /\ UNCHANGED <<gone, liked, applied, notices, lastId>>

\* createNotifications finds the parent of a reply, if it is still there.
ParentRead(r) ==
    LET c == ById(req[r].about)
        to == ById(c.parent).author
        reply == IF c.parent \in comments /\ to # c.author
                   THEN <<Message1("REPLY", to, c.author, c.id)>> ELSE <<>>
    IN
    /\ req[r].pc = "parent"
    /\ Begin(r, "send", c.author, c.id, reply \o req[r].queue)
    /\ UNCHANGED <<gone, written, comments, liked, applied, notices, lastId>>

\* applications.create: the row, then a notice to the writer of the posting.
Apply(r, u) ==
    /\ Free(r, u) /\ u # Writer /\ u \notin applied
    /\ applied' = applied \cup {u}
    /\ Begin(r, "send", u, None, ToWriter("NEW_APPLICATION", u, None))
    /\ UNCHANGED <<gone, written, comments, liked, notices, lastId>>

\* updateStatus: the decision, then a notice to the applicant.
Decide(r, u) ==
    /\ Free(r, Writer) /\ u \in applied
    /\ Begin(r, "send", Writer, None, <<Message1("APPLICATION_STATUS", u, Writer, None)>>)
    /\ UNCHANGED <<gone, written, comments, liked, applied, notices, lastId>>

\* create: nobody is told of the own doing.
Unsent(m) == m.user = m.actor

\* The next notice of a task is inserted.  When its recipient is gone the
\* insert fails, and with it the rest of the task.
Send(r) ==
    LET m == Head(req[r].queue) IN
    /\ req[r].pc \in {"like", "send"} /\ req[r].queue # <<>>
    /\ IF Unsent(m) \/ ~Live(m.user)
         THEN UNCHANGED <<notices, lastId>>
         ELSE /\ notices' = notices \cup
                    {[id |-> lastId + 1, msg |-> m]}
              /\ lastId' = lastId + 1
    /\ req' = [req EXCEPT ![r].queue =
                  IF Unsent(m) \/ Live(m.user) THEN Tail(@) ELSE <<>>]
    /\ UNCHANGED <<gone, written, comments, liked, applied>>

\* A task ends: all is sent, or a statement failed or the server died.
End(r) ==
    /\ req[r].pc \in {"comment", "unowned", "parent", "send"}
    /\ Finish(r)
    /\ UNCHANGED <<gone, written, comments, liked, applied, notices, lastId>>

\* comments.remove, with the replies to the comment; notices of it stay.
RemoveComment(c) ==
    /\ c \in comments
    /\ comments' = {x \in comments : x # c /\ ById(x).parent # c}
    /\ UNCHANGED <<gone, written, liked, applied, notices, lastId, req>>

\* An account is deleted, and with it all that hangs on it.
DeleteUser(u) ==
    LET own == {c.id : c \in {w \in written : w.author = u}} IN
    /\ Live(u)
    /\ gone' = gone \cup {u}
    /\ comments' = {x \in comments : x \notin own /\ ById(x).parent \notin own}
    /\ liked' = liked \ {u} /\ applied' = applied \ {u}
    /\ notices' = {n \in notices : n.msg.user # u}
    /\ UNCHANGED <<written, lastId, req>>

Next ==
    \/ \E r \in Requests :
          \/ \E u \in Users :
                LikeBegin(r, u) \/ CommentBegin(r, u) \/ Apply(r, u) \/ Decide(r, u)
          \/ CommentCommit(r) \/ LikeEnd(r) \/ ParentRead(r) \/ Send(r) \/ End(r)
    \/ \E c \in comments : RemoveComment(c)
    \/ \E u \in Users : DeleteUser(u)

Spec == Init /\ [][Next]_vars

-----------------------------------------------------------------------------
\* Every notice but that of a like is about something that was committed, and
\* goes to the one it concerns; a comment tells nobody the same thing twice.
NoticeHasCause ==
    /\ \A n \in notices :
          LET m == n.msg IN
          m.type \in {"COMMENT", "REPLY", "MENTION"} =>
            \E c \in written :
               /\ c.id = m.about /\ c.author = m.actor
               /\ m.type = "COMMENT" => m.user = Writer /\ c.parent = None
               /\ m.type = "REPLY" =>
                     \E p \in written : p.id = c.parent /\ p.author = m.user
               /\ m.type = "MENTION" => m.user = c.mention
    /\ \A m, n \in notices : m.msg = n.msg /\ m.msg.about # None => m = n

\* What a notice of a like says, and a rollback refutes: the actor liked it.
LikeNoticeTrue ==
    \A n \in notices, r \in Requests :
        n.msg.type = "LIKE" /\ Live(n.msg.actor) /\ req[r].pc # "like"
          => n.msg.actor \in liked
=============================================================================
