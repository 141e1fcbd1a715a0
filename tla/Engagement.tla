----------------------------- MODULE Engagement -----------------------------
(***************************************************************************)
(* Likes, bookmarks and comments of the posts, with the counters each post *)
(* keeps of them (posts.service.ts, comments.service.ts, counter.util.ts), *)
(* and the deletion of comments, posts and accounts that must keep the     *)
(* counters right (users.service.ts, admin.service.ts, reports.service.ts).*)
(*                                                                         *)
(* Every operation is a transaction at READ COMMITTED: what it read may be *)
(* stale when it writes.  Its writes are one step, because the row locks   *)
(* they take are held until the commit.  Decrements are raw SQL over a     *)
(* relation named "Post".  The migrations make none of that name; a        *)
(* database may have one all the same (a view).  Without it the statement  *)
(* aborts its whole transaction.                                           *)
(***************************************************************************)
EXTENDS Integers, FiniteSets

CONSTANTS
    Users, Posts, Requests,
    Leavers,       \* accounts that may be deleted
    NoComments,    \* posts of the boards without comments (jobs, legal Q&A)
    Databases,     \* the sets of tables and views a database may have
    MaxPerPost,    \* MAX_COMMENTS_PER_POST
    MaxPerMinute,  \* MAX_COMMENTS_PER_USER_PER_MINUTE
    MaxComments    \* bound: no comment is begun after this many

ASSUME EngagementAssumption ==
    /\ IsFiniteSet(Users) /\ IsFiniteSet(Posts) /\ Users # {} /\ Posts # {}
    /\ Leavers \subseteq Users /\ NoComments \subseteq Posts
    /\ MaxPerPost \in Nat /\ MaxPerMinute \in Nat /\ MaxComments \in Nat

VARIABLES
    relations,     \* tables and views the database has
    live,          \* accounts that exist
    post,          \* "none", "up" or "gone"
    marks,         \* rows of likes and bookmarks
    comments,      \* rows of comments
    lastId,        \* id of the latest comment
    likeCount, commentCount,
    req            \* requests in progress

vars == <<relations, live, post, marks, comments, lastId, likeCount, commentCount, req>>

Tables == {"like", "bookmark"}
Mark == [table : Tables, user : Users, post : Posts]

\* parent = 0: a comment of its own; recent: written within the last minute.
Comment == [id : Nat, post : Posts, author : Users, parent : Nat,
            recent : BOOLEAN]
Tally == [Posts -> Nat]
Request == [pc : {"idle", "mark", "unmark", "comment", "insert", "remove",
                  "leave"},
            table : Tables, user : Users, post : Posts, id : Nat, replies : Nat,
            nComments : Tally, nLikes : Tally]

Nothing == [p \in Posts |-> 0]
Idle == [pc |-> "idle", table |-> "like", user |-> CHOOSE u \in Users : TRUE,
         post |-> CHOOSE p \in Posts : TRUE, id |-> 0, replies |-> 0,
         nComments |-> Nothing, nLikes |-> Nothing]

\* Types.  That no counter is below zero is more than a type: a comment and
\* its parent may be removed at once and the reply be taken off twice, and only
\* the GREATEST of the raw statement (counter.util.ts) keeps the counter up.
TypeOK ==
    /\ relations \in Databases
    /\ live \subseteq Users
    /\ post \in [Posts -> {"none", "up", "gone"}]
    /\ marks \subseteq Mark
    /\ comments \subseteq Comment
    /\ lastId \in Nat
    /\ likeCount \in [Posts -> Nat] /\ commentCount \in [Posts -> Nat]
    /\ req \in [Requests -> Request]

-----------------------------------------------------------------------------
MarkOf(r) == [table |-> req[r].table, user |-> req[r].user, post |-> req[r].post]

CommentsOf(p) == {c \in comments : c.post = p}
LikesOf(p) == {m \in marks : m.table = "like" /\ m.post = p}
RepliesTo(id) == {c \in comments : c.parent = id}
WithId(id) == {c \in comments : c.id = id}

\* Mutant of Less: Prisma's plain decrement, in place of the raw statement.
LessUnsafe(count, n) == count - n

\* GREATEST(0, count - n)
Less(count, n) == IF count > n THEN count - n ELSE 0

DecrementRuns == "Post" \in relations

Finish(r) == req' = [req EXCEPT ![r] = Idle]

Init ==
    /\ relations \in Databases
    /\ live = Users
    /\ post = [p \in Posts |-> "none"]
    /\ marks = {} /\ comments = {} /\ lastId = 0
    /\ likeCount = Nothing /\ commentCount = Nothing
    /\ req = [r \in Requests |-> Idle]

counters == <<likeCount, commentCount>>

PostCreate(p) ==
    /\ post[p] = "none"
    /\ post' = [post EXCEPT ![p] = "up"]
    /\ UNCHANGED <<relations, live, marks, comments, lastId, counters, req>>

\* The post's comments, likes and bookmarks go with it.
PostDelete(p) ==
    /\ post[p] = "up"
    /\ post' = [post EXCEPT ![p] = "gone"]
    /\ marks' = {m \in marks : m.post # p}
    /\ comments' = comments \ CommentsOf(p)
    /\ UNCHANGED <<relations, live, lastId, counters, req>>

\* toggleLike and toggleBookmark read the post and the caller's row.  (The
\* access token of an account that was just deleted is still accepted.)
ToggleRead(r, u, p, table) ==
    LET m == [table |-> table, user |-> u, post |-> p] IN
    /\ req[r].pc = "idle" /\ post[p] = "up"
    /\ req' = [req EXCEPT ![r] = [Idle EXCEPT
                  !.pc = IF m \in marks THEN "unmark" ELSE "mark",
                  !.table = table, !.user = u, !.post = p]]
    /\ UNCHANGED <<relations, live, post, marks, comments, lastId, counters>>

\* Mutant of MarkAllowed: no unique index over user and post.
MarkAllowedTwice(r) == post[req[r].post] = "up" /\ req[r].user \in live

\* The unique index and the foreign keys of the row to be created.
MarkAllowed(r) ==
    /\ MarkOf(r) \notin marks
    /\ post[req[r].post] = "up" /\ req[r].user \in live

MarkCommit(r) ==
    LET p == req[r].post IN
    /\ req[r].pc = "mark"
    /\ IF MarkAllowed(r)
         THEN /\ marks' = marks \cup {MarkOf(r)}
              /\ likeCount' = IF req[r].table = "like"
                                THEN [likeCount EXCEPT ![p] = @ + 1] ELSE likeCount
         ELSE UNCHANGED <<marks, likeCount>>
    /\ Finish(r)
    /\ UNCHANGED <<relations, live, post, comments, lastId, commentCount>>

\* The row is deleted by its id: the other requests that read this row fail.
UnmarkCommit(r) ==
    LET p == req[r].post
        same == {q \in Requests : req[q].pc = "unmark" /\ MarkOf(q) = MarkOf(r)}
    IN
    /\ req[r].pc = "unmark"
    /\ IF MarkOf(r) \in marks /\ (req[r].table = "like" => DecrementRuns)
         THEN /\ marks' = marks \ {MarkOf(r)}
              /\ likeCount' = IF req[r].table = "like"
                                THEN [likeCount EXCEPT ![p] = Less(@, 1)] ELSE likeCount
              /\ req' = [q \in Requests |-> IF q \in same THEN Idle ELSE req[q]]
         ELSE UNCHANGED <<marks, likeCount>> /\ Finish(r)
    /\ UNCHANGED <<relations, live, post, comments, lastId, commentCount>>

\* comments.create: the post, the writer's recent comments and the parent,
\* which must be a comment of its own on the same post.
CommentRead(r, u, p, parent) ==
    /\ req[r].pc = "idle" /\ lastId < MaxComments
    /\ post[p] = "up" /\ p \notin NoComments
    /\ Cardinality({c \in comments : c.author = u /\ c.recent}) < MaxPerMinute
    /\ parent # 0 => \E c \in WithId(parent) : c.parent = 0 /\ c.post = p
    /\ req' = [req EXCEPT ![r] = [Idle EXCEPT !.pc = "comment", !.user = u,
                                    !.post = p, !.id = parent]]
    /\ UNCHANGED <<relations, live, post, marks, comments, lastId, counters>>

\* The transaction reads the post's counter (a deleted post passes).
CommentCheck(r) ==
    LET p == req[r].post IN
    /\ req[r].pc = "comment"
    /\ IF post[p] = "up" /\ commentCount[p] >= MaxPerPost
         THEN Finish(r)
         ELSE req' = [req EXCEPT ![r].pc = "insert"]
    /\ UNCHANGED <<relations, live, post, marks, comments, lastId, counters>>

\* Mutant of CommentAllowed: no foreign key to the parent.
CommentAllowedOrphan(r) == post[req[r].post] = "up" /\ req[r].user \in live

CommentAllowed(r) ==
    /\ post[req[r].post] = "up" /\ req[r].user \in live
    /\ req[r].id # 0 => WithId(req[r].id) # {}

CommentInsert(r) ==
    LET p == req[r].post IN
    /\ req[r].pc = "insert"
    /\ IF CommentAllowed(r)
         THEN /\ comments' = comments \cup
                    {[id |-> lastId + 1, post |-> p, author |-> req[r].user,
                      parent |-> req[r].id, recent |-> TRUE]}
              /\ lastId' = lastId + 1
              /\ commentCount' = [commentCount EXCEPT ![p] = @ + 1]
         ELSE UNCHANGED <<comments, lastId, commentCount>>
    /\ Finish(r)
    /\ UNCHANGED <<relations, live, post, marks, likeCount>>

\* comments.remove, admin.deleteComment and the COMMENT_DELETE action of a
\* report find the comment and count its replies.
RemoveRead(r) ==
    /\ req[r].pc = "idle"
    /\ \E c \in comments :
          req' = [req EXCEPT ![r] = [Idle EXCEPT !.pc = "remove", !.post = c.post,
                     !.id = c.id, !.replies = Cardinality(RepliesTo(c.id))]]
    /\ UNCHANGED <<relations, live, post, marks, comments, lastId, counters>>

\* Mutant of RemoveCommit: the row is deleted before the transaction of the
\* decrement, and stays deleted when the decrement fails.
RemoveCommitApart(r) ==
    LET gone == WithId(req[r].id) \cup RepliesTo(req[r].id) IN
    /\ req[r].pc = "remove"
    /\ comments' = comments \ gone
    /\ commentCount' = IF WithId(req[r].id) # {} /\ DecrementRuns
                         THEN [commentCount EXCEPT ![req[r].post] =
                                 Less(@, 1 + req[r].replies)]
                         ELSE commentCount
    /\ Finish(r)
    /\ UNCHANGED <<relations, live, post, marks, lastId, likeCount>>

\* The replies there are now go with the comment; the counter is lowered by
\* the number that was read.
RemoveCommit(r) ==
    LET gone == WithId(req[r].id) \cup RepliesTo(req[r].id) IN
    /\ req[r].pc = "remove"
    /\ IF WithId(req[r].id) # {} /\ DecrementRuns
         THEN /\ comments' = comments \ gone
              /\ commentCount' = [commentCount EXCEPT ![req[r].post] =
                                    Less(@, 1 + req[r].replies)]
         ELSE UNCHANGED <<comments, commentCount>>
    /\ Finish(r)
    /\ UNCHANGED <<relations, live, post, marks, lastId, likeCount>>

\* users.remove and admin.deleteUser count the account's comments and likes
\* per post.
LeaveRead(r, u) ==
    /\ req[r].pc = "idle" /\ u \in Leavers \cap live
    /\ req' = [req EXCEPT ![r] = [Idle EXCEPT !.pc = "leave", !.user = u,
          !.nComments = [p \in Posts |->
                           Cardinality({c \in CommentsOf(p) : c.author = u})],
          !.nLikes = [p \in Posts |->
                        Cardinality({m \in LikesOf(p) : m.user = u})]]]
    /\ UNCHANGED <<relations, live, post, marks, comments, lastId, counters>>

\* The counters are lowered by what was counted, and the account is deleted
\* with its comments, the replies to them and its marks.  The catch around a
\* decrement does not save the transaction from a statement that failed.
LeaveCommit(r) ==
    LET u == req[r].user
        own == {c \in comments : c.author = u}
        gone == own \cup UNION {RepliesTo(c.id) : c \in own}
        untouched == req[r].nComments = Nothing /\ req[r].nLikes = Nothing
    IN
    /\ req[r].pc = "leave"
    /\ IF u \in live /\ (DecrementRuns \/ untouched)
         THEN /\ live' = live \ {u}
              /\ comments' = comments \ gone
              /\ marks' = {m \in marks : m.user # u}
              /\ commentCount' = [p \in Posts |->
                    IF req[r].nComments[p] = 0 THEN commentCount[p]
                    ELSE Less(commentCount[p], req[r].nComments[p])]
              /\ likeCount' = [p \in Posts |->
                    IF req[r].nLikes[p] = 0 THEN likeCount[p]
                    ELSE Less(likeCount[p], req[r].nLikes[p])]
         ELSE UNCHANGED <<live, comments, marks, counters>>
    /\ Finish(r)
    /\ UNCHANGED <<relations, post, lastId>>

\* A transaction is rolled back: its time limit, a deadlock, a crash.
Abort(r) ==
    /\ req[r].pc # "idle"
    /\ Finish(r)
    /\ UNCHANGED <<relations, live, post, marks, comments, lastId, counters>>

\* The comments up to some id grow older than a minute.
Age ==
    /\ \E c \in comments :
          /\ c.recent
          /\ comments' = {[d EXCEPT !.recent = @ /\ d.id > c.id] : d \in comments}
    /\ UNCHANGED <<relations, live, post, marks, lastId, counters, req>>

Start(r) ==
    \/ \E u \in Users, p \in Posts :
          \/ \E table \in Tables : ToggleRead(r, u, p, table)
          \/ \E parent \in 0 .. lastId : CommentRead(r, u, p, parent)
    \/ RemoveRead(r)
    \/ \E u \in Users : LeaveRead(r, u)

Continue(r) ==
    \/ MarkCommit(r) \/ UnmarkCommit(r)
    \/ CommentCheck(r) \/ CommentInsert(r) \/ RemoveCommit(r) \/ LeaveCommit(r)

Next ==
    \/ \E p \in Posts : PostCreate(p) \/ PostDelete(p)
    \/ \E r \in Requests : Start(r) \/ Continue(r) \/ Abort(r)
    \/ Age

Spec == Init /\ [][Next]_vars

-----------------------------------------------------------------------------
(* What the counters and the comment tree promise.                         *)

\* A post's like counter is the number of its likes after every interleaving
\* of toggles, until an account is deleted.
LikeCountExact ==
    live = Users =>
        \A p \in Posts : post[p] = "up" => likeCount[p] = Cardinality(LikesOf(p))

\* How far a post's comment counter is from the comments it has.
Drift(p) == commentCount[p] - Cardinality(CommentsOf(p))

\* While accounts stay, one thing alone moves a comment counter away from the
\* comments or back: a comment is removed whose replies have changed since they
\* were counted, or from a counter that earlier drift has left too low.
DriftByStaleReplies ==
    [][\A p \in Posts :
          post[p] = "up" /\ post'[p] = "up" /\ live' = live /\ Drift(p)' # Drift(p) =>
             \E r \in Requests :
                /\ req[r].pc = "remove" /\ req'[r].pc = "idle"
                /\ req[r].post = p /\ WithId(req[r].id) # {}
                /\ \/ req[r].replies # Cardinality(RepliesTo(req[r].id))
                   \/ commentCount[p] <= req[r].replies]_vars

\* Replies are one level deep and on their parent's post, also when the parent
\* or its author is deleted while the reply is written.
RepliesOneDeep ==
    \A c \in comments : c.parent # 0 =>
        \E d \in comments : d.id = c.parent /\ d.parent = 0 /\ d.post = c.post

-----------------------------------------------------------------------------
(* What comments of the code say of it, and the code does not do.          *)

\* Toggling a like that exists takes it back (posts.service.ts:479).
UnlikeWorks ==
    [][\A r \in Requests :
          UnmarkCommit(r) /\ MarkOf(r) \in marks => MarkOf(r) \notin marks']_vars

\* A post never has more comments than the limit (comments.service.ts:105).
PerPostLimit == \A p \in Posts : Cardinality(CommentsOf(p)) <= MaxPerPost

\* Deleting an account adjusts the counters (users.service.ts:543).
CountersAdjusted ==
    \A p \in Posts : post[p] = "up" =>
        /\ likeCount[p] = Cardinality(LikesOf(p))
        /\ commentCount[p] = Cardinality(CommentsOf(p))
=============================================================================
