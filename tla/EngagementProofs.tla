-------------------------- MODULE EngagementProofs --------------------------
(***************************************************************************)
(* Theorems about Engagement, for every number of accounts, posts and      *)
(* requests, whatever relations the database has and whatever the limits:  *)
(* replies are one deep, the like counters are exact while accounts stay,  *)
(* and a comment counter drifts only when a removal counted stale replies. *)
(***************************************************************************)
EXTENDS Engagement, FiniteSetTheorems, TLAPS

\* A comment has an id that was given out, and no other comment has it.
Identified ==
    /\ IsFiniteSet(comments)
    /\ \A c \in comments : c.id \in 1 .. lastId
    /\ \A c, d \in comments : c.id = d.id => c = d

\* What a request found out about a comment stays true of it: the parent of a
\* comment to be written is a comment of its own on that post, and the comment
\* to be removed is on the post whose counter will be lowered.
Found ==
    \A r \in Requests :
        /\ req[r].pc \in {"comment", "insert"} /\ req[r].id # 0 =>
              /\ req[r].id <= lastId
              /\ \A c \in WithId(req[r].id) : c.parent = 0 /\ c.post = req[r].post
        /\ req[r].pc = "remove" =>
              /\ req[r].id \in 1 .. lastId
              /\ \A c \in WithId(req[r].id) : c.post = req[r].post

\* Marks are on posts that are there; a post nobody has written yet has no likes.
Placed ==
    /\ IsFiniteSet(marks)
    /\ \A m \in marks : post[m.post] = "up"
    /\ \A p \in Posts : post[p] = "none" => likeCount[p] = 0

\* The inductive invariant.
EngagementInv ==
    TypeOK /\ Identified /\ Found /\ Placed /\ RepliesOneDeep /\ LikeCountExact

-----------------------------------------------------------------------------
\* A request that has not begun is well typed.
LEMMA IdleType ==
    ASSUME EngagementAssumption
    PROVE  Idle \in Request /\ Idle.pc = "idle" /\ Idle.id = 0
  <1>1. \A S : S # {} => (CHOOSE x \in S : TRUE) \in S
    OBVIOUS
  <1>2. (CHOOSE u \in Users : TRUE) \in Users /\ (CHOOSE p \in Posts : TRUE) \in Posts
    BY <1>1 DEF EngagementAssumption
  <1> QED
    BY <1>2 DEF Idle, Request, Tables, Tally, Nothing

\* Lowering a counter leaves a natural number, and takes off what there is to
\* take off.
LEMMA LessType ==
    ASSUME NEW count \in Nat, NEW n \in Nat
    PROVE  Less(count, n) \in Nat /\ (n <= count => Less(count, n) = count - n)
  BY DEF Less

\* The number of some of the comments, or of some of the marks.
LEMMA SomeOf ==
    ASSUME NEW S, IsFiniteSet(S), NEW T \in SUBSET S
    PROVE  IsFiniteSet(T) /\ Cardinality(T) \in Nat
  BY FS_Subset, FS_CardinalityType

-----------------------------------------------------------------------------
\* The first states.
LEMMA Starts ==
    ASSUME EngagementAssumption, Init
    PROVE  EngagementInv
  <1>1. TypeOK
    BY IdleType DEF Init, TypeOK, Nothing
  <1>2. Identified /\ Placed
    BY FS_EmptySet DEF Init, Identified, Placed, Nothing
  <1>3. Found
    BY IdleType DEF Init, Found
  <1>4. RepliesOneDeep
    BY DEF Init, RepliesOneDeep
  <1>5. LikeCountExact
    BY DEF Init, LikeCountExact
  <1> QED
    BY <1>1, <1>2, <1>3, <1>4, <1>5 DEF EngagementInv

\* A step of a request that only reads: it suffices to look at what it found.
LEMMA OnlyReads ==
    ASSUME EngagementInv, req' \in [Requests -> Request],
           UNCHANGED <<relations, live, post, marks, comments, lastId, counters>>,
           NEW r \in Requests, \A q \in Requests : q # r => req'[q] = req[q],
           req'[r].pc \in {"comment", "insert"} /\ req'[r].id # 0 =>
              /\ req'[r].id <= lastId
              /\ \A c \in WithId(req'[r].id) : c.parent = 0 /\ c.post = req'[r].post,
           req'[r].pc = "remove" =>
              /\ req'[r].id \in 1 .. lastId
              /\ \A c \in WithId(req'[r].id) : c.post = req'[r].post
    PROVE  EngagementInv'
  <1>1. TypeOK'
    BY DEF EngagementInv, TypeOK, counters
  <1>2. Identified' /\ Placed'
    BY DEF EngagementInv, Identified, Placed, counters
  <1>3. Found'
    BY DEF EngagementInv, Found, WithId
  <1>4. RepliesOneDeep' /\ LikeCountExact'
    BY DEF EngagementInv, RepliesOneDeep, LikeCountExact, LikesOf, counters
  <1> QED
    BY <1>1, <1>2, <1>3, <1>4 DEF EngagementInv

LEMMA ToggleReads ==
    ASSUME EngagementAssumption, EngagementInv, NEW r \in Requests,
           NEW u \in Users, NEW p \in Posts, NEW table \in Tables,
           ToggleRead(r, u, p, table)
    PROVE  EngagementInv'
  <1>1. PICK pc \in {"mark", "unmark"} :
           req' = [req EXCEPT ![r] = [Idle EXCEPT !.pc = pc, !.table = table,
                                        !.user = u, !.post = p]]
    BY DEF ToggleRead
  <1>2. [Idle EXCEPT !.pc = pc, !.table = table, !.user = u, !.post = p] \in Request
    BY IdleType DEF Request
  <1>3. req' \in [Requests -> Request] /\ req'[r].pc = pc
    BY <1>1, <1>2, IdleType DEF EngagementInv, TypeOK, Request
  <1>4. \A q \in Requests : q # r => req'[q] = req[q]
    BY <1>1 DEF EngagementInv, TypeOK
  <1>5. req'[r].pc \notin {"comment", "insert", "remove"}
    BY <1>3
  <1>6. UNCHANGED <<relations, live, post, marks, comments, lastId, counters>>
    BY DEF ToggleRead
  <1> QED
    BY <1>3, <1>4, <1>5, <1>6, OnlyReads

LEMMA CommentReads ==
    ASSUME EngagementAssumption, EngagementInv, NEW r \in Requests,
           NEW u \in Users, NEW p \in Posts, NEW parent \in 0 .. lastId,
           CommentRead(r, u, p, parent)
    PROVE  EngagementInv'
  <1> DEFINE new == [Idle EXCEPT !.pc = "comment", !.user = u, !.post = p, !.id = parent]
  <1>0. parent \in Nat
    BY DEF EngagementInv, TypeOK
  <1>1. new \in Request /\ new.pc = "comment" /\ new.id = parent /\ new.post = p
    BY <1>0, IdleType DEF Request
  <1>2. req' = [req EXCEPT ![r] = new]
    BY DEF CommentRead
  <1> HIDE DEF new
  <1>3. req' \in [Requests -> Request] /\ req'[r] = new
    BY <1>1, <1>2 DEF EngagementInv, TypeOK
  <1>4. parent # 0 => \A c \in WithId(parent) : c.parent = 0 /\ c.post = p
    BY DEF CommentRead, WithId, EngagementInv, Identified
  <1>5. parent <= lastId
    BY DEF EngagementInv, TypeOK
  <1>6. \A q \in Requests : q # r => req'[q] = req[q]
    BY <1>2 DEF EngagementInv, TypeOK
  <1> QED
    BY <1>1, <1>3, <1>4, <1>5, <1>6, OnlyReads DEF CommentRead

LEMMA CommentChecks ==
    ASSUME EngagementAssumption, EngagementInv, NEW r \in Requests, CommentCheck(r)
    PROVE  EngagementInv'
  <1>1. CASE Finish(r)
    <2>1. req' \in [Requests -> Request] /\ req'[r] = Idle
      BY <1>1, IdleType DEF Finish, EngagementInv, TypeOK
    <2> QED
      BY <1>1, <2>1, IdleType, OnlyReads DEF Finish, CommentCheck, EngagementInv, TypeOK
  <1>2. CASE req' = [req EXCEPT ![r].pc = "insert"]
    <2>1. [req[r] EXCEPT !.pc = "insert"] \in Request
      BY DEF EngagementInv, TypeOK, Request
    <2>2. req' = [req EXCEPT ![r] = [req[r] EXCEPT !.pc = "insert"]]
      BY <1>2
    <2>3. /\ req' \in [Requests -> Request]
          /\ req'[r] = [req[r] EXCEPT !.pc = "insert"]
          /\ \A q \in Requests : q # r => req'[q] = req[q]
      BY <2>1, <2>2 DEF EngagementInv, TypeOK
    <2>4. req'[r].pc = "insert" /\ req'[r].id = req[r].id /\ req'[r].post = req[r].post
      BY <2>3 DEF EngagementInv, TypeOK, Request
    <2>5. req[r].pc = "comment"
      BY DEF CommentCheck
    <2>6. req[r].id # 0 =>
             /\ req[r].id <= lastId
             /\ \A c \in WithId(req[r].id) : c.parent = 0 /\ c.post = req[r].post
      BY <2>5 DEF EngagementInv, Found
    <2> QED
      BY <2>3, <2>4, <2>6, OnlyReads DEF CommentCheck
  <1> QED
    BY <1>1, <1>2 DEF CommentCheck

LEMMA RemoveReads ==
    ASSUME EngagementAssumption, EngagementInv, NEW r \in Requests, RemoveRead(r)
    PROVE  EngagementInv'
  <1>1. PICK c \in comments :
          req' = [req EXCEPT ![r] = [Idle EXCEPT !.pc = "remove", !.post = c.post,
                     !.id = c.id, !.replies = Cardinality(RepliesTo(c.id))]]
    BY DEF RemoveRead
  <1> DEFINE new == [Idle EXCEPT !.pc = "remove", !.post = c.post,
                       !.id = c.id, !.replies = Cardinality(RepliesTo(c.id))]
  <1>2. Cardinality(RepliesTo(c.id)) \in Nat
    BY SomeOf DEF RepliesTo, EngagementInv, Identified
  <1>3. c.id \in 1 .. lastId /\ c.id \in Nat /\ c.post \in Posts
    BY DEF EngagementInv, Identified, TypeOK, Comment
  <1>4. new \in Request /\ new.pc = "remove" /\ new.id = c.id /\ new.post = c.post
    BY <1>2, <1>3, IdleType DEF Request
  <1>5. req' = [req EXCEPT ![r] = new]
    BY <1>1
  <1> HIDE DEF new
  <1>6. /\ req' \in [Requests -> Request] /\ req'[r] = new
        /\ \A q \in Requests : q # r => req'[q] = req[q]
    BY <1>4, <1>5 DEF EngagementInv, TypeOK
  <1>7. \A d \in WithId(c.id) : d.post = c.post
    BY DEF WithId, EngagementInv, Identified
  <1> QED
    BY <1>3, <1>4, <1>6, <1>7, OnlyReads DEF RemoveRead

LEMMA LeaveReads ==
    ASSUME EngagementAssumption, EngagementInv, NEW r \in Requests, NEW u \in Users,
           LeaveRead(r, u)
    PROVE  EngagementInv'
  <1> DEFINE nC == [p \in Posts |-> Cardinality({c \in CommentsOf(p) : c.author = u})]
             nL == [p \in Posts |-> Cardinality({m \in LikesOf(p) : m.user = u})]
             new == [Idle EXCEPT !.pc = "leave", !.user = u, !.nComments = nC, !.nLikes = nL]
  <1>1. nC \in Tally
    BY SomeOf DEF CommentsOf, EngagementInv, Identified, Tally
  <1>2. nL \in Tally
    BY SomeOf DEF LikesOf, EngagementInv, Placed, Tally
  <1>3. req' = [req EXCEPT ![r] = new]
    BY DEF LeaveRead
  <1> HIDE DEF nC, nL
  <1>4. new \in Request /\ new.pc = "leave"
    BY <1>1, <1>2, IdleType DEF Request
  <1> HIDE DEF new
  <1>5. /\ req' \in [Requests -> Request] /\ req'[r] = new
        /\ \A q \in Requests : q # r => req'[q] = req[q]
    BY <1>3, <1>4 DEF EngagementInv, TypeOK
  <1> QED
    BY <1>4, <1>5, OnlyReads DEF LeaveRead

LEMMA Aborts ==
    ASSUME EngagementAssumption, EngagementInv, NEW r \in Requests, Abort(r)
    PROVE  EngagementInv'
  <1>1. req' \in [Requests -> Request] /\ req'[r] = Idle
    BY IdleType DEF Abort, Finish, EngagementInv, TypeOK
  <1> QED
    BY <1>1, IdleType, OnlyReads DEF Finish, Abort, EngagementInv, TypeOK

-----------------------------------------------------------------------------
\* A step that ends requests and leaves of every comment found before its
\* parent and its post, or removes it, keeps what the other requests found.
LEMMA FoundKept ==
    ASSUME EngagementAssumption, EngagementInv,
           \A q \in Requests : req'[q] = req[q] \/ req'[q] = Idle,
           lastId' \in Nat, lastId <= lastId',
           \A c \in comments' : c.id <= lastId =>
              \E d \in comments : d.id = c.id /\ d.parent = c.parent /\ d.post = c.post
    PROVE  Found'
  <1> SUFFICES ASSUME NEW r \in Requests
               PROVE  /\ req'[r].pc \in {"comment", "insert"} /\ req'[r].id # 0 =>
                            /\ req'[r].id <= lastId'
                            /\ \A c \in comments' : c.id = req'[r].id =>
                                  c.parent = 0 /\ c.post = req'[r].post
                      /\ req'[r].pc = "remove" =>
                            /\ req'[r].id \in 1 .. lastId'
                            /\ \A c \in comments' : c.id = req'[r].id =>
                                  c.post = req'[r].post
    BY DEF Found, WithId
  <1>1. CASE req'[r] = Idle
    BY <1>1, IdleType
  <1>2. CASE req'[r] = req[r]
    <2>1. lastId \in Nat /\ req[r].id \in Nat
      BY DEF EngagementInv, TypeOK, Request
    <2> QED
      BY <1>2, <2>1 DEF EngagementInv, Found, WithId
  <1> QED
    BY <1>1, <1>2

\* The types after a request has ended.
LEMMA Ended ==
    ASSUME EngagementAssumption, EngagementInv, NEW r \in Requests, Finish(r)
    PROVE  /\ req' \in [Requests -> Request]
           /\ \A q \in Requests : req'[q] = req[q] \/ req'[q] = Idle
  BY IdleType DEF Finish, EngagementInv, TypeOK

\* Comments and their ids do not change.
LEMMA SameComments ==
    ASSUME EngagementAssumption, EngagementInv, UNCHANGED <<comments, lastId>>,
           \A q \in Requests : req'[q] = req[q] \/ req'[q] = Idle
    PROVE  Identified' /\ RepliesOneDeep' /\ Found'
  <1>1. Identified' /\ RepliesOneDeep'
    BY DEF EngagementInv, Identified, RepliesOneDeep
  <1>2. lastId' \in Nat /\ lastId <= lastId'
    BY DEF EngagementInv, TypeOK
  <1>3. \A c \in comments' : \E d \in comments :
           d.id = c.id /\ d.parent = c.parent /\ d.post = c.post
    OBVIOUS
  <1> QED
    BY <1>1, <1>2, <1>3, FoundKept

\* Comments are removed, and with every one of them the replies to it.
LEMMA FewerComments ==
    ASSUME EngagementAssumption, EngagementInv, lastId' = lastId,
           comments' \subseteq comments,
           \A c \in comments', d \in comments : d.id = c.parent => d \in comments',
           \A q \in Requests : req'[q] = req[q] \/ req'[q] = Idle
    PROVE  Identified' /\ RepliesOneDeep' /\ Found'
  <1>1. Identified'
    BY SomeOf DEF EngagementInv, Identified
  <1>2. RepliesOneDeep'
    <2> SUFFICES ASSUME NEW c \in comments', c.parent # 0
                 PROVE  \E d \in comments' : d.id = c.parent /\ d.parent = 0 /\ d.post = c.post
      BY DEF RepliesOneDeep
    <2>1. PICK d \in comments : d.id = c.parent /\ d.parent = 0 /\ d.post = c.post
      BY DEF EngagementInv, RepliesOneDeep
    <2> QED
      BY <2>1
  <1>3. lastId' \in Nat /\ lastId <= lastId'
    BY DEF EngagementInv, TypeOK
  <1>4. \A c \in comments' : \E d \in comments :
           d.id = c.id /\ d.parent = c.parent /\ d.post = c.post
    OBVIOUS
  <1> QED
    BY <1>1, <1>2, <1>3, <1>4, FoundKept

\* Nothing changes about likes and bookmarks and the posts they are on.
LEMMA SameMarks ==
    ASSUME EngagementInv, UNCHANGED <<live, post, marks, likeCount>>
    PROVE  Placed' /\ LikeCountExact'
  BY DEF EngagementInv, Placed, LikeCountExact, LikesOf

LEMMA Creates ==
    ASSUME EngagementAssumption, EngagementInv, NEW p \in Posts, PostCreate(p)
    PROVE  EngagementInv'
  <1> USE DEF PostCreate, counters
  <1>1. TypeOK'
    BY DEF EngagementInv, TypeOK
  <1>2. Identified' /\ RepliesOneDeep' /\ Found'
    BY SameComments
  <1>3. Placed'
    BY DEF EngagementInv, TypeOK, Placed, Mark
  <1>4. LikeCountExact'
    <2> SUFFICES ASSUME live = Users, NEW q \in Posts, post'[q] = "up"
                 PROVE  likeCount[q] = Cardinality(LikesOf(q))
      BY DEF LikeCountExact, LikesOf
    <2>1. CASE q # p
      BY <2>1 DEF EngagementInv, TypeOK, LikeCountExact
    <2>2. CASE q = p
      <3>1. LikesOf(p) = {}
        BY DEF LikesOf, EngagementInv, Placed
      <3> QED
        BY <2>2, <3>1, FS_EmptySet DEF EngagementInv, Placed
    <2> QED
      BY <2>1, <2>2
  <1> QED
    BY <1>1, <1>2, <1>3, <1>4 DEF EngagementInv

LEMMA Deletes ==
    ASSUME EngagementAssumption, EngagementInv, NEW p \in Posts, PostDelete(p)
    PROVE  EngagementInv'
  <1> USE DEF PostDelete, counters
  <1>1. TypeOK'
    BY DEF EngagementInv, TypeOK
  <1>2. Identified' /\ RepliesOneDeep' /\ Found'
    <2>1. \A c \in comments', d \in comments : d.id = c.parent => d \in comments'
      <3> SUFFICES ASSUME NEW c \in comments', NEW d \in comments, d.id = c.parent
                   PROVE  d.post # p
        BY DEF CommentsOf
      <3>1. c \in comments /\ c.post # p
        BY DEF CommentsOf
      <3>2. c.parent # 0
        BY DEF EngagementInv, Identified
      <3> QED
        BY <3>1, <3>2 DEF EngagementInv, Identified, RepliesOneDeep
    <2> QED
      BY <2>1, FewerComments
  <1>3. Placed'
    <2>1. IsFiniteSet(marks')
      BY SomeOf DEF EngagementInv, Placed
    <2> QED
      BY <2>1 DEF EngagementInv, TypeOK, Placed
  <1>4. LikeCountExact'
    <2> SUFFICES ASSUME live = Users, NEW q \in Posts, post'[q] = "up"
                 PROVE  likeCount[q] = Cardinality(LikesOf(q)')
      BY DEF LikeCountExact
    <2>1. q # p /\ post[q] = "up"
      BY DEF EngagementInv, TypeOK
    <2>2. LikesOf(q)' = LikesOf(q)
      BY <2>1 DEF LikesOf
    <2> QED
      BY <2>1, <2>2 DEF EngagementInv, LikeCountExact
  <1> QED
    BY <1>1, <1>2, <1>3, <1>4 DEF EngagementInv

LEMMA Marks ==
    ASSUME EngagementAssumption, EngagementInv, NEW r \in Requests, MarkCommit(r)
    PROVE  EngagementInv'
  <1> DEFINE p == req[r].post
             m == MarkOf(r)
  <1>1. p \in Posts /\ m \in Mark /\ m.post = p /\ m.table = req[r].table
    BY DEF EngagementInv, TypeOK, Request, MarkOf, Mark
  <1>2. /\ req' \in [Requests -> Request]
        /\ \A q \in Requests : req'[q] = req[q] \/ req'[q] = Idle
    BY Ended DEF MarkCommit
  <1>3. Identified' /\ RepliesOneDeep' /\ Found'
    BY <1>2, SameComments DEF MarkCommit
  <1>4. CASE ~MarkAllowed(r)
    <2>1. UNCHANGED <<relations, live, post, marks, comments, lastId, counters>>
      BY <1>4 DEF MarkCommit, counters
    <2>2. TypeOK'
      BY <1>2, <2>1 DEF EngagementInv, TypeOK, counters
    <2>3. Placed' /\ LikeCountExact'
      BY <2>1, SameMarks DEF counters
    <2> QED
      BY <1>3, <2>2, <2>3 DEF EngagementInv
  <1>5. CASE MarkAllowed(r)
    <2>1. /\ marks' = marks \cup {m}
          /\ likeCount' = IF m.table = "like" THEN [likeCount EXCEPT ![p] = @ + 1]
                                              ELSE likeCount
          /\ m \notin marks /\ post[p] = "up"
          /\ UNCHANGED <<relations, live, post, comments, lastId, commentCount>>
      BY <1>1, <1>5 DEF MarkCommit, MarkAllowed
    <2> HIDE DEF p, m
    <2>2. TypeOK'
      BY <1>1, <1>2, <2>1 DEF EngagementInv, TypeOK
    <2>3. Placed'
      <3>1. IsFiniteSet(marks')
        BY <2>1, FS_AddElement DEF EngagementInv, Placed
      <3> QED
        BY <1>1, <2>1, <3>1 DEF EngagementInv, TypeOK, Placed
    <2>4. LikeCountExact'
      <3> SUFFICES ASSUME live = Users, NEW q \in Posts, post[q] = "up"
                   PROVE  likeCount'[q] = Cardinality(LikesOf(q)')
        BY <2>1 DEF LikeCountExact
      <3>1. IsFiniteSet(LikesOf(q)) /\ likeCount[q] = Cardinality(LikesOf(q))
        BY SomeOf DEF LikesOf, EngagementInv, Placed, LikeCountExact
      <3>2. CASE m.table = "like" /\ q = p
        <4>1. LikesOf(q)' = LikesOf(q) \cup {m} /\ m \notin LikesOf(q)
          BY <1>1, <2>1, <3>2 DEF LikesOf
        <4>2. Cardinality(LikesOf(q)') = Cardinality(LikesOf(q)) + 1
          BY <3>1, <4>1, FS_AddElement
        <4> QED
          BY <2>1, <3>1, <3>2, <4>2 DEF EngagementInv, TypeOK
      <3>3. CASE ~(m.table = "like" /\ q = p)
        <4>1. LikesOf(q)' = LikesOf(q)
          BY <1>1, <2>1, <3>3 DEF LikesOf
        <4> QED
          BY <1>1, <2>1, <3>1, <3>3, <4>1 DEF EngagementInv, TypeOK
      <3> QED
        BY <3>2, <3>3
    <2> QED
      BY <1>3, <2>2, <2>3, <2>4 DEF EngagementInv
  <1> QED
    BY <1>4, <1>5

LEMMA Unmarks ==
    ASSUME EngagementAssumption, EngagementInv, NEW r \in Requests, UnmarkCommit(r)
    PROVE  EngagementInv'
  <1> DEFINE p == req[r].post
             m == MarkOf(r)
  <1>1. p \in Posts /\ m \in Mark /\ m.post = p /\ m.table = req[r].table
    BY DEF EngagementInv, TypeOK, Request, MarkOf, Mark
  <1>2. /\ req' \in [Requests -> Request]
        /\ \A q \in Requests : req'[q] = req[q] \/ req'[q] = Idle
    <2>1. CASE Finish(r)
      BY <2>1, Ended
    <2>2. CASE \E same : req' = [q \in Requests |-> IF q \in same THEN Idle ELSE req[q]]
      BY <2>2, IdleType DEF EngagementInv, TypeOK
    <2> QED
      BY <2>1, <2>2 DEF UnmarkCommit
  <1>3. Identified' /\ RepliesOneDeep' /\ Found'
    BY <1>2, SameComments DEF UnmarkCommit
  <1>4. CASE UNCHANGED <<marks, likeCount>>
    <2>1. UNCHANGED <<relations, live, post, marks, comments, lastId, counters>>
      BY <1>4 DEF UnmarkCommit, counters
    <2>2. TypeOK'
      BY <1>2, <2>1 DEF EngagementInv, TypeOK, counters
    <2>3. Placed' /\ LikeCountExact'
      BY <2>1, SameMarks DEF counters
    <2> QED
      BY <1>3, <2>2, <2>3 DEF EngagementInv
  <1>5. CASE ~UNCHANGED <<marks, likeCount>>
    <2>1. /\ marks' = marks \ {m}
          /\ likeCount' = IF m.table = "like" THEN [likeCount EXCEPT ![p] = Less(@, 1)]
                                              ELSE likeCount
          /\ m \in marks
          /\ UNCHANGED <<relations, live, post, comments, lastId, commentCount>>
      BY <1>1, <1>5 DEF UnmarkCommit
    <2> HIDE DEF p, m
    <2>2. likeCount[p] \in Nat /\ Less(likeCount[p], 1) \in Nat
      BY <1>1, LessType DEF EngagementInv, TypeOK
    <2>3. TypeOK'
      BY <1>1, <1>2, <2>1, <2>2 DEF EngagementInv, TypeOK
    <2>4. Placed'
      <3>1. IsFiniteSet(marks')
        BY <2>1, FS_RemoveElement DEF EngagementInv, Placed
      <3>2. post[p] = "up"
        BY <1>1, <2>1 DEF EngagementInv, Placed
      <3> QED
        BY <1>1, <2>1, <3>1, <3>2 DEF EngagementInv, TypeOK, Placed
    <2>5. LikeCountExact'
      <3> SUFFICES ASSUME live = Users, NEW q \in Posts, post[q] = "up"
                   PROVE  likeCount'[q] = Cardinality(LikesOf(q)')
        BY <2>1 DEF LikeCountExact
      <3>1. /\ IsFiniteSet(LikesOf(q)) /\ likeCount[q] = Cardinality(LikesOf(q))
            /\ likeCount[q] \in Nat
        BY SomeOf DEF LikesOf, EngagementInv, Placed, LikeCountExact
      <3>2. CASE m.table = "like" /\ q = p
        <4>1. LikesOf(q)' = LikesOf(q) \ {m} /\ m \in LikesOf(q)
          BY <1>1, <2>1, <3>2 DEF LikesOf
        <4>2. Cardinality(LikesOf(q)') = Cardinality(LikesOf(q)) - 1
          BY <3>1, <4>1, FS_RemoveElement
        <4>3. 1 <= likeCount[q]
          BY <3>1, <4>1, FS_EmptySet
        <4>4. likeCount'[q] = likeCount[q] - 1
          BY <2>1, <3>1, <3>2, <4>3, LessType DEF EngagementInv, TypeOK
        <4> QED
          BY <3>1, <4>2, <4>4
      <3>3. CASE ~(m.table = "like" /\ q = p)
        <4>1. LikesOf(q)' = LikesOf(q)
          BY <1>1, <2>1, <3>3 DEF LikesOf
        <4> QED
          BY <1>1, <2>1, <3>1, <3>3, <4>1 DEF EngagementInv, TypeOK
      <3> QED
        BY <3>2, <3>3
    <2> QED
      BY <1>3, <2>3, <2>4, <2>5 DEF EngagementInv
  <1> QED
    BY <1>4, <1>5

LEMMA Inserts ==
    ASSUME EngagementAssumption, EngagementInv, NEW r \in Requests, CommentInsert(r)
    PROVE  EngagementInv'
  <1> DEFINE p == req[r].post
             new == [id |-> lastId + 1, post |-> p, author |-> req[r].user,
                     parent |-> req[r].id, recent |-> TRUE]
  <1>1. /\ p \in Posts /\ req[r].id \in Nat /\ lastId \in Nat
        /\ new \in Comment /\ new.id = lastId + 1 /\ new.post = p
        /\ new.parent = req[r].id
    BY DEF EngagementInv, TypeOK, Request, Comment
  <1>2. /\ req' \in [Requests -> Request]
        /\ \A q \in Requests : req'[q] = req[q] \/ req'[q] = Idle
    BY Ended DEF CommentInsert
  <1>3. UNCHANGED <<relations, live, post, marks, likeCount>>
    BY DEF CommentInsert
  <1>4. Placed' /\ LikeCountExact'
    BY <1>3, SameMarks
  <1>5. CASE ~CommentAllowed(r)
    <2>1. UNCHANGED <<comments, lastId, commentCount>>
      BY <1>5 DEF CommentInsert
    <2>2. TypeOK'
      BY <1>2, <1>3, <2>1 DEF EngagementInv, TypeOK
    <2>3. Identified' /\ RepliesOneDeep' /\ Found'
      BY <1>2, <2>1, SameComments
    <2> QED
      BY <1>4, <2>2, <2>3 DEF EngagementInv
  <1>6. CASE CommentAllowed(r)
    <2>1. /\ comments' = comments \cup {new} /\ lastId' = lastId + 1
          /\ commentCount' = [commentCount EXCEPT ![p] = @ + 1]
      BY <1>6 DEF CommentInsert
    <2>2. req[r].id # 0 =>
             \E d \in comments : d.id = req[r].id /\ d.parent = 0 /\ d.post = p
      BY <1>6 DEF CommentInsert, CommentAllowed, WithId, EngagementInv, Found
    <2> HIDE DEF p, new
    <2>3. TypeOK'
      BY <1>1, <1>2, <1>3, <2>1 DEF EngagementInv, TypeOK
    <2>4. Identified'
      <3>1. IsFiniteSet(comments')
        BY <2>1, FS_AddElement DEF EngagementInv, Identified
      <3>2. \A c \in comments : c.id \in 1 .. lastId
        BY DEF EngagementInv, Identified
      <3>3. \A c \in comments' : c.id \in 1 .. lastId'
        BY <1>1, <2>1, <3>2
      <3>4. \A c, d \in comments' : c.id = d.id => c = d
        BY <1>1, <2>1, <3>2 DEF EngagementInv, Identified
      <3> QED
        BY <3>1, <3>3, <3>4 DEF Identified
    <2>5. RepliesOneDeep'
      <3> SUFFICES ASSUME NEW c \in comments', c.parent # 0
                   PROVE  \E d \in comments : d.id = c.parent /\ d.parent = 0 /\ d.post = c.post
        BY <2>1 DEF RepliesOneDeep
      <3>1. CASE c \in comments
        BY <3>1 DEF EngagementInv, RepliesOneDeep
      <3>2. CASE c = new
        BY <1>1, <2>2, <3>2
      <3> QED
        BY <2>1, <3>1, <3>2
    <2>6. Found'
      <3>1. \A c \in comments' : c.id <= lastId => c \in comments
        BY <1>1, <2>1
      <3> QED
        BY <1>1, <1>2, <2>1, <3>1, FoundKept
    <2> QED
      BY <1>4, <2>3, <2>4, <2>5, <2>6 DEF EngagementInv
  <1> QED
    BY <1>5, <1>6

LEMMA Removes ==
    ASSUME EngagementAssumption, EngagementInv, NEW r \in Requests, RemoveCommit(r)
    PROVE  EngagementInv'
  <1> DEFINE id == req[r].id
             gone == WithId(id) \cup RepliesTo(id)
  <1>1. /\ id \in Nat /\ req[r].post \in Posts /\ req[r].replies \in Nat
        /\ req[r].pc = "remove"
    BY DEF EngagementInv, TypeOK, Request, RemoveCommit
  <1>2. /\ req' \in [Requests -> Request]
        /\ \A q \in Requests : req'[q] = req[q] \/ req'[q] = Idle
    BY Ended DEF RemoveCommit
  <1>3. UNCHANGED <<relations, live, post, marks, lastId, likeCount>>
    BY DEF RemoveCommit
  <1>4. Placed' /\ LikeCountExact'
    BY <1>3, SameMarks
  <1>5. CASE UNCHANGED <<comments, commentCount>>
    <2>1. TypeOK'
      BY <1>2, <1>3, <1>5 DEF EngagementInv, TypeOK
    <2>2. Identified' /\ RepliesOneDeep' /\ Found'
      BY <1>2, <1>3, <1>5, SameComments
    <2> QED
      BY <1>4, <2>1, <2>2 DEF EngagementInv
  <1>6. CASE ~UNCHANGED <<comments, commentCount>>
    <2>1. /\ comments' = comments \ gone
          /\ commentCount' = [commentCount EXCEPT ![req[r].post] =
                                Less(@, 1 + req[r].replies)]
      BY <1>6 DEF RemoveCommit
    <2>2. TypeOK'
      <3> DEFINE count == commentCount[req[r].post]
      <3>1. count \in Nat /\ 1 + req[r].replies \in Nat
        BY <1>1 DEF EngagementInv, TypeOK
      <3>2. Less(count, 1 + req[r].replies) \in Nat
        BY <3>1, LessType
      <3> QED
        BY <1>1, <1>2, <1>3, <2>1, <3>2 DEF EngagementInv, TypeOK
    <2>3. Identified' /\ RepliesOneDeep' /\ Found'
      <3>1. \A c \in comments', d \in comments : d.id = c.parent => d \in comments'
        <4> SUFFICES ASSUME NEW c \in comments', NEW d \in comments, d.id = c.parent
                     PROVE  d \notin gone
          BY <2>1
        <4>1. c \in comments /\ c.id # id /\ c.parent # id
          BY <2>1 DEF WithId, RepliesTo
        <4>2. d \notin WithId(id)
          BY <4>1 DEF WithId
        <4>3. d.parent = 0 /\ c.parent # 0
          BY <4>1 DEF EngagementInv, Identified, RepliesOneDeep
        <4>4. id # 0
          BY <1>1 DEF EngagementInv, Found
        <4> QED
          BY <4>2, <4>3, <4>4 DEF RepliesTo
      <3> QED
        BY <1>2, <1>3, <2>1, <3>1, FewerComments
    <2> QED
      BY <1>4, <2>2, <2>3 DEF EngagementInv
  <1> QED
    BY <1>5, <1>6

LEMMA Leaves ==
    ASSUME EngagementAssumption, EngagementInv, NEW r \in Requests, LeaveCommit(r)
    PROVE  EngagementInv'
  <1> DEFINE u == req[r].user
             own == {c \in comments : c.author = u}
             gone == own \cup UNION {RepliesTo(c.id) : c \in own}
             nC == req[r].nComments
             nL == req[r].nLikes
  <1>1. u \in Users /\ nC \in [Posts -> Nat] /\ nL \in [Posts -> Nat]
    BY DEF EngagementInv, TypeOK, Request, Tally
  <1>2. /\ req' \in [Requests -> Request]
        /\ \A q \in Requests : req'[q] = req[q] \/ req'[q] = Idle
    BY Ended DEF LeaveCommit
  <1>3. UNCHANGED <<relations, post, lastId>>
    BY DEF LeaveCommit
  <1>4. CASE UNCHANGED <<live, comments, marks, counters>>
    <2>1. TypeOK'
      BY <1>2, <1>3, <1>4 DEF EngagementInv, TypeOK, counters
    <2>2. Identified' /\ RepliesOneDeep' /\ Found'
      BY <1>2, <1>3, <1>4, SameComments
    <2>3. Placed' /\ LikeCountExact'
      BY <1>3, <1>4, SameMarks DEF counters
    <2> QED
      BY <2>1, <2>2, <2>3 DEF EngagementInv
  <1>5. CASE ~UNCHANGED <<live, comments, marks, counters>>
    <2>1. /\ u \in live /\ live' = live \ {u}
          /\ comments' = comments \ gone
          /\ marks' = {m \in marks : m.user # u}
          /\ commentCount' = [p \in Posts |-> IF nC[p] = 0 THEN commentCount[p]
                                              ELSE Less(commentCount[p], nC[p])]
          /\ likeCount' = [p \in Posts |-> IF nL[p] = 0 THEN likeCount[p]
                                           ELSE Less(likeCount[p], nL[p])]
      BY <1>5 DEF LeaveCommit
    <2> HIDE DEF nC, nL
    <2>2. TypeOK'
      <3>1. \A p \in Posts : /\ Less(commentCount[p], nC[p]) \in Nat
                             /\ Less(likeCount[p], nL[p]) \in Nat
        BY <1>1, LessType DEF EngagementInv, TypeOK
      <3>2. commentCount' \in [Posts -> Nat] /\ likeCount' \in [Posts -> Nat]
        BY <2>1, <3>1 DEF EngagementInv, TypeOK
      <3> HIDE DEF u, gone
      <3> QED
        BY <1>2, <1>3, <2>1, <3>2 DEF EngagementInv, TypeOK
    <2>3. Identified' /\ RepliesOneDeep' /\ Found'
      <3>1. \A c \in comments', d \in comments : d.id = c.parent => d \in comments'
        <4> SUFFICES ASSUME NEW c \in comments', NEW d \in comments, d.id = c.parent
                     PROVE  d \notin gone
          BY <2>1
        <4>1. c \in comments /\ \A o \in own : c.parent # o.id
          BY <2>1 DEF RepliesTo
        <4>2. d \notin own
          BY <4>1
        <4>3. d.parent = 0
          BY <4>1 DEF EngagementInv, Identified, RepliesOneDeep
        <4>4. \A o \in own : d \notin RepliesTo(o.id)
          BY <4>3 DEF RepliesTo, EngagementInv, Identified
        <4> QED
          BY <4>2, <4>4
      <3>2. comments' \subseteq comments
        BY <2>1
      <3> QED
        BY <1>2, <1>3, <3>1, <3>2, FewerComments
    <2>4. Placed'
      <3>1. IsFiniteSet(marks') /\ marks' \subseteq marks
        BY <2>1, SomeOf DEF EngagementInv, Placed
      <3>2. \A p \in Posts : likeCount[p] = 0 => likeCount'[p] = 0
        BY <1>1, <2>1 DEF Less
      <3> QED
        BY <1>3, <3>1, <3>2 DEF EngagementInv, Placed
    <2>5. LikeCountExact'
      BY <1>1, <2>1 DEF LikeCountExact, EngagementInv, TypeOK
    <2> QED
      BY <2>2, <2>3, <2>4, <2>5 DEF EngagementInv
  <1> QED
    BY <1>4, <1>5

\* A comment as it is when it is no longer recent.
LEMMA Ages ==
    ASSUME EngagementAssumption, EngagementInv, Age
    PROVE  EngagementInv'
  <1>1. PICK n \in Nat :
           comments' = {[d EXCEPT !.recent = @ /\ d.id > n] : d \in comments}
    BY DEF Age, EngagementInv, TypeOK, Comment
  <1>2. UNCHANGED <<relations, live, post, marks, lastId, counters, req>>
    BY DEF Age
  <1> DEFINE older == [d \in comments |-> [d EXCEPT !.recent = @ /\ d.id > n]]
  <1>3. \A d \in comments :
           /\ older[d] \in Comment /\ older[d].id = d.id /\ older[d].parent = d.parent
           /\ older[d].post = d.post
    BY DEF EngagementInv, TypeOK, Comment
  <1>4. /\ \A c \in comments' : \E d \in comments : c = older[d]
        /\ \A d \in comments : older[d] \in comments'
    BY <1>1
  <1>5. older \in Surjection(comments, comments')
    BY <1>4 DEF Surjection
  <1>6. IsFiniteSet(comments')
    BY <1>5, FS_Surjection DEF EngagementInv, Identified
  <1> HIDE DEF older
  <1>7. TypeOK'
    <2>1. comments' \subseteq Comment
      BY <1>3, <1>4
    <2> QED
      BY <1>2, <2>1 DEF EngagementInv, TypeOK, counters
  <1>8. Identified'
    BY <1>2, <1>3, <1>4, <1>6 DEF EngagementInv, Identified
  <1>9. RepliesOneDeep'
    BY <1>3, <1>4 DEF EngagementInv, RepliesOneDeep
  <1>10. Found'
    <2>1. lastId' \in Nat /\ lastId <= lastId'
      BY <1>2 DEF EngagementInv, TypeOK
    <2> QED
      BY <1>2, <1>3, <1>4, <2>1, FoundKept
  <1>11. Placed' /\ LikeCountExact'
    BY <1>2, SameMarks DEF counters
  <1> QED
    BY <1>7, <1>8, <1>9, <1>10, <1>11 DEF EngagementInv

\* Every step keeps the inductive invariant.
LEMMA StepKeeps ==
    ASSUME EngagementAssumption, EngagementInv, [Next]_vars
    PROVE  EngagementInv'
  <1>1. CASE UNCHANGED vars
    BY <1>1 DEF vars, EngagementInv, TypeOK, Identified, Found, WithId, Placed,
                RepliesOneDeep, LikeCountExact, LikesOf
  <1>2. CASE \E p \in Posts : PostCreate(p) \/ PostDelete(p)
    BY <1>2, Creates, Deletes
  <1>3. ASSUME NEW r \in Requests, Start(r)
        PROVE  EngagementInv'
    BY <1>3, ToggleReads, CommentReads, RemoveReads, LeaveReads DEF Start
  <1>4. ASSUME NEW r \in Requests, Continue(r)
        PROVE  EngagementInv'
    BY <1>4, Marks, Unmarks, CommentChecks, Inserts, Removes, Leaves DEF Continue
  <1>5. ASSUME NEW r \in Requests, Abort(r)
        PROVE  EngagementInv'
    BY <1>5, Aborts
  <1>6. CASE Age
    BY <1>6, Ages
  <1> QED
    BY <1>1, <1>2, <1>3, <1>4, <1>5, <1>6 DEF Next

-----------------------------------------------------------------------------
\* Every behaviour is in the inductive invariant in every state.
LEMMA EngagementInvariant == EngagementAssumption => (Spec => []EngagementInv)
  <1> SUFFICES ASSUME EngagementAssumption
               PROVE  Spec => []EngagementInv
    OBVIOUS
  <1>1. Init => EngagementInv
    BY Starts
  <1>2. EngagementInv /\ [Next]_vars => EngagementInv'
    BY StepKeeps
  <1> QED
    BY <1>1, <1>2, PTL DEF Spec

\* The variables have their types: no counter is ever below zero, although a
\* reply may be taken off a comment counter twice (counter.util.ts).
THEOREM TypeCorrect == Spec => []TypeOK
  <1>1. EngagementInv => TypeOK
    BY DEF EngagementInv
  <1> QED
    BY <1>1, EngagementInvariant, EngagementAssumption, PTL

\* Replies are one level deep and on their parent's post, however the writing
\* of a reply overlaps the removal of its parent, of the post or of the author
\* (comments.service.ts).
THEOREM OneDeep == Spec => []RepliesOneDeep
  <1>1. EngagementInv => RepliesOneDeep
    BY DEF EngagementInv
  <1> QED
    BY <1>1, EngagementInvariant, EngagementAssumption, PTL

\* The like counter of a post is the number of its likes, after any overlap of
\* toggles, as long as no account has been deleted (posts.service.ts).
THEOREM LikesExact == Spec => []LikeCountExact
  <1>1. EngagementInv => LikeCountExact
    BY DEF EngagementInv
  <1> QED
    BY <1>1, EngagementInvariant, EngagementAssumption, PTL

-----------------------------------------------------------------------------
\* A comment and its replies are together 1 more than the replies, and all on
\* one post: what a removal takes from a post.
LEMMA Removed ==
    ASSUME EngagementInv, NEW d \in comments
    PROVE  LET gone == WithId(d.id) \cup RepliesTo(d.id) IN
           /\ IsFiniteSet(gone) /\ gone \subseteq CommentsOf(d.post)
           /\ Cardinality(gone) = 1 + Cardinality(RepliesTo(d.id))
  <1> DEFINE gone == WithId(d.id) \cup RepliesTo(d.id)
  <1>1. WithId(d.id) = {d}
    BY DEF WithId, EngagementInv, Identified
  <1>2. IsFiniteSet(RepliesTo(d.id)) /\ Cardinality(RepliesTo(d.id)) \in Nat
    BY SomeOf DEF RepliesTo, EngagementInv, Identified
  <1>3. d.id # 0
    BY DEF EngagementInv, Identified
  <1>4. \A c \in RepliesTo(d.id) : c \in comments /\ d.parent = 0 /\ c.post = d.post
    BY <1>3 DEF RepliesTo, EngagementInv, Identified, RepliesOneDeep
  <1>5. d \notin RepliesTo(d.id)
    BY <1>3, <1>4 DEF RepliesTo
  <1>6. gone = RepliesTo(d.id) \cup {d}
    BY <1>1
  <1>7. IsFiniteSet(gone) /\ Cardinality(gone) = 1 + Cardinality(RepliesTo(d.id))
    BY <1>2, <1>5, <1>6, FS_AddElement
  <1>8. gone \subseteq CommentsOf(d.post)
    BY <1>4, <1>6 DEF CommentsOf
  <1> QED
    BY <1>7, <1>8

\* A removal whose replies are as many as were counted, from a counter that
\* has as many to give, lowers the counter by what it removes.
LEMMA ExactRemoval ==
    ASSUME EngagementAssumption, EngagementInv, NEW r \in Requests, RemoveCommit(r),
           NEW p \in Posts,
           WithId(req[r].id) = {} \/ req[r].post # p
             \/ /\ req[r].replies = Cardinality(RepliesTo(req[r].id))
                /\ ~(commentCount[p] <= req[r].replies)
    PROVE  Drift(p)' = Drift(p)
  <1> DEFINE id == req[r].id
             gone == WithId(id) \cup RepliesTo(id)
  <1>1. CASE UNCHANGED <<comments, commentCount>>
    BY <1>1 DEF Drift, CommentsOf
  <1>2. CASE ~UNCHANGED <<comments, commentCount>>
    <2>1. /\ WithId(id) # {} /\ comments' = comments \ gone
          /\ commentCount' = [commentCount EXCEPT ![req[r].post] =
                                Less(@, 1 + req[r].replies)]
      BY <1>2 DEF RemoveCommit
    <2>2. PICK d \in comments : d.id = id
      BY <2>1 DEF WithId
    <2>3. d.post = req[r].post
      BY <2>2 DEF RemoveCommit, EngagementInv, Found, WithId
    <2>4. /\ IsFiniteSet(gone) /\ gone \subseteq CommentsOf(req[r].post)
          /\ Cardinality(gone) = 1 + Cardinality(RepliesTo(id))
      BY <2>2, <2>3, Removed
    <2>5. /\ commentCount[p] \in Nat /\ req[r].replies \in Nat
          /\ req[r].post \in Posts /\ commentCount \in [Posts -> Nat]
      BY DEF EngagementInv, TypeOK, Request
    <2> HIDE DEF gone, id
    <2>6. CASE req[r].post # p
      <3>1. CommentsOf(p)' = CommentsOf(p)
        BY <2>1, <2>4, <2>6 DEF CommentsOf
      <3>2. commentCount'[p] = commentCount[p]
        BY <2>1, <2>5, <2>6
      <3> QED
        BY <3>1, <3>2 DEF Drift
    <2>7. CASE req[r].post = p
      <3>1. CommentsOf(p)' = CommentsOf(p) \ gone
        BY <2>1 DEF CommentsOf
      <3>2. IsFiniteSet(CommentsOf(p)) /\ Cardinality(CommentsOf(p)) \in Nat
        BY SomeOf DEF CommentsOf, EngagementInv, Identified
      <3>3. CommentsOf(p) \cap gone = gone
        BY <2>4, <2>7
      <3>4. Cardinality(CommentsOf(p)') = Cardinality(CommentsOf(p)) - Cardinality(gone)
        <4>1. Cardinality(CommentsOf(p) \ gone)
                = Cardinality(CommentsOf(p)) - Cardinality(CommentsOf(p) \cap gone)
          BY <3>2, FS_Difference
        <4> QED
          BY <3>1, <3>3, <4>1
      <3>5. /\ req[r].replies = Cardinality(RepliesTo(id))
            /\ ~(commentCount[p] <= req[r].replies)
        BY <2>1, <2>7 DEF id
      <3>6. commentCount'[p] = commentCount[p] - (1 + req[r].replies)
        <4>1. 1 + req[r].replies \in Nat /\ 1 + req[r].replies <= commentCount[p]
          BY <2>5, <3>5
        <4>2. Less(commentCount[p], 1 + req[r].replies)
                = commentCount[p] - (1 + req[r].replies)
          BY <2>5, <4>1, LessType
        <4> QED
          BY <2>1, <2>5, <2>7, <4>2
      <3> QED
        BY <2>4, <2>5, <3>2, <3>4, <3>5, <3>6 DEF Drift
    <2> QED
      BY <2>6, <2>7
  <1> QED
    BY <1>1, <1>2

\* A comment and its post's counter come in one step.
LEMMA ExactInsertion ==
    ASSUME EngagementAssumption, EngagementInv, NEW r \in Requests, CommentInsert(r),
           NEW p \in Posts
    PROVE  Drift(p)' = Drift(p)
  <1> DEFINE new == [id |-> lastId + 1, post |-> req[r].post, author |-> req[r].user,
                     parent |-> req[r].id, recent |-> TRUE]
  <1>1. CASE ~CommentAllowed(r)
    BY <1>1 DEF CommentInsert, Drift, CommentsOf
  <1>2. CASE CommentAllowed(r)
    <2>1. /\ comments' = comments \cup {new} /\ new.post = req[r].post
          /\ commentCount' = [commentCount EXCEPT ![req[r].post] = @ + 1]
      BY <1>2 DEF CommentInsert
    <2>2. new \notin comments
      <3>1. \A c \in comments : c.id # lastId + 1
        BY DEF EngagementInv, TypeOK, Identified
      <3> QED
        BY <3>1
    <2>3. commentCount \in [Posts -> Nat] /\ req[r].post \in Posts
      BY DEF EngagementInv, TypeOK, Request
    <2>4. IsFiniteSet(CommentsOf(p)) /\ Cardinality(CommentsOf(p)) \in Nat
      BY SomeOf DEF CommentsOf, EngagementInv, Identified
    <2> HIDE DEF new
    <2>5. CASE req[r].post # p
      <3>1. CommentsOf(p)' = CommentsOf(p)
        BY <2>1, <2>5 DEF CommentsOf
      <3> QED
        BY <2>1, <2>3, <2>5, <3>1 DEF Drift
    <2>6. CASE req[r].post = p
      <3>1. CommentsOf(p)' = CommentsOf(p) \cup {new} /\ new \notin CommentsOf(p)
        BY <2>1, <2>2, <2>6 DEF CommentsOf
      <3>2. Cardinality(CommentsOf(p)') = Cardinality(CommentsOf(p)) + 1
        BY <2>4, <3>1, FS_AddElement
      <3>3. commentCount'[p] = commentCount[p] + 1 /\ commentCount[p] \in Nat
        BY <2>1, <2>3, <2>6
      <3> QED
        BY <2>4, <3>2, <3>3 DEF Drift
    <2> QED
      BY <2>5, <2>6
  <1> QED
    BY <1>1, <1>2

\* Growing older, comments stay as many.
LEMMA ExactAge ==
    ASSUME EngagementAssumption, EngagementInv, Age, NEW p \in Posts
    PROVE  Drift(p)' = Drift(p)
  <1>1. PICK n \in Nat :
           comments' = {[d EXCEPT !.recent = @ /\ d.id > n] : d \in comments}
    BY DEF Age, EngagementInv, TypeOK, Comment
  <1> DEFINE older == [d \in CommentsOf(p) |-> [d EXCEPT !.recent = @ /\ d.id > n]]
  <1>2. \A d \in comments : LET e == [d EXCEPT !.recent = @ /\ d.id > n] IN
           e.id = d.id /\ e.post = d.post
    BY DEF EngagementInv, TypeOK, Comment
  <1>3. older \in [CommentsOf(p) -> CommentsOf(p)']
    BY <1>1, <1>2 DEF CommentsOf
  <1>4. \A c \in CommentsOf(p)' : \E d \in CommentsOf(p) : older[d] = c
    <2> SUFFICES ASSUME NEW c \in CommentsOf(p)'
                 PROVE  \E d \in CommentsOf(p) : older[d] = c
      OBVIOUS
    <2>1. PICK d \in comments : c = [d EXCEPT !.recent = @ /\ d.id > n]
      BY <1>1 DEF CommentsOf
    <2>2. d \in CommentsOf(p)
      BY <1>2, <2>1 DEF CommentsOf
    <2> QED
      BY <2>1, <2>2
  <1>5. \A c, d \in CommentsOf(p) : older[c] = older[d] => c = d
    <2>1. \A c \in CommentsOf(p) : older[c].id = c.id
      BY <1>2 DEF CommentsOf
    <2> HIDE DEF older
    <2> QED
      BY <2>1 DEF CommentsOf, EngagementInv, Identified
  <1> HIDE DEF older
  <1>6. older \in Injection(CommentsOf(p), CommentsOf(p)')
    BY <1>3, <1>5 DEF Injection, IsInjective
  <1>7. older \in Surjection(CommentsOf(p), CommentsOf(p)')
    BY <1>3, <1>4 DEF Surjection
  <1>8. IsFiniteSet(CommentsOf(p))
    BY SomeOf DEF CommentsOf, EngagementInv, Identified
  <1>9. Cardinality(CommentsOf(p)') = Cardinality(CommentsOf(p))
    BY <1>6, <1>7, <1>8, FS_Surjection
  <1>10. commentCount' = commentCount
    BY DEF Age, counters
  <1> QED
    BY <1>9, <1>10 DEF Drift

\* While accounts stay, a comment counter moves away from the comments of its
\* post, or back, only in a removal whose replies changed since they were
\* counted or that finds the counter too low already (comments.service.ts,
\* admin.service.ts, reports.service.ts).
THEOREM DriftExplained == Spec => DriftByStaleReplies
  <1> DEFINE Explained(p) ==
                \E r \in Requests :
                   /\ req[r].pc = "remove" /\ req'[r].pc = "idle"
                   /\ req[r].post = p /\ WithId(req[r].id) # {}
                   /\ \/ req[r].replies # Cardinality(RepliesTo(req[r].id))
                      \/ commentCount[p] <= req[r].replies
             Step == \A p \in Posts :
                        post[p] = "up" /\ post'[p] = "up" /\ live' = live
                          /\ Drift(p)' # Drift(p) => Explained(p)
  <1>1. ASSUME EngagementAssumption, EngagementInv, [Next]_vars
        PROVE  Step
    <2> SUFFICES ASSUME NEW p \in Posts, post[p] = "up", post'[p] = "up", live' = live,
                        Drift(p)' # Drift(p)
                 PROVE  Explained(p)
      OBVIOUS
    <2>1. ~UNCHANGED <<comments, commentCount>>
      BY DEF Drift, CommentsOf
    <2>2. ASSUME NEW q \in Posts, PostCreate(q) \/ PostDelete(q)
          PROVE  FALSE
      <3>1. PostDelete(q)
        BY <2>1, <2>2 DEF PostCreate, counters
      <3>2. q # p
        BY <1>1, <3>1 DEF PostDelete, EngagementInv, TypeOK
      <3>3. CommentsOf(p)' = CommentsOf(p) /\ commentCount' = commentCount
        BY <3>1, <3>2 DEF PostDelete, CommentsOf, counters
      <3> QED
        BY <3>3 DEF Drift
    <2>3. ASSUME NEW r \in Requests, Start(r)
          PROVE  FALSE
      BY <2>1, <2>3 DEF Start, ToggleRead, CommentRead, RemoveRead, LeaveRead, counters
    <2>4. ASSUME NEW r \in Requests, Abort(r)
          PROVE  FALSE
      BY <2>1, <2>4 DEF Abort, counters
    <2>5. ~Age
      BY <1>1, ExactAge
    <2>6. ASSUME NEW r \in Requests, Continue(r)
          PROVE  Explained(p)
      <3>1. ~MarkCommit(r) /\ ~UnmarkCommit(r) /\ ~CommentCheck(r)
        BY <2>1 DEF MarkCommit, UnmarkCommit, CommentCheck, counters
      <3>2. ~CommentInsert(r)
        BY <1>1, ExactInsertion
      <3>3. ~LeaveCommit(r)
        BY <2>1 DEF LeaveCommit, counters
      <3>4. RemoveCommit(r)
        BY <2>6, <3>1, <3>2, <3>3 DEF Continue
      <3>5. /\ WithId(req[r].id) # {} /\ req[r].post = p
            /\ \/ req[r].replies # Cardinality(RepliesTo(req[r].id))
               \/ commentCount[p] <= req[r].replies
        BY <1>1, <3>4, ExactRemoval
      <3>6. req[r].pc = "remove" /\ req'[r].pc = "idle"
        BY <3>4, IdleType, <1>1 DEF RemoveCommit, Finish, EngagementInv, TypeOK
      <3> QED
        BY <3>5, <3>6
    <2>7. ~UNCHANGED vars
      BY <2>1 DEF vars
    <2> QED
      BY <1>1, <2>2, <2>3, <2>4, <2>5, <2>6, <2>7 DEF Next
  <1>2. EngagementInv /\ [Next]_vars => [Step]_vars
    BY <1>1, EngagementAssumption
  <1>3. Spec => [][Step]_vars
    BY <1>2, EngagementInvariant, EngagementAssumption, PTL DEF Spec
  <1> QED
    BY <1>3 DEF DriftByStaleReplies

=============================================================================
