\* A database as migrated, and one where the raw decrements reach a view named Post.
SPECIFICATION Spec
\* The posts of the instance may all be deleted: nothing is left to do then.
CHECK_DEADLOCK FALSE
CONSTANTS
    u1 = u1
    u2 = u2
    p1 = p1
    r1 = r1
    r2 = r2
    Users = {u1, u2}
    Posts = {p1}
    Requests = {r1, r2}
    Leavers = {u1, u2}
    NoComments = {}
    Databases <- WithOrWithoutView
    MaxPerPost = 2
    MaxPerMinute = 2
    MaxComments = 2
SYMMETRY Symmetry
INVARIANTS TypeOK RepliesOneDeep LikeCountExact
PROPERTIES DriftByStaleReplies
