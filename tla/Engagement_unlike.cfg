\* The database of the migrations: the decrement of an unlike fails.
SPECIFICATION Spec
\* The posts of the instance may all be deleted: nothing is left to do then.
CHECK_DEADLOCK FALSE
CONSTANTS
    u1 = u1
    u2 = u2
    p1 = p1
    r1 = r1
    r2 = r2
    Users = {u1, u2}
    Posts = {p1}
    Requests = {r1, r2}
    Leavers = {}
    NoComments = {}
    Databases <- AsMigrated
    MaxPerPost = 2
    MaxPerMinute = 2
    MaxComments = 2
SYMMETRY Symmetry
PROPERTY UnlikeWorks
