\* A post is reported; one request may die or fail half way.
SPECIFICATION LiveSpec
\* Everything reported and every account may be deleted: nothing is left to do then.
CHECK_DEADLOCK FALSE
CONSTANTS
    u1 = u1
    u2 = u2
    p1 = p1
    r1 = r1
    r2 = r2
    Null = Null
    Users = {u1, u2}
    Posts = {p1}
    Comments = {}
    Requests = {r1, r2}
    Anonymous = {}
    FirstUser = u1
    Writer <- WriterIsFirst
    Asked <- OfThings
    CommentsDeletable = FALSE
    MaxReports = 1
    MaxAborts = 1
INVARIANTS TypeOK DeletionDone
PROPERTIES Retriable
