\* One account, one administrator, two requests of theirs that overlap.
SPECIFICATION Spec
\* Every account of the instance may be deleted: nothing is left to do then.
CHECK_DEADLOCK FALSE
CONSTANTS
    u1 = u1
    a1 = a1
    r1 = r1
    r2 = r2
    Users = {u1}
    Admins = {a1}
    Requests = {r1, r2}
    MaxRows = 2
SYMMETRY Symmetry
INVARIANTS TypeOK VerdictsMatchAccount OverlapBounded
