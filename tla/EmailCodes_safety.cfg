\* Two accounts, two requests, two attempts, two possible codes.
SPECIFICATION Spec
\* Every account of the instance may be deleted: nothing is left to do then.
CHECK_DEADLOCK FALSE
CONSTANTS
    u1 = u1
    u2 = u2
    r1 = r1
    r2 = r2
    d1 = d1
    d2 = d2
    Users = {u1, u2}
    Requests = {r1, r2}
    Digits = {d1, d2}
    MaxAttempts = 2
    MaxCodes = 2
    MaxAddresses = 1
SYMMETRY Symmetry
INVARIANTS TypeOK GuessesBounded
PROPERTY RetiredForCause
