\* The address changes after the code was mailed.
SPECIFICATION Spec
\* Every account of the instance may be deleted: nothing is left to do then.
CHECK_DEADLOCK FALSE
CONSTANTS
    u1 = u1
    r1 = r1
    d1 = d1
    d2 = d2
    Users = {u1}
    Requests = {r1}
    Digits = {d1, d2}
    MaxAttempts = 2
    MaxCodes = 1
    MaxAddresses = 1
SYMMETRY Symmetry
INVARIANTS VerifiedAddressProven
