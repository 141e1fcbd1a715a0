\* A recruiter and two applicants, one posting, the daily job and its failures.
SPECIFICATION FairSpec
CONSTANTS
    u1 = u1
    u2 = u2
    u3 = u3
    j1 = j1
    r1 = r1
    r2 = r2
    Users = {u1, u2, u3}
    Jobs = {j1}
    Requests = {r1, r2}
    Anonymous = {}
    FirstUser = u1
    Recruiter <- OneRecruiter
    MaxEdits = 1
INVARIANTS TypeOK OneApplication
PROPERTY ExpiredClosed
