\* The smaller parts, one at a time; two requests that overlap in each.
SPECIFICATION PartsSpec
\* Accounts, answers and posts may all be deleted: nothing is left to do then.
CHECK_DEADLOCK FALSE
CONSTANTS
    r1 = r1
    r2 = r2
    u1 = u1
    u2 = u2
    v1 = v1
    v2 = v2
    a1 = a1
    w1 = w1
    c1 = c1
    c2 = c2
    c3 = c3
    b1 = b1
    b2 = b2
    b3 = b3
    p1 = p1
    i1 = i1
    i2 = i2
    i3 = i3
    i4 = i4
    k1 = k1
    NoKey = NoKey
    jpeg = jpeg
    pdf = pdf
    Junk = Junk
    Requests = {r1, r2}
    Users = {u1, u2}
    FirstAdmins = {u1, u2}
    AccessTtl = 1
    MaxClock = 1
    Accounts = {v1, v2}
    Author = v1
    Senders = {w1}
    Codes = {c1, c2, c3}
    MaxFallback = 2
    Lifetime = 1
    MaxOAuthClock = 3
    Answers = {b1, b2, b3}
    MaxTokens = 3
    Posts = {p1}
    Readers = {i1, i2, i3, i4}
    MaxCacheSize = 3
    Ttl = 2
    MaxViewClock = 2
    MaxViews = 4
    MaxWritten = 2
    MaxNotices = 2
    MaxLimit = 1
    Limits = {1, 2}
    MaxListed = 3
    MaxListClock = 2
    Admin = a1
    Keys = {k1}
    Images = {jpeg}
    Documents = {pdf}
    MaxFiles = 2
SYMMETRY Symmetry
INVARIANTS
    PartsTypeOK HandedBounded ResetsBounded OpenBounded BestBounded WindowKept
    PowerEnds AdminRemains NoticeHasCause PagingComplete  Audited
PROPERTIES EvictsOldest
