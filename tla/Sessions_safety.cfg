\* Two requests on one account, ticks of half a second.
SPECIFICATION Spec
CONSTANTS
    u1 = u1
    r1 = r1
    r2 = r2
    NoBan = NoBan
    Forever = Forever
    Users = {u1}
    Requests = {r1, r2}
    TicksPerSecond = 2
    AccessTtl = 1
    ParsedTtl = 1
    HardTtl = 1
    RefreshTtl = 2
    RowTtl = 2
    BanLengths = {1}
    MaxClock = 3
    MaxChanges = 1
    MaxTokens = 2
    MaxEntries = 1
SYMMETRY Symmetry
INVARIANTS TypeOK RevokedRejected GoneGetNothing
PROPERTIES CleanupInvisible
