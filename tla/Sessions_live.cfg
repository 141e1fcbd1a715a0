\* Two requests whose transactions wait for one another's row locks; small
\* enough for the liveness and for the refinement of AccessGate.
SPECIFICATION FairSpec
CONSTANTS
    u1 = u1
    r1 = r1
    r2 = r2
    NoBan = NoBan
    Forever = Forever
    Users = {u1}
    Requests = {r1, r2}
    TicksPerSecond = 1
    AccessTtl = 1
    ParsedTtl = 1
    HardTtl = 1
    RefreshTtl = 1
    RowTtl = 1
    BanLengths = {1}
    MaxClock = 2
    MaxChanges = 0
    MaxTokens = 1
    MaxEntries = 1
PROPERTIES RequestsEnd TablesPurged GateSpec
