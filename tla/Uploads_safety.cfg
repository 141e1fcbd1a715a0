\* Posts, replaced images and two accounts, each in a world of its own.
SPECIFICATION MCSpec
SYMMETRY Symmetry
CONSTANTS
    u1 = u1
    u2 = u2
    p1 = p1
    f1 = f1
    g1 = g1
    g2 = g2
    r1 = r1
    r2 = r2
    None = None
    Users = {u1,u2}
    Posts = {p1}
    PostImages = {f1}
    ProfileImages = {g1,g2}
    Links <- LinksDeleting
    Deletes <- FileDeleted
    Shows <- FileShown
    Requests = {r1,r2}
    BatchSize = 1
    MaxFaults = 1
    Worlds <- Apart
INVARIANTS TypeOK ProfileOnDisk
PROPERTIES ProfileImagesKept PostImagesKept
