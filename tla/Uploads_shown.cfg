\* The account's image is given by a full URL of this server.
SPECIFICATION MCSpec
SYMMETRY Symmetry
CONSTANTS
    u1 = u1
    g1 = g1
    r1 = r1
    None = None
    Users = {u1}
    Posts = {}
    PostImages = {}
    ProfileImages = {g1}
    Links <- LinksShowing
    Deletes <- FileDeleted
    Shows <- FileShown
    Requests = {r1}
    BatchSize = 1
    MaxFaults = 0
    Worlds <- Whole
PROPERTIES ShownImagesKept
