CONSTANTS
    g1 = g1
    p1 = p1
    u1 = u1
    u2 = u2
    b1 = b1
    b2 = b2
    p2 = p2
    VGSs = {g1}
    URLs = {u1, u2}
    Branches = {b1, b2}
    Paths = {p1, p2}
    Contents = {c1}
    None = None
    Path <- OwnPaths
    Secrets <- TwoKeys
    Admits <- SshOnly
    Existing <- OneMissing
    MaxUserOps = 2
    MaxGitOps = 1
    MaxRestarts = 1
SPECIFICATION FairSpec
INVARIANTS
    TypeOK
    ReportedIsPublished
PROPERTIES
    StoreSafe
    MirrorsSpec
CHECK_DEADLOCK FALSE
