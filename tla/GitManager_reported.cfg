CONSTANTS
    g1 = g1
    p1 = p1
    p2 = p2
    u1 = u1
    u2 = u2
    b1 = b1
    b2 = b2
    VGSs = {g1}
    URLs = {u1}
    Branches = {b1, b2}
    Paths = {p1, p2}
    Contents = {c1}
    None = None
    Path <- OwnPaths
    Secrets <- OneKey
    Admits <- SshOnly
    Existing <- OneMissing
    MaxUserOps = 2
    MaxGitOps = 0
    MaxRestarts = 0
SPECIFICATION Spec
INVARIANT
    Reported
CHECK_DEADLOCK FALSE
