CONSTANTS
    VMs = {v1}
    Bodies = {b1}
    Selected = {b1}
    None = None
    Torn = Torn
    ArgoEnabled = TRUE
    FaultKinds = {"torn", "lost", "kept"}
    UserTracking = {TRUE, FALSE}
    MaxUserOps = 3
    MaxGitOps = 1
    MaxMixedOps = 1
    MaxRestarts = 0
    MaxBacklog = 2
SPECIFICATION FairSpec
INVARIANTS
    TypeOK
    NoTornFileInGit
    PassInv
    WantedNotHidden
PROPERTIES
    SyncOnlyPublished
    GitTracksIntent
