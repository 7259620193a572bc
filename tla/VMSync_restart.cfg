CONSTANTS
    VMs = {v1}
    Bodies = {b1}
    Selected = {b1}
    None = None
    Torn = Torn
    ArgoEnabled = TRUE
    FaultKinds = {}
    UserTracking = {FALSE}
    MaxUserOps = 1
    MaxGitOps = 0
    MaxMixedOps = 0
    MaxRestarts = 1
    MaxBacklog = 2
SPECIFICATION FairSpec
PROPERTY
    DeletedStaysDeleted
