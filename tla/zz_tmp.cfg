CONSTANTS
    VMs = {v1, v2}
    Bodies = {b1, b2}
    Selected = {b1}
    None = None
    Torn = Torn
    ArgoEnabled = FALSE
    FaultKinds = {"lost", "kept"}
    UserTracking = {FALSE}
    MaxUserOps = 1
    MaxGitOps = 1
    MaxMixedOps = 0
    MaxRestarts = 1
    MaxBacklog = 1
SPECIFICATION FairSpec
PROPERTIES
    GitMirrorsCluster
