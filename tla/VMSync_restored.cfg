CONSTANTS
    VMs = {v1}
    Bodies = {b1}
    Selected = {b1}
    None = None
    Torn = Torn
    ArgoEnabled = TRUE
    FaultKinds = {}
    UserTracking = {TRUE}
    MaxUserOps = 2
    MaxGitOps = 0
    MaxMixedOps = 0
    MaxRestarts = 0
    MaxBacklog = 2
SPECIFICATION Spec
INVARIANT
    RestoredNotHidden
