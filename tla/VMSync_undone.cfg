CONSTANTS
    VMs = {v1}
    Bodies = {b1, b2}
    Selected = {b1, b2}
    None = None
    Torn = Torn
    ArgoEnabled = TRUE
    FaultKinds = {}
    UserTracking = {FALSE}
    MaxUserOps = 1
    MaxGitOps = 0
    MaxMixedOps = 0
    MaxRestarts = 0
    MaxBacklog = 2
SPECIFICATION Spec
PROPERTY
    NoEditUndone
