CONSTANTS
    v1 = v1
    v2 = v2
    a1 = a1
    s1 = s1
    VGSs = {v1, v2}
    Apps = {a1}
    Secrets = {s1}
    AppName <- OneApp
    SecretName <- OneSecret
    None = None
    SecretsWritable = TRUE
    CanFail = {"app", "repo"}
    MaxUserOps = 3
SPECIFICATION FairSpec
INVARIANTS
    TypeOK
    LabelsAgree
    FinalizerFirst
PROPERTIES
    OthersApplicationSafe
    VgsDeletionCompletes
    VgsServed
CHECK_DEADLOCK FALSE
