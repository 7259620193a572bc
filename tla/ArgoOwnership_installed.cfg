CONSTANTS
    v1 = v1
    a1 = a1
    s1 = s1
    VGSs = {v1}
    Apps = {a1}
    Secrets = {s1}
    AppName <- OneApp
    SecretName <- OneSecret
    None = None
    SecretsWritable = FALSE
    CanFail = {}
    MaxUserOps = 1
SPECIFICATION FairSpec
PROPERTY
    ServedAsInstalled
CHECK_DEADLOCK FALSE
