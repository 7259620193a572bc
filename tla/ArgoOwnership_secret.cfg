CONSTANTS
    v1 = v1
    v2 = v2
    a1 = a1
    s1 = s1
    VGSs = {v1, v2}
    Apps = {a1}
    Secrets = {s1}
    AppName <- OneApp
    SecretName <- OneSecret
    None = None
    SecretsWritable = TRUE
    CanFail = {}
    MaxUserOps = 3
SPECIFICATION Spec
PROPERTY
    OthersSecretSafe
CHECK_DEADLOCK FALSE
