CONSTANTS
    None = None
    ArgoEnabled = TRUE
    MaxVMOps = 1
    MaxRestarts = 1
SPECIFICATION FairSpec
INVARIANTS
    TypeOK
    EventIsQueued
    NeverForgotten
    PhaseExplained
PROPERTIES
    EventsKept
    ServedAndRunning
