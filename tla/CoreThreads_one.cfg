SPECIFICATION FairSpec
CONSTANTS
    Cores <- OneCore
    CORE0 = 0
    NR_TASKS = 4
    NULL = NULL
    Forks <- ThenOneTooMany
    JoinTargets <- NoTargets
    Rounds = 3
    MaxNest = 2
    EarlyTick = FALSE
INVARIANTS
    TypeOK
    CriticalSectionsClosed
    OneRunning
    ReadyIsResumable
PROPERTIES
    EveryTaskFinishes
    NoStarvation
