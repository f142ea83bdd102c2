SPECIFICATION FairSpec
CONSTANTS
    Cores <- TwoCores
    CORE0 = 0
    NR_TASKS = 3
    NULL = NULL
    Forks <- OneAndTwo
    JoinTargets <- NoTargets
    Rounds = 1
    MaxNest = 0
    EarlyTick = FALSE
PROPERTY
    JoinAllReturns
