SPECIFICATION Spec
CONSTANTS
    Cores <- TwoCores
    CORE0 = 0
    NR_TASKS = 3
    NULL = NULL
    Forks <- ThenMore
    JoinTargets <- FirstOfCore0
    Rounds = 2
    MaxNest = 1
    EarlyTick = FALSE
INVARIANT
    IdleCoresSleep
