SPECIFICATION Spec
CONSTANTS
    Cores <- TwoCores
    Irqs <- FourIrqs
    Registering <- SetUp
    Unregistering <- TearDown
    n1 = n1
    n2 = n2
    n3 = n3
    n4 = n4
    Nodes = {n1, n2, n3, n4}
    NULL = NULL
    Pins = {14, 15, 33}
    EventRegisters = {"GPREN0"}
    Functions = {{}, {0}}
    Events = {"rising_edge_sync", "lowlevel"}
    Bits = 8
    FracLen = 2
    Pages = 4
    Ticks = 16
    PerMs = 3
    StackBytes = 32
    total_threads = 3
    line_per_thread = 2
    width = 8
    iterations = 3
INVARIANT
    SomeCommentHolds
CHECK_DEADLOCK FALSE
