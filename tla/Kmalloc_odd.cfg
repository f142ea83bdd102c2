SPECIFICATION Spec
CONSTANTS
    HeapStart = 64
    HeapSize = 320
    Requests <- OddSizes
INVARIANTS
    BlocksInHeap
CHECK_DEADLOCK FALSE
