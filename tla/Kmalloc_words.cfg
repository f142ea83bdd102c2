SPECIFICATION Spec
CONSTANTS
    HeapStart = 64
    HeapSize = 328
    Requests <- Words
INVARIANTS
    Tiled
    BlocksHaveSegments
    Grouped
PROPERTIES
    AllocatorSpec
CHECK_DEADLOCK FALSE
