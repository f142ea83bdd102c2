SPECIFICATION FairSpec
CONSTANTS
    Values = 4
    BlockSize = 1
    FifoSize = 3
    SOH = 1
    EOT = 2
    G = 3
    File <- FourBlocks
    Losses = 3
    Flips = 2
    MaxRetries = 2
INVARIANTS
    Received
PROPERTIES
    LoadsTheFile
    ProgramStarts
CHECK_DEADLOCK FALSE
