SPECIFICATION FairSpec
CONSTANTS
    Others <- TwoOthers
    Bits <- FourBits
    Address <- SharedBits
    Rounds = 3
    SlowStart = TRUE
INVARIANTS
    CallsAFunction
    ThreadsOnReadyCores
    MailIsKept
PROPERTY
    PostsAreCalled
CHECK_DEADLOCK FALSE
