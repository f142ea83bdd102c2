SPECIFICATION FairSpec
CONSTANTS
    Main = Main
    a = a
    b = b
    c = c
    e = e
    Tasks = {Main, a, b, c, e}
    Endless = {Main, e}
    Stacks = {1, 2, 3, 4}
    NULL = 0
    Program <- Busy
    NR_TASKS = 3
    MaxNest = 1
INVARIANTS
    ListIsRight
    ReadyIsResumable
    StacksAreOwn
PROPERTIES
    JoinSound
    PanicsForAReason
    ProgramEnds
CHECK_DEADLOCK FALSE
