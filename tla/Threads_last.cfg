SPECIFICATION Spec
CONSTANTS
    Main = Main
    a = a
    b = b
    c = c
    e = e
    Tasks = {Main, a, b}
    Endless = {Main}
    Stacks = {1, 2, 3, 4}
    NULL = 0
    Program <- Last
    NR_TASKS = 3
    MaxNest = 1
INVARIANT ExitNeverReturns
CHECK_DEADLOCK FALSE
