SPECIFICATION Spec
CONSTANTS
    Threads = {main, t1, t2}
    Main = main
    NULL = NULL
    Priorities = {0, 1}
    OnlyParentJoins = FALSE
    MaxOps = 2
INVARIANTS JoinedOnce
