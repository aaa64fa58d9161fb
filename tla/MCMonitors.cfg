SPECIFICATION SumSpec
CONSTANTS
    t1 = t1
    t2 = t2
    t3 = t3
    t4 = t4
    a = a
    b = b
    EOF = EOF
    NONE = NONE
    NULL = NULL
    Threads <- MCThreads
    Priority <- MCPriority
    Conds = {c1, c2}
INVARIANTS
    NoLostWakeup TestsEndAsTheySay CharactersInOrder 
PROPERTIES
    WakesHighestPriority Implements WriteReturns
CHECK_DEADLOCK FALSE
