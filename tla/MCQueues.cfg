SPECIFICATION SumSpec
CONSTANTS
    t1 = t1
    t2 = t2
    t3 = t3
    t4 = t4
    a1 = a1
    a2 = a2
    a3 = a3
    a4 = a4
    main = main
    NULL = NULL
    Threads <- MCThreads
    Priority <- MCPriority
    InitialValue = 1
    MaxValue = 3
INVARIANTS
    NoLostWakeup ThreadsSound
PROPERTIES
    WakesHighestPriority Implements ImplementsList JoinMeetsFinish
