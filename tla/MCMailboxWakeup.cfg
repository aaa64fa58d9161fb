SPECIFICATION Spec
CONSTANTS
    t1 = t1
    t2 = t2
    t3 = t3
    NULL = NULL
    Threads <- MCThreads
    Priority <- MCPriority
    Messages = {0, 1}
    MaxCalls = 4
PROPERTIES SendMeetsReceive
CHECK_DEADLOCK FALSE
