SPECIFICATION SumSpec
CONSTANTS
    t1 = t1
    t2 = t2
    t3 = t3
    t4 = t4
    t5 = t5
    t6 = t6
    reader = reader
    writer = writer
    NULL = NULL
    Threads = {reader, writer}
    Conds = {"bufferCV"}
    Priority <- MCPriority
    Bytes = {1, 2}
    Capacity = 3
    MaxWrites = 7
INVARIANTS
    InOrder SleepJustified  MeetingsSound
PROPERTIES
    EveryCallReturns
CHECK_DEADLOCK FALSE
