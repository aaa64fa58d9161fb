SPECIFICATION Spec
CONSTANTS
    reader = reader
    writer = writer
    NULL = NULL
    Threads = {reader, writer}
    Conds = {"bufferCV"}
    Priority <- MCPriority
    Bytes = {1, 2}
    Capacity = 3
    MaxWrites = 4
PROPERTIES BrokenPipeEndsWait
CHECK_DEADLOCK FALSE
