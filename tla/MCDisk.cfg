SPECIFICATION SumSpec
CONSTANTS
    t1 = t1
    t2 = t2
    a = a
    b = b
    c = c
    d = d
    m1 = m1
    m2 = m2
    w1 = w1
    w2 = w2
    NULL = NULL
    NONE = NONE
    Threads = {t1, t2}
    SectorsPerTrack = 2
    NumTracks = 2
    SeekTime = 2
    RotationTime = 2
    Data = {0, 1}
    Zero = 0
    MaxCalls = 3
    Pauses = {1}
INVARIANTS
    RequestsTakeTurns ReadIsCurrent LatencyIsRotation MailDelivered
PROPERTIES
    RequestsAndMailEnd
CHECK_DEADLOCK FALSE
