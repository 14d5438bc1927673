SPECIFICATION Spec
CONSTANTS
    QUEUE_NUM_ELEMS = 2
    Bufs = {b1, b2}
    Pbufs = {p1, p2, p3}
    NULL = NULL
    WILD = WILD
    FreshReadData = {NULL, WILD}
    ScheduleResults = {"USB_SUCCESS", "USB_ERROR_NO_MEMORY"}
    IgnoreRestarts = {FALSE, TRUE}
    MaxFrames = 3
INVARIANTS TypeOK ReadBufferSafe HaltedIsIdle StallHasCause PbufAlive
PROPERTIES LeakHasCause
