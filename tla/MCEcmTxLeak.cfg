SPECIFICATION Spec
CONSTANTS
    QUEUE_NUM_ELEMS = 2
    Bufs = {b1, b2}
    Pbufs = {p1, p2}
    NULL = NULL
    WILD = WILD
    FreshReadData = {NULL}
    ScheduleResults = {"USB_SUCCESS", "USB_ERROR_NO_MEMORY"}
    IgnoreRestarts = {FALSE}
    MaxFrames = 2
INVARIANT RefCountExact
