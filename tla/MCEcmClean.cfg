SPECIFICATION Spec
CONSTANTS
    QUEUE_NUM_ELEMS = 2
    Bufs = {b1, b2}
    Pbufs = {p1, p2, p3}
    NULL = NULL
    WILD = WILD
    FreshReadData = {NULL}
    ScheduleResults = {"USB_SUCCESS"}
    IgnoreRestarts = {FALSE, TRUE}
    MaxFrames = 3
INVARIANT RefCountExact
PROPERTIES ImplementsLossyLink ReadRecovers BusyEnds
