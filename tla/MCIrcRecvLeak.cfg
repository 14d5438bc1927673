\* The server sends one segment.
SPECIFICATION Spec
CONSTANTS
    NULL = NULL
    PCB = PCB
    RESPONSE_SIZE = 32
    Segments <- FewSegments
    MemoryMayFail = FALSE
    Aborts = FALSE
    MaxSegments = 1
INVARIANT RecvFreesPbuf
\* main returns.
CHECK_DEADLOCK FALSE
