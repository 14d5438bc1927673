\* The server resets the connection.
SPECIFICATION Spec
CONSTANTS
    NULL = NULL
    PCB = PCB
    RESPONSE_SIZE = 32
    Segments <- FewSegments
    MemoryMayFail = FALSE
    Aborts = TRUE
    MaxSegments = 1
INVARIANT PcbOwned
\* main returns.
CHECK_DEADLOCK FALSE
