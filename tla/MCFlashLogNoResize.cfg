SPECIFICATION Spec
CONSTANTS
    LOG_SIZE = 6
    STAMP_LEN = 2
    RESERVE = 3
    Messages <- SmallMessages
    ResizeMayFail = TRUE
INVARIANT InsideLog
