SPECIFICATION Spec
CONSTANTS
    LOG_SIZE = 9
    STAMP_LEN = 2
    RESERVE = 3
    Messages <- SmallMessages
    ResizeMayFail = TRUE
INVARIANTS TypeOK StampFits WrittenOnce LinesStamped
