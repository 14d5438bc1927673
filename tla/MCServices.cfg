\* Memory may be short, connections may be aborted, packets lost and repeated.
SPECIFICATION AnySpec
\* main returns, the bound on time is reached, or the enumeration is complete.
CHECK_DEADLOCK FALSE
CONSTANTS
    NULL = NULL
    NONE = NONE
    PCB = PCB
    wr = wr
    rd = rd
    RESPONSE_SIZE = 32
    Segments <- SmallSegments
    MemoryMayFail = TRUE
    Aborts = TRUE
    MaxSegments = 2
    Word = 32
    ClockPeriod = 8
    StartCounters = {0, 3}
    Cyclic <- OneCyclic
    TcpInterval = 2
    OneShot = {"h"}
    Msecs = {1, 5}
    MaxTime = 10
    Clients = {wr, rd}
    Writers = {wr}
    Blocks = 3
    BlkMod = 3
    Timeout = 1
    TFTP_MAX_RETRIES = 1
    MaxTimers = 1
    Capacity = 1
    Alphabet <- SmallAlphabet
    MaxLength = 5
INVARIANTS
    RegisteredOnce
    ListSound
    FilesStored
    ReadInOrder
    TransferSound
    SearchesAgree
PROPERTIES
    PcbKept
    RegistersOpen
    OnTime
    TransferUndisturbed
