SPECIFICATION PacketsSpec
CONSTANTS
    NULL = NULL
    NoPbuf = NoPbuf
    NoDatagram = NoDatagram
    p1 = p1
    p2 = p2
    p3 = p3
    i1 = i1
    i2 = i2
    QUEUE_NUM_ELEMS = 3
    Elems = {p1, p2, p3}
    Pbufs = {p1, p2, p3}
    MaxLen = 2
    BufSize = 1
    Room = 0
    Modulus = 4
    MaxRef = 2
    MaxOutput = 1
    MaxRefused = 1
    Ids = {i1, i2}
    LenOf <- FiveAndSix
    Mtus = {4, 5}
    IP_HLEN = 1
    Unit = 2
    U16_MAX = 7
    PBUF_POOL_BUFSIZE = 3
    IP_REASS_MAX_PBUFS = 3
    IP_REASS_MAXAGE = 1
    MemoryFails = TRUE
SYMMETRY Symmetry
INVARIANTS
    QueueInv
    ChainsSound
    PbufsCounted
    ReassemblySound
PROPERTIES
    ImplementsFifo
    FragmentsWait
