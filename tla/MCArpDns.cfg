SPECIFICATION Spec
CONSTANTS
    NULL = NULL
    NONE = NONE
    x1 = x1
    x2 = x2
    n1 = n1
    n2 = n2
    n3 = n3
    y1 = y1
    y2 = y2
    z1 = z1
    z2 = z2
    Ips = {x1, x2}
    Eths = {y1, y2}
    Netifs = {z1, z2}
    ARP_TABLE_SIZE = 2
    ARP_MAXAGE = 5
    ARP_MAXPENDING = 2
    Unicast = 2
    Broadcast = 3
    Steadies = {TRUE, FALSE}
    Callers = {y1, y2}
    Names = {n1, n2, n3}
    Entries = 2
    Servers = 2
    Txids = {z1, z2}
    DNS_MAX_RETRIES = 3
    Ttls = {0, 1}
    SeqMod = 2
    PcbFails = TRUE
    Reask = FALSE
    MaxQueries = 1
SYMMETRY Symmetry
INVARIANTS
    EntriesUnique
    FramesToNextHop
    CallersAnswered
    QueriesSound
PROPERTIES
    EntryLife
    QueriesProgress
