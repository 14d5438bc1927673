SPECIFICATION UsbSpec
\* Every device is unplugged.
CHECK_DEADLOCK FALSE
CONSTANTS
    NULL = NULL
    d1 = d1
    d2 = d2
    Devices = {d1, d2}
    Kinds <- MCKinds
    NetifAddr <- Netifs4
    StateAddr <- States4
    NetifNums = 4
INVARIANTS
    NetifsDistinct
    HeapAccounted
PROPERTIES
    DeviceServed
