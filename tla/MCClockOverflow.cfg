\* The counter starts at 0, so that the clock jumps only when it overflows.
SPECIFICATION PromptSpec
CHECK_DEADLOCK FALSE
CONSTANTS
    Word = 32
    ClockPeriod = 8
    StartCounters = {0}
    Cyclic <- OneCyclic
    TcpInterval = 2
    OneShot = {"h"}
    Msecs = {1, 5}
    MaxTime = 10
PROPERTY OverflowHandled
