SPECIFICATION Spec
CONSTANTS
    k1 = k1
    k2 = k2
    k3 = k3
    p1 = p1
    p2 = p2
    Keys <- MCKeys2
    Processes <- MCProcesses2
    Ttls = {2}
    MaxEntries = 1
    MaxClock = 3
    TimeLimit = 16
    MayFail = TRUE
    NoEntry = NoEntry
    Missing = Missing
    Empty = Empty
    Torn = Torn
    Closed = Closed
SYMMETRY Symm
CHECK_DEADLOCK FALSE
INVARIANTS TypeOK MemoryRemembers
