SPECIFICATION Spec
CONSTANTS
    k1 = k1
    k2 = k2
    k3 = k3
    p1 = p1
    p2 = p2
    Keys <- MCKeys3
    Processes <- MCProcesses1
    Ttls = {0, 1, 3}
    MaxEntries = 1
    MaxClock = 5
    TimeLimit = 16
    MayFail = FALSE
    NoEntry = NoEntry
    Missing = Missing
    Empty = Empty
    Torn = Torn
    Closed = Closed
SYMMETRY Symm
CHECK_DEADLOCK FALSE
INVARIANTS NoReplay AnswersExactly
PROPERTIES SurvivesRestart OnlyLiveOverLimit
