SPECIFICATION Spec
CONSTANTS
    Peers = {alice, bob}
    Books = {p1, p2}
    MayFail = TRUE
    Missing = Missing
    Empty = Empty
    Torn = Torn
    Closed = Closed
SYMMETRY Symm
CHECK_DEADLOCK FALSE
INVARIANTS TypeOK OwnChangesHold RemovedStayRemoved AddedStayAdded
