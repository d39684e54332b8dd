SPECIFICATION Spec
CONSTANTS
    i1 = i1
    i2 = i2
    r1 = r1
    r2 = r2
    alice = alice
    bob = bob
    carol = carol
    Facts = {1, 2, 3}
    Secrets = {i1, i2, r1, r2}
    SessionIds = {"s", "t"}
    Identities = {}
    Initiators <- MCInitiators2
    Responders <- MCResponders2
    Hosts = {"a", "b"}
    HostOf <- MCTwoHosts
    InitiatorSetups <- FreshInitiators
    ResponderSetups <- FreshResponders
    IdsOf <- MCIdsOf
    MaxSetSize = 2
    MaxClock = 1
    SignedCallsOnly = FALSE
    Absent = Absent
    NoNonce = NoNonce
    RandomNonce = RandomNonce
    NoPeer = NoPeer
    NoSigner = NoSigner
    NoDeadline = NoDeadline
    NoResult = NoResult
SYMMETRY Symm
CHECK_DEADLOCK FALSE
INVARIANTS IInv
PROPERTIES Implements
