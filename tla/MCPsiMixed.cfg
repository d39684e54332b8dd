SPECIFICATION Spec
CONSTANTS
    i1 = i1
    i2 = i2
    r1 = r1
    r2 = r2
    alice = alice
    bob = bob
    carol = carol
    Facts = {1, 2, 3}
    Secrets = {i1, i2, r1, r2}
    SessionIds = {"s", "t"}
    Identities = {alice, bob}
    Initiators <- MCInitiators2
    Responders <- MCResponders2
    Hosts = {"host"}
    HostOf <- MCOneHost
    InitiatorSetups <- MixedOrBoundInitiators
    ResponderSetups <- MixedOrBoundResponders
    IdsOf <- MCIdsOf
    MaxSetSize = 2
    MaxClock = 0
    SignedCallsOnly = TRUE
    Absent = Absent
    NoNonce = NoNonce
    RandomNonce = RandomNonce
    NoPeer = NoPeer
    NoSigner = NoSigner
    NoDeadline = NoDeadline
    NoResult = NoResult
SYMMETRY Symm
CHECK_DEADLOCK FALSE
CONSTRAINT OneResponderIfBound
INVARIANTS TypeOK InitiatorExact SoleSessionsExact ResponderAgrees BoundPeers IInv
PROPERTIES ResultsFinal
