SPECIFICATION FairSpec
CONSTANTS
    i1 = i1
    i2 = i2
    r1 = r1
    r2 = r2
    alice = alice
    bob = bob
    carol = carol
    Facts = {1, 2, 3}
    Secrets = {i1, i2, r1, r2}
    SessionIds = {"s", "t"}
    Identities = {alice, bob}
    Initiators <- MCInitiators1
    Responders <- MCResponders1
    Hosts = {"a", "b"}
    HostOf <- MCTwoHosts
    InitiatorSetups <- PairInitiators
    ResponderSetups <- PairResponders
    IdsOf <- MCIdsOf
    MaxSetSize = 2
    MaxClock = 1
    SignedCallsOnly = TRUE
    Absent = Absent
    NoNonce = NoNonce
    RandomNonce = RandomNonce
    NoPeer = NoPeer
    NoSigner = NoSigner
    NoDeadline = NoDeadline
    NoResult = NoResult
CHECK_DEADLOCK FALSE
PROPERTIES Completion
