SPECIFICATION AuthoritySpec
CONSTANTS
    i1 = i1
    r1 = r1
    alice = alice
    bob = bob
    carol = carol
    Facts = {1}
    Secrets = {i1, r1}
    SessionIds = {"s"}
    Identities = {alice, bob, carol}
    Initiators = {i1}
    Responders = {r1}
    Hosts = {"a", "b"}
    HostOf <- MCHostOf
    HomeOf <- MCHomeOf
    InitiatorSetups <- MCInitiatorSetups
    ResponderSetups <- MCResponderSetups
    InviteTerms <- MCInvites
    LeaseTerms <- MCLeases
    RenewTtls = {1}
    IdsOf <- MCIdsOf
    MaxSetSize = 1
    MaxClock = 2
    MaxGrants = 2
    SignedCallsOnly = TRUE
    Absent = Absent
    NoNonce = NoNonce
    RandomNonce = RandomNonce
    NoPeer = NoPeer
    NoSigner = NoSigner
    NoDeadline = NoDeadline
    NoResult = NoResult
CHECK_DEADLOCK FALSE
CONSTRAINT StillOrTimed
INVARIANTS AuthorityTypeOK GrantedSessionsMeet LeasesRooted
PROPERTIES GrantNotOutlived RoundTripBounded
