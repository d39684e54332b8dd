SPECIFICATION Spec
CONSTANTS
    a1 = a1
    a2 = a2
    b1 = b1
    zero = zero
    alice = alice
    Facts = {0, 1, 2, 9}
    Secrets = {a1, a2, b1, zero}
    Offers = {a1, a2}
    Replies = {b1}
    Zero = zero
    ZeroFact = 0
    Users = {alice}
    SessionIds = {"s"}
    Inputs = {{1}, {1, 2}}
    Ttls = {1}
    Pads = {0, 1}
    DummyOf <- MCDummyOf
    IdsOf <- MCIdsOf
    MaxClock = 1
    None = None
    NoPeer = NoPeer
    NoSigner = NoSigner
    NoOutput = NoOutput
    CountMismatch = CountMismatch
SYMMETRY Runs
CHECK_DEADLOCK FALSE
INVARIANTS TypeOK StatesMatchMessages
