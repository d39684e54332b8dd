SPECIFICATION Spec
CONSTANTS
    alice = alice
    bob = bob
    Parties = {alice, bob}
    SessionIds = {"s", "u"}
    Reread <- MCReread
    OfferFiles <- MCOfferFiles
    ReplyFiles <- MCReplyFiles
    AttestTerms <- MCAttestTerms
    AbortTerms <- MCAbortTerms
    ReceiptTerms <- MCReceiptTerms
    WireTerms <- MCWireTerms
    ExportTerms <- MCExportTerms
    RandomNonces = {"n9"}
    None = None
    MaxTime = 2
    MaxMade = 3
    MaxDocs = 4
    MaxClock = 1
SYMMETRY Parties2
CHECK_DEADLOCK FALSE
CONSTRAINT KindsApart
INVARIANTS TypeOK AttestationsStand AbortsStand ReceiptsStand RecordsStand
