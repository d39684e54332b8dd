SPECIFICATION Spec
CONSTANTS
    alice = alice
    bob = bob
    Parties = {alice, bob}
    SessionIds = {"s", "u"}
    Reread <- MCReread
    OfferFiles <- MCOfferFiles
    ReplyFiles <- MCReplyFiles
    AttestTerms = {}
    AbortTerms = {}
    ReceiptTerms = {}
    WireTerms = {}
    ExportTerms <- MCExportTerms
    RandomNonces = {"n9"}
    None = None
    MaxTime = 2
    MaxMade = 3
    MaxDocs = 4
    MaxClock = 1
CHECK_DEADLOCK FALSE
INVARIANT RecordsNameNonces
