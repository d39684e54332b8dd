SPECIFICATION Spec
CONSTANTS
    Facts = {1, 2, 3}
    Secrets = {"x", "y"}
    SecretA = "x"
    SecretB = "y"
    Texts = {"one", "uno", "two", "three", "bad"}
    FactOf <- MCFactOf
    NoFact = NoFact
    Inputs <- MCInputs
    IdsOf <- MCIdsOf
    MaxSetSize = 2
    ProfileFiles <- MCProfileFiles
    Params <- MCParams
    NoLimit = NoLimit
    Names = {"p", "permissive", "strict"}
    Absent = Absent
CHECK_DEADLOCK FALSE
INVARIANTS TypeOK ResultExact PolicyReasoned
PROPERTY ReceiptVouches
