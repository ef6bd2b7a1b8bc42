CONSTANTS
    i1 = i1
    i2 = i2
    did1 = did1
    None = None
    Bad = Bad
    Issuers = {i1, i2, did1}
    DidWeb <- Binding
    CredentialResponses <- AllBatches
    Timeout = 2
    Tolerance = 6
SPECIFICATION FairSpec
CHECK_DEADLOCK FALSE
INVARIANTS
    TypeOK
    AcceptedRecently
    AcceptedIsAuthentic
PROPERTIES
    VerdictReached
    ImplementsOneStep
