CONSTANTS
    i1 = i1
    i2 = i2
    did1 = did1
    None = None
    Bad = Bad
    Issuers = {i1, i2, did1}
    DidWeb <- Binding
    CredentialResponses <- DoubtfulBatches
    Timeout = 2
    Tolerance = 6
SPECIFICATION Spec
CHECK_DEADLOCK FALSE
INVARIANT AcceptedIsBound
