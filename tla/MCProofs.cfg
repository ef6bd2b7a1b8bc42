CONSTANTS
    i = i
    j = j
    A = A
    B = B
    x = x
    o1 = o1
    o2 = o2
    o3 = o3
    NoOffer = NoOffer
    NoKey = NoKey
    NoIssuer = NoIssuer
    NoNonce = NoNonce
    Absent = Absent
    None = None
    Configurations = {A, B}
    Identifiers = {x}
    RestCalls = {}
    MaxBatch = 1
    Keys = {k1, k2}
    Calls = {n1, n2, n3}
    Offers = {o1, o2}
    PreAuthOffers = {o1, o2}
    Issuers = {i, j}
    Policies = {}
    TermsOf <- TwoIssuers
    Docs <- SignerDocs
    AuthDetails <- NoDetails
SPECIFICATION StoredSpec
CHECK_DEADLOCK FALSE
SYMMETRY Symmetry
INVARIANTS
    OwnNonceSent
    OneBatchPerOffer
    VettedBindsProof
