CONSTANTS
    i = i
    j = j
    A = A
    B = B
    x = x
    o1 = o1
    o2 = o2
    o3 = o3
    NoOffer = NoOffer
    NoKey = NoKey
    NoIssuer = NoIssuer
    NoNonce = NoNonce
    Absent = Absent
    None = None
    Configurations = {A, B}
    Identifiers = {x}
    RestCalls = {}
    MaxBatch = 1
    Keys = {k1}
    Calls = {n1, n2}
    Offers = {o1, o2, o3}
    PreAuthOffers = {o1, o2}
    Issuers = {i}
    Policies = {"offering", "metadata"}
    TermsOf <- OneUnsafe
    Docs <- AllDocs
    AuthDetails <- SomeDetails
SPECIFICATION FlowSpec
CHECK_DEADLOCK FALSE
INVARIANTS
    FlowTypeOK
    RedeemedWasVetted
    FetchesAreSafe
    VettedIsRequestable
PROPERTY ImplementsService
