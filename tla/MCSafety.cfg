CONSTANTS
    Keys = {k1, k2}
    Offers = {o1, o2}
    PreAuthOffers = {o1}
    NoOffer = NoOffer
    NoKey = NoKey
    Calls = {r1, n1, n2}
    RestCalls = {r1}
    MaxBatch = 2
SPECIFICATION Spec
CHECK_DEADLOCK FALSE
SYMMETRY Symmetry
INVARIANTS
    TypeOK
    AcceptedIsStored
    StoredIsVetted
    NotifiedIsFindable
PROPERTIES
    ImplementsLifecycle
