CONSTANTS
    Keys = {k1, k2}
    Offers = {o1}
    PreAuthOffers = {o1}
    NoOffer = NoOffer
    NoKey = NoKey
    Calls = {n1, n2, n3}
    RestCalls = {}
    MaxBatch = 1
SPECIFICATION Spec
CHECK_DEADLOCK FALSE
SYMMETRY Symmetry
INVARIANT GroupIsListable
