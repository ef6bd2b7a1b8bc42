CONSTANTS
    Keys = {k1}
    Offers = {o1}
    PreAuthOffers = {o1}
    NoOffer = NoOffer
    NoKey = NoKey
    Calls = {n1, n2}
    RestCalls = {}
    MaxBatch = 2
SPECIFICATION TrafficSpec
CHECK_DEADLOCK FALSE
PROPERTIES
    CallsEnd
    RowRecovers
