CONSTANTS
    u1 = u1
    u2 = u2
    u3 = u3
    u4 = u4
    o1 = o1
    o2 = o2
    Urls = {u1, u2, u3, u4}
    Safe = {u1, u2, u3}
    Origins = {o1, o2}
    OriginOf <- Places
    Nonces = {n1, n2}
    None = None
    Timeout = 4
    MaxHops = 3
SPECIFICATION FairSpec
CHECK_DEADLOCK FALSE
INVARIANTS
    AsksTheIssuer
    FetchInTime
PROPERTIES
    FetchEnds
    ImplementsFetchNonce
