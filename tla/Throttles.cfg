\* Three addresses, one of them a proxy, in maps with room for two; two pushes in flight.
CONSTANTS
    Addr = {a1, a2, p1}
    Proxy = {p1}
    Junk = Junk
    Forged <- headers
    Route <- routes
    NoAddr = NoAddr
    Req = {r1, r2}
    MaxTracked = 2
    AuthFailureBurst = 2
    RegisterBurst = 2
SPECIFICATION Spec
SYMMETRY Symmetry
INVARIANTS
    TypeOK
    FloodCostsNoLookups
    OriginIsCharged
PROPERTIES
    KnockerKeepsItsBlock
    ActiveKeepsItsBucket
