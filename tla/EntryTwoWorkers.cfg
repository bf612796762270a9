SPECIFICATION Spec
CONSTANTS
    c1 = c1
    c2 = c2
    c3 = c3
    r1 = r1
    r2 = r2
    r3 = r3
    p1 = p1
    p2 = p2
    w1 = w1
    w2 = w2
    fpA = fpA
    fpB = fpB
    None = None
    Workers = {w1, w2}
    Capsules <- AllCapsules
    Approved <- AllCapsules
    Requests = {r1, r2}
    RequestOf <- ClashingRequestOf
    FingerprintOf <- ClashingFingerprintOf
    Fingerprints = {fpA, fpB}
    EntryTypeOf <- MarketAndLimit
    Magic <- DistinctMagic
    Permits = {p1}
    PermitScope <- SharedScope
    PermitOf <- OnePermit
    CanaryCapsule <- TwoCanaries
    Strangers = {}
    LateDelivery = TRUE
    MaxFaults = 1
INVARIANTS
    AtMostOneSend
    SentIsAuthorised
    OneApprovalChain
PROPERTIES
    ImplementsOneShot
