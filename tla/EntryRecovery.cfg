SPECIFICATION FairSpec
CONSTANTS
    c1 = c1
    c2 = c2
    c3 = c3
    r1 = r1
    r2 = r2
    r3 = r3
    p1 = p1
    p2 = p2
    w1 = w1
    w2 = w2
    fpA = fpA
    fpB = fpB
    None = None
    Workers = {w1, w2}
    Capsules <- OneCapsule
    Approved <- OneCapsule
    Requests = {r1, r3}
    RequestOf <- OneRequestOf
    FingerprintOf <- OneFingerprintOf
    Fingerprints = {fpA, fpB}
    EntryTypeOf <- LimitAndStranger
    Magic <- StrangersMagic
    Permits = {p1}
    PermitScope <- OneScope
    PermitOf <- OnePermit
    CanaryCapsule <- SameCanary
    Strangers = {r3}
    LateDelivery = FALSE
    MaxFaults = 1
INVARIANTS
    IntegrityAmbiguityHalts
    AttributedPositionIsReal
PROPERTIES
    AmbiguityIsResolved
