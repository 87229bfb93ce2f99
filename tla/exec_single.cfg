SPECIFICATION Spec
CONSTANTS
    c1 = c1
    a = a
    b = b
    site = site
    text = text
    binary = binary
    umlauts = umlauts
    None = None
    DAY = 3
    MINUTE = 2
    WORD = 16
    SecretNames <- Names
    Domains <- Sites
    Callers <- OneCaller
    Templates <- AllTemplates
    Policies <- TwoPolicies
    Values <- ThreeValues
    Utf8 <- ValidValues
    Torn <- TornValues
    MaxTime = 4
    MaxRequests = 3
INVARIANTS
    TypeOK
    CheckedStillHolds
    CountersMatchRequests
    RequestsAreCounted
PROPERTIES
    UseWithinLimits
