SPECIFICATION Spec
CONSTANTS
    c1 = c1
    a = a
    b = b
    site = site
    text = text
    binary = binary
    umlauts = umlauts
    None = None
    DAY = 4
    MINUTE = 2
    WORD = 16
    SecretNames <- Names
    Domains <- Sites
    Callers <- OneCaller
    Templates <- OneTemplate
    Policies <- NeverPolicy
    Values <- TwoValues
    Utf8 <- TextValues
    Torn <- NoValues
    MaxTime = 1
    MaxRequests = 2
PROPERTIES
    LimitIsMaximum
