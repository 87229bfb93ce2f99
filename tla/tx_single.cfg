SPECIFICATION Spec
CONSTANTS
    c1 = c1
    c2 = c2
    agent = agent
    alice = alice
    bob = bob
    None = None
    DAY = 2
    MINUTE = 1
    WORD = 16
    SecretNames = {}
    Domains = {}
    Callers <- OneCaller
    Amounts <- OneOrTwoOrWrapped
    Recipients <- OneAddress
    HexAddresses <- OneAddress
    Policies <- ExpiringPolicy
    Mandates <- EvenMandate
    MaxTime = 4
    MaxTx = 3
    MaxRestarts = 1
INVARIANTS
    PreflightStillHolds
    NothingSpentWithoutPolicy
    RollingWindowTwiceDaily
PROPERTIES
    DailyLimitRespected
