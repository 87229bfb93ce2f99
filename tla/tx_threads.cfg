SPECIFICATION FairSpec
CONSTANTS
    c1 = c1
    c2 = c2
    agent = agent
    alice = alice
    bob = bob
    None = None
    DAY = 2
    MINUTE = 1
    WORD = 7
    SecretNames = {}
    Domains = {}
    Callers <- TwoCallers
    Amounts <- Two
    Recipients <- Agent
    HexAddresses <- NoAddresses
    Policies <- NarrowPolicy
    Mandates <- EvenMandate
    MaxTime = 2
    MaxTx = 4
    MaxRestarts = 0
INVARIANTS
    TypeOK
    TotalCountsRecorded
    OvershootBounded
PROPERTIES
    WindowsLastADay
    CallsReturn
    AcknowledgedIsRecorded
