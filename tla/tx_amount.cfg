SPECIFICATION Spec
CONSTANTS
    c1 = c1
    c2 = c2
    agent = agent
    alice = alice
    bob = bob
    None = None
    DAY = 2
    MINUTE = 1
    WORD = 16
    SecretNames = {}
    Domains = {}
    Callers <- OneCaller
    Amounts <- TwoOrWrapped
    Recipients <- Agent
    HexAddresses <- NoAddresses
    Policies <- NoPolicies
    Mandates <- WideMandate
    MaxTime = 1
    MaxTx = 1
    MaxRestarts = 0
INVARIANTS
    AskedWithinMaxPerTx
