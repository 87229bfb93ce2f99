SPECIFICATION Spec
CONSTANTS
    p1 = p1
    p2 = p2
    m1 = m1
    m2 = m2
    m3 = m3
    None = None
    Procs <- TwoProcs
    MasterKeys <- ThreeMasters
    MaxKeys = 2
    Configs <- SomeConfigs
    ReadFaults = TRUE
SYMMETRY Symmetry
INVARIANTS
    TypeOK
    KeysSurvive
    GenerateAllOrNothing
    InitKeyPriority
PROPERTIES
    ImplementsSlots
