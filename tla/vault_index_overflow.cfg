SPECIFICATION Spec
CONSTANTS
    p1 = p1
    p2 = p2
    n1 = n1
    n2 = n2
    n3 = n3
    v1 = v1
    v2 = v2
    k1 = k1
    k2 = k2
    k3 = k3
    None = None
    Procs <- OneProc
    Names <- TwoNames
    Values <- OneValue
    LargeValues <- NoValues
    MasterKeys <- FewKeys
    IndexCap = 1
    ReadFaults = FALSE
PROPERTIES
    DepositUnlistsNothing
