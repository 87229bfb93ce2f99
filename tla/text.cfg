SPECIFICATION Spec
CONSTANTS
    None = None
    Err = Err
    Panic = Panic
    PART = 2
    DECIMALS = 2
    WORD = 1024
    Texts <- ScanTexts
    Substitutions <- SomeSubstitutions
    Templates <- SomeTemplates
    Responses <- SomeResponses
    Amounts <- SomeAmounts
CHECK_DEADLOCK FALSE
INVARIANTS
    FindsEveryPlaceholder
    SubstitutesAtOnce
    TemplateIsHydrated
    NothingLeaks
    AmountIsMeant
