SPECIFICATION TaskSpec
CONSTANTS
    Ids <- MCIds
    Cases <- MCCases
    MaxAttempts = 2
INVARIANTS
    RefineFindsMatches
    CopiesAgree
    PackageHasTargets
    ErasesOnlyFound
    FoundIsErased
PROPERTY ImplementsErasure
CHECK_DEADLOCK FALSE
