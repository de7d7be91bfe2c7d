SPECIFICATION Spec
CONSTANTS
    Collections <- MCCollections
    Cases <- MCCases
    MaxAttempts = 2
INVARIANTS
    RowsComplete
    MaskedAll
PROPERTY TasksEnd
CHECK_DEADLOCK FALSE
