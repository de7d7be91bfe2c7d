SPECIFICATION Spec
CONSTANTS
    a = a
    b = b
    c = c
    Root = root
    root = root
    Nodes <- SampleNodes
    DatasetOf <- SampleDatasetOf
    Graphs <- ExecutedGraphs
    PrimaryKeyed = {a, b}
    Writable = {a, c}
    Erasing = TRUE
    Leftovers = {{}, {a}}
    RetryCount = 1
    MaxFaults = 3
INVARIANTS
    EveryCollectionRead
    ReadBeforeErased
    MissingIsLogged
    CompleteLogIsTrue
PROPERTY
    ExecutionEnds
CHECK_DEADLOCK FALSE
