SPECIFICATION TraversalSpec
CONSTANTS
    a = a
    b = b
    c = c
    Root = root
    root = root
    Nodes <- SampleNodes
    DatasetOf <- SampleDatasetOf
    Graphs <- SampleGraphFamily
INVARIANTS
    RunsLeastClosedSet
    EdgesAllUsed
    EndsNeedEverything
    SeededFromRoot
    UndirectedIsAcyclic
PROPERTIES
    RunsUseEdges
    ImplementsSearch
    Terminates
CHECK_DEADLOCK FALSE
