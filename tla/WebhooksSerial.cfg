SPECIFICATION Spec
CONSTANTS
    Policies = {p1}
    Keys = {k1, k2, k3}
    Handlers = {h1}
    RefusedAt = {1}
INVARIANTS
    OrdersArePositions
PROPERTIES
    KeepsPromise
