SPECIFICATION Spec
CONSTANTS
    t1 = t1
    t2 = t2
    parent = parent
    child = child
    Threads = {t1, t2}
    Policies = {p1, p2}
    RuleKeys = {r1, r2}
    TargetKeys = {g1, g2}
    Storages = {s1}
    Categories = {parent, child}
    ParentOf <- FamilyParentOf
    NoParent = none
    NoStorage = none
    Absent = absent
    MaxItems = 2
    MaxCalls = 2
SYMMETRY Symmetry
INVARIANT TypeOK
PROPERTIES
    OwnersStay
    InvalidHasCause
    ConflictHasCause
CHECK_DEADLOCK FALSE
