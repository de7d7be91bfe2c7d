CONSTANTS
    t1 = t1
    t2 = t2
    Threads = {t1, t2}
    Loop = "loop"
    Keys = {"c1"}
    FidesKeys = {"crm", "shop"}
    Configs <- MCConfigs
    Docs <- MCDocs
    Absent = Absent
    MaxItems = 2
    MaxCalls = 2
SPECIFICATION Spec
INVARIANT GraphHasBothParts
PROPERTY MismatchHasCause
CHECK_DEADLOCK FALSE
SYMMETRY Symmetry
