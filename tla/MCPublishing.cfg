SPECIFICATION Spec
CONSTANTS
    t1 = t1
    t2 = t2
    t3 = t3
    a = a
    none = none
    nobody = nobody
    Task = {t1, t2, t3}
    Existing <- Standing
    Service = {a}
    NoService = none
    NoTask = nobody
    Cap = 1
    LastDay = 1
    MaxFailures = 1
SYMMETRY Symmetry
CHECK_DEADLOCK FALSE
INVARIANTS
    NoneVanishes
    OneRowEach
    WithinCap
    ComposedKept
    OneWriter
