SPECIFICATION Spec
CONSTANTS
    t1 = t1
    t2 = t2
    svc = svc
    none = none
    Task = {t1}
    Service = {svc}
    NoService = none
    Covered = {}
    SlotsPerDay = 2
    NewShare = 50
    MaxOld = 1
    MaxArtifacts = 2
    MaxPriority = 1
    MaxBoost = 1
    LastDay = 1
    MaxFailures = 1
VIEW View
SYMMETRY Symmetry
CONSTRAINT UpToStale
CHECK_DEADLOCK FALSE
INVARIANTS
    SlatesAgree
