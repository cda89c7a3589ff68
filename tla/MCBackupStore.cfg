SPECIFICATION Spec
CONSTANTS
    first = first
    a = a
    b = b
    tick = tick
    Call = {first, a, b}
    Creator = first
    Reaper = {tick}
    Term = 2
    MaxRemaining = 2
    Grace = 1
    Lookback = 2
    LastVersion = 3
    LastDay = 3
SYMMETRY Symmetry
VIEW View
CONSTRAINT UpToStale
CHECK_DEADLOCK FALSE
INVARIANTS
    ServedHasBytes
    NothingLeaks
    Findable
    VersionsLiveTheirTerm
