\* Any Redis call may fail, any process may die; no symmetry, for liveness.
CONSTANTS
    Recorder = {f1, f2, f3}
    Checker = {c1, c2}
    MaxFailures = 2
SPECIFICATION FairSpec
INVARIANTS
    TripsUntilReset
    TripsOnEnoughFailures
PROPERTIES
    WindowRolls
\* All calls may have returned.
CHECK_DEADLOCK FALSE
