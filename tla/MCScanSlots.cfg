\* Failing Redis calls, dying workers, and a TTL that may end at any time.
CONSTANTS
    Scan = {s1, s2, s3, s4, s5}
    MaxScans = 2
SYMMETRY Symmetry
SPECIFICATION Spec
INVARIANTS
    InFlightCappedUntilOverrun
    SlotsReturned
\* Every call returns once.
CHECK_DEADLOCK FALSE
