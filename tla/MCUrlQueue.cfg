SPECIFICATION FairSpec
CONSTANTS
    f1 = f1
    s1 = s1
    a = a
    nobody = nobody
    killed = killed
    Url = {a}
    Feeder = {f1}
    Drainer = {1, 2}
    Sweeper = {s1}
    Nobody = nobody
    Killed = killed
    MaxRows = 2
    MaxDeaths = 1
    MaxFailures = 1
INVARIANTS
    NotStranded
    FetchedOnce
PROPERTIES
    DoneStaysDone
    RowsEnd
