SPECIFICATION FairSpec
CONSTANTS
    Nil = Nil
    a = a
    b = b
    Hostnames = {a, b}
    Windows = {0, 1}
    Retention = 1
    PruneInterval = 1
    MaxTime = 2
    MaxQueries <- TwiceAndOnce
    MaxDisruptions = 2
INVARIANTS
    TypeOK
    NoDoubleCount
PROPERTIES
    ObservationsKept
    EventuallyReported
    ImplementsTally
CHECK_DEADLOCK FALSE
