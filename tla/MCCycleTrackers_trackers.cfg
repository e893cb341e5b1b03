CONSTANTS
    Nil = Nil
    h1 = h1
    h2 = h2
    h3 = h3
    x = x
    y = y
    as1 = as1
    as2 = as2
    none = none
    Ips = {x, y}
    Results = {as1, as2, none}
    NoData = none
    Workers = {w1, w2}
    EnrichQueueLen = 1
    CacheTTL = 2
    ChurnRingSize = 2
    TTLFloor = 1
    PollInterval = 2
    TTLCeiling = 5
    Setups <- MCSetups
    InitTruth <- MCInitTruth
SPECIFICATION Spec
INVARIANTS TypeOK PeekEarliest ChurnExact
PROPERTY EventuallyEnriched
