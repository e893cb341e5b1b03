SPECIFICATION Spec
CONSTANTS
    Nil = Nil
    v4 = v4
    v6 = v6
    w1 = w1
    w2 = w2
    u1 = u1
    u2 = u2
    Matches = {}
    Wildcards = {}
    IPs = {v4, v6}
    Upstreams = {u1, u2}
    Ports = {}
    Selectors = {}
    ClassOf <- MCClassOf
    Workers = {w1}
    QTypes = {"A", "AAAA"}
    FirstAnswers <- AllOrNone
    Responses <- MCResponses
    System = u1
    SnoopUpstream = u2
    Snoop = FALSE
    Security <- TwoAgree
    ttlFloor = 1
    ttlCeiling = 3
    defaultTTL = 2
    QueryTimeout = 1
    MaxDisruptions = 0
INVARIANT
    ConsensusHonoured
