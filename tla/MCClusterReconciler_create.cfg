SPECIFICATION FairSpec
CONSTANTS
    Nil = Nil
    h = h
    i1 = i1
    i2 = i2
    u1 = u1
    u2 = u2
    sel = sel
    l1 = l1
    l2 = l2
    Matches = {h}
    Wildcards = {}
    IPs = {i1, i2}
    Upstreams = {u1, u2}
    Ports = {}
    Selectors = {sel}
    ClassOf <- MCClassOf
    Namespaces = {1, 2}
    Labels = {l1, l2}
    FirstLabels <- OneEach
    ClusterSpecs <- FanOutSpecs
    Answers <- FanOutAnswers
    ForeignNPs = {}
    FirstNPs <- NoNPs
    MaxDisruptions = 0
PROPERTY
    EventuallyFannedOut
CHECK_DEADLOCK FALSE
