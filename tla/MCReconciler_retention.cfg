SPECIFICATION Spec
CONSTANTS
    Nil = Nil
    h1 = h1
    w = w
    pub = pub
    prv = prv
    u1 = u1
    u2 = u2
    p1 = p1
    p2 = p2
    sel = sel
    Matches = {h1}
    Wildcards = {}
    IPs = {pub, prv}
    Upstreams = {u1, u2}
    Ports = {p1, p2}
    Selectors = {sel}
    ClassOf <- MCClassOf
    Specs <- OneSpec
    Answers <- OneAnswer
    ForeignNPs = {}
    MaxDisruptions = 2
    MaxUID = 2
PROPERTY
    FailureKeepsAccess
CHECK_DEADLOCK FALSE
