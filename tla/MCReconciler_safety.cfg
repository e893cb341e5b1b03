SPECIFICATION FairSpec
CONSTANTS
    Nil = Nil
    h1 = h1
    w = w
    pub = pub
    prv = prv
    u1 = u1
    u2 = u2
    p1 = p1
    p2 = p2
    sel = sel
    Matches = {h1, w}
    Wildcards = {w}
    IPs = {pub, prv}
    Upstreams = {u1, u2}
    Ports = {p1, p2}
    Selectors = {sel}
    ClassOf <- MCClassOf
    Specs <- SafetySpecs
    Answers <- SafetyAnswers
    ForeignNPs <- ForeignDeny
    MaxDisruptions = 3
    MaxUID = 2
INVARIANTS
    TypeOK
    NoUnpermittedClass
    FailClosed
    DivergentNeverAdmitted
    StatusMatchesGeneration
PROPERTIES
    FailureKeepsEntry
    EventuallyConverged
    OrphanCollected
    PluginAgrees
CHECK_DEADLOCK FALSE
