SPECIFICATION FairSpec
CONSTANTS
    Nil = Nil
    base = base
    extra = extra
    Labels <- MCLabels
    Lower <- MCLower
    ValidLabels <- MCValidLabels
    TopLabels <- MCTopLabels
    Names <- MCNames
    Hostnames <- MCHostnames
    PublicSuffixes <- MCSuffixes
    PolicyNames = {base, extra}
    Suggested <- MCSuggested
    Profiled = extra
    RuleLists <- MCRuleLists
    Profiles <- MCProfiles
    MaxQueries = 2
    MaxDisruptions = 3
INVARIANTS
    TypeOK
    DriftCounted
    RoundTrip
    NoForeignDomain
    ProfileAdmissible
PROPERTIES
    DriftClears
CHECK_DEADLOCK FALSE
