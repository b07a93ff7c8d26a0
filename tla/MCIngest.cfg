CONSTANTS
    Keys = {k1, k2}
    MaxTs = 3
    MaxSha = 0
    Repos = {r1}
    Packages = {p}
    Maintainers = {m}
    Writers = {w1}
    p = p
    m = m
    PackageOf <- MCPackageOf
    Maintains <- MCMaintains
    Batch = 2
    MaxClock = 1
    MaxCrashes = 2
SPECIFICATION Spec
INVARIANTS
    CoveredPastIsExact
    PresentIsExact
    EveryEdgeIsAnchored
PROPERTIES
    SettledFactsAreFinal
    RerunIsIdempotent
    AnswersAreWriteOnce
    RunCoversItsWalk
CHECK_DEADLOCK FALSE
