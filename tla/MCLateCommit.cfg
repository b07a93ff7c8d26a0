CONSTANTS
    Keys = {k1, k2}
    MaxTs = 3
    MaxSha = 0
    Repos = {r1}
    Packages = {p}
    Maintainers = {m}
    Writers = {w1}
    p = p
    m = m
    PackageOf <- MCPackageOf
    Maintains <- MCMaintains
    Batch = 1
    MaxClock = 0
    MaxCrashes = 1
SPECIFICATION LateSpec
INVARIANT SettledIsSafeToSkip
CHECK_DEADLOCK FALSE
