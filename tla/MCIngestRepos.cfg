CONSTANTS
    Keys = {k1, k2}
    MaxTs = 2
    MaxSha = 0
    Repos = {r1, r2}
    Packages = {p}
    Maintainers = {}
    Writers = {w1}
    p = p
    m = m
    PackageOf <- MCPackageOf
    Maintains = {}
    Batch = 4
    MaxClock = 0
    MaxCrashes = 1
SYMMETRY Interchangeable
SPECIFICATION Spec
INVARIANTS
    WriterInv
PROPERTIES
    ReadersSeeADataset
CHECK_DEADLOCK FALSE
