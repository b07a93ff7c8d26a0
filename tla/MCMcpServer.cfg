CONSTANTS
    Repos = {r1, r2}
    MaxRows = 1
    CacheTtl = 1
    MaxTime = 1
SYMMETRY Interchangeable
SPECIFICATION Spec
INVARIANTS
    RefusalsAreRight
    FloorIsLabelled
    NegativeHoldsWhereCovered
