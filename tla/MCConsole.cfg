CONSTANTS
    Repos = {r1, r2}
    Threads = {t1, t2}
    Requests = {"exposure", "blast", "ranking", "health"}
    CacheTtl = 1
    MaxTime = 1
SYMMETRY Interchangeable
CONSTRAINT Bounded
SPECIFICATION Spec
INVARIANTS
    RefusalsAreRight
    EveryRepositoryIsNamed
    NegativeHoldsWhereCovered
