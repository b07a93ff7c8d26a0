CONSTANTS
    Keys = {k, l}
    Blobs = {1, 2, 3}
    NoBlob = 0
    Fragile = {1, 2, 3}
    MaxCommits = 4
    MaxNames = 4
    Configured <- MCConfigured
SYMMETRY Interchangeable
SPECIFICATION MCSpec
INVARIANTS
    EveryCommitIsWholeOrSkipped
    RemovalsAreReal
CHECK_DEADLOCK FALSE
