CONSTANTS
    Keys = {good, bad}
    bad = bad
    MaxTs = 4
    MaxSha = 2
    Ours = ours
    Other = other
    Incidents <- MCIncidents
    Circumstances <- MCCircumstances
SPECIFICATION MCSpec
INVARIANTS
    TimelineIsHistory
    LoopComputesIntervals
    RowsAreTrue
    ChangedInsideTheWindow
    PacketIsQualified
    NegativesAreProven
    HeadlineIsThePages
    ReprojectionKeepsTheWalk
CHECK_DEADLOCK FALSE
