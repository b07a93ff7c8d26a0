CONSTANTS
    MaxCommits = 3
    MaxFailures = 2
    Rewritten = TRUE
    c1 = c1
    c2 = c2
    Invocations = {c1, c2}
    Real = real
    Acme = acme
    Offered <- MCOffered
    MaxTotal = 5
    PageSize = 2
    MaxRetries = 2
    MaxRestarts = 1
SPECIFICATION MCSpec
INVARIANTS
    ArtifactIsWhole
    ReportedIsLabelled
    ConstructedExposureIsBounded
    ReadIsExact
PROPERTIES
    BuildsLoseByChoice
    LocalIsEventuallyBuilt
    LabelIsNeverLost
