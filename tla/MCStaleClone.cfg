CONSTANTS
    MaxCommits = 2
    MaxFailures = 0
    Rewritten = FALSE
SPECIFICATION Spec
PROPERTIES
    PushedIsEventuallyBuilt
