SPECIFICATION FairSpec
CONSTANTS
    None = None
    Experiments = {e1, e2}
    Operators = {op}
    BadParameters = {}
    CleanupMaxAttempts = 1
    AttemptCap = 2
    MaxCrashes = 0
    TargetFaults = FALSE
    OutsideChanges = FALSE
PROPERTIES
    OutageEnds
    ExperimentEnds
    RequestsServed
