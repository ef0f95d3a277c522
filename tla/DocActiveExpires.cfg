SPECIFICATION FairSpec
CONSTANTS
    None = None
    Experiments = {e1}
    Operators = {}
    BadParameters = {}
    CleanupMaxAttempts = 1
    AttemptCap = 2
    MaxCrashes = 1
    TargetFaults = FALSE
    OutsideChanges = FALSE
PROPERTY
    ActiveExpires
