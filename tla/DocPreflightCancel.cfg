SPECIFICATION FairSpec
CONSTANTS
    None = None
    Experiments = {e1}
    Operators = {op}
    BadParameters = {e1}
    CleanupMaxAttempts = 3
    AttemptCap = 4
    MaxCrashes = 0
    TargetFaults = FALSE
    OutsideChanges = FALSE
PROPERTY
    PreflightCancelServed
