SPECIFICATION Spec
CONSTANTS
    None = None
    Experiments = {e1}
    Operators = {}
    BadParameters = {}
    CleanupMaxAttempts = 3
    AttemptCap = 4
    MaxCrashes = 0
    TargetFaults = TRUE
    OutsideChanges = FALSE
INVARIANT
    AttemptsBounded
