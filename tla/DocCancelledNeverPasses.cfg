SPECIFICATION Spec
CONSTANTS
    None = None
    Experiments = {e1}
    Operators = {op}
    BadParameters = {}
    CleanupMaxAttempts = 3
    AttemptCap = 4
    MaxCrashes = 1
    TargetFaults = FALSE
    OutsideChanges = FALSE
INVARIANT
    CancelledNeverPasses
