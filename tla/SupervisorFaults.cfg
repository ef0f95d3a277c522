SPECIFICATION FairSpec
CONSTANTS
    None = None
    Experiments = {e1}
    Operators = {op}
    BadParameters = {}
    CleanupMaxAttempts = 2
    AttemptCap = 3
    MaxCrashes = 1
    TargetFaults = TRUE
    OutsideChanges = TRUE
INVARIANTS
    TypeOK
    OutageIsAccounted
    InjectAtMostOnce
    IntentBeforeInjection
    OwnershipIsDurable
    OutcomeHasEvidence
    WriteLockIsAccounted
    IInv
PROPERTIES
    ImplementsLifecycle
    HistoryIsFinal
    CancellationSurvives
    ExpiresUnlessStranded
