SPECIFICATION PreflightSpec
CONSTANTS
    Subjects <- SomeSubjects
    MaxChanges = 1
INVARIANTS
    PreflightTypeOK
    ReportIsComplete
    PassIsEarned
    ExitTellsHowFar
PROPERTIES
    ContactsAreEarned
    HelperImplementsTarget
CHECK_DEADLOCK FALSE
