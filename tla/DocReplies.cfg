SPECIFICATION HelperSpec
CONSTANTS
    Subjects = {"helper", "marker", "apache"}
    MaxChanges = 2
INVARIANT
    EvidenceIsAccepted
CHECK_DEADLOCK FALSE
