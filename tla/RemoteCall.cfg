SPECIFICATION CallFairSpec
CONSTANTS
    Timeout = 2
    Grace = 1
    Limit = 1
    ReplyLength = 1
    MaxOutput = 3
    MaxCancels = 2
    Forks = TRUE
INVARIANTS
    CallTypeOK
    ReturnedIsReaped
    AnswerIsWhole
    MemoryIsBounded
PROPERTIES
    SignalsOwnGroup
    CallEnds
CHECK_DEADLOCK FALSE
