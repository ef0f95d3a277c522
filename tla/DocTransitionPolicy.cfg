SPECIFICATION Spec
CONSTANTS
    a1 = a1
    a2 = a2
    e1 = e1
    Agents = {a1, a2}
    Experiments = {e1}
    None = None
    Gone = Gone
    CleanupMaxAttempts = 2
    AttemptCap = 3
    MaxBoots = 2
    CallsFail = TRUE
SYMMETRY AgentSymmetry
INVARIANT
    PolicyIsKept
CHECK_DEADLOCK FALSE
