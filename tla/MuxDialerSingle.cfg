SPECIFICATION Spec
CONSTANTS
    Callers = {c1, c2}
    None = None
    MaxRetries = 1
    OpenMayTimeout = FALSE
    MaxSessions = 3
    AttemptBound = 2
INVARIANT
    SingleSession
