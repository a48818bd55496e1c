SPECIFICATION FairSpec
CONSTANTS
    Callers = {c1, c2}
    None = None
    MaxRetries = 1
    OpenMayTimeout = TRUE
    MaxSessions = 3
    AttemptBound = 2
INVARIANTS
    TypeOK
    LiveAccounted
PROPERTIES
    ImplementsPool
    DialReturns
