SPECIFICATION Spec
CONSTANTS
    MaxRetryCounts <- MCMaxRetryCounts
    MaxIntervals <- MCMaxIntervals
    JitterPct <- MCJitterPct
    AttemptBound = 10
INVARIANTS
    RetryBudget
    NoLeakedSocket
    DelayWindow
PROPERTY
    Settles
CHECK_DEADLOCK FALSE
