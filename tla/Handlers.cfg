SPECIFICATION Spec
CONSTANTS
    Conns = {c1, c2}
    Tokens = {alice, NoToken}
    NoToken = NoToken
    Unknown = Unknown
    WithStats = TRUE
    MaxBytes = 1
SYMMETRY Symmetry
INVARIANTS
    NothingLeftOpen
    MetricsBalanced
    StatsAgree
PROPERTIES
    ReportsMonotone
CHECK_DEADLOCK FALSE
