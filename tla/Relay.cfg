SPECIFICATION FairSpec
CONSTANTS
    MaxSend = 2
    Window = 1
    BufSize = 2
INVARIANTS
    CountsExact
    NoSilentLoss
PROPERTIES
    ImplementsPipe
    Terminates
CHECK_DEADLOCK FALSE
