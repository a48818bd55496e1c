SPECIFICATION FairSpec
CONSTANTS
    Sessions = {s1, s2}
    Streams = {t1, t2}
    RConns = {r1}
    Ports = {p1}
    Reverse = TRUE
    BindMayFail = TRUE
    AcceptMayFail = TRUE
    None = None
INVARIANTS
    ListenersOwned
PROPERTIES
    ImplementsLease
    PortsReleased
    ReverseConnResolved
CHECK_DEADLOCK FALSE
