SPECIFICATION TSpec
CONSTANTS
    p1 = p1
    None = None
    Sessions = {s1, s2}
    Streams = {t1, t2, t3}
    RConns = {r1}
    Ports = {p1}
    Reverse = TRUE
    BindMayFail = TRUE
    AcceptMayFail = TRUE
    Forwards = {f1}
    FConns = {x1}
    Reverses <- OneReverse
    LimitRetries = TRUE
CONSTRAINT
    OneSessionOrNoConnection
INVARIANTS
    OneClientSession
PROPERTIES
    RedialsUnlessListening
    StaleHandlerEnds
    StreamsAccepted
    LocalConnResolved
CHECK_DEADLOCK FALSE
