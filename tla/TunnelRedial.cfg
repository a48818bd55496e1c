SPECIFICATION TSpec
CONSTANTS
    p1 = p1
    None = None
    Sessions = {s1, s2}
    Streams = {t1, t2}
    RConns = {}
    Ports = {p1}
    Reverse = TRUE
    BindMayFail = FALSE
    AcceptMayFail = FALSE
    Forwards = {f1}
    FConns = {}
    Reverses <- OneReverse
    LimitRetries = FALSE
PROPERTIES
    RedialsAfterLoss
CHECK_DEADLOCK FALSE
