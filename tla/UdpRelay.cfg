SPECIFICATION Spec
CONSTANTS
    Apps = {a1, a2}
    Nobody = Nobody
    Frames <- FramesAfter
    Answers = {100, 32759}
    MaxDatagrams = 3
INVARIANTS
    AnswersInOrder
    MisdirectedOnlyByLater
    SessionAccounted
    FramesDecode
PROPERTIES
    HandlerEnds
CHECK_DEADLOCK FALSE
