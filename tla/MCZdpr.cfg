SPECIFICATION Spec
CONSTANTS
    p1 = p1
    p2 = p2
    p3 = p3
    Pkts = {p1, p2, p3}
    U8Max = 1
    BITS = 4
    RecvWindowSize = 2
    RetryLimits = {1}
    QueueSize = 1
    Lossy = {"Ack"}
SYMMETRY PktSymmetry
CHECK_DEADLOCK FALSE
INVARIANTS
    AtMostOnce
    AnswersTruthful
    WindowRemembers
    SessionInvariant
PROPERTIES
    ImplementsChannel
