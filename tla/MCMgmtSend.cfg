SPECIFICATION MSpec
CONSTANTS
    p1 = p1
    p2 = p2
    Pkts = {p1, p2}
    U8Max = 1
    BITS = 3
    RecvWindowSize = 2
    RetryLimits = {0}
    QueueSize = 1
    Lossy = {}
    Api = {"enqueue", "acked", "limit_retries", "request_cancel", "drop"}
    MaxRestarts = 1
CHECK_DEADLOCK FALSE
SYMMETRY PktSymmetry
INVARIANTS
    CanceledMeansRefused
    NeverPanics
    SleepersRegistered
    SessionRestarts
