SPECIFICATION MFairSpec
CONSTANTS
    p1 = p1
    p2 = p2
    Pkts = {p1, p2}
    U8Max = 0
    BITS = 2
    RecvWindowSize = 1
    RetryLimits = {}
    QueueSize = 1
    Lossy = {"Data", "Cancel", "Ack", "Canceled"}
    Api = {"acked", "enqueue"}
    MaxRestarts = 0
CHECK_DEADLOCK FALSE
PROPERTY FuturesResolve
