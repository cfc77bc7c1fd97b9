SPECIFICATION Spec
CONSTANTS
    BufferCount = 5
    BatchSize = 1
    Queues = {"mgmt", "requeue"}
    QueueDepth = 2
    TwoWayDepth = 1
    MaxArrivals = 1
    MaxPriority = 1
    MaxQueued = 2
    MaxTasks <- TasksOf
    Arms = {"pipe", "event"}
INVARIANTS
    BuffersConserved
    NoLostWakeup
    BatchesReserved
