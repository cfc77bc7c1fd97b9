SPECIFICATION FairSpec
CONSTANTS
    Actors = {"a1"}
    MaxFaults = 1
    MaxRequests = 1
CHECK_DEADLOCK FALSE
INVARIANT SyncedActors
PROPERTIES
    CallsAnswered
    Reregisters
    ShutdownCompletes
