SPECIFICATION FairSpec
CONSTANTS
    f1 = f1 f2 = f2
    Flows = {f1, f2}
    Streams = {1}
    Tethers = {1, 2}
    TxnIds = 2
    VisaFor <- MCVisaFor
    MaxBinds = 3
    MaxPkts = 1
    MaxSessions = 2
    MaxRevokes = 1
CHECK_DEADLOCK FALSE
INVARIANTS TablesConsistent AnswersExpected OnlyPermitted
PROPERTY BindsSettle
