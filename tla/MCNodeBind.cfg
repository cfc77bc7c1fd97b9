SPECIFICATION Spec
CONSTANTS
    a = a
    b = b
    v1 = v1
    v2 = v2
    l1 = l1
    l2 = l2
    None = None
    Links = {l1, l2}
    Actors = {a, b}
    Visas = {v1, v2}
    Route <- MCRoute
    Reserved = {v1}
    Streams = {1}
    PeerTxns = {0}
    TxnIds = 2
    MaxConns = 3
    MaxEntries = 2
CHECK_DEADLOCK FALSE
INVARIANTS
    RoutesHaveVisas
    OriginatorsConsistent
    HandlesCounted
    PeersInformed
    AnswersOwed
