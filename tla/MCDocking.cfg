SPECIFICATION Spec
CONSTANTS
    None = None
    x1 = x1
    x2 = x2
    y1 = y1
    Addrs = {x1, x2}
    AaaAddrs = {y1}
    MaxMisses = 1
    Configs <- All
SYMMETRY Symmetry
CHECK_DEADLOCK FALSE
INVARIANTS
    AnswersCurrentAttempt
    ActiveAgreement
    CleanUpComplete
PROPERTIES
    HardStop
