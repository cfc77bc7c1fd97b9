SPECIFICATION KmFairSpec
CONSTANTS
    Authority = TRUE
    MaxStarts = 3
    MaxFaults = 2
CHECK_DEADLOCK FALSE
INVARIANTS
    LatestKeysWin
PROPERTY KmRecovers
