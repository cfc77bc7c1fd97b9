SPECIFICATION FairSpec
CONSTANTS
    i1 = i1
    None = None
    Foreign = Foreign
    Issuers = {i1}
    MaxLinks = 2
    MaxAttempts = 2
    MaxAgents = 2
CHECK_DEADLOCK FALSE
INVARIANTS
    InFlightHonest
    SubmittedProven
    OneAgentCall
    RenewsOwnLogin
PROPERTY InFlightSettles
