CONSTANTS
    c1 = c1
    c2 = c2
    Client = {c1, c2}
    MaxRetries = 4
    MaxRequests = 5
SPECIFICATION FairSpec
INVARIANTS
    CallCanEnd
    InactiveAwaitsClose
    RetriesBounded
PROPERTIES
    RetriesEnd
CHECK_DEADLOCK FALSE
