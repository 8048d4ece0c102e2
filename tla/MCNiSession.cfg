CONSTANTS
    MaxRequests = 2
    MaxRestarts = 1
SPECIFICATION FairSpec
INVARIANTS
    Attended
    OneOwner
    OwnThreadSends
PROPERTY
    Released
CHECK_DEADLOCK FALSE
