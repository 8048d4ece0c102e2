CONSTANTS
    QCA1530 = TRUE
    MaxInits = 2
    MaxCalls = 2
    MaxEvents = 2
SPECIFICATION Spec
INVARIANTS
    CleanupEndsSession
    VoteArrives
    PowerHeld
    LockFollows
CHECK_DEADLOCK FALSE
