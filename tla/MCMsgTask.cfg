CONSTANTS
    s1 = s1
    s2 = s2
    Sender = {s1, s2}
    MaxSends = 3
SPECIFICATION FairSpec
INVARIANTS
    DeliveredInOrder
    NoLostWakeup
    AtMostOneLate
PROPERTIES
    Handled
    Ends
    IsFifo
CHECK_DEADLOCK FALSE
