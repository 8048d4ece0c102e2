CONSTANTS
    daemon = daemon
    quipc = quipc
    none = none
    own = own
    Sender = {daemon, quipc}
    Own = own
    None = none
    Capacity = 1
    MaxSends = 3
SPECIFICATION DaemonFairSpec
INVARIANTS
    AnswersHavePipe
    EndsForAReason
PROPERTIES
    LaunchReturns
    InboxDrained
CHECK_DEADLOCK FALSE
