CONSTANTS
    a1 = a1
    a2 = a2
    a3 = a3
    status = status
    none = none
    Adapter = {a1, a2, a3}
    None = none
    Event = {status}
    Wanted <- WantedEvents
    Excluded = {}
    Handler = {a2, a3}
    MaxAdapters = 2
    MaxUpdates = 1
    MaxReports = 1
SPECIFICATION FairSpec
INVARIANTS
    ReportedOnce
    HandledByOne
    SettledCovers
PROPERTIES
    CoversAgain
CHECK_DEADLOCK FALSE
