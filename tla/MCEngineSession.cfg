CONSTANTS
    AidingData = {ephemeris}
    MaxReports = 2
SPECIFICATION Spec
INVARIANTS
    EndMeansOver
    MutedOnlyWhileOn
PROPERTY
    SessionResumes
