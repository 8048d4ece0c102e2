CONSTANTS
    Runtime = {"SUPL_VER"}
    Fixed = {"SENSOR_USAGE"}
    Value = {"v1", "v2"}
    Server = {"a1"}
    Default = "v1"
    MaxChanges = 2
    MaxRestarts = 1
SPECIFICATION FairSpec
INVARIANTS
    UpToDate
PROPERTY
    Settles
CHECK_DEADLOCK FALSE
