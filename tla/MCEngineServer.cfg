CONSTANTS
    Runtime = {"SUPL_VER"}
    Fixed = {"SENSOR_USAGE"}
    Value = {"v1", "v2"}
    Server = {"a1", "a2"}
    Default = "v1"
    MaxChanges = 2
    MaxRestarts = 0
SPECIFICATION Spec
INVARIANT ServerReaches
CHECK_DEADLOCK FALSE
