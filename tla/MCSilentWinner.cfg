CONSTANTS
    MaxParents = 8
    MaxConflicts = 10
    MaxFrontier = 10
    Devices = {1, 2}
    Fields = {"name"}
    Values = {"x", "y"}
    InitialValue = "i"
    Schemas = {2}
    MaxLocalOps = 3
    MaxOps = 5
SPECIFICATION MergeSpec
INVARIANT ConcurrentValuesConflict
CHECK_DEADLOCK FALSE
