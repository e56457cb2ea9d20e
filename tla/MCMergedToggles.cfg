CONSTANTS
    MaxParents = 8
    MaxConflicts = 10
    MaxFrontier = 10
    Devices = {1, 2}
    Fields = {"name"}
    Values = {"x"}
    InitialValue = "i"
    Schemas = {2}
    MaxLocalOps = 3
    MaxOps = 6
SPECIFICATION MergeSpec
INVARIANT ConflictFreeMergeReplays
CHECK_DEADLOCK FALSE
