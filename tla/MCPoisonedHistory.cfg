CONSTANTS
    Sessions = {s1, s2}
    Calls <- MCCalls
    MaxParents = 8
    MaxConflicts = 4
    MaxFrontier = 4
    Callers = {c1, c2}
    MaxCalls = 5
    MaxProjects = 2
    MaxGrantIds = 2
    MAX_OPEN_GRANTS = 1
    MAX_MAP_SOURCE_GRANTS = 2
    MAX_MAP_RETRY_ENTRIES = 1
SPECIFICATION ApplicationSpec
CHECK_DEADLOCK FALSE
SYMMETRY MCSymmetry
INVARIANT HistoryMaterializes
