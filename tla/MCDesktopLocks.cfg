CONSTANTS
    Callers = {c1, c2}
    MaxCalls = 3
    MaxProjects = 1
    MaxGrantIds = 1
    MAX_OPEN_GRANTS = 1
    MAX_MAP_SOURCE_GRANTS = 1
    MAX_MAP_RETRY_ENTRIES = 1
SPECIFICATION FairSpec
CHECK_DEADLOCK FALSE
PROPERTY CancelStaysAvailable
