CONSTANTS
    SCALE = 10
    MAX_SAMPLES = 3
    MAX_CELLS = 4
    MAX_NEIGHBORS = 3
    MAX_POWER = 2
    MAX_OFFSET = 8
    MAX_DISTANCE_EVALUATIONS = 12
    MAX_BARRIER_EVALUATIONS = 12
    MAX_BARRIERS = 1
    MAX_BARRIER_COORDINATE = 9
    MAX_BARRIER_COST = 20
    MAX_ATTENUATION = 3
    MAX_SCENE_BYTES = 20
    MAX_SCENE_WORKING_BYTES = 190
    FIXED_BYTES = 1
    MAX_TOTAL_CONTRIBUTIONS = 12
    MAX_GROUP_ID_REFERENCES = 6
    MAX_METRIC_DEFINITION_BYTES = 4
    MAX_SOURCE_ARTIFACT_BYTES = 4
    MAX_SCENE_JSON_DEPTH = 8
    MAX_TEXT_BYTES = 4
    PREDECODE_VEC_GROWTH_FACTOR = 2
    Requests <- MCRequests
    TileEdits <- MCTileEdits
    DocumentEdits <- MCDocumentEdits
SPECIFICATION SceneSpec
INVARIANT ExtrapolationKeepsSupported
CHECK_DEADLOCK FALSE
