SPECIFICATION StoredSpec
INVARIANT ObservationInOneChunk
INVARIANT ReadsAreTrue
INVARIANT VerdictIsTrue
INVARIANT EncodingRoundTrips
INVARIANT CompleteStreamsDecode
INVARIANT DecodersAgree
INVARIANT RevocationStops
INVARIANT ScenesAreComputed
INVARIANT BarriersOnlyWhereCrossed
CHECK_DEADLOCK FALSE
CONSTANTS
    SCALE = 10
    MAX_SAMPLES = 3
    MAX_CELLS = 4
    MAX_NEIGHBORS = 3
    MAX_POWER = 2
    MAX_OFFSET = 8
    MAX_DISTANCE_EVALUATIONS = 12
    MAX_BARRIER_EVALUATIONS = 12
    MAX_BARRIERS = 1
    MAX_BARRIER_COORDINATE = 9
    MAX_BARRIER_COST = 20
    MAX_ATTENUATION = 3
    MAX_SCENE_BYTES = 20
    MAX_SCENE_WORKING_BYTES = 190
    FIXED_BYTES = 1
    MAX_TOTAL_CONTRIBUTIONS = 12
    MAX_GROUP_ID_REFERENCES = 6
    MAX_METRIC_DEFINITION_BYTES = 4
    MAX_SOURCE_ARTIFACT_BYTES = 4
    MAX_SCENE_JSON_DEPTH = 8
    MAX_TEXT_BYTES = 4
    PREDECODE_VEC_GROWTH_FACTOR = 2
    Requests <- MCRequests
    TileEdits <- MCTileEdits
    DocumentEdits <- MCDocumentEdits
    IdRank <- EnvelopeRank
    I64_MAX = 7
    MAX_OBSERVATION_CHUNK_ROWS = 65536
    MAX_COLUMNS = 256
    MAX_BATCH_SIZE = 1024
    MAX_LIST_VALUES = 1024
    MAX_STRING_BYTES = 1024
    MAX_ROW_GROUPS = 64
    MAX_DECODED_ARROW_BYTES = 67108864
    Batches <- MixedBatches
    Interfaces = {1, 2, 3}
    Listings = {{}, {1}, {1, 2}, {1, 2, 3}}
    MaxInterfaces = 2
    CommandLines <- MCCommandLines
    Handlers = {"deadline"}
    MaxResults = 2
    MaxClock = 1
    EnvChanges = 1
