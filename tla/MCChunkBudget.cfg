SPECIFICATION LongSpec
INVARIANT PublishedChunksDecode
CHECK_DEADLOCK FALSE
CONSTANTS
    IdRank <- EnvelopeRank
    I64_MAX = 7
    MAX_OBSERVATION_CHUNK_ROWS = 65536
    MAX_COLUMNS = 256
    MAX_BATCH_SIZE = 1024
    MAX_LIST_VALUES = 1024
    MAX_STRING_BYTES = 1024
    MAX_ROW_GROUPS = 64
    MAX_DECODED_ARROW_BYTES = 67108864
    Batches <- LongBatches
