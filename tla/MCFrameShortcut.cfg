CONSTANTS
    LZ_BLOCK_SIZE = 40
    OFF32_COUNT_PACK_MAX = 2
    OFF16_ENTROPY_MIN = 10
    CHUNK = 64
    MIN_SOURCE_LENGTH = 6
    ASSEMBLY_CHUNK_CAP = 5
    LOG_THREADS = 2
    Jobs <- ClashJobs
    Damages <- NoDamage
CHECK_DEADLOCK FALSE
SPECIFICATION Spec
INVARIANT
    ShortcutIsRaw
