CONSTANTS
    HUFF_ALPHABET = 6
    HUFF_MAX_CODE_LEN = 4
    HUFF_NUM_STREAMS = 2
    BITS_PER_BYTE = 2
    Sources <- AllSources
CHECK_DEADLOCK FALSE
SPECIFICATION Spec
INVARIANTS
    TablesAgree
    LaneDecodes
PROPERTIES
    LaneFinishes
