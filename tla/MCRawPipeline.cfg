CONSTANTS
    WARP_SIZE = 2
    MIN_PARALLEL_MATCH_LEN = 2
    InitialCopy = 2
    InitialDistance = 2
    DictLen = 3
    DstSize = 24
    Copiers = 2
    Streams <- AllStreams
SPECIFICATION Spec
INVARIANTS
    SlotExclusive
    ParserAgreesWithSerial
    BarrierConvergence
    DstRaceFree
PROPERTIES
    RefinesSerial
    Termination
