SPECIFICATION Spec
CONSTANTS
    r1 = r1
    b1 = b1
    b2 = b2
    NULL = NULL
    Readers <- OneReader
    Buffers <- TwoBuffers
    NSEC_PER_SEC = 100
    ULONG_RANGE = 1000
    Times <- FiveTimes
INVARIANTS
    ElapsedIsDifference
    BufferLive
    NothingLeaked
