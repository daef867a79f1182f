SPECIFICATION FairSpec
CONSTANTS
    r1 = r1
    r2 = r2
    b1 = b1
    b2 = b2
    NULL = NULL
    Readers <- TwoReaders
    Buffers <- TwoBuffers
    MaxVersion = 3
INVARIANTS
    BufferLive
    NothingLeaked
    CatShowsPage
PROPERTY CatEnds
CHECK_DEADLOCK FALSE
