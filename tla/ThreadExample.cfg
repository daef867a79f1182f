SPECIFICATION Spec
CONSTANTS
    kthread = kthread
    r1 = r1
    r2 = r2
    b1 = b1
    b2 = b2
    NULL = NULL
    NoTask = NoTask
    Thread = kthread
    Tasks <- AllTasks
    Readers <- TwoReaders
    Signalled <- TwoReaders
    Buffers <- TwoBuffers
    CNT_SIZE = 3
    MaxCycles = 2
SYMMETRY ReadersBuffers
INVARIANTS
    ValuesSame
    LagAtMostOne
CHECK_DEADLOCK FALSE
