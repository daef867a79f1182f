SPECIFICATION Spec
CONSTANTS
    r1 = r1
    r2 = r2
    b1 = b1
    b2 = b2
    NULL = NULL
    Readers <- TwoReaders
    Buffers <- TwoBuffers
    MAX_ANIMALS = 6
    ENTRY_SIZE = 150
    MaxShared = 0
SYMMETRY ReadersBuffers
INVARIANTS
    TotalsMatch
    
    AnimalsFreed
