CONSTANTS
    WordBits = 2
    MaxPages = 6
    PageSize = 2
    KBPerPage = 1
    LowKB = 2
    Wrap = 16
    KernelEnd = 3
    BootInfos <- MCBootInfos
SPECIFICATION Spec
INVARIANTS
    TypeOK
    FreeCountExact
    KernelNeverHandedOut
    OnlyAvailableHandedOut
    MemoryPartition
PROPERTY ImplementsAllocator
