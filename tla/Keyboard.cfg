CONSTANTS
    KB_BUFFER_SIZE = 3
    Keys = {1, 2, 30, 42, 54}
    MaxKeys = 6
SPECIFICATION FairSpec
INVARIANTS
    TypeOK
    ShiftNeverStuck
PROPERTIES
    ImplementsFifo
    BufferDrains
