CONSTANTS
    Lines = {0, 1, 8}
    Faults = {6, 21}
    TickWrap = 4
    Sleeps = {0, 3}
SPECIFICATION FairSpec
INVARIANTS
    TypeOK
    FrameFits
    StopsForCause
    NothingInService
PROPERTIES
    SleepsLongEnough
    IrqsServed
    KeysRead
    SleepEnds
