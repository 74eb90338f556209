SPECIFICATION FairSpec
CONSTANTS
    HeapBase = 1
    HeapSize = 25
    HeaderSize = 3
    Align = 2
    MinSplit = 2
    Sizes <- MCSizes
INVARIANTS
    TypeOK
    Tiling
    Linked
    Coalesced
PROPERTIES
    FirstFit
    CallReturns
    ImplementsAlloc
CHECK_DEADLOCK TRUE
