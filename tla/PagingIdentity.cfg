SPECIFICATION Spec
CONSTANTS
    Fanout = 8
    PageCells = 33
    Pages <- MCPages
    MaxTables = 15
    Memory = 20
    Before <- MCBefore
    IdentityPages = 16
    Callers = {p, q}
    KernelMaps = {2496}
    KernelFrames = {15}
    FileFds = {3, 4}
    EntryIds = {0, 1}
    Size <- MCSize
    Valid = {0}
    Segments <- MCSegments
    USER_STACK_TOP = 67583
    Blocks <- MCBlocks
    HeaderCells = 1
INVARIANT
    IdentityMapped
