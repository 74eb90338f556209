SPECIFICATION ShmSpec
CONSTANTS
    Procs = {a, b}
    MAX_SHM = 3
    MaxAttached = 2
    MaxRegions = 3
    Names <- ThreeNames
    Stored <- ThreeKept
INVARIANTS
    AttachedOnce
    ListsAgree
    NamesDiffer
CHECK_DEADLOCK TRUE
