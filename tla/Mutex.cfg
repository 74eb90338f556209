SPECIFICATION MutexSpec
CONSTANTS
    Procs = {a, b}
    NoOwner = NoOwner
    MAX_MUTEX = 2
    MaxWaiters = 2
    MaxHeld = 1
INVARIANTS
    IdSelectsItsMutex
    Ownership
PROPERTIES
    OwnerChanges
CHECK_DEADLOCK TRUE
