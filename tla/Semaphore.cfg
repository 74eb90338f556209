SPECIFICATION SemSpec
CONSTANTS
    Procs = {a, b}
    MAX_SEM = 2
    MaxWaiters = 2
    SEM_VALUE_MAX = 2
    InitialValues <- MCInitialValues
INVARIANTS
    IdSelectsItsSemaphore
    QueuedOnlyWhenEmpty
CHECK_DEADLOCK TRUE
