SPECIFICATION Cooperative
CONSTANTS
    MAX_PROCESSES = 3
    MaxChildren = 1
    PreemptTicks = 2
    TimerOn = TRUE
    MaxPid = 4
    MaxSleep = 2
INVARIANTS
    TypeOK
    TableConsistent
    MarksAreBrief
    FamilyTree
PROPERTIES
    CurrentNeverMoves
    SwitchesAreFirst
    RunningForever
    ReadyIsDispatched
CHECK_DEADLOCK FALSE
