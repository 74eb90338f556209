SPECIFICATION Cooperative
CONSTANTS
    MAX_PROCESSES = 3
    MaxChildren = 2
    PreemptTicks = 2
    TimerOn = TRUE
    MaxPid = 4
    MaxSleep = 2
PROPERTY RoundRobin
CHECK_DEADLOCK FALSE
