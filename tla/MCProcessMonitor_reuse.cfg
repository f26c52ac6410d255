CONSTANTS
    Pids = {1, 2}
    MaxProcs = 2
    MaxTime = 2
    Cores = 1
    MaxAttempts = 4
CHECK_DEADLOCK FALSE
SPECIFICATION Spec
PROPERTIES
    NewProcessReportsZero
