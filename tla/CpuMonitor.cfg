CONSTANTS
    Cores = 2
    MaxTicks = 8
CHECK_DEADLOCK FALSE
SPECIFICATION Spec
INVARIANTS
    TypeOK
    BusyAccounted
PROPERTIES
    NeverStranded
