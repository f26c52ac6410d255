CONSTANTS
    Luids = {"ethernet"}
    Adapters = {"ethernet"}
    CounterSize = 3
    MaxTraffic = 3
    MaxRestarts = 2
    MaxTime = 2
CHECK_DEADLOCK FALSE
SPECIFICATION Spec
INVARIANTS
    TypeOK
    NeverOverReports
PROPERTIES
    NothingMissed
