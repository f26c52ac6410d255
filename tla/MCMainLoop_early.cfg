CONSTANTS
    Intervals <- MCIntervals
    Slice = 2
    BaselineWindow = 3
    MaxPoll = 4
    MaxOversleep = 1
    Events <- MCCtrlC
SPECIFICATION Spec
PROPERTIES
    CtrlCExitsCleanly
