CONSTANTS
    Intervals <- MCIntervals
    Slice = 2
    BaselineWindow = 3
    MaxPoll = 4
    MaxOversleep = 1
    Events <- MCEvents
    Sections <- MCSections
    AgeCap = 17
SPECIFICATION FairFramesSpec
INVARIANTS
    FramesTypeOK
    WindowsMeaningful
    WindowsRecent
    AtMostOneLateFrame
    PromptStop
PROPERTIES
    NapNotCutShort
    NapDrift
    CtrlCNeverKills
    KeepsRefreshing
    KeepsPromise
