\* A fixed disk, and a card reader with two cards.
CONSTANTS
    NoDrive  = NoDrive
    Vacant   = Vacant
    C        = C
    E1       = E1
    E2       = E2
    Letters <- MCLetters
    Media   <- MCMedia
    Fits    <- MCFits
SPECIFICATION FairEngineSpec
INVARIANTS
    DiskTypeOK
    ModeRestored
    UnattendedNeverBlocks
    RowsAreTheDrives
    EveryDriveShown
    EverySectionSampled
PROPERTIES
    UnattendedPollReturns
