\* The instance of MCFrontEnd.cfg.
CONSTANTS
    Tokens       <- MCTokens
    Chars        <- MCChars
    Lower        <- MCLower
    MaxArgs      = 5
    Lines        <- MCLines
    Kilo         = 4
    Height       = 12
    Width        = 5
    Snapshots    <- MCSnapshots
    Columns      <- MCColumns
    GoodbyeWidth = 1
    ShellRows    <- MCShellRows
    Sizes        <- MCSizes
    Durations    <- MCDurations
SPECIFICATION FrontSpec
INVARIANT OnlyTheFrame
