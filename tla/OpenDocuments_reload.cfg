CONSTANTS
    Files = {f}
    NoFile = noFile
    Located = located
    MaxOpen = 2
    MaxPending = 2
    Batch = 1
    Windows = TRUE
    LocatedPicks = FALSE
SPECIFICATION Spec
PROPERTY ReloadAsks
CHECK_DEADLOCK FALSE
