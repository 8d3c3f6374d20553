CONSTANTS
    Files = {f, g}
    NoFile = noFile
    Located = located
    MaxOpen = 2
    MaxPending = 2
    Batch = 1
    Windows = TRUE
    LocatedPicks = FALSE
SPECIFICATION Spec
SYMMETRY Symmetry
INVARIANTS
    DistinctPaths
    OpenFilesAreWatched
PROPERTY
    EditsGoWhenAsked
CHECK_DEADLOCK FALSE
