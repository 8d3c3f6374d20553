CONSTANTS
    Paths = {own, other}
    Texts = {empty, first}
    Empty = empty
    Partial = partial
    Missing = missing
    NoPath = noPath
    MaxStamp = 2
    Instances = {i1, i2, i3}
    Ids = {d1, d2}
    Works = {w1, w2}
    None = none
SPECIFICATION MCSpec
INVARIANTS
    TypeOK
    CleanMatchesBaseline
    StagesAreRemoved
    SnapshotOutlivesSave
    NothingLost
PROPERTY
    OverwritesOnlyExpected
SYMMETRY Symmetry
CHECK_DEADLOCK FALSE
