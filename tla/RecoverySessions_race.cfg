CONSTANTS
    Instances = {i1, i2, i3}
    Ids = {d1}
    Works = {w1}
    None = none
    Overtaking = TRUE
SPECIFICATION Spec
INVARIANT RunningHasSession
CHECK_DEADLOCK FALSE
