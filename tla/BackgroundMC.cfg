SPECIFICATION MCSpec
CONSTANTS
    Instances = {i1, i2, i3}
    Ids = {d1}
    Works = {w1}
    None = none
    Overtaking = TRUE
    Slices = {"a", "b"}
    Versions <- OneSlice
    Text <- Saved
    Stamps = {1, 2}
    IdentityOf <- Identities
    QueueCapacity = 1
    Budget = 1
    MaxFailures = 0
INVARIANTS
    NoEventForgotten
    OffersAreExclusive
PROPERTIES
    StartupsEnd
    SettledStatusIsRight
CHECK_DEADLOCK FALSE
