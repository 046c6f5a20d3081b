SPECIFICATION Spec
CONSTANTS
    d1 = d1
    d2 = d2
    d3 = d3
    Device = {d1, d2, d3}
    InitDisks <- ThreeDisks
    Options <- AllChoices
    ForeignPool = FALSE
    MaxSets = 2
    MaxEvents = 1
    MaxFails = 1
INVARIANT DevicesServe
PROPERTY NothingIsLost
CHECK_DEADLOCK FALSE
