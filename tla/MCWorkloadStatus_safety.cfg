SPECIFICATION FairSpec
CONSTANTS
    Required = {"shared-db"}
    Resources <- FourResources
    MaxEvents = 4
    MaxFaults = 1
INVARIANT StatusIsTrue
INVARIANT OverridesAreSound
PROPERTY StatusRecovers
CHECK_DEADLOCK FALSE
