SPECIFICATION Spec
CONSTANTS
    Required = {"shared-db"}
    Resources <- FourResources
    MaxEvents = 3
    MaxFaults = 0
INVARIANT FailureIsTold
CHECK_DEADLOCK FALSE
