SPECIFICATION FairSpec
CONSTANTS
    MaxRelease = 3
    Py3 = 2
    Retries = 1
    MaxSets = 2
    MaxOps = 2
    MaxFails = 1
    MaxFlaky = 1
    MaxRefused = 1
    Managed <- Switched
INVARIANT MigratedBeforeServing
INVARIANT UpgradeIsWhole
PROPERTY UpgradeGoesThrough
CHECK_DEADLOCK FALSE
