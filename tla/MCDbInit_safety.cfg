SPECIFICATION Spec
CONSTANTS
    u1 = u1
    u2 = u2
    u3 = u3
    NoUnit = NoUnit
    Unit = {u1, u2}
    Prefix <- NoPrefix
    Joiners = {u2}
    Retries = 1
    MaxSyncs = 3
    MaxTerms = 1
    MaxFails = 1
    MaxDeparts = 1
    MaxPauses = 1
    MaxUpgrades = 1
INVARIANT DeliveredMeansRestarted
PROPERTY MigrationIsKept
CHECK_DEADLOCK FALSE
