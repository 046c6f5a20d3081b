SPECIFICATION Spec
CONSTANTS
    u1 = u1
    u2 = u2
    u3 = u3
    NoUnit = NoUnit
    Unit = {u1, u2, u3}
    Prefix <- NoPrefix
    Joiners = {}
    Retries = 0
    MaxSyncs = 2
    MaxTerms = 1
    MaxFails = 0
    MaxDeparts = 0
    MaxPauses = 0
    MaxUpgrades = 1
INVARIANT QuiescentMeansRestarted
CHECK_DEADLOCK FALSE
