SPECIFICATION FairSpec
CONSTANTS
    u1 = u1
    u2 = u2
    u3 = u3
    NoUnit = NoUnit
    Unit = {u1, u2, u3}
    Prefix <- NoPrefix
    Joiners = {}
    Retries = 1
    MaxSyncs = 2
    MaxTerms = 0
    MaxFails = 0
    MaxDeparts = 0
    MaxPauses = 0
    MaxUpgrades = 3
INVARIANT InitialisedOnce
INVARIANT UpgradeMigrates
PROPERTY EverySyncIsPickedUp
CHECK_DEADLOCK FALSE
