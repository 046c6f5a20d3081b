SPECIFICATION FairSpec
CONSTANTS
    m1 = m1
    m2 = m2
    plain = plain
    restricted = restricted
    NoRequest = NoRequest
    Mon = {m1, m2}
    Request = {plain, restricted}
    MaxSets = 2
    MaxTroubles = 1
INVARIANT CephIsAwaited
INVARIANT KeyringFollowsRelation
PROPERTY EveryRequestIsServed
CHECK_DEADLOCK FALSE
