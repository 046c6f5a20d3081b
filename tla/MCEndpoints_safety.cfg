SPECIFICATION FairSpec
CONSTANTS
    Vips <- AllVips
    HostNames <- AllNames
    SslOptions <- AllSsl
    Releases = {2}
    MaxSets = 1
    MaxRelation = 4
    MaxEvents = 1
INVARIANT EndpointsAreCurrent
INVARIANT SiteIsServed
PROPERTY IsRegistered
CHECK_DEADLOCK FALSE
