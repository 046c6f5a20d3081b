SPECIFICATION Spec
CONSTANTS
    MaxUnits = 3
    Interfaces = {"shared", "identity", "credentials", "amqp", "image", "subordinate", "cluster"}
    OptionValues = {"a", "b"}
    MaxNonce = 2
    DeferredServices = {"a", "b"}
    MaxTime = 4
    MaxTemplate = 2
    Exposed <- ExposedSets
    HostNames = {"h1", "h2"}
    LastRelease = 1
    HaUnits = {"u1", "u2"}
    VipAddresses = {"vip1", "vip2"}
    Wirings <- LibWirings
    Replicas = {3}
    PgNums = {0, 3}
    OsdCounts = {0, 6}
    MaxCuts = 1
    MaxVersion = 3
    PeerUnits = {"p1", "p2"}
    Addressed = {"u1", "u2"}
    Operated = {"u1", "u2"}
    ServiceHosts = {"cinder", "h1"}
    MaxTimes = 2
    NewestRelease = 3
    Shipments <- LibShipments
    ManagedServices = {"s1"}
    PortChoices = {{80}, {443}, {80, 443}}
    EnabledChoices <- LibRoles
    PackagesMap <- LibPackages
    ApiUnits = {"u1", "u2"}
    FrontPorts = {8776, 8786}
    MaxMoves = 3
PROPERTY ContextsAreSound
INVARIANT NothingIsHalfDone
INVARIANT RestartIsRecorded
INVARIANT SettlesInTwo
INVARIANT MonitoredIsDefined
INVARIANT OriginIsItsRelease
INVARIANT UnitsAskTheSame
INVARIANT PoolsAreAsAsked
INVARIANT MoveKeepsData
INVARIANT QuietUnitsAgree
INVARIANT AddressesAreOwn
INVARIANT RemovalsAreReported
 
INVARIANT PortsFollowServices
INVARIANT PauseReachesServices
INVARIANT ChainIsClosed
CHECK_DEADLOCK FALSE
