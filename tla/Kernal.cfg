SPECIFICATION ChainSpec
CONSTANTS
    Nodes <- ChainNodes
    Root = "root"
    Parent <- ChainParent
    Rand <- ChainRand
    After <- ChainAfter
    Users <- ChainNodes
    MaxSubmit = 3
    MayFail = {}
CHECK_DEADLOCK FALSE
INVARIANTS
    UsedOnceWhereMeant
    NoticesHaveBodies
    AnnouncedIsReachable
    KnownWhenQuiet
PROPERTIES
    NoSilentLoss
    BroadcastReachesAll
