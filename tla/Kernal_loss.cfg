SPECIFICATION LossSpec
CONSTANTS
    Nodes <- ForkNodes
    Root = "root"
    Parent <- ForkParent
    Rand <- ForkRand
    After <- ChainOnly
    Users <- OnlyX
    MaxSubmit = 2
    MayFail <- Downward
CHECK_DEADLOCK FALSE
INVARIANTS
    TypeOK
    RoutesLead
    RemovedAreCut
    LossToldOnce
PROPERTIES
    LossSpreads
