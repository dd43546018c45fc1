SPECIFICATION Spec
CONSTANTS
    Nodes <- ForkNodes
    Root = "root"
    Parent <- ForkParent
    Rand <- ForkRand
    After <- ForkAfter
    Users <- ForkNodes
    MaxSubmit = 0
    MayFail = {}
CHECK_DEADLOCK FALSE
INVARIANTS
    KnownWhenQuiet
