SPECIFICATION FairSpec
CONSTANTS
    Behaviours = {b1, b2, b3}
    MaxAsks = 2
CHECK_DEADLOCK FALSE
INVARIANTS
    TypeOK
    EachOncePerFrame
    StartedOnce
    DoubleDeleteNeedsTwoAsks
    OnlyLateBornSurvive
PROPERTIES
    DestroyTakesEffect
