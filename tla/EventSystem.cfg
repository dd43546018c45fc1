SPECIFICATION FairSpec
CONSTANTS
    Listeners = {l1, l2}
    Events = {e1, e2, e3}
    Usable = {e1}
    Types = {Base, Other}
    Base = Base
    Null = Null
    MaxCalls = 2
    MaxDepth = 4
CHECK_DEADLOCK FALSE
INVARIANTS
    TypeOK
    RoundUndisturbed
    InStageOrder
    UndefinedNeedsMisuse
PROPERTIES
    StagedAreSent
