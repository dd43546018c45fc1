SPECIFICATION FairSpec
CONSTANTS
    Producers = {p1, p2}
    Consumer = c
    NoThread = none
    Msgs = {a, b}
    MaxPush = 4
INVARIANTS
    TypeOK
    PopNeverEmpty
    MissesOnlyTheWindow
PROPERTIES
    ImplementsChannel
    LatePushDrainsAll
