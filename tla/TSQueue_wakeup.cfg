SPECIFICATION FairSpec
CONSTANTS
    Producers = {p1, p2}
    Consumer = c
    NoThread = none
    Msgs = {a}
    MaxPush = 2
PROPERTIES
    PresentElementsProcessed
