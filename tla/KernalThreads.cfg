SPECIFICATION FairSpec
CONSTANTS
    MaxStarts = 2
    MaxPush = 3
    Failures = TRUE
CHECK_DEADLOCK FALSE
INVARIANTS
    TypeOK
    StopJoinsAll
PROPERTIES
    StopWaitsOnlyForSleepers
