SPECIFICATION Spec
CONSTANTS
    Values <- MCValues
    Gaps <- MCGaps
CHECK_DEADLOCK FALSE
INVARIANTS
    ReadsBack
    NothingInvented
