SPECIFICATION Spec
CONSTANTS
    Dialers <- MCDialers
    Listeners <- MCListeners
    Peer <- MCPeer
    MaxSend <- OneEach
    Sized <- Both
    Faults <- Releasing
CHECK_DEADLOCK FALSE
INVARIANTS
    BuffersOutliveOperations
