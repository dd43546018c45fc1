SPECIFICATION FairSpec
CONSTANTS
    Dialers <- MCDialers
    Listeners <- MCListeners
    Peer <- MCPeer
    MaxSend <- OneWay
    Sized <- Both
    Faults <- AnyFault
CHECK_DEADLOCK FALSE
INVARIANTS
    TypeOK
    WritePump
    ReadArmed
    StreamInSync
PROPERTIES
    ImplementsChannel
    CloseNoticed
