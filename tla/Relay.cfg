SPECIFICATION FairOpen
CONSTANTS
    Dialers <- MCDialers
    Listeners <- MCListeners
    Peer <- MCPeer
    NextHop <- MCNextHop
    MaxSend <- TwoOneOne
    Sized <- Both
    Faults <- NoFault
CHECK_DEADLOCK FALSE
INVARIANTS
    InOrderEndToEnd
PROPERTIES
    AllDelivered
