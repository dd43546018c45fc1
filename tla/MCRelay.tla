------------------------------ MODULE MCRelay ------------------------------
(* A tree of nodes for TLC: two clients send, a node in the middle forwards *)
(* what it gets from both on one connection, where it sends a message of    *)
(* its own as well, and a server receives.                                  *)
EXTENDS Relay

MCDialers == {"clientOut", "otherOut", "middleOut"}
MCListeners == {"clientIn", "otherIn", "serverIn"}
MCPeer == [clientOut |-> "clientIn", clientIn |-> "clientOut",
           otherOut |-> "otherIn", otherIn |-> "otherOut",
           middleOut |-> "serverIn", serverIn |-> "middleOut"]
MCNextHop == [clientIn |-> "middleOut", otherIn |-> "middleOut"]

\* Send calls: two of the client, one of the other and one of the middle node
TwoOneOne == [clientOut |-> 2, otherOut |-> 1, middleOut |-> 1,
              clientIn |-> 0, otherIn |-> 0, serverIn |-> 0]

Both == BOOLEAN
NoFault == {}

\* every connection is made and has run its connect handler, a state RelayInit
\* leads to; the run of Connection covers how connections come about
OpenInit ==
    /\ sock = [e \in Ends |-> "connected"]
    /\ alive = [e \in Ends |-> TRUE]
    /\ broken = {}
    /\ connectOp = [e \in Ends |-> Idle]
    /\ readOp = [e \in Ends |-> [Idle EXCEPT !.st = "pending"]]
    /\ writeOp = [e \in Ends |-> Idle]
    /\ posted = [e \in Ends |-> <<>>]
    /\ messagesOut = [e \in Ends |-> <<>>]
    /\ temporaryIn = [e \in Ends |-> Blank(e)]
    /\ messagesIn = [e \in Ends |-> <<>>]
    /\ pipe = [e \in Ends |-> <<>>]
    /\ sent = [e \in Ends |-> <<>>]
    /\ forwarded = [e \in DOMAIN NextHop |-> 0]

FairOpen == OpenInit /\ [][RelayNext]_relayVars /\ FairRelay
=============================================================================
