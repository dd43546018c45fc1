---------------------------- MODULE MCConnection ----------------------------
(* One connection for TLC: the dialer is the client's connectionToServer,  *)
(* the listener the server's entry in directClients.                       *)
EXTENDS Connection

MCDialers == {"dialer"}
MCListeners == {"listener"}
MCPeer == [e \in {"dialer", "listener"} |->
              IF e = "dialer" THEN "listener" ELSE "dialer"]

Sends(d, l) == [e \in {"dialer", "listener"} |-> IF e = "dialer" THEN d ELSE l]
OneEach == Sends(1, 1)
OneWay == Sends(2, 0)

Both == {TRUE, FALSE}

AnyFault == AllFaults
Releasing == {"disconnect", "release"}
=============================================================================
