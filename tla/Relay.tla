------------------------------- MODULE Relay -------------------------------
(***************************************************************************)
(* Connections of several nodes: an end in the domain of NextHop belongs   *)
(* to a node that forwards what it receives there, the message taken from  *)
(* m_msgIn being handed unchanged to Send on another of its connections    *)
(* (NetzwerkKernal::reciveMessage, sendMessage and sendMessageDirect for a *)
(* destination that is neither 0, 1 nor the node itself).  The node sends  *)
(* messages of its own there too, and several of its ends may share a hop. *)
(***************************************************************************)
EXTENDS Connection

CONSTANT NextHop    \* the end a forwarding node uses for what an end gets

\* what o sends may reach the connection of d: d is in every set of ends that
\* has o and that forwarding does not leave
Leads(o, d) == \A S \in SUBSET Ends :
    o \in S /\ (\A e \in DOMAIN NextHop : Peer[e] \in S => NextHop[e] \in S) => d \in S

\* the nodes form a tree: nothing comes back to a connection it was sent on
ASSUME HopAssumption ==
    /\ DOMAIN NextHop \subseteq Ends
    /\ NextHop \in [DOMAIN NextHop -> Ends]
    /\ \A e \in DOMAIN NextHop : ~Leads(NextHop[e], Peer[e])

VARIABLE forwarded  \* how many of its messages each end's node has forwarded

relayVars == <<vars, forwarded>>

RelayInit ==
    /\ Init
    /\ forwarded = [e \in DOMAIN NextHop |-> 0]

\* reciveMessage takes the next message and sends it on if the connection
\* is open; otherwise the message is dropped
ForwardMessage(e, i) ==
    /\ forwarded[e] < Len(messagesIn[e])
    /\ forwarded' = [forwarded EXCEPT ![e] = @ + 1]
    /\ LET m == messagesIn[e][i]
           hop == NextHop[e]
       IN IF alive[hop] /\ IsConnected(hop)
          THEN /\ posted' = [posted EXCEPT ![hop] = Append(@, PostSend(m))]
               /\ sent' = [sent EXCEPT ![hop] = Append(@, m.header)]
          ELSE UNCHANGED <<posted, sent>>
    /\ UNCHANGED <<sock, alive, broken, ops, messagesOut, temporaryIn,
                   messagesIn, pipe>>

\* mutant: pop_back order, the newest message again and again
ForwardNewest(e) == ForwardMessage(e, Len(messagesIn[e]))
Forward(e) == ForwardMessage(e, forwarded[e] + 1)

RelayNext ==
    \/ Next /\ UNCHANGED forwarded
    \/ \E e \in DOMAIN NextHop : Forward(e)

RelaySpec == RelayInit /\ [][RelayNext]_relayVars

\* the context thread of an end's node does not leave its work for ever
Serve(e) == Connecting(e) \/ RunPosted(e) \/ Writing(e) \/ Reading(e)

FairRelay ==
    /\ \A e \in Ends : WF_relayVars(Serve(e) /\ UNCHANGED forwarded)
    /\ \A e \in DOMAIN NextHop : WF_relayVars(Forward(e))

-----------------------------------------------------------------------------
(* An empty message leaves the body of the message before it in            *)
(* m_msgTemporaryIn (connection.h:129).  ReadHeader asks for header.size,  *)
(* WriteHeader for body.size(): forwarding such a message puts the next    *)
(* connection out of step.                                                 *)
Whole(m) == m.header.sized <=> m.body # NoBody
ForwardedWhole == \A e \in DOMAIN NextHop : \A i \in 1..forwarded[e] : Whole(messagesIn[e][i])

(* Forwarding keeps the promise of a single connection, over any number of *)
(* hops and whatever fails, until a message that is not whole has been     *)
(* forwarded: what a sender's messages become on the way is never an order *)
(* of their own, none comes twice, and none was not sent.  A hop may drop  *)
(* a message while its connection is closed.                               *)
InOrderEndToEnd == ForwardedWhole => \A e \in Ends :
    LET far == messagesIn[e]
    IN /\ \A i, j \in DOMAIN far :
              i < j /\ far[i].header.from = far[j].header.from
                  => far[i].header.num < far[j].header.num
       /\ \A i \in DOMAIN far : \E k \in DOMAIN sent[far[i].header.from] :
              far[i].header = sent[far[i].header.from][k]

(* Every message given to Send on any of the connections, by a user or by  *)
(* the forwarding node, arrives at the other end unless a connection       *)
(* closes or a message that is not whole was forwarded: time and again     *)
(* nothing is left under way.                                              *)
AllDelivered == []<>(
    \/ \A e \in Ends : Len(messagesIn[Peer[e]]) = Len(sent[e])
    \/ \E d \in Ends : sock[d] = "closed"
    \/ ~ForwardedWhole)
=============================================================================
