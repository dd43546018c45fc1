------------------------------- MODULE Kernal -------------------------------
(***************************************************************************)
(* netzwerk::NetzwerkKernal (Netzwerk/NetzwerkKernal.h): a tree of         *)
(* processes.  A node accepts clients, gives each an id, tells the tree    *)
(* about it and routes messages by the ids it was told.                    *)
(*                                                                         *)
(* Per node four threads matter here: the io_context (accepts, puts what   *)
(* arrives into m_msgIn and closes a socket whose peer has gone), Out      *)
(* (drains m_msgOut), In (drains m_msgIn) and Rem (drains                  *)
(* clientsToRemove).  One step handles one message or id; accepting a      *)
(* client and handling a broadcast are split where another thread can act  *)
(* in between.  tsqueue is a FIFO (TSQueue), each direction of a           *)
(* connection is a FIFO that keeps an empty message's header but not its   *)
(* body (Connection).  The maps and vectors the threads share without a    *)
(* lock are read and written as whole values.                              *)
(*                                                                         *)
(* onConnect answers true, a node dials only when its server is itself     *)
(* connected, and nobody dials again: Start is called once.                *)
(***************************************************************************)
EXTENDS Naturals, SequencesExt

CONSTANTS
    Nodes,
    Root,       \* started with Start(myPort)
    Parent,     \* the node every other node dials
    Rand,       \* what a node's rand() returns, one number after the other
    After,      \* the nodes that know their ids before a node is started
    Users,      \* the nodes whose users send messages
    MaxSubmit,  \* bound: messages the users send
    MayFail     \* ends <<n, m>> of connections whose socket may fail by itself

\* a set that holds, with a node, the clients of that node
DownClosed(S) == \A c \in Nodes \ {Root} : Parent[c] \in S => c \in S

ASSUME TreeAssumption ==
    /\ Root \in Nodes
    /\ Parent \in [Nodes \ {Root} -> Nodes]
    /\ \A S \in SUBSET Nodes : Root \in S /\ DownClosed(S) => S = Nodes
    /\ Rand \in [Nodes -> Seq(Nat)]
    /\ After \in [Nodes \ {Root} -> SUBSET Nodes]
    /\ Users \subseteq Nodes
    /\ MaxSubmit \in Nat
    /\ MayFail \subseteq Nodes \X Nodes

VARIABLES
    myId,           \* 0: no id yet
    drawn,          \* how many numbers of Rand the node has used
    serverId,
    idsFromServer,
    serverConn,     \* connectionToServer: its myId and otherId
    clientConn,     \* the connection a client's server made for it
    connected,      \* "none", "dialed", "up" once the server accepted, "reset"
    clientToDirectClient,
    directClients,  \* id -> the client at the other end
    accepting,      \* where the accept handler is inside registerClient
    open,           \* ends <<n, m>>: n's socket to m is open
    msgOut,
    msgIn,
    clientsToRemove,
    inHand,         \* the broadcast In has forwarded and not used yet
    link,           \* messages on their way between neighbours
    lastBody,       \* the receiving connection's m_msgTemporaryIn.body
    announced,      \* history: ids given to onConnectionAdded
    used,           \* history: messages given to onMessage, in order
    removed,        \* history: ids given to onConnectionRemoved, in order
    lost,           \* history: the direct clients removed, who had joined then
    notFound,       \* history: messages given to onDestinationNotFound
    submitted       \* history: what the users sent

tables == <<myId, serverId, idsFromServer, serverConn, clientToDirectClient,
            announced, used, removed>>
accepted == <<drawn, clientConn, connected, directClients, accepting>>
queues == <<msgOut, msgIn, inHand>>
sending == <<link, clientsToRemove, notFound>>
wires == <<open, lastBody>>
users == <<submitted, lost>>
vars == <<tables, accepted, queues, sending, wires, users>>

Clients == Nodes \ {Root}
Children(n) == {c \in Clients : Parent[c] = n}
Links == {l \in Nodes \X Nodes : l[2] \in Children(l[1]) \/ l[1] \in Children(l[2])}
\* a node and all nodes below it
Within == [n \in Nodes |->
              {k \in Nodes : \A S \in SUBSET Nodes : n \in S /\ DownClosed(S) => k \in S}]

ToServer(n) == n \in Clients /\ connected[n] = "up"

\* std::map::insert does not replace
Insert(f, k, v) == IF k \in DOMAIN f THEN f
                   ELSE [x \in DOMAIN f \cup {k} |-> IF x = k THEN v ELSE f[x]]

\* the keys of a map in the order of its iterator
Keys(f) == [i \in 1..Cardinality(DOMAIN f) |->
               CHOOSE k \in DOMAIN f :
                   Cardinality({j \in DOMAIN f : j < k}) = i - 1]

NoConn == [myId |-> 0, otherId |-> 0]
NotAccepting == [at |-> "no"]

\* mutant: built like ServerConnectionClosedMessage
AddedAsClosed(n, dest, body) ==
    [dest |-> dest, src |-> myId[n], kind |-> "gone", body |-> body]

\* ServerConnectionAddedMessage
Added(n, dest, body) ==
    [dest |-> dest, src |-> myId[n], kind |-> "new", body |-> body]

\* mutant: built like ServerConnectionAddedMessage
ClosedAsAdded(n, body) == Added(n, 0, body)

\* ServerConnectionClosedMessage
Closed(n, body) == [dest |-> 0, src |-> myId[n], kind |-> "gone", body |-> body]

Init ==
    /\ myId = [n \in Nodes |-> 0]
    /\ drawn = [n \in Nodes |-> 0]
    /\ serverId = [n \in Nodes |-> 0]
    /\ idsFromServer = [n \in Nodes |-> <<>>]
    /\ serverConn = [n \in Nodes |-> NoConn]
    /\ clientConn = [n \in Nodes |-> NoConn]
    /\ connected = [n \in Nodes |-> "none"]
    /\ clientToDirectClient = [n \in Nodes |-> <<>>]
    /\ directClients = [n \in Nodes |-> <<>>]
    /\ accepting = [n \in Nodes |-> NotAccepting]
    /\ open = {}
    /\ msgOut = [n \in Nodes |-> <<>>]
    /\ msgIn = [n \in Nodes |-> <<>>]
    /\ inHand = [n \in Nodes |-> <<>>]
    /\ clientsToRemove = [n \in Nodes |-> <<>>]
    /\ link = [l \in Links |-> <<>>]
    /\ lastBody = [l \in Links |-> <<>>]
    /\ announced = [n \in Nodes |-> {}]
    /\ used = [n \in Nodes |-> <<>>]
    /\ removed = [n \in Nodes |-> <<>>]
    /\ lost = {}
    /\ notFound = {}
    /\ submitted = <<>>

-----------------------------------------------------------------------------
(* Sending.                                                                *)

\* the connection n uses towards its neighbour m
Conn(n, m) == IF m \in Children(n) THEN clientConn[m] ELSE serverConn[n]

\* sendMessage: the neighbours whose connection it picks
Route(n, m) ==
    LET server == IF ToServer(n) THEN {Parent[n]} ELSE {}
        direct == clientToDirectClient[n]
    IN CASE m.dest = 0 ->
              server \cup {directClients[n][i] : i \in DOMAIN directClients[n]}
         [] m.dest # 0 /\ m.dest \in ToSet(idsFromServer[n]) -> server
         [] m.dest # 0 /\ m.dest \notin ToSet(idsFromServer[n]) ->
              {directClients[n][i] : i \in
                  {direct[d] : d \in DOMAIN direct \cap {m.dest}}
                      \cap DOMAIN directClients[n]}

Found(n, m) ==
    \/ m.dest = 0
    \/ m.dest \in ToSet(idsFromServer[n])
    \/ Route(n, m) # {}

\* mutants: nothing is blocked; the node's own messages are blocked
NeverBlocked(n, to, m) == FALSE
BlockedFromSelf(n, to, m) == Conn(n, to).myId = m.src

\* sendMessageDirect: nothing goes back to the source, and what is not
\* addressed to one node carries the id of the sending end
Blocked(n, to, m) == Conn(n, to).otherId = m.src
Stamped(n, to, m) ==
    IF m.dest \in {0, 1} THEN [m EXCEPT !.src = Conn(n, to).myId] ELSE m

\* mutant: IsConnected() is not asked
SentUnchecked(n, m, to) ==
    [l \in Links |-> IF l[1] = n /\ l[2] \in to /\ ~Blocked(n, l[2], m)
                     THEN Append(link[l], Stamped(n, l[2], m)) ELSE link[l]]

\* what goes to neighbours over open sockets; a peer that has closed its own
\* end does not read it
Sent(n, m, to) ==
    [l \in Links |-> IF /\ l[1] = n /\ l[2] \in to /\ ~Blocked(n, l[2], m)
                        /\ {l, <<l[2], n>>} \subseteq open
                     THEN Append(link[l], Stamped(n, l[2], m)) ELSE link[l]]

\* the ids of closed connections, the server's first
Unsent(n, m, to) ==
    LET dead == {k \in to : ~Blocked(n, k, m) /\ <<n, k>> \notin open}
        direct == directClients[n]
        ids == {id \in DOMAIN direct : direct[id] \in dead}
    IN (IF ToServer(n) /\ Parent[n] \in dead THEN <<serverConn[n].otherId>> ELSE <<>>)
       \o Keys(Restrict(direct, ids))

SendMessage(n, m) ==
    /\ link' = Sent(n, m, Route(n, m))
    /\ clientsToRemove' = [clientsToRemove EXCEPT ![n] =
                              @ \o Unsent(n, m, Route(n, m))]
    /\ notFound' = IF Found(n, m) THEN notFound ELSE notFound \cup {m}

-----------------------------------------------------------------------------
(* Starting, and the accept handler.                                       *)

\* idsFromServer is not looked at: the `continue' that should reject an id
\* found there continues the search instead
Fresh(n, id) == id \notin {0, 1, myId[n]} \cup DOMAIN clientToDirectClient[n]
BuildId(n, id) == \E k \in DOMAIN Rand[n] :
    /\ drawn[n] < k
    /\ Fresh(n, Rand[n][k])
    /\ \A j \in drawn[n] + 1 .. k - 1 : ~Fresh(n, Rand[n][j])
    /\ id = Rand[n][k]
    /\ drawn' = [drawn EXCEPT ![n] = k]

StartRoot ==
    /\ myId[Root] = 0
    /\ \E id \in ToSet(Rand[Root]) :
          BuildId(Root, id) /\ myId' = [myId EXCEPT ![Root] = id]
    /\ UNCHANGED <<serverId, idsFromServer, serverConn, clientToDirectClient,
                   announced, used, removed, clientConn, connected,
                   directClients, accepting, queues, sending, wires, users>>

Dial(c) ==
    /\ connected[c] = "none"
    /\ IF Parent[c] = Root THEN myId[Root] # 0 ELSE ToServer(Parent[c])
    /\ \A n \in After[c] : myId[n] # 0
    /\ connected' = [connected EXCEPT ![c] = "dialed"]
    /\ UNCHANGED <<tables, drawn, clientConn, directClients, accepting, queues,
                   sending, wires, users>>

\* up to the direct notice: the broadcast is queued, the client gets its id
Accept(c) == LET n == Parent[c] IN
    /\ connected[c] = "dialed"
    /\ accepting[n] = NotAccepting
    /\ open' = open \cup {<<n, c>>, <<c, n>>}
    /\ \E id \in ToSet(Rand[n]) :
          LET conn == [myId |-> myId[n], otherId |-> id]
              direct == Added(n, 1, <<id>>)
          IN /\ BuildId(n, id)
             /\ clientConn' = [clientConn EXCEPT ![c] = conn]
             /\ msgOut' = [msgOut EXCEPT ![n] = Append(@, Added(n, 0, <<id>>))]
             /\ link' = [link EXCEPT ![<<n, c>>] =
                            IF id = direct.src THEN @ ELSE Append(@, direct)]
    /\ connected' = [connected EXCEPT ![c] = "up"]
    /\ accepting' = [accepting EXCEPT ![n] = [at |-> "listing", client |-> c]]
    /\ UNCHANGED <<tables, directClients, msgIn, inHand, clientsToRemove,
                   notFound, lastBody, users>>

\* the two loops that list the ids known so far
AcceptList(n) ==
    /\ accepting[n].at = "listing"
    /\ LET c == accepting[n].client
           list == idsFromServer[n] \o Keys(clientToDirectClient[n])
       IN accepting' = [accepting EXCEPT ![n] =
              [at |-> "inserting", client |-> c,
               msg |-> Added(n, clientConn[c].otherId, list)]]
    /\ UNCHANGED <<tables, drawn, clientConn, connected, directClients, queues,
                   sending, wires, users>>

AcceptInsert(n) ==
    /\ accepting[n].at = "inserting"
    /\ LET c == accepting[n].client
           id == clientConn[c].otherId
       IN /\ directClients' = [directClients EXCEPT ![n] = Insert(@, id, c)]
          /\ clientToDirectClient' =
                [clientToDirectClient EXCEPT ![n] = Insert(@, id, id)]
          /\ msgOut' = [msgOut EXCEPT ![n] = Append(@, accepting[n].msg)]
    /\ accepting' = [accepting EXCEPT ![n] = NotAccepting]
    /\ UNCHANGED <<myId, serverId, idsFromServer, serverConn, announced, used,
                   removed, drawn, clientConn, connected, msgIn, inHand,
                   sending, wires, users>>

\* mutant: an empty message comes without a body
DeliverBare(l) ==
    /\ link[l] # <<>>
    /\ msgIn' = [msgIn EXCEPT ![l[2]] = Append(@, Head(link[l]))]
    /\ link' = [link EXCEPT ![l] = Tail(@)]
    /\ UNCHANGED <<tables, accepted, msgOut, inHand, clientsToRemove, notFound,
                   wires, users>>

\* a message arrives; an empty one comes with the body of the one before
Deliver(l) ==
    /\ link[l] # <<>>
    /\ LET m == Head(link[l])
           body == IF m.body = <<>> THEN lastBody[l] ELSE m.body
       IN /\ msgIn' = [msgIn EXCEPT ![l[2]] = Append(@, [m EXCEPT !.body = body])]
          /\ lastBody' = [lastBody EXCEPT ![l] = body]
    /\ link' = [link EXCEPT ![l] = Tail(@)]
    /\ UNCHANGED <<tables, accepted, msgOut, inHand, clientsToRemove, notFound,
                   open, users>>

\* an end is closed: what it has not read is lost, and so may be what it has
\* not written yet
Closes(n, m) ==
    /\ <<n, m>> \in open
    /\ open' = open \ {<<n, m>>}
    /\ \E k \in 0..Len(link[<<n, m>>]) :
          link' = [link EXCEPT ![<<m, n>>] = <<>>, ![<<n, m>>] = SubSeq(@, 1, k)]
    /\ UNCHANGED <<tables, accepted, queues, clientsToRemove, notFound,
                   lastBody, users>>

Fails(n, m) == <<n, m>> \in MayFail /\ Closes(n, m)
NoticesPeer(n, m) == <<m, n>> \notin open /\ Closes(n, m)

-----------------------------------------------------------------------------
(* Out and In.                                                             *)

HandleOut(n) ==
    /\ msgOut[n] # <<>>
    /\ msgOut' = [msgOut EXCEPT ![n] = Tail(@)]
    /\ SendMessage(n, Head(msgOut[n]))
    /\ UNCHANGED <<tables, accepted, msgIn, inHand, wires, users>>

\* newConnection from a client: the ids are behind it
UseFromClient(n, m) ==
    /\ clientToDirectClient' = [clientToDirectClient EXCEPT ![n] =
           [x \in DOMAIN @ \cup ToSet(m.body) |->
               IF x \in DOMAIN @ THEN @[x] ELSE m.src]]
    /\ announced' = [announced EXCEPT ![n] = @ \cup ToSet(m.body)]
    /\ UNCHANGED <<myId, serverId, idsFromServer, serverConn>>

\* newConnection from the server: the ids are taken from the body's end
UseFromServer(n, m) ==
    /\ idsFromServer' = [idsFromServer EXCEPT ![n] = @ \o Reverse(m.body)]
    /\ announced' = [announced EXCEPT ![n] = @ \cup ToSet(m.body)]
    /\ UNCHANGED <<myId, serverId, serverConn, clientToDirectClient>>

\* newConnection with destination 1: the node learns its own id
UseOwnId(n, m) ==
    LET id == m.body[Len(m.body)]
    IN /\ myId' = [myId EXCEPT ![n] = id]
       /\ idsFromServer' = [idsFromServer EXCEPT ![n] = Append(@, m.src)]
       /\ serverConn' = [serverConn EXCEPT ![n] = [myId |-> id, otherId |-> m.src]]
       /\ serverId' = [serverId EXCEPT ![n] = m.src]
       /\ announced' = [announced EXCEPT ![n] = @ \cup {id}]
       /\ UNCHANGED clientToDirectClient

Ids == <<myId, serverId, idsFromServer, serverConn, clientToDirectClient, announced>>

UseMessage(n, m) ==
    \/ m.src = myId[n] /\ UNCHANGED <<tables, clientsToRemove>>
    \/ /\ m.src # myId[n]
       /\ m.kind = "new"
       /\ \/ m.dest = 1 /\ UseOwnId(n, m)
          \/ m.dest # 1 /\ m.src = serverId[n] /\ UseFromServer(n, m)
          \/ m.dest # 1 /\ m.src # serverId[n] /\ UseFromClient(n, m)
       /\ UNCHANGED <<used, removed, clientsToRemove>>
    \/ /\ m.src # myId[n]
       /\ m.kind = "gone"
       /\ clientsToRemove' = [clientsToRemove EXCEPT ![n] = @ \o Reverse(m.body)]
       /\ removed' = [removed EXCEPT ![n] = @ \o Reverse(m.body)]
       /\ UNCHANGED <<Ids, used>>
    \/ /\ m.src # myId[n]
       /\ m.kind = "user"
       /\ used' = [used EXCEPT ![n] = Append(@, m.body[1])]
       /\ UNCHANGED <<Ids, removed, clientsToRemove>>

\* mutant: a message to the node's own id is not recognised
MineIfDirect(n, m) == m.dest = 1
Mine(n, m) == m.dest = 1 \/ m.dest = myId[n]

\* reciveMessage: use, forward, or forward first and then use
ReciveMessage(n) ==
    /\ inHand[n] = <<>>
    /\ msgIn[n] # <<>>
    /\ msgIn' = [msgIn EXCEPT ![n] = Tail(@)]
    /\ LET m == Head(msgIn[n])
       IN /\ IF Mine(n, m) THEN UseMessage(n, m) /\ UNCHANGED <<link, notFound>>
             ELSE SendMessage(n, m) /\ UNCHANGED tables
          /\ inHand' = IF ~Mine(n, m) /\ m.dest = 0
                       THEN [inHand EXCEPT ![n] = <<m>>] ELSE inHand
    /\ UNCHANGED <<accepted, msgOut, wires, users>>

\* mutant: a forwarded message is not used
ForgetForwarded(n) ==
    /\ inHand[n] # <<>>
    /\ inHand' = [inHand EXCEPT ![n] = <<>>]
    /\ UNCHANGED <<tables, accepted, msgOut, msgIn, sending, wires, users>>

UseForwarded(n) ==
    /\ inHand[n] # <<>>
    /\ inHand' = [inHand EXCEPT ![n] = <<>>]
    /\ UseMessage(n, inHand[n][1])
    /\ UNCHANGED <<accepted, msgOut, msgIn, link, notFound, wires, users>>

-----------------------------------------------------------------------------
(* Rem.                                                                    *)

\* every connection is dropped, with it the sockets that were still open
RemoveSelf(n) ==
    /\ connected' = [connected EXCEPT ![n] = "reset"]
    /\ idsFromServer' = [idsFromServer EXCEPT ![n] = <<>>]
    /\ directClients' = [directClients EXCEPT ![n] = <<>>]
    /\ clientToDirectClient' = [clientToDirectClient EXCEPT ![n] = <<>>]
    /\ open' = {l \in open : l[1] # n}
    /\ link' = [l \in Links |-> IF l[2] = n THEN <<>> ELSE link[l]]
    /\ UNCHANGED lost

Entered(c) ==
    /\ connected[c] = "up"
    /\ myId[c] # 0
    /\ \E i \in DOMAIN directClients[Parent[c]] : directClients[Parent[c]][i] = c
Settled(n) == \A c \in Clients : n \in Within[c] => Entered(c)

\* a direct client: it and the ids behind it are forgotten, and the notice
\* names it, then all of them (it is one of them)
RemoveDirect(n, id) ==
    LET c == directClients[n][id]
        behind == {x \in DOMAIN clientToDirectClient[n] :
                      clientToDirectClient[n][x] = id}
        msg == Closed(n, <<id>> \o Keys(Restrict(clientToDirectClient[n], behind)))
        to == Route(n, msg) \ {c}
    IN /\ clientToDirectClient' = [clientToDirectClient EXCEPT ![n] =
              Restrict(@, DOMAIN @ \ behind)]
       /\ directClients' = [directClients EXCEPT ![n] = Restrict(@, DOMAIN @ \ {id})]
       /\ open' = open \ {<<n, c>>}
       /\ link' = [Sent(n, msg, to) EXCEPT ![<<c, n>>] = <<>>]
       /\ clientsToRemove' = [clientsToRemove EXCEPT ![n] =
              Tail(@) \o Unsent(n, msg, to)]
       /\ lost' = lost \cup {[at |-> n, client |-> c,
                              joined |-> {k \in Nodes : Settled(k)}]}
       /\ UNCHANGED <<connected, idsFromServer>>

RemoveOther(n, id) ==
    /\ IF id \in ToSet(idsFromServer[n])
       THEN /\ \E i \in DOMAIN idsFromServer[n] :
                  /\ idsFromServer[n][i] = id
                  /\ \A j \in 1..i - 1 : idsFromServer[n][j] # id
                  /\ idsFromServer' = [idsFromServer EXCEPT ![n] = RemoveAt(@, i)]
            /\ UNCHANGED clientToDirectClient
       ELSE /\ clientToDirectClient' = [clientToDirectClient EXCEPT ![n] =
                   Restrict(@, DOMAIN @ \ {id})]
            /\ UNCHANGED idsFromServer
    /\ UNCHANGED <<connected, directClients, open, link, lost>>

HandleRemoveClients(n) ==
    /\ clientsToRemove[n] # <<>>
    /\ LET id == Head(clientsToRemove[n])
           pop == clientsToRemove' = [clientsToRemove EXCEPT ![n] = Tail(@)]
       IN IF id = myId[n] THEN RemoveSelf(n) /\ pop
          ELSE IF id \in DOMAIN directClients[n] THEN RemoveDirect(n, id)
          ELSE RemoveOther(n, id) /\ pop
    /\ UNCHANGED <<myId, serverId, serverConn, announced, used, removed, drawn,
                   clientConn, accepting, queues, notFound, lastBody, submitted>>

-----------------------------------------------------------------------------
(* The user calls addMessageToMessageOut.  A client's user puts in the id  *)
(* onConnectionAdded gave it; the root's user never learns its own id.     *)
(* Destinations are everybody (0) or an id the user was told of.           *)
Submit(n) ==
    /\ Len(submitted) < MaxSubmit
    /\ myId[n] # 0
    /\ \E dest \in {0} \cup (announced[n] \ {myId[n]}) :
          LET tag == Len(submitted) + 1
              src == IF n = Root THEN 0 ELSE myId[n]
          IN /\ msgOut' = [msgOut EXCEPT ![n] = Append(@,
                    [dest |-> dest, src |-> src, kind |-> "user", body |-> <<tag>>])]
             /\ submitted' = Append(submitted,
                    [from |-> n, dest |-> dest,
                     settled |-> {k \in Nodes : Settled(k)}])
    /\ UNCHANGED <<tables, accepted, msgIn, inHand, sending, wires, lost>>

-----------------------------------------------------------------------------
Joining ==
    \/ StartRoot
    \/ \E c \in Clients : Dial(c)

\* mutant: messages are taken in while the accept handler runs
ContextOverlapping(n) ==
    \/ \E c \in Children(n) : Accept(c)
    \/ AcceptList(n)
    \/ AcceptInsert(n)
    \/ \E l \in Links : l[2] = n /\ Deliver(l)

Context(n) ==
    \/ \E c \in Children(n) : Accept(c)
    \/ AcceptList(n)
    \/ AcceptInsert(n)
    \/ /\ accepting[n] = NotAccepting
       /\ \E l \in Links : l[2] = n /\ (Deliver(l) \/ NoticesPeer(n, l[1]))

In(n) == ReciveMessage(n) \/ UseForwarded(n)

Working ==
    \/ Joining
    \/ \E n \in Nodes : Context(n) \/ HandleOut(n) \/ In(n) \/ HandleRemoveClients(n)

Next ==
    \/ Working
    \/ \E n \in Users : Submit(n)
    \/ \E n, m \in Nodes : accepting[n] = NotAccepting /\ Fails(n, m)

Spec == Init /\ [][Next]_vars

(* Nodes are started, and the threads of a node go on while they have      *)
(* something to do; nobody has to submit anything, no socket has to fail.  *)
(* This asks only that somebody goes on, which is less than each thread    *)
(* going on, and enough here because the work is finite.  The read that is *)
(* always armed notices a peer that has closed (Connection).  The lost     *)
(* wake-up of TSQueue is left out: it delays a message until the next one. *)
Fairness == WF_vars(Working)

-----------------------------------------------------------------------------
\* the id a node was given, known to the tree before the node itself
IdOf(n) == IF n = Root THEN myId[n] ELSE clientConn[n].otherId
Owners(id) == {n \in Nodes : IdOf(n) = id}

(* The connection between a client and its server works at both ends.      *)
Linked(c) == {<<c, Parent[c]>>, <<Parent[c], c>>} \subseteq open

(* What routing by ids can rest on, and buildId does not give: no two      *)
(* nodes have the same id, no id is a number a user's message carries, and *)
(* no server accepted a client before it had an id of its own.             *)
ProperIds ==
    /\ \A n, k \in Nodes : IdOf(n) # 0 /\ IdOf(n) = IdOf(k) => n = k
    /\ \A n \in Nodes : IdOf(n) \notin 1..MaxSubmit
    /\ \A c \in Clients : IdOf(c) # 0 => clientConn[c].myId # 0

\* no connection that was there has been lost
Unbroken == \A c \in Clients : IdOf(c) # 0 => Linked(c)

(* Constants that give proper ids.  Every process draws the same numbers,  *)
(* since nobody seeds rand(): only a tree with one server is sure to have  *)
(* them, as far as that server's numbers do not repeat.  In a deeper tree  *)
(* the first client of a client gets the root's id, unless the clients'    *)
(* processes draw other numbers than their servers'.                       *)
Servers == {n \in Nodes : n = Root \/ Children(n) # {}}
FreshDraws == \A n, m \in Servers : \A i \in DOMAIN Rand[n] : \A j \in DOMAIN Rand[m] :
    /\ Rand[n][i] > MaxSubmit
    /\ Rand[n][i] = Rand[m][j] => n = m /\ i = j
StartedInOrder == \A c \in Clients : Parent[c] # Root => Parent[c] \in After[c]

Message == [dest : Nat, src : Nat, kind : {"new", "gone", "user"}, body : Seq(Nat)]
IsMap(f, V) == DOMAIN f \subseteq Nat /\ \A k \in DOMAIN f : f[k] \in V

(* Types of all variables; nothing is on its way to a closed socket.       *)
TypeOK ==
    /\ myId \in [Nodes -> Nat] /\ serverId \in [Nodes -> Nat]
    /\ idsFromServer \in [Nodes -> Seq(Nat)]
    /\ serverConn \in [Nodes -> [myId : Nat, otherId : Nat]]
    /\ clientConn \in [Nodes -> [myId : Nat, otherId : Nat]]
    /\ \A n \in Nodes : drawn[n] \in 0..Len(Rand[n])
    /\ connected \in [Nodes -> {"none", "dialed", "up", "reset"}]
    /\ \A n \in Nodes : IsMap(clientToDirectClient[n], Nat)
    /\ \A n \in Nodes : IsMap(directClients[n], Children(n))
    /\ \A n \in Nodes : accepting[n].at \in {"no", "listing", "inserting"}
    /\ msgOut \in [Nodes -> Seq(Message)] /\ msgIn \in [Nodes -> Seq(Message)]
    /\ inHand \in [Nodes -> Seq(Message)]
    /\ clientsToRemove \in [Nodes -> Seq(Nat)] /\ removed \in [Nodes -> Seq(Nat)]
    /\ open \subseteq Links
    /\ \A l \in Links : link[l] # <<>> => <<l[2], l[1]>> \in open
    /\ link \in [Links -> Seq(Message)] /\ lastBody \in [Links -> Seq(Nat)]
    /\ \A n \in Nodes : announced[n] \subseteq Nat
    /\ used \in [Nodes -> Seq(1..MaxSubmit)]
    /\ notFound \subseteq Message

(* The tables never send a message the wrong way: an id filed under a      *)
(* client is of a node at or below that client, and an id filed as coming  *)
(* from the server is not of a node below.                                 *)
RoutesLead == \A n \in Nodes :
    /\ \A x \in DOMAIN clientToDirectClient[n] :
          \E c \in Children(n) : /\ IdOf(c) = clientToDirectClient[n][x]
                                 /\ Owners(x) \subseteq Within[c]
    /\ \A x \in ToSet(idsFromServer[n]) :
          Owners(x) \cap (Within[n] \ {n}) = {}

Cut(n, m) == \E c \in Clients : ~Linked(c) /\ (n \in Within[c]) # (m \in Within[c])

(* onConnectionRemoved is called only for a node that is cut off from the  *)
(* caller, on the root's side of the cut: nobody is declared lost while    *)
(* the connections to it work, and no node removes itself.                 *)
RemovedAreCut == \A n \in Nodes : \A x \in ToSet(removed[n]) :
    \E c \in Clients : ~Linked(c) /\ n \notin Within[c] /\ Owners(x) \subseteq Within[c]

(* For a connection that is lost a node is told of the client at its other *)
(* end twice (the notice names it twice) and of the nodes behind it once.  *)
Told(n, x) == Cardinality({i \in DOMAIN removed[n] : removed[n][i] = x})
LossToldOnce == \A n \in Nodes : \A k \in Clients : IdOf(k) # 0 =>
    Told(n, IdOf(k)) <= Cardinality({c \in Clients : k \in Within[c] /\ ~Linked(c)})
                        + (IF Linked(k) THEN 0 ELSE 1)

(* Removing a direct client is told to every node that had joined by then  *)
(* and is not cut off itself.                                              *)
AllTold == \A r \in lost : \A k \in r.joined \ {r.at} :
    Cut(r.at, k) \/ IdOf(r.client) \in ToSet(removed[k])
LossSpreads == lost # {} ~> AllTold

(* Nobody gets a message twice, its sender does not get it back, and a     *)
(* message to one node is used by that node alone.  A user may also write  *)
(* to what is no node's id; whoever uses that, no node was meant by it.    *)
UsedOnceWhereMeant == \A n \in Nodes :
    /\ \A i, j \in DOMAIN used[n] : used[n][i] = used[n][j] => i = j
    /\ \A i \in DOMAIN used[n] :
          LET s == submitted[used[n][i]]
          IN n # s.from /\ (s.dest = 0 \/ Owners(s.dest) \subseteq {n})

(* `msg >> tempId' takes four bytes that are there, although the list for  *)
(* the first client of a fresh root is empty: the body left in the         *)
(* connection by the notice before stands in for it.                       *)
NoticesHaveBodies == \A n \in Nodes : \A i \in DOMAIN msgIn[n] :
    msgIn[n][i].kind = "new" => msgIn[n][i].body # <<>>

(* A message to one node is used or reported as undeliverable; where it    *)
(* may be used is UsedOnceWhereMeant's.                                    *)
Submitted(t, dests) == t \in DOMAIN submitted /\ submitted[t].dest \in dests
Answered(t) ==
    \/ \E m \in notFound : m.kind = "user" /\ m.body = <<t>>
    \/ \E n \in Nodes : t \in ToSet(used[n])
NoSilentLoss == \A t \in 1..MaxSubmit :
    Submitted(t, Nat \ {0}) ~> Answered(t)

(* A message to everybody reaches every node that had joined, with all the *)
(* nodes between it and the root, when it was sent.                        *)
ReachedAll(t) ==
    /\ Submitted(t, {0})
    /\ \A n \in submitted[t].settled \ {submitted[t].from} : t \in ToSet(used[n])
BroadcastReachesAll == \A t \in 1..MaxSubmit : Submitted(t, {0}) ~> ReachedAll(t)

Knows(n) == ToSet(idsFromServer[n]) \cup DOMAIN clientToDirectClient[n]

(* NetzwerkKernal.h says of the notice sent for a client that it reports   *)
(* that the client was added: when nothing is on its way any more, every   *)
(* node has been told of every other.                                      *)
Quiet ==
    /\ \A c \in Clients : connected[c] = "up"
    /\ \A n \in Nodes : /\ accepting[n] = NotAccepting
                        /\ msgOut[n] = <<>> /\ msgIn[n] = <<>> /\ inHand[n] = <<>>
    /\ \A l \in Links : link[l] = <<>>
KnownWhenQuiet == Quiet => \A n, m \in Nodes : n # m => IdOf(m) \in Knows(n)

(* The notice goes out before the maps are changed, by another thread, yet *)
(* a node's id that a user was told of is never reported as unknown: until *)
(* the maps are changed the io_context is busy and takes in no answer.     *)
(* Users are told of ids that no node has, too: the first client of a root *)
(* reads its empty list from the body of the message before, which may be  *)
(* a user's.                                                               *)
AnnouncedIsReachable == \A m \in notFound : m.kind = "user" => Owners(m.dest) = {}
=============================================================================
