----------------------------- MODULE Connection -----------------------------
(***************************************************************************)
(* netzwerk::connection (Netzwerk/connection.h): the two ends of a TCP     *)
(* connection, each an asio state machine.  An operation started on a      *)
(* socket is carried out by the system and its completion handler runs     *)
(* later, alone, on the thread that runs the end's io_context; functions   *)
(* posted to that context run in the order they were posted.               *)
(*                                                                         *)
(* Data: the code looks at nothing of a message but its header's size and  *)
(* its body's size, so a message is the end whose owner made it and its    *)
(* number in the order of Send calls there, and a header carries these two *)
(* and whether header.size > 0.  async_read and async_write move one       *)
(* header or one body as a whole.                                          *)
(*                                                                         *)
(* After an end is destroyed its handlers and posted functions still name  *)
(* it: running one is undefined, and a destroyed end takes no more steps.  *)
(***************************************************************************)
EXTENDS Naturals, Sequences

CONSTANTS
    Dialers,     \* ends that call ConnectToListener
    Listeners,   \* ends made by the accept handler
    Peer,        \* the other end of an end's connection
    MaxSend,     \* bound: Send calls per end
    Sized,       \* what a message may be: with a body (TRUE), empty (FALSE)
    Faults       \* what the environment and the owner may do; see AllFaults

Ends == Dialers \cup Listeners

\* "early"       the owner sends on a socket that is not connected yet
\* "disconnect"  the owner calls Disconnect
\* "unreachable" connecting fails
\* "break"       the network fails
\* "refuse"      onConnect answers false
\* "release"     the owner drops its pointer to a closed connection
AllFaults == {"early", "disconnect", "unreachable", "break", "refuse", "release"}

ASSUME EndsAssumption ==
    /\ Dialers \cap Listeners = {}
    /\ Peer \in [Ends -> Ends]
    /\ \A d \in Dialers : Peer[d] \in Listeners /\ Peer[Peer[d]] = d
    /\ \A l \in Listeners : Peer[l] \in Dialers /\ Peer[Peer[l]] = l

ASSUME ConnectionBounds ==
    /\ MaxSend \in [Ends -> Nat]
    /\ Sized \subseteq BOOLEAN
    /\ Faults \subseteq AllFaults

VARIABLES
    sock,        \* m_socket
    alive,       \* the connection object exists
    broken,      \* ends whose network has failed
    connectOp,   \* async_connect: its status
    readOp,      \* async_read: which part is read, and its status
    writeOp,     \* async_write: which part is written, and its status
    posted,      \* functions posted to the context, in order
    messagesOut, \* m_qMessagesOut
    temporaryIn, \* m_msgTemporaryIn
    messagesIn,  \* everything pushed to m_qMessagesIn, in order
    pipe,        \* what the end wrote and its peer has not read
    sent         \* history: the headers given to Send, in order

vars == <<sock, alive, broken, connectOp, readOp, writeOp, posted,
          messagesOut, temporaryIn, messagesIn, pipe, sent>>
ops == <<connectOp, readOp, writeOp>>
owner == <<alive, broken>>
data == <<posted, messagesOut, temporaryIn, messagesIn, pipe, sent>>

NoBody == 0
Headers == [from : Ends, num : Nat, sized : BOOLEAN]
Messages == [header : Headers, body : Nat]
Status == {"none", "pending", "done", "failed"}
Parts == {"header", "body"}
Operation == [part : Parts, st : Status]
Chunk == [part : Parts, msg : Messages]

\* what Send is called with: operator<< keeps header.size = body.size()
Message(e, n, sized) == [header |-> [from |-> e, num |-> n, sized |-> sized],
                         body |-> IF sized THEN n ELSE NoBody]
\* the message every connection and every call begins with
Blank(e) == Message(e, 0, FALSE)
PostSend(m) == [kind |-> "send", msg |-> m]
PostClose(e) == [kind |-> "close", msg |-> Blank(e)]

\* m_socket.is_open(): true from the first connect attempt on, and still
\* true after connecting failed
IsConnected(e) == sock[e] \in {"connecting", "unreachable", "connected"}

Idle == [part |-> "header", st |-> "none"]

\* an operation started now; it fails at once unless the socket is connected
Started(e, part) ==
    [part |-> part, st |-> IF sock[e] = "connected" THEN "pending" ELSE "failed"]

Finished(op, st) == [op EXCEPT !.st = st]

\* close() makes an operation that has not completed complete with an error
Aborted(op) == IF op.st = "pending" THEN Finished(op, "failed") ELSE op

Init ==
    /\ sock = [e \in Ends |-> "none"]
    /\ alive = [e \in Ends |-> TRUE]
    /\ broken = {}
    /\ connectOp = [e \in Ends |-> Idle]
    /\ readOp = [e \in Ends |-> Idle]
    /\ writeOp = [e \in Ends |-> Idle]
    /\ posted = [e \in Ends |-> <<>>]
    /\ messagesOut = [e \in Ends |-> <<>>]
    /\ temporaryIn = [e \in Ends |-> Blank(e)]
    /\ messagesIn = [e \in Ends |-> <<>>]
    /\ pipe = [e \in Ends |-> <<>>]
    /\ sent = [e \in Ends |-> <<>>]

-----------------------------------------------------------------------------
(* Connecting.                                                             *)

ConnectToListener(e) ==
    /\ e \in Dialers
    /\ sock[e] = "none"
    /\ sock' = [sock EXCEPT ![e] = "connecting"]
    /\ connectOp' = [connectOp EXCEPT ![e].st = "pending"]
    /\ UNCHANGED <<owner, readOp, writeOp, data>>

\* the handshake is over; the listener has not accepted yet
Established(e) ==
    /\ connectOp[e].st = "pending"
    /\ sock' = [sock EXCEPT ![e] = "connected", ![Peer[e]] = "backlog"]
    /\ connectOp' = [connectOp EXCEPT ![e].st = "done"]
    /\ UNCHANGED <<owner, readOp, writeOp, data>>

ConnectFails(e) ==
    /\ "unreachable" \in Faults
    /\ connectOp[e].st = "pending"
    /\ sock' = [sock EXCEPT ![e] = "unreachable"]
    /\ connectOp' = [connectOp EXCEPT ![e].st = "failed"]
    /\ UNCHANGED <<owner, readOp, writeOp, data>>

\* the handler of async_connect starts reading, or does nothing at all: also
\* if the socket was closed after the connect had completed
ConnectHandler(e) ==
    /\ alive[e]
    /\ connectOp[e].st \in {"done", "failed"}
    /\ connectOp' = [connectOp EXCEPT ![e].st = "none"]
    /\ readOp' = IF connectOp[e].st = "done" /\ IsConnected(e)
                 THEN [readOp EXCEPT ![e] = Started(e, "header")]
                 ELSE readOp
    /\ UNCHANGED <<sock, owner, writeOp, data>>

\* the accept handler approves: ConnectFromListener
ConnectFromListener(e) ==
    /\ sock[e] = "backlog"
    /\ sock' = [sock EXCEPT ![e] = "connected"]
    /\ readOp' = [readOp EXCEPT ![e] = [part |-> "header", st |-> "pending"]]
    /\ UNCHANGED <<owner, connectOp, writeOp, data>>

\* the accept handler denies: RefuseFromListener posts the close, then the
\* only pointer to the connection goes out of scope
RefuseFromListener(e) ==
    /\ "refuse" \in Faults
    /\ sock[e] = "backlog"
    /\ sock' = [sock EXCEPT ![e] = "closed"]
    /\ posted' = [posted EXCEPT ![e] = Append(@, PostClose(e))]
    /\ alive' = [alive EXCEPT ![e] = FALSE]
    /\ UNCHANGED <<broken, ops, messagesOut, temporaryIn, messagesIn,
                   pipe, sent>>

-----------------------------------------------------------------------------
(* Calls of the owner, from any thread.                                    *)

Send(e) ==
    /\ alive[e]
    /\ IsConnected(e)
    /\ "early" \in Faults \/ sock[e] = "connected"
    /\ Len(sent[e]) < MaxSend[e]
    /\ \E sized \in Sized :
           LET m == Message(e, Len(sent[e]) + 1, sized)
           IN /\ posted' = [posted EXCEPT ![e] = Append(@, PostSend(m))]
              /\ sent' = [sent EXCEPT ![e] = Append(@, m.header)]
    /\ UNCHANGED <<sock, owner, ops, messagesOut, temporaryIn, messagesIn,
                   pipe>>

\* one posted close is enough: a second one finds the socket closed
Disconnect(e) ==
    /\ "disconnect" \in Faults
    /\ alive[e]
    /\ IsConnected(e)
    /\ PostClose(e) \notin {posted[e][i] : i \in DOMAIN posted[e]}
    /\ posted' = [posted EXCEPT ![e] = Append(@, PostClose(e))]
    /\ UNCHANGED <<sock, owner, ops, messagesOut, temporaryIn, messagesIn,
                   pipe, sent>>

\* NetzwerkKernal forgets a connection it found closed (removeClient,
\* removeSelf); the destructor closes the socket, so handlers of
\* operations that had not completed are still to come
Release(e) ==
    /\ "release" \in Faults
    /\ alive[e]
    /\ sock[e] = "closed"
    /\ alive' = [alive EXCEPT ![e] = FALSE]
    /\ UNCHANGED <<sock, broken, ops, data>>

-----------------------------------------------------------------------------
(* Posted functions and handlers.                                          *)

\* the close of the socket within a handler that leaves the operations as
\* c, r and w
Close(e, c, r, w) ==
    /\ sock' = [sock EXCEPT ![e] = "closed"]
    /\ connectOp' = [connectOp EXCEPT ![e] = Aborted(c)]
    /\ readOp' = [readOp EXCEPT ![e] = Aborted(r)]
    /\ writeOp' = [writeOp EXCEPT ![e] = Aborted(w)]

\* the lambda of Disconnect
RunClose(e) ==
    /\ alive[e]
    /\ posted[e] # <<>>
    /\ Head(posted[e]) = PostClose(e)
    /\ posted' = [posted EXCEPT ![e] = Tail(@)]
    /\ Close(e, connectOp[e], readOp[e], writeOp[e])
    /\ UNCHANGED <<owner, messagesOut, temporaryIn, messagesIn, pipe, sent>>

\* the lambda of Send; only the first message in the queue starts a write
RunSendStarting(e, first) ==
    /\ alive[e]
    /\ posted[e] # <<>>
    /\ Head(posted[e]).kind = "send"
    /\ posted' = [posted EXCEPT ![e] = Tail(@)]
    /\ messagesOut' = [messagesOut EXCEPT ![e] = Append(@, Head(posted[e]).msg)]
    /\ writeOp' = IF first
                  THEN [writeOp EXCEPT ![e] = Started(e, "header")]
                  ELSE writeOp
    /\ UNCHANGED <<sock, owner, connectOp, readOp, temporaryIn,
                   messagesIn, pipe, sent>>

\* mutant: the wrong branch starts the write
RunSendSwapped(e) == RunSendStarting(e, messagesOut[e] # <<>>)
RunSend(e) == RunSendStarting(e, messagesOut[e] = <<>>)

\* the handlers of WriteHeader and WriteBody without an error: go on with
\* the body, or leave m_qMessagesOut as `left' and go on with the next
WriteNext(e, toBody, left) ==
    /\ alive[e]
    /\ writeOp[e].st = "done"
    /\ messagesOut' = [messagesOut EXCEPT ![e] = IF toBody THEN @ ELSE left]
    /\ writeOp' = [writeOp EXCEPT ![e] =
                      IF toBody THEN Started(e, "body")
                      ELSE IF left # <<>> THEN Started(e, "header")
                      ELSE Finished(@, "none")]
    /\ UNCHANGED <<sock, owner, connectOp, readOp, posted, temporaryIn,
                   messagesIn, pipe, sent>>

HasBodyToWrite(e) ==
    writeOp[e].part = "header" /\ Head(messagesOut[e]).body # NoBody

\* mutants: the body is forgotten; the written message is not popped
WriteHandlerNoBody(e) == WriteNext(e, FALSE, Tail(messagesOut[e]))
WriteHandlerNoPop(e) == WriteNext(e, HasBodyToWrite(e), messagesOut[e])
WriteHandler(e) == WriteNext(e, HasBodyToWrite(e), Tail(messagesOut[e]))

\* with an error they close the socket; the message stays in the queue
WriteErrorHandler(e) ==
    /\ alive[e]
    /\ writeOp[e].st = "failed"
    /\ Close(e, connectOp[e], readOp[e], Finished(writeOp[e], "none"))
    /\ UNCHANGED <<owner, data>>

\* the handlers of ReadHeader and ReadBody without an error: go on with
\* the body, or push m_msgTemporaryIn as it is and go on with `next'
ReadNext(e, toBody, next) ==
    /\ alive[e]
    /\ readOp[e].st = "done"
    /\ messagesIn' = IF toBody THEN messagesIn
                     ELSE [messagesIn EXCEPT ![e] = Append(@, temporaryIn[e])]
    /\ readOp' = [readOp EXCEPT ![e] = IF toBody THEN Started(e, "body") ELSE next]
    /\ UNCHANGED <<sock, owner, connectOp, writeOp, posted, messagesOut,
                   temporaryIn, pipe, sent>>

HasBodyToRead(e) == readOp[e].part = "header" /\ temporaryIn[e].header.sized

\* mutant: AddToIncomingMessageQueue reads no more
ReadHandlerOnce(e) == ReadNext(e, HasBodyToRead(e), Idle)
ReadHandler(e) == ReadNext(e, HasBodyToRead(e), Started(e, "header"))

\* mutant: the socket stays open
ReadErrorIgnored(e) ==
    /\ alive[e]
    /\ readOp[e].st = "failed"
    /\ readOp' = [readOp EXCEPT ![e] = Finished(@, "none")]
    /\ UNCHANGED <<sock, owner, connectOp, writeOp, data>>

\* mutant: what has been read so far is pushed all the same
ReadErrorPushes(e) ==
    /\ alive[e]
    /\ readOp[e].st = "failed"
    /\ messagesIn' = [messagesIn EXCEPT ![e] = Append(@, temporaryIn[e])]
    /\ Close(e, connectOp[e], Finished(readOp[e], "none"), writeOp[e])
    /\ UNCHANGED <<owner, posted, messagesOut, temporaryIn, pipe, sent>>

ReadErrorHandler(e) ==
    /\ alive[e]
    /\ readOp[e].st = "failed"
    /\ Close(e, connectOp[e], Finished(readOp[e], "none"), writeOp[e])
    /\ UNCHANGED <<owner, data>>

-----------------------------------------------------------------------------
(* The system carries out the operations.                                  *)

Transmit(e) ==
    /\ writeOp[e].st = "pending"
    /\ pipe' = [pipe EXCEPT ![e] =
                   Append(@, [part |-> writeOp[e].part, msg |-> Head(messagesOut[e])])]
    /\ writeOp' = [writeOp EXCEPT ![e].st = "done"]
    /\ UNCHANGED <<sock, owner, connectOp, readOp, posted, messagesOut,
                   temporaryIn, messagesIn, sent>>

\* the next bytes land in m_msgTemporaryIn.  StreamInSync says that they
\* are the part the read is for.
Arrive(e) ==
    /\ readOp[e].st = "pending"
    /\ pipe[Peer[e]] # <<>>
    /\ LET chunk == Head(pipe[Peer[e]])
       IN /\ chunk.part = readOp[e].part
          /\ temporaryIn' = [temporaryIn EXCEPT ![e] =
                 IF chunk.part = "header"
                 THEN [@ EXCEPT !.header = chunk.msg.header]
                 ELSE [@ EXCEPT !.body = chunk.msg.body]]
    /\ pipe' = [pipe EXCEPT ![Peer[e]] = Tail(@)]
    /\ readOp' = [readOp EXCEPT ![e].st = "done"]
    /\ UNCHANGED <<sock, owner, connectOp, writeOp, posted, messagesOut,
                   messagesIn, sent>>

BreakNetwork(e) ==
    /\ "break" \in Faults
    /\ sock[e] = "connected"
    /\ broken' = broken \cup {e, Peer[e]}
    /\ UNCHANGED <<sock, alive, ops, data>>

\* the end of the stream, once the peer's data is used up
ReadEnd(e) ==
    /\ readOp[e].st = "pending"
    /\ sock[Peer[e]] = "closed"
    /\ pipe[Peer[e]] = <<>>
    /\ readOp' = [readOp EXCEPT ![e].st = "failed"]
    /\ UNCHANGED <<sock, owner, connectOp, writeOp, data>>

\* a reset: possible before the peer's data is used up
ReadReset(e) ==
    /\ readOp[e].st = "pending"
    /\ sock[Peer[e]] = "closed" \/ e \in broken
    /\ readOp' = [readOp EXCEPT ![e].st = "failed"]
    /\ UNCHANGED <<sock, owner, connectOp, writeOp, data>>

WriteReset(e) ==
    /\ writeOp[e].st = "pending"
    /\ sock[Peer[e]] = "closed" \/ e \in broken
    /\ writeOp' = [writeOp EXCEPT ![e].st = "failed"]
    /\ UNCHANGED <<sock, owner, connectOp, readOp, data>>

-----------------------------------------------------------------------------
Connecting(e) ==
    \/ ConnectToListener(e)
    \/ Established(e)
    \/ ConnectHandler(e)
    \/ ConnectFromListener(e)

RunPosted(e) == RunClose(e) \/ RunSend(e)
Writing(e) == WriteHandler(e) \/ WriteErrorHandler(e) \/ Transmit(e)
Reading(e) == ReadHandler(e) \/ ReadErrorHandler(e) \/ Arrive(e) \/ ReadEnd(e)

Environment(e) ==
    \/ ConnectFails(e)
    \/ RefuseFromListener(e)
    \/ Send(e)
    \/ Disconnect(e)
    \/ Release(e)
    \/ BreakNetwork(e)
    \/ ReadReset(e)
    \/ WriteReset(e)

Next == \E e \in Ends :
    Connecting(e) \/ RunPosted(e) \/ Writing(e) \/ Reading(e) \/ Environment(e)

Spec == Init /\ [][Next]_vars

(* The context thread serves every ready handler and posted function in    *)
(* turn and TCP delivers what it accepted.  Nothing makes an owner send or *)
(* close, and nothing makes a failure show itself early.                   *)
Fairness == \A e \in Ends :
    /\ WF_vars(Connecting(e))
    /\ WF_vars(RunPosted(e))
    /\ WF_vars(Writing(e))
    /\ WF_vars(Reading(e))

FairSpec == Spec /\ Fairness

-----------------------------------------------------------------------------
Outstanding(op) == op.st # "none"

Types ==
    /\ sock \in [Ends -> {"none", "connecting", "unreachable", "backlog",
                          "connected", "closed"}]
    /\ alive \in [Ends -> BOOLEAN]
    /\ broken \subseteq Ends
    /\ connectOp \in [Ends -> Operation]
    /\ readOp \in [Ends -> Operation]
    /\ writeOp \in [Ends -> Operation]
    /\ posted \in [Ends -> Seq([kind : {"send", "close"}, msg : Messages])]
    /\ messagesOut \in [Ends -> Seq(Messages)]
    /\ temporaryIn \in [Ends -> Messages]
    /\ messagesIn \in [Ends -> Seq(Messages)]
    /\ pipe \in [Ends -> Seq(Chunk)]
    /\ sent \in [Ends -> Seq(Headers)]

(* Types of all variables, and nothing is pushed to m_qMessagesIn before a *)
(* header was read into m_msgTemporaryIn, also when an operation fails.    *)
TypeOK ==
    /\ Types
    /\ messagesIn \in [Ends -> Seq({m \in Messages : m.header.num > 0})]

(* The chain of write handlers restarts itself through m_qMessagesOut: a   *)
(* write handler always finds the message it wrote at the front, and while *)
(* the socket is open a queued message always has a write on its way.      *)
WritePump == \A e \in Ends :
    /\ Outstanding(writeOp[e]) => messagesOut[e] # <<>>
    /\ IsConnected(e) /\ messagesOut[e] # <<>> => Outstanding(writeOp[e])

(* A connected socket always has a read on its way, or the connect handler *)
(* that will start it: no message and no loss of the peer goes unseen.     *)
ReadArmed == \A e \in Ends :
    sock[e] = "connected" => Outstanding(readOp[e]) \/ Outstanding(connectOp[e])

(* Reader and writer agree on the boundaries of the stream: what arrives   *)
(* next is the part that is being read.                                    *)
StreamInSync == \A e \in Ends :
    readOp[e].st = "pending" /\ pipe[Peer[e]] # <<>>
        => Head(pipe[Peer[e]]).part = readOp[e].part

(* asio/read.hpp and asio/write.hpp on the buffers of an asynchronous      *)
(* operation: the caller "must guarantee that they remain valid until the  *)
(* handler is called".  The buffers are members of the connection.         *)
BuffersOutliveOperations == \A e \in Ends :
    ~alive[e] => ~(Outstanding(readOp[e]) \/ Outstanding(writeOp[e]))

(* While the network works, an end does not stay connected to a peer that  *)
(* has closed, whoever closed first and whatever was being written.        *)
CloseNoticed == \A e \in Ends :
    (sock[e] = "closed") ~>
        e \in broken \/ sock[Peer[e]] \in {"none", "closed", "unreachable"}

(* Each direction is a channel: the headers delivered at one end are those *)
(* sent at the other, in order and without a gap.                          *)
Delivered(e) == [i \in DOMAIN messagesIn[e] |-> messagesIn[e][i].header]
Chan(e) == INSTANCE Channel WITH
               Msgs <- [from : {e}, num : 1..MaxSend[e], sized : BOOLEAN],
               sent <- sent[e], received <- Delivered(Peer[e])
ImplementsChannel ==
    /\ \A e \in Ends : Chan(e)!Init
    /\ [][\A e \in Ends : Chan(e)!Next \/ UNCHANGED Chan(e)!chanVars]_<<sent, messagesIn>>
=============================================================================
