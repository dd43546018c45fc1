-------------------------- MODULE ConnectionProofs --------------------------
(***************************************************************************)
(* Theorems about Connection for any number of connections, any number of  *)
(* messages and any set of faults.                                         *)
(***************************************************************************)
EXTENDS Connection, SequenceTheorems, TLAPS

USE DEF owner, data

SockStates == {"none", "connecting", "unreachable", "backlog", "connected", "closed"}
Calls == [kind : {"send", "close"}, msg : Messages]

(* An end that is not open yet has been given nothing to do.               *)
NotOpen(e) == sock[e] \in {"none", "backlog"}
NothingBeforeOpen == \A e \in Ends : NotOpen(e) =>
    posted[e] = <<>> /\ messagesOut[e] = <<>> /\ ~Outstanding(readOp[e])

(* What the status of a connect attempt says about both sockets.           *)
ConnectClauses(e) ==
    /\ connectOp[e].st = "pending" => /\ sock[e] = "connecting"
                                      /\ sock[Peer[e]] = "none"
                                      /\ e \in Dialers
    /\ connectOp[e].st = "done" => sock[e] \in {"connected", "closed"}
    /\ connectOp[e].st = "failed" => sock[e] \in {"unreachable", "closed"}
    /\ e \in Dialers /\ sock[e] = "none" => sock[Peer[e]] = "none"
    /\ e \in Dialers => sock[e] # "backlog"
ConnectStatus == \A e \in Ends : ConnectClauses(e)

ChainInv == NothingBeforeOpen /\ ConnectStatus /\ WritePump /\ ReadArmed

-----------------------------------------------------------------------------
LEMMA MessageTyped ==
    ASSUME NEW e \in Ends, NEW n \in Nat, NEW s \in BOOLEAN
    PROVE  Message(e, n, s) \in Messages
BY DEF Message, Messages, Headers, NoBody

LEMMA PostTyped ==
    /\ \A e \in Ends : PostClose(e) \in Calls
    /\ \A m \in Messages : PostSend(m) \in Calls
BY MessageTyped DEF PostClose, Blank, PostSend, Calls

LEMMA OperationTyped ==
    ASSUME NEW op \in Operation, NEW e, NEW part \in Parts
    PROVE  /\ Idle \in Operation
           /\ Started(e, part) \in Operation
           /\ Aborted(op) \in Operation
           /\ \A st \in Status : Finished(op, st) \in Operation
BY DEF Idle, Started, Aborted, Finished, Operation, Parts, Status

(* Families of sequences: empty, longer by one at one end, shorter by one. *)
LEMMA EmptyFamily ==
    ASSUME NEW S PROVE [e \in Ends |-> <<>>] \in [Ends -> Seq(S)]
OBVIOUS

LEMMA AppendFamily ==
    ASSUME NEW S, NEW f \in [Ends -> Seq(S)], NEW e \in Ends, NEW m \in S
    PROVE  [f EXCEPT ![e] = Append(@, m)] \in [Ends -> Seq(S)]
OBVIOUS

LEMMA TailFamily ==
    ASSUME NEW S, NEW f \in [Ends -> Seq(S)], NEW e \in Ends, f[e] # <<>>
    PROVE  /\ Head(f[e]) \in S
           /\ Tail(f[e]) \in Seq(S)
           /\ [f EXCEPT ![e] = Tail(@)] \in [Ends -> Seq(S)]
OBVIOUS

LEMMA InitTyped == Init => Types
<1> SUFFICES ASSUME Init PROVE Types
  OBVIOUS
<1>1. Idle \in Operation
  BY DEF Idle, Operation, Parts, Status
<1>2. \A e \in Ends : Blank(e) \in Messages
  BY MessageTyped DEF Blank
<1>3. \A S : [e \in Ends |-> <<>>] \in [Ends -> Seq(S)]
  BY EmptyFamily
<1>4. /\ posted \in [Ends -> Seq([kind : {"send", "close"}, msg : Messages])]
      /\ messagesOut \in [Ends -> Seq(Messages)]
      /\ messagesIn \in [Ends -> Seq(Messages)]
      /\ pipe \in [Ends -> Seq(Chunk)]
      /\ sent \in [Ends -> Seq(Headers)]
  BY <1>3, Zenon DEF Init
<1>5. /\ connectOp \in [Ends -> Operation]
      /\ readOp \in [Ends -> Operation]
      /\ writeOp \in [Ends -> Operation]
      /\ temporaryIn \in [Ends -> Messages]
      /\ alive \in [Ends -> BOOLEAN]
      /\ broken \subseteq Ends
  BY <1>1, <1>2 DEF Init
<1>6. sock \in [Ends -> SockStates]
  BY DEF Init, SockStates
<1> QED BY <1>4, <1>5, <1>6, Zenon DEF Types, SockStates

-----------------------------------------------------------------------------
LEMMA ConnectingTyped ==
    ASSUME Types, NEW e \in Ends, Connecting(e) \/ ConnectFails(e)
    PROVE  Types'
<1> USE DEF Types
<1>0. Peer[e] \in Ends
  BY EndsAssumption
<1>p. \A st \in Status : [connectOp EXCEPT ![e].st = st] \in [Ends -> Operation]
  BY DEF Operation
<1>1. CASE ConnectToListener(e)
  <2>1. connectOp' \in [Ends -> Operation]
    BY <1>1, <1>p DEF ConnectToListener, Status
  <2> QED BY <1>1, <2>1 DEF ConnectToListener
<1>2. CASE Established(e)
  <2>1. connectOp' \in [Ends -> Operation]
    BY <1>2, <1>p DEF Established, Status
  <2> QED BY <1>0, <1>2, <2>1 DEF Established
<1>3. CASE ConnectHandler(e)
  <2>1. connectOp' \in [Ends -> Operation]
    BY <1>3, <1>p DEF ConnectHandler, Status
  <2>2. readOp' \in [Ends -> Operation]
    BY <1>3, OperationTyped DEF ConnectHandler, Parts
  <2> QED BY <1>3, <2>1, <2>2 DEF ConnectHandler
<1>4. CASE ConnectFromListener(e)
  <2>1. readOp' \in [Ends -> Operation]
    BY <1>4 DEF ConnectFromListener, Operation, Parts, Status
  <2> QED BY <1>4, <2>1 DEF ConnectFromListener
<1>5. CASE ConnectFails(e)
  <2>1. connectOp' \in [Ends -> Operation]
    BY <1>5, <1>p DEF ConnectFails, Status
  <2> QED BY <1>5, <2>1 DEF ConnectFails
<1> QED BY <1>1, <1>2, <1>3, <1>4, <1>5 DEF Connecting

LEMMA OwnerTyped ==
    ASSUME Types, NEW e \in Ends,
           RefuseFromListener(e) \/ Send(e) \/ Disconnect(e) \/ Release(e)
    PROVE  Types'
<1> USE DEF Types
<1>0. posted \in [Ends -> Seq(Calls)]
  BY DEF Calls
<1>a. ASSUME NEW c \in Calls, posted' = [posted EXCEPT ![e] = Append(@, c)]
      PROVE  posted' \in [Ends -> Seq([kind : {"send", "close"}, msg : Messages])]
  <2>1. posted' \in [Ends -> Seq(Calls)]
    BY ONLY <1>0, <1>a, e \in Ends, AppendFamily
  <2> QED BY <2>1 DEF Calls
<1>1. CASE RefuseFromListener(e)
  BY <1>1, <1>a, PostTyped DEF RefuseFromListener, ops
<1>2. CASE Send(e)
  <2>1. PICK sized \in Sized :
          LET m == Message(e, Len(sent[e]) + 1, sized)
          IN /\ posted' = [posted EXCEPT ![e] = Append(@, PostSend(m))]
             /\ sent' = [sent EXCEPT ![e] = Append(@, m.header)]
    BY <1>2 DEF Send
  <2>2. Message(e, Len(sent[e]) + 1, sized) \in Messages
    BY ConnectionBounds, MessageTyped
  <2>3. posted' \in [Ends -> Seq([kind : {"send", "close"}, msg : Messages])]
    BY <2>1, <2>2, <1>a, PostTyped
  <2>4. sent' \in [Ends -> Seq(Headers)]
    BY <2>1, <2>2 DEF Messages
  <2> QED BY <1>2, <2>3, <2>4 DEF Send, ops
<1>3. CASE Disconnect(e)
  BY <1>3, <1>a, PostTyped DEF Disconnect, ops
<1>4. CASE Release(e)
  BY <1>4 DEF Release, ops
<1> QED BY <1>1, <1>2, <1>3, <1>4

LEMMA CloseTyped ==
    ASSUME Types, NEW e \in Ends, NEW c \in Operation, NEW r \in Operation,
           NEW w \in Operation, Close(e, c, r, w)
    PROVE  /\ sock' \in [Ends -> SockStates]
           /\ connectOp' \in [Ends -> Operation]
           /\ readOp' \in [Ends -> Operation]
           /\ writeOp' \in [Ends -> Operation]
BY OperationTyped DEF Types, Close, SockStates, Parts

LEMMA PostedTyped ==
    ASSUME Types, NEW e \in Ends, RunPosted(e)
    PROVE  Types'
<1> USE DEF Types
<1>0. posted \in [Ends -> Seq(Calls)] /\ posted[e] # <<>>
  BY DEF RunPosted, RunClose, RunSend, RunSendStarting, Calls
<1>a. /\ Head(posted[e]) \in Calls
      /\ [posted EXCEPT ![e] = Tail(@)] \in [Ends -> Seq(Calls)]
  BY ONLY <1>0, e \in Ends, TailFamily
<1>1. CASE RunClose(e)
  <2>1. posted' \in [Ends -> Seq(Calls)]
    BY <1>1, <1>a DEF RunClose
  <2> QED BY <1>1, <2>1, CloseTyped DEF RunClose, Calls, SockStates
<1>2. CASE RunSend(e)
  <2> DEFINE first == messagesOut[e] = <<>>
  <2>0. RunSendStarting(e, first)
    BY <1>2 DEF RunSend
  <2>1. posted' \in [Ends -> Seq(Calls)]
    BY <2>0, <1>a DEF RunSendStarting
  <2>2. Head(posted[e]).msg \in Messages
    BY <1>a DEF Calls
  <2>3. messagesOut' \in [Ends -> Seq(Messages)]
    BY <2>0, <2>2 DEF RunSendStarting
  <2>4. writeOp' \in [Ends -> Operation]
    BY <2>0, OperationTyped DEF RunSendStarting, Parts
  <2> QED BY <2>0, <2>1, <2>3, <2>4 DEF RunSendStarting, Calls
<1> QED BY <1>1, <1>2 DEF RunPosted

LEMMA WritingTyped ==
    ASSUME Types, WritePump, NEW e \in Ends, Writing(e) \/ WriteReset(e)
    PROVE  Types'
<1> USE DEF Types
<1>p. \A st \in Status : /\ Finished(writeOp[e], st) \in Operation
                         /\ [writeOp EXCEPT ![e].st = st] \in [Ends -> Operation]
  BY ONLY writeOp \in [Ends -> Operation], e \in Ends DEF Operation, Finished
<1>q. writeOp[e].st # "none" => messagesOut[e] # <<>>
  BY DEF WritePump, Outstanding
<1>1. CASE WriteHandler(e)
  <2> DEFINE toBody == HasBodyToWrite(e)
             left == Tail(messagesOut[e])
  <2>0. WriteNext(e, toBody, left)
    BY <1>1 DEF WriteHandler
  <2>1. left \in Seq(Messages)
    BY <1>q, <2>0 DEF WriteNext
  <2>2. messagesOut' \in [Ends -> Seq(Messages)]
    <3> HIDE DEF left, toBody
    <3> QED BY <2>0, <2>1 DEF WriteNext
  <2>3. writeOp' \in [Ends -> Operation]
    <3> HIDE DEF left, toBody
    <3> QED BY <2>0, <1>p, OperationTyped DEF WriteNext, Parts, Status
  <2> QED BY <2>0, <2>2, <2>3 DEF WriteNext
<1>2. CASE WriteErrorHandler(e)
  <2>1. Finished(writeOp[e], "none") \in Operation
    BY <1>p DEF Status
  <2> QED BY <1>2, <2>1, CloseTyped DEF WriteErrorHandler, SockStates
<1>3. CASE Transmit(e)
  <2>1. Head(messagesOut[e]) \in Messages
    BY <1>3, <1>q DEF Transmit
  <2>2. writeOp[e].part \in Parts
    BY DEF Operation
  <2>3. pipe' \in [Ends -> Seq(Chunk)]
    <3> DEFINE c == [part |-> writeOp[e].part, msg |-> Head(messagesOut[e])]
    <3>1. c \in Chunk
      BY <2>1, <2>2 DEF Chunk
    <3>2. pipe' = [pipe EXCEPT ![e] = Append(@, c)]
      BY <1>3 DEF Transmit
    <3>3. pipe \in [Ends -> Seq(Chunk)]
      OBVIOUS
    <3> HIDE DEF c
    <3> QED BY ONLY <3>1, <3>2, <3>3, e \in Ends, AppendFamily
  <2>4. writeOp' \in [Ends -> Operation]
    BY <1>3, <1>p DEF Transmit, Status
  <2> QED BY <1>3, <2>3, <2>4 DEF Transmit
<1>4. CASE WriteReset(e)
  <2>1. writeOp' \in [Ends -> Operation]
    BY <1>4, <1>p DEF WriteReset, Status
  <2> QED BY <1>4, <2>1 DEF WriteReset
<1> QED BY <1>1, <1>2, <1>3, <1>4 DEF Writing

LEMMA ReadingTyped ==
    ASSUME Types, NEW e \in Ends, Reading(e) \/ ReadReset(e)
    PROVE  Types'
<1> USE DEF Types
<1>0. Peer[e] \in Ends
  BY EndsAssumption
<1>p. \A st \in Status : /\ Finished(readOp[e], st) \in Operation
                         /\ [readOp EXCEPT ![e].st = st] \in [Ends -> Operation]
  BY ONLY readOp \in [Ends -> Operation], e \in Ends DEF Operation, Finished
<1>1. CASE ReadHandler(e)
  <2> DEFINE toBody == HasBodyToRead(e)
             next == Started(e, "header")
  <2>0. ReadNext(e, toBody, next)
    BY <1>1 DEF ReadHandler
  <2>1. messagesIn' \in [Ends -> Seq(Messages)]
    <3> HIDE DEF next, toBody
    <3> QED BY <2>0 DEF ReadNext
  <2>2. readOp' \in [Ends -> Operation]
    <3>1. next \in Operation /\ Started(e, "body") \in Operation
      BY OperationTyped DEF Parts
    <3> HIDE DEF next, toBody
    <3> QED BY <2>0, <3>1 DEF ReadNext
  <2> QED BY <2>0, <2>1, <2>2 DEF ReadNext
<1>2. CASE ReadErrorHandler(e)
  <2>1. Finished(readOp[e], "none") \in Operation
    BY <1>p DEF Status
  <2> QED BY <1>2, <2>1, CloseTyped DEF ReadErrorHandler, SockStates
<1>3. CASE Arrive(e)
  <2> DEFINE chunk == Head(pipe[Peer[e]])
  <2>1. chunk \in Chunk
    BY <1>0, <1>3 DEF Arrive
  <2>2. temporaryIn' \in [Ends -> Messages]
    BY <1>3, <2>1 DEF Arrive, Chunk, Messages
  <2>3. pipe' \in [Ends -> Seq(Chunk)]
    <3>1. /\ pipe[Peer[e]] # <<>> /\ pipe' = [pipe EXCEPT ![Peer[e]] = Tail(@)]
          /\ pipe \in [Ends -> Seq(Chunk)]
      BY <1>3 DEF Arrive
    <3> QED BY ONLY <1>0, <3>1, TailFamily
  <2>4. readOp' \in [Ends -> Operation]
    BY <1>3, <1>p DEF Arrive, Status
  <2> QED BY <1>3, <2>2, <2>3, <2>4 DEF Arrive
<1>4. CASE ReadEnd(e) \/ ReadReset(e)
  <2>1. readOp' \in [Ends -> Operation]
    BY <1>4, <1>p DEF ReadEnd, ReadReset, Status
  <2> QED BY <1>4, <2>1 DEF ReadEnd, ReadReset
<1> QED BY <1>1, <1>2, <1>3, <1>4 DEF Reading

LEMMA NextTyped == Types /\ WritePump /\ [Next]_vars => Types'
<1> SUFFICES ASSUME Types, WritePump, [Next]_vars PROVE Types'
  OBVIOUS
<1>1. CASE UNCHANGED vars
  BY <1>1 DEF vars, Types
<1>2. ASSUME NEW e \in Ends, BreakNetwork(e) PROVE Types'
  <2>1. broken' \subseteq Ends
    BY <1>2, EndsAssumption DEF BreakNetwork, Types
  <2> QED BY <1>2, <2>1 DEF BreakNetwork, Types, ops
<1> QED BY <1>1, <1>2, ConnectingTyped, OwnerTyped, PostedTyped, WritingTyped,
           ReadingTyped DEF Next, Environment

-----------------------------------------------------------------------------
(* The statuses of the operations that a step starts or ends.              *)
LEMMA StatusOf ==
    ASSUME NEW e, NEW part, NEW op \in Operation
    PROVE  /\ Outstanding(Started(e, part))
           /\ Outstanding(Aborted(op)) <=> Outstanding(op)
           /\ Aborted(op).st # "pending"
           /\ Aborted(op).st = "done" <=> op.st = "done"
           /\ ~Outstanding(Finished(op, "none"))
BY DEF Outstanding, Started, Aborted, Finished, Operation

(* Starting the next operation of a chain, or completing the present one,  *)
(* leaves an operation outstanding.                                        *)
LEMMA StartOrEnd ==
    ASSUME NEW f \in [Ends -> Operation], NEW g, NEW e \in Ends, Outstanding(f[e]),
           \/ \E part \in Parts : g = [f EXCEPT ![e] = Started(e, part)]
           \/ \E st \in {"done", "failed"} : g = [f EXCEPT ![e].st = st]
    PROVE  \A d \in Ends : Outstanding(g[d]) <=> Outstanding(f[d])
<1>1. \A d \in Ends : d # e => g[d] = f[d]
  OBVIOUS
<1>2. CASE \E part \in Parts : g = [f EXCEPT ![e] = Started(e, part)]
  <2>1. PICK part \in Parts : g = [f EXCEPT ![e] = Started(e, part)]
    BY <1>2
  <2>2. g[e] = Started(e, part)
    BY <2>1
  <2>3. Outstanding(g[e])
    BY <2>2 DEF Outstanding, Started
  <2> QED BY <1>1, <2>3
<1>3. CASE \E st \in {"done", "failed"} : g = [f EXCEPT ![e].st = st]
  <2>1. PICK st \in {"done", "failed"} : g = [f EXCEPT ![e].st = st]
    BY <1>3
  <2>2. g[e].st = st
    BY <2>1 DEF Operation
  <2>3. Outstanding(g[e])
    BY <2>2 DEF Outstanding
  <2> QED BY <1>1, <2>3
<1> QED BY <1>2, <1>3

LEMMA InitChained == Init => ChainInv
BY EndsAssumption
   DEF Init, ChainInv, NothingBeforeOpen, ConnectStatus, ConnectClauses, WritePump, ReadArmed,
       IsConnected, Outstanding, Idle

LEMMA ListenersDoNotConnect ==
    ASSUME ChainInv, NEW e \in Ends, connectOp[e].st = "pending"
    PROVE  /\ e \in Dialers
           /\ Peer[e] \in Listeners
           /\ Peer[e] \in Ends
           /\ Peer[e] \notin Dialers
           /\ sock[e] = "connecting" /\ sock[Peer[e]] = "none"
           /\ \A f \in Ends : Peer[f] = Peer[e] => f = e
           /\ \A f \in Dialers : Peer[f] # e
<1>1. e \in Dialers /\ sock[e] = "connecting" /\ sock[Peer[e]] = "none"
  BY DEF ChainInv, ConnectStatus, ConnectClauses
<1>2. \A f \in Ends : Peer[Peer[f]] = f
  BY EndsAssumption DEF Ends
<1> QED BY <1>1, <1>2, EndsAssumption DEF Ends

LEMMA EstablishedChained ==
    ASSUME Types, ChainInv, NEW e \in Ends, Established(e)
    PROVE  ChainInv'
<1> DEFINE p == Peer[e]
<1>1. /\ e \in Dialers /\ p \in Ends /\ p \notin Dialers
      /\ sock[e] = "connecting" /\ sock[p] = "none"
      /\ \A f \in Dialers : Peer[f] # e
      /\ \A f \in Ends : Peer[f] = p => f = e
  BY ListenersDoNotConnect DEF Established
<1>2. /\ UNCHANGED <<readOp, writeOp, posted, messagesOut>>
      /\ sock'[e] = "connected" /\ sock'[p] = "backlog"
      /\ \A f \in Ends : f # e /\ f # p => sock'[f] = sock[f]
      /\ connectOp'[e].st = "done"
      /\ \A f \in Ends : f # e => connectOp'[f] = connectOp[f]
  BY <1>1 DEF Established, Types, Operation
<1> HIDE DEF p
<1>3. NothingBeforeOpen'
  <2> SUFFICES ASSUME NEW f \in Ends, NotOpen(f)'
               PROVE  posted'[f] = <<>> /\ messagesOut'[f] = <<>> /\ ~Outstanding(readOp'[f])
    BY DEF NothingBeforeOpen, Outstanding
  <2>1. NotOpen(f)
    BY <1>1, <1>2 DEF NotOpen
  <2> QED BY <1>2, <2>1 DEF ChainInv, NothingBeforeOpen
<1>4. ConnectStatus'
  <2>1. ASSUME NEW f \in Ends PROVE ConnectClauses(f)'
    <3>1. CASE f = e
      BY <1>1, <1>2, <3>1 DEF ConnectClauses
    <3>2. CASE f # e /\ f \in Dialers
      <4>1. ConnectClauses(f)
        BY DEF ChainInv, ConnectStatus
      <4>2. f # p /\ Peer[f] # e /\ Peer[f] # p /\ Peer[f] \in Ends
        BY <1>1, <3>2, EndsAssumption
      <4>3. sock'[f] = sock[f] /\ sock'[Peer[f]] = sock[Peer[f]] /\ connectOp'[f] = connectOp[f]
        BY <1>2, <3>2, <4>2
      <4> QED BY <4>1, <4>3 DEF ConnectClauses
    <3>3. CASE f = p
      <4>1. connectOp'[f] = connectOp[f] /\ ConnectClauses(f)
        BY <1>1, <1>2, <3>3 DEF ChainInv, ConnectStatus
      <4> QED BY <1>1, <1>2, <3>3, <4>1 DEF ConnectClauses
    <3>4. CASE f # e /\ f # p /\ f \notin Dialers
      <4>1. connectOp'[f] = connectOp[f] /\ sock'[f] = sock[f] /\ ConnectClauses(f)
        BY <1>1, <1>2, <3>4 DEF ChainInv, ConnectStatus
      <4> QED BY <3>4, <4>1 DEF ConnectClauses
    <3> QED BY <3>1, <3>2, <3>3, <3>4
  <2> QED BY <2>1 DEF ConnectStatus, ConnectClauses
<1>5. WritePump'
  <2>1. \A f \in Ends : IsConnected(f)' => IsConnected(f)
    BY <1>1, <1>2 DEF IsConnected
  <2> QED BY <1>2, <2>1 DEF ChainInv, WritePump, Outstanding
<1>6. ReadArmed'
  <2> SUFFICES ASSUME NEW f \in Ends, sock'[f] = "connected"
               PROVE  Outstanding(readOp'[f]) \/ Outstanding(connectOp'[f])
    BY DEF ReadArmed, Outstanding
  <2>1. CASE f = e
    BY <1>2, <2>1 DEF Outstanding
  <2>2. CASE f # e
    <3>1. sock[f] = "connected" /\ connectOp'[f] = connectOp[f] /\ readOp' = readOp
      BY <1>2, <2>2
    <3> QED BY <3>1 DEF ChainInv, ReadArmed
  <2> QED BY <2>1, <2>2
<1> QED BY <1>3, <1>4, <1>5, <1>6 DEF ChainInv

LEMMA ConnectHandlerChained ==
    ASSUME Types, ChainInv, NEW e \in Ends, ConnectHandler(e)
    PROVE  ChainInv'
<1>1. /\ UNCHANGED <<sock, writeOp, posted, messagesOut>>
      /\ connectOp'[e].st = "none"
      /\ connectOp[e].st \in {"done", "failed"}
      /\ connectOp[e].st = "failed" => readOp'[e] = readOp[e]
      /\ \A f \in Ends : f # e => connectOp'[f] = connectOp[f] /\ readOp'[f] = readOp[f]
  BY DEF ConnectHandler, Types, Operation
<1>2. connectOp[e].st = "done" /\ sock[e] = "connected" => Outstanding(readOp'[e])
  <2>1. ASSUME connectOp[e].st = "done", sock[e] = "connected"
        PROVE  readOp'[e] = Started(e, "header")
    BY <2>1 DEF ConnectHandler, Types, IsConnected
  <2> QED BY <2>1 DEF Started, Outstanding
<1>3. /\ connectOp[e].st = "done" => sock[e] \in {"connected", "closed"}
      /\ connectOp[e].st = "failed" => sock[e] \in {"unreachable", "closed"}
  BY DEF ChainInv, ConnectStatus, ConnectClauses
<1>4. NothingBeforeOpen'
  BY <1>1, <1>3 DEF ChainInv, NothingBeforeOpen, NotOpen, Outstanding
<1>5. ConnectStatus'
  BY <1>1 DEF ChainInv, ConnectStatus, ConnectClauses
<1>6. WritePump'
  BY <1>1 DEF ChainInv, WritePump, IsConnected, Outstanding
<1>7. ReadArmed'
  BY <1>1, <1>2, <1>3 DEF ChainInv, ReadArmed, Outstanding
<1> QED BY <1>4, <1>5, <1>6, <1>7 DEF ChainInv

(* Opening a socket, or failing to: the three steps that make an end stop   *)
(* being untouched, backlogged or connecting.                              *)
Untouched(f) == UNCHANGED <<sock[f], readOp[f], connectOp[f]>>

LEMMA SocketOpens ==
    ASSUME Types, ChainInv, NEW e \in Ends, UNCHANGED <<writeOp, posted, messagesOut>>,
           \A f \in Ends : f # e => Untouched(f),
           \/ /\ e \in Dialers /\ sock[e] = "none" /\ sock'[e] = "connecting"
              /\ connectOp'[e].st = "pending" /\ readOp'[e] = readOp[e]
           \/ /\ sock[e] = "backlog" /\ sock'[e] = "connected"
              /\ connectOp'[e] = connectOp[e] /\ readOp'[e].st = "pending"
           \/ /\ connectOp[e].st = "pending" /\ sock'[e] = "unreachable"
              /\ connectOp'[e].st = "failed" /\ readOp'[e] = readOp[e]
    PROVE  ChainInv'
<1>0. NothingBeforeOpen /\ WritePump /\ ReadArmed /\ \A f \in Ends : ConnectClauses(f)
  BY DEF ChainInv, ConnectStatus
<1>1. \A f \in Ends : /\ Peer[f] \in Ends
                      /\ f \in Dialers => Peer[f] \notin Dialers
  BY EndsAssumption DEF Ends
<1>2. connectOp[e].st = "pending" => sock[e] = "connecting" /\ e \in Dialers
  BY <1>0 DEF ConnectClauses
<1>3. NothingBeforeOpen'
  <2> SUFFICES ASSUME NEW f \in Ends, NotOpen(f)'
               PROVE  posted'[f] = <<>> /\ messagesOut'[f] = <<>> /\ ~Outstanding(readOp'[f])
    BY DEF NothingBeforeOpen, Outstanding
  <2>1. f # e
    BY DEF NotOpen
  <2> QED BY <1>0, <2>1 DEF NothingBeforeOpen, NotOpen, Untouched
<1>4. ConnectStatus'
  <2> SUFFICES ASSUME NEW f \in Ends PROVE ConnectClauses(f)'
    BY DEF ConnectStatus, ConnectClauses
  <2>1. ConnectClauses(f)
    BY <1>0
  <2>2. CASE f = e
    <3>1. CASE e \in Dialers /\ sock[e] = "none" /\ sock'[e] = "connecting"
      <4>0. Peer[e] \in Ends /\ Peer[e] # e
        BY ONLY <1>1, <3>1, e \in Ends, Zenon
      <4>1. Peer[e] \in Ends /\ Peer[e] # e /\ sock[Peer[e]] = "none"
        BY ONLY <2>1, <2>2, <3>1, <4>0, Zenon DEF ConnectClauses
      <4>2. sock'[Peer[e]] = "none" /\ connectOp'[e].st = "pending"
        BY <3>1, <4>1 DEF Untouched
      <4> QED BY ONLY <2>2, <3>1, <4>2 DEF ConnectClauses
    <3>2. CASE sock[e] = "backlog"
      <4>1. e \notin Dialers /\ connectOp'[e] = connectOp[e]
        BY <1>2, <2>1, <2>2, <3>2 DEF ConnectClauses
      <4> QED BY <2>1, <2>2, <3>2, <4>1 DEF ConnectClauses
    <3>3. CASE connectOp[e].st = "pending" /\ sock'[e] = "unreachable"
      BY ONLY <2>2, <3>3, connectOp'[e].st = "failed" \/ sock[e] \in {"none", "backlog"}, <1>2
         DEF ConnectClauses
    <3> QED BY <3>1, <3>2, <3>3
  <2>3. CASE f # e /\ Peer[f] = e
    <3>1. sock'[f] = sock[f] /\ connectOp'[f] = connectOp[f]
      BY <2>3 DEF Untouched
    <3>2. CASE f \in Dialers
      <4>1. e \notin Dialers
        BY <1>1, <2>3, <3>2
      <4>2. sock[e] = "backlog"
        BY ONLY <1>2, <4>1, sock[e] = "backlog" \/ e \in Dialers \/ connectOp[e].st = "pending"
      <4>3. connectOp[f].st # "pending" /\ sock[f] # "none"
        BY ONLY <2>1, <2>3, <3>2, <4>2 DEF ConnectClauses
      <4> QED BY ONLY <2>1, <3>1, <4>3 DEF ConnectClauses
    <3>3. CASE f \notin Dialers
      BY ONLY <2>1, <3>1, <3>3 DEF ConnectClauses
    <3> QED BY <3>2, <3>3
  <2>4. CASE f # e /\ Peer[f] # e
    <3>1. Peer[f] \in Ends
      BY ONLY <1>1, f \in Ends, Zenon
    <3>2. Untouched(f) /\ Untouched(Peer[f])
      BY ONLY <2>4, <3>1, f \in Ends, \A d \in Ends : d # e => Untouched(d)
    <3>3. sock'[f] = sock[f] /\ sock'[Peer[f]] = sock[Peer[f]] /\ connectOp'[f] = connectOp[f]
      BY <3>2 DEF Untouched
    <3> QED BY ONLY <2>1, <3>3 DEF ConnectClauses
  <2> QED BY <2>2, <2>3, <2>4
<1>5. WritePump'
  <2>1. messagesOut[e] # <<>> => IsConnected(e)
    BY <1>0, <1>2 DEF NothingBeforeOpen, NotOpen, IsConnected
  <2>2. \A f \in Ends : IsConnected(f)' /\ messagesOut[f] # <<>> => IsConnected(f)
    BY <2>1 DEF IsConnected, Untouched
  <2> QED BY <1>0, <2>2 DEF WritePump
<1>6. ReadArmed'
  <2> SUFFICES ASSUME NEW f \in Ends, sock'[f] = "connected"
               PROVE  Outstanding(readOp'[f]) \/ Outstanding(connectOp'[f])
    BY DEF ReadArmed, Outstanding
  <2> QED BY <1>0 DEF ReadArmed, Outstanding, Untouched
<1> QED BY <1>3, <1>4, <1>5, <1>6 DEF ChainInv

LEMMA ConnectingChained ==
    ASSUME Types, ChainInv, NEW e \in Ends, Connecting(e) \/ ConnectFails(e)
    PROVE  ChainInv'
<1>0. connectOp \in [Ends -> Operation] /\ sock \in [Ends -> SockStates]
      /\ readOp \in [Ends -> Operation]
  BY DEF Types, SockStates
<1>1. CASE ConnectToListener(e)
  <2>1. /\ UNCHANGED <<readOp, writeOp, posted, messagesOut>>
        /\ e \in Dialers /\ sock[e] = "none"
        /\ sock' = [sock EXCEPT ![e] = "connecting"]
        /\ connectOp' = [connectOp EXCEPT ![e].st = "pending"]
    BY <1>1 DEF ConnectToListener
  <2>2. connectOp'[e].st = "pending"
    BY <1>0, <2>1 DEF Operation
  <2> QED BY <1>0, <2>1, <2>2, SocketOpens DEF Untouched
<1>2. CASE ConnectFromListener(e)
  BY <1>0, <1>2, SocketOpens DEF ConnectFromListener, Untouched
<1>3. CASE ConnectFails(e)
  <2>1. /\ UNCHANGED <<readOp, writeOp, posted, messagesOut>>
        /\ connectOp[e].st = "pending"
        /\ sock' = [sock EXCEPT ![e] = "unreachable"]
        /\ connectOp' = [connectOp EXCEPT ![e].st = "failed"]
    BY <1>3 DEF ConnectFails
  <2>2. connectOp'[e].st = "failed"
    BY <1>0, <2>1 DEF Operation
  <2> QED BY <1>0, <2>1, <2>2, SocketOpens DEF Untouched
<1> QED BY <1>1, <1>2, <1>3, EstablishedChained, ConnectHandlerChained DEF Connecting

(* Closing a socket that was open leaves the chains in order, provided the *)
(* write is over or still has its message at the front of the queue.       *)
LEMMA CloseChained ==
    ASSUME Types, ChainInv, NEW e \in Ends, ~NotOpen(e),
           NEW r \in Operation, NEW w \in Operation,
           Close(e, connectOp[e], r, w),
           Outstanding(w) => Outstanding(writeOp[e]),
           UNCHANGED messagesOut, \A f \in Ends : f # e => posted'[f] = posted[f]
    PROVE  ChainInv'
<1> USE EndsAssumption
    DEF Types, Ends
<1>0. connectOp[e] \in Operation
  OBVIOUS
<1>1. /\ sock'[e] = "closed"
      /\ connectOp'[e] = Aborted(connectOp[e])
      /\ readOp'[e] = Aborted(r)
      /\ writeOp'[e] = Aborted(w)
      /\ \A f \in Ends : f # e => /\ sock'[f] = sock[f]
                                   /\ connectOp'[f] = connectOp[f]
                                   /\ readOp'[f] = readOp[f]
                                   /\ writeOp'[f] = writeOp[f]
  BY DEF Close
<1>2. /\ Outstanding(Aborted(w)) => Outstanding(writeOp[e])
      /\ Aborted(connectOp[e]).st # "pending"
      /\ Aborted(connectOp[e]).st = "failed"
            => connectOp[e].st \in {"pending", "failed"}
  BY <1>0, StatusOf DEF Aborted, Finished
<1>3. NothingBeforeOpen'
  <2> SUFFICES ASSUME NEW f \in Ends, NotOpen(f)'
               PROVE  posted'[f] = <<>> /\ messagesOut'[f] = <<>> /\ ~Outstanding(readOp'[f])
    BY DEF NothingBeforeOpen, Outstanding
  <2>1. f # e
    BY <1>1 DEF NotOpen
  <2> QED BY <1>1, <2>1 DEF ChainInv, NothingBeforeOpen, NotOpen
<1>4. ConnectStatus'
  <2>1. ConnectStatus
    BY DEF ChainInv
  <2>2. sock[e] # "none" /\ sock[e] # "backlog"
    BY DEF NotOpen
  <2> SUFFICES ASSUME NEW f \in Ends
               PROVE  /\ connectOp'[f].st = "pending" => /\ sock'[f] = "connecting"
                                                         /\ sock'[Peer[f]] = "none"
                                                         /\ f \in Dialers
                      /\ connectOp'[f].st = "done" => sock'[f] \in {"connected", "closed"}
                      /\ connectOp'[f].st = "failed" => sock'[f] \in {"unreachable", "closed"}
                      /\ f \in Dialers /\ sock'[f] = "none" => sock'[Peer[f]] = "none"
                      /\ f \in Dialers => sock'[f] # "backlog"
    BY DEF ConnectStatus, ConnectClauses
  <2>3. CASE f = e
    BY <1>1, <1>2, <2>3
  <2>4. CASE f # e
    <3>1. Peer[f] \in Ends
      OBVIOUS
    <3>2. sock[Peer[f]] = "none" => sock'[Peer[f]] = "none"
      BY <1>1, <2>2, <3>1
    <3> QED BY <1>1, <2>1, <2>4, <3>2 DEF ConnectStatus, ConnectClauses
  <2> QED BY <2>3, <2>4
<1>5. WritePump'
  <2>1. WritePump
    BY DEF ChainInv
  <2>2. messagesOut' = messagesOut
    OBVIOUS
  <2> SUFFICES ASSUME NEW f \in Ends
               PROVE  /\ Outstanding(writeOp'[f]) => messagesOut[f] # <<>>
                      /\ IsConnected(f)' /\ messagesOut[f] # <<>>
                            => Outstanding(writeOp'[f])
    BY <2>2 DEF WritePump, Outstanding
  <2>3. CASE f = e
    BY <1>1, <1>2, <2>1, <2>3 DEF WritePump, IsConnected
  <2>4. CASE f # e
    BY <1>1, <2>1, <2>4 DEF WritePump, IsConnected
  <2> QED BY <2>3, <2>4
<1>6. ReadArmed'
  BY <1>1 DEF ChainInv, ReadArmed
<1> QED BY <1>3, <1>4, <1>5, <1>6 DEF ChainInv

LEMMA OwnerChained ==
    ASSUME Types, ChainInv, NEW e \in Ends,
           \/ RefuseFromListener(e) \/ Send(e) \/ Disconnect(e) \/ Release(e)
           \/ BreakNetwork(e)
    PROVE  ChainInv'
<1> USE EndsAssumption
    DEF Types, ChainInv, NothingBeforeOpen, ConnectStatus, ConnectClauses, WritePump, ReadArmed,
        NotOpen, IsConnected, Outstanding, Operation, Ends, ops
<1>1. CASE RefuseFromListener(e)
  BY <1>1 DEF RefuseFromListener
<1>2. CASE Send(e)
  <2>1. /\ UNCHANGED <<sock, connectOp, readOp, writeOp, messagesOut>>
        /\ \A f \in Ends : f # e => posted'[f] = posted[f]
        /\ IsConnected(e)
    BY <1>2 DEF Send
  <2> QED BY <2>1
<1>3. CASE Disconnect(e)
  BY <1>3 DEF Disconnect
<1>4. CASE Release(e)
  BY <1>4 DEF Release
<1>5. CASE BreakNetwork(e)
  BY <1>5 DEF BreakNetwork
<1> QED BY <1>1, <1>2, <1>3, <1>4, <1>5

LEMMA PostedChained ==
    ASSUME Types, ChainInv, NEW e \in Ends, RunPosted(e)
    PROVE  ChainInv'
<1>0. ~NotOpen(e)
  BY DEF ChainInv, NothingBeforeOpen, RunPosted, RunClose, RunSend, RunSendStarting
<1>1. CASE RunClose(e)
  <2>1. readOp[e] \in Operation /\ writeOp[e] \in Operation
    BY DEF Types
  <2>2. \A f \in Ends : f # e => posted'[f] = posted[f]
    BY <1>1 DEF RunClose, Types
  <2> QED BY <1>0, <1>1, <2>1, <2>2, CloseChained DEF RunClose
<1>2. CASE RunSend(e)
  <2>1. /\ UNCHANGED <<sock, connectOp, readOp>>
        /\ \A f \in Ends : f # e => /\ posted'[f] = posted[f]
                                     /\ messagesOut'[f] = messagesOut[f]
                                     /\ writeOp'[f] = writeOp[f]
        /\ messagesOut'[e] = Append(messagesOut[e], Head(posted[e]).msg)
        /\ writeOp'[e] = IF messagesOut[e] = <<>> THEN Started(e, "header")
                         ELSE writeOp[e]
    BY <1>2 DEF RunSend, RunSendStarting, Types
  <2>2. messagesOut'[e] # <<>>
    <3>1. messagesOut[e] \in Seq(Messages)
      BY DEF Types
    <3>2. \A m : Append(messagesOut[e], m) # <<>>
      BY ONLY <3>1
    <3> QED BY <2>1, <3>2
  <2>3. Outstanding(Started(e, "header"))
    BY DEF Outstanding, Started
  <2>4. WritePump'
    BY <2>1, <2>2, <2>3 DEF ChainInv, WritePump, IsConnected, Outstanding
  <2>5. NothingBeforeOpen'
    BY <1>0, <2>1 DEF ChainInv, NothingBeforeOpen, NotOpen
  <2>6. ConnectStatus' /\ ReadArmed'
    BY <2>1 DEF ChainInv, ConnectStatus, ConnectClauses, ReadArmed
  <2> QED BY <2>4, <2>5, <2>6 DEF ChainInv
<1> QED BY <1>1, <1>2 DEF RunPosted

LEMMA WritingChained ==
    ASSUME Types, ChainInv, NEW e \in Ends, Writing(e) \/ WriteReset(e)
    PROVE  ChainInv'
<1>0. Outstanding(writeOp[e]) /\ messagesOut[e] # <<>> /\ ~NotOpen(e)
  BY DEF Writing, WriteHandler, WriteNext, WriteErrorHandler, Transmit, WriteReset,
         Outstanding, ChainInv, WritePump, NothingBeforeOpen
<1>1. CASE WriteErrorHandler(e)
  <2>1. readOp[e] \in Operation /\ writeOp[e] \in Operation
    BY DEF Types
  <2>2. Finished(writeOp[e], "none") \in Operation
    BY <2>1 DEF Finished, Operation, Status
  <2> QED BY <1>0, <1>1, <2>1, <2>2, CloseChained DEF WriteErrorHandler
<1>2. CASE WriteHandler(e)
  <2> DEFINE toBody == HasBodyToWrite(e)
             left == Tail(messagesOut[e])
             kept == IF toBody THEN messagesOut[e] ELSE left
  <2>1. /\ UNCHANGED <<sock, connectOp, readOp, posted>>
        /\ \A f \in Ends : f # e => /\ messagesOut'[f] = messagesOut[f]
                                     /\ writeOp'[f] = writeOp[f]
        /\ messagesOut'[e] = kept
        /\ writeOp'[e] = IF toBody THEN Started(e, "body")
                         ELSE IF left # <<>> THEN Started(e, "header")
                         ELSE Finished(writeOp[e], "none")
    <3> HIDE DEF toBody, left
    <3> QED BY <1>2 DEF WriteHandler, WriteNext, Types, toBody, left
  <2>2. Outstanding(writeOp'[e]) <=> messagesOut'[e] # <<>>
    <3>1. writeOp[e] \in Operation
      BY DEF Types
    <3> HIDE DEF toBody, left
    <3> QED BY <1>0, <2>1, <3>1, StatusOf
  <2>3. WritePump'
    <3> HIDE DEF kept
    <3> QED BY <2>1, <2>2 DEF ChainInv, WritePump, IsConnected, Outstanding
  <2>4. NothingBeforeOpen' /\ ConnectStatus' /\ ReadArmed'
    <3> HIDE DEF kept
    <3> QED BY <1>0, <2>1 DEF ChainInv, NothingBeforeOpen, NotOpen, ConnectStatus, ConnectClauses, ReadArmed
  <2> QED BY <2>3, <2>4 DEF ChainInv
<1>3. CASE Transmit(e) \/ WriteReset(e)
  <2>0. /\ UNCHANGED <<sock, connectOp, readOp, posted, messagesOut>>
        /\ \E st \in {"done", "failed"} : writeOp' = [writeOp EXCEPT ![e].st = st]
    BY <1>3 DEF Transmit, WriteReset
  <2>1. /\ UNCHANGED <<sock, connectOp, readOp, posted, messagesOut>>
        /\ \A f \in Ends : Outstanding(writeOp'[f]) <=> Outstanding(writeOp[f])
    BY <1>0, <2>0, StartOrEnd DEF Types
  <2> QED BY <2>1 DEF ChainInv, NothingBeforeOpen, NotOpen, ConnectStatus, ConnectClauses, WritePump,
                      ReadArmed, IsConnected
<1> QED BY <1>1, <1>2, <1>3 DEF Writing

LEMMA ReadingChained ==
    ASSUME Types, ChainInv, NEW e \in Ends, Reading(e) \/ ReadReset(e)
    PROVE  ChainInv'
<1>0. Outstanding(readOp[e]) /\ ~NotOpen(e)
  BY DEF Reading, ReadHandler, ReadNext, ReadErrorHandler, Arrive, ReadEnd, ReadReset,
         Outstanding, ChainInv, NothingBeforeOpen
<1>1. CASE ReadErrorHandler(e)
  <2>1. readOp[e] \in Operation /\ writeOp[e] \in Operation
    BY DEF Types
  <2>2. Finished(readOp[e], "none") \in Operation
    BY <2>1 DEF Finished, Operation, Status
  <2> QED BY <1>0, <1>1, <2>1, <2>2, CloseChained DEF ReadErrorHandler
<1>2. CASE ReadHandler(e) \/ Arrive(e) \/ ReadEnd(e) \/ ReadReset(e)
  <2>0. /\ UNCHANGED <<sock, connectOp, writeOp, posted, messagesOut>>
        /\ \/ \E part \in Parts : readOp' = [readOp EXCEPT ![e] = Started(e, part)]
           \/ \E st \in {"done", "failed"} : readOp' = [readOp EXCEPT ![e].st = st]
    BY <1>2 DEF ReadHandler, ReadNext, Arrive, ReadEnd, ReadReset, Parts
  <2>1. /\ UNCHANGED <<sock, connectOp, writeOp, posted, messagesOut>>
        /\ \A f \in Ends : Outstanding(readOp'[f]) <=> Outstanding(readOp[f])
    BY <1>0, <2>0, StartOrEnd DEF Types
  <2> QED BY <2>1 DEF ChainInv, NothingBeforeOpen, NotOpen, ConnectStatus, ConnectClauses, WritePump,
                      ReadArmed, IsConnected, Outstanding
<1> QED BY <1>1, <1>2 DEF Reading

LEMMA NextChained == Types /\ ChainInv /\ [Next]_vars => ChainInv'
<1> SUFFICES ASSUME Types, ChainInv, [Next]_vars PROVE ChainInv'
  OBVIOUS
<1>1. CASE UNCHANGED vars
  BY <1>1 DEF vars, ChainInv, NothingBeforeOpen, NotOpen, ConnectStatus, ConnectClauses, WritePump,
              ReadArmed, IsConnected, Outstanding
<1> QED BY <1>1, ConnectingChained, OwnerChained, PostedChained, WritingChained,
           ReadingChained DEF Next, Environment

LEMMA ChainsInductive == Spec => [](Types /\ ChainInv)
<1>1. ChainInv => WritePump
  BY DEF ChainInv
<1> QED BY <1>1, InitTyped, InitChained, NextTyped, NextChained, PTL DEF Spec

-----------------------------------------------------------------------------
(* The write chain neither stops with a message queued on an open socket   *)
(* nor touches an empty queue, whatever fails and in whatever order        *)
(* handlers and posted functions run.                                      *)
THEOREM WritesKeepGoing == Spec => []WritePump
<1>1. ChainInv => WritePump
  BY DEF ChainInv
<1> QED BY <1>1, ChainsInductive, PTL

(* A connected socket always has a read, or the handler that starts one.   *)
THEOREM ReadsKeepGoing == Spec => []ReadArmed
<1>1. ChainInv => ReadArmed
  BY DEF ChainInv
<1> QED BY <1>1, ChainsInductive, PTL

-----------------------------------------------------------------------------
(***************************************************************************)
(* What the two ends of a connection agree on: where the stream between    *)
(* them is.                                                                *)
(***************************************************************************)
USE DEF owner, ops, data

(* A place in the stream from an end to its peer is the number of a        *)
(* message and one of its parts.  Where a part is, and what comes after it.*)
Pos(part, m) == <<m.header.num, part>>
NextPos(part, m) == IF part = "header" /\ m.header.sized THEN <<m.header.num, "body">>
                    ELSE <<m.header.num + 1, "header">>

(* The chunks of s are consecutive, the first is at a, and b comes next.   *)
Links(s, a, b) ==
    /\ s = <<>> => a = b
    /\ s # <<>> => /\ Pos(s[1].part, s[1].msg) = a
                   /\ NextPos(s[Len(s)].part, s[Len(s)].msg) = b
    /\ \A i \in 1..Len(s) - 1 :
          Pos(s[i + 1].part, s[i + 1].msg) = NextPos(s[i].part, s[i].msg)

(* The n-th message given to Send, of the headers h that were.             *)
Nth(h, n) == Message(h[n].from, n, h[n].sized)

(* Messages are numbered as they are given to Send.                        *)
Numbered(h) == \A n \in DOMAIN h : h[n].num = n

(* The queue q holds the last of the L messages that were put into it.     *)
Queued(q, h, L) ==
    /\ Len(q) <= L /\ L <= Len(h)
    /\ \A i \in DOMAIN q : q[i] = Nth(h, L - Len(q) + i)

(* The messages after them are posted, in order.                           *)
IsSend(c) == c.kind = "send"
Num(c) == c.msg.header.num
Posted(p, h, L) ==
    /\ \A i \in DOMAIN p : IsSend(p[i]) =>
          Num(p[i]) \in L + 1..Len(h) /\ p[i].msg = Nth(h, Num(p[i]))
    /\ \A i, j \in DOMAIN p :
          i < j /\ IsSend(p[i]) /\ IsSend(p[j]) => Num(p[i]) < Num(p[j])
    /\ \A n \in L + 1..Len(h) : \E i \in DOMAIN p : IsSend(p[i]) /\ Num(p[i]) = n

(* The chunks of s carry messages that were sent.                          *)
Carries(s, h) == \A i \in DOMAIN s :
    Num(s[i]) \in 1..Len(h) /\ s[i].msg = Nth(h, Num(s[i]))

(* The messages of s are the beginning of what was sent.                   *)
Begins(s, h) ==
    /\ Len(s) <= Len(h)
    /\ \A i \in DOMAIN s : s[i].header = h[i]

(* Where the reader of end r is, and where the writer of e is, when L      *)
(* messages have been put into messagesOut[e].                             *)
ReadPos(r) == IF readOp[r].st = "done" THEN NextPos(readOp[r].part, temporaryIn[r])
              ELSE <<Len(messagesIn[r]) + 1, readOp[r].part>>
WritePos(e, L) == IF messagesOut[e] = <<>> THEN <<L + 1, "header">>
                  ELSE IF writeOp[e].st = "done"
                       THEN NextPos(writeOp[e].part, Head(messagesOut[e]))
                       ELSE Pos(writeOp[e].part, Head(messagesOut[e]))

(* The header of a message that has been read in part is the next one.     *)
Halfway(r) == readOp[r].part = "body" \/ readOp[r].st = "done"
NextIn(r, h) == Halfway(r) =>
    /\ Len(messagesIn[r]) < Len(h)
    /\ temporaryIn[r].header = h[Len(messagesIn[r]) + 1]

(* The stream from e to its peer, L of whose messages have left posted[e]. *)
Stream(e, L) ==
    /\ Numbered(sent[e])
    /\ Queued(messagesOut[e], sent[e], L)
    /\ Posted(posted[e], sent[e], L)
    /\ Carries(pipe[e], sent[e])
    /\ Links(pipe[e], ReadPos(Peer[e]), WritePos(e, L))
    /\ Begins(messagesIn[Peer[e]], sent[e])
    /\ NextIn(Peer[e], sent[e])

(* Nothing is read before the connection is open.                          *)
ReadStarts == \A e \in Ends :
    NotOpen(e) \/ Outstanding(connectOp[e]) \/ sock[e] \in {"connecting", "unreachable"}
        => readOp[e] = Idle

StreamInv == ReadStarts /\ \A e \in Ends : \E L \in Nat : Stream(e, L)

-----------------------------------------------------------------------------
(* A chunk at the place that comes next makes the stream longer.           *)
LEMMA LinksAppend ==
    ASSUME NEW s \in Seq(Chunk), NEW a, NEW b, Links(s, a, b),
           NEW c \in Chunk, Pos(c.part, c.msg) = b
    PROVE  Links(Append(s, c), a, NextPos(c.part, c.msg))
<1> DEFINE t == Append(s, c)
           n == Len(s)
<1>1. /\ n \in Nat /\ Len(t) = n + 1 /\ t # <<>> /\ t[n + 1] = c
      /\ \A i \in 1..n : t[i] = s[i]
      /\ s = <<>> <=> n = 0
  OBVIOUS
<1> HIDE DEF t, n
<1>2. Links(s, a, b) /\ n = Len(s)
  BY DEF n
<1>3. Pos(t[1].part, t[1].msg) = a
  BY <1>1, <1>2 DEF Links
<1>4. ASSUME NEW i \in 1..n
      PROVE  Pos(t[i + 1].part, t[i + 1].msg) = NextPos(t[i].part, t[i].msg)
  <2>1. CASE i = n
    BY <1>1, <1>2, <2>1 DEF Links
  <2>2. CASE i # n
    BY <1>1, <1>2, <2>2 DEF Links
  <2> QED BY <2>1, <2>2
<1>5. Len(t) - 1 = n
  BY <1>1
<1>6. t # <<>> => /\ Pos(t[1].part, t[1].msg) = a
                  /\ NextPos(t[Len(t)].part, t[Len(t)].msg) = NextPos(c.part, c.msg)
  BY <1>1, <1>3
<1>7. Links(t, a, NextPos(c.part, c.msg))
  BY <1>1, <1>4, <1>5, <1>6 DEF Links
<1> QED BY <1>7 DEF t

(* A list without its first element.                                       *)
LEMMA TailOf ==
    ASSUME NEW S, NEW s \in Seq(S), s # <<>>
    PROVE  /\ Len(s) \in Nat /\ Len(s) >= 1 /\ Head(s) = s[1] /\ Head(s) \in S
           /\ Tail(s) \in Seq(S) /\ Len(Tail(s)) = Len(s) - 1
           /\ \A i \in 1..Len(s) - 1 : Tail(s)[i] = s[i + 1]
           /\ Tail(s) = <<>> <=> Len(s) = 1
<1>1. Len(s) \in Nat /\ Len(s) >= 1 /\ Head(s) = s[1] /\ Head(s) \in S
  OBVIOUS
<1>2. Tail(s) \in Seq(S) /\ Len(Tail(s)) = Len(s) - 1
  BY <1>1
<1>3. \A i \in 1..Len(s) - 1 : Tail(s)[i] = s[i + 1]
  BY <1>1
<1>4. Tail(s) = <<>> <=> Len(Tail(s)) = 0
  <2> DEFINE t == Tail(s)
  <2>1. t \in Seq(S)
    BY <1>2
  <2> HIDE DEF t
  <2>2. t = <<>> <=> Len(t) = 0
    BY <2>1
  <2> QED BY <2>2 DEF t
<1>5. Tail(s) = <<>> <=> Len(s) = 1
  BY <1>1, <1>2, <1>4
<1> QED BY <1>1, <1>2, <1>3, <1>5

(* The first chunk is where the reader is; without it the stream begins at *)
(* the place after it.                                                     *)
LEMMA LinksTail ==
    ASSUME NEW s \in Seq(Chunk), NEW a, NEW b, Links(s, a, b), s # <<>>
    PROVE  /\ Pos(Head(s).part, Head(s).msg) = a
           /\ Links(Tail(s), NextPos(Head(s).part, Head(s).msg), b)
<1> DEFINE t == Tail(s)
           n == Len(s)
<1>1. /\ n \in Nat /\ n >= 1 /\ Len(t) = n - 1 /\ Head(s) = s[1]
      /\ \A i \in 1..n - 1 : t[i] = s[i + 1]
      /\ t = <<>> <=> n = 1
  BY TailOf
<1> HIDE DEF t, n
<1>2. /\ Pos(s[1].part, s[1].msg) = a /\ NextPos(s[n].part, s[n].msg) = b
      /\ \A i \in 1..n - 1 :
            Pos(s[i + 1].part, s[i + 1].msg) = NextPos(s[i].part, s[i].msg)
  BY DEF Links, n
<1>3. CASE n = 1
  <2>1. t = <<>> /\ a = Pos(s[1].part, s[1].msg) /\ b = NextPos(s[1].part, s[1].msg)
    BY <1>1, <1>2, <1>3
  <2>2. Links(t, NextPos(s[1].part, s[1].msg), b)
    BY <2>1 DEF Links
  <2> QED BY <1>1, <2>1, <2>2 DEF t
<1>4. CASE n # 1
  <2>1. 1 \in 1..n - 1 /\ t[1] = s[2] /\ n - 1 \in 1..n - 1 /\ t[n - 1] = s[n]
    BY <1>1, <1>4
  <2>2. Pos(t[1].part, t[1].msg) = NextPos(s[1].part, s[1].msg)
    BY <1>2, <2>1
  <2>3. ASSUME NEW i \in 1..Len(t) - 1
        PROVE  Pos(t[i + 1].part, t[i + 1].msg) = NextPos(t[i].part, t[i].msg)
    <3>1. i \in 1..n - 1 /\ i + 1 \in 1..n - 1
      BY <1>1
    <3> QED BY <1>1, <1>2, <3>1
  <2>4. NextPos(t[Len(t)].part, t[Len(t)].msg) = b
    BY <1>1, <1>2, <2>1
  <2>5. Links(t, NextPos(s[1].part, s[1].msg), b)
    BY <1>1, <1>4, <2>2, <2>3, <2>4 DEF Links
  <2> QED BY <1>1, <1>2, <2>5 DEF t
<1> QED BY <1>3, <1>4

-----------------------------------------------------------------------------
(* What a step may do to an operation without moving its place.            *)
SamePlace(op, new) == new.part = op.part /\ (new.st = "done" <=> op.st = "done")
WriterSame(e) == UNCHANGED <<sent[e], messagesOut[e]>> /\ SamePlace(writeOp[e], writeOp'[e])
ReaderSame(r) == UNCHANGED <<messagesIn[r], temporaryIn[r]>> /\ SamePlace(readOp[r], readOp'[r])

(* The operations that start, end or are aborted keep their place, unless  *)
(* they complete.                                                          *)
LEMMA PlaceKept ==
    ASSUME NEW op \in Operation
    PROVE  /\ SamePlace(op, Aborted(op))
           /\ op.st = "failed" => SamePlace(op, Aborted(Finished(op, "none")))
           /\ op.st # "done" => \A e \in Ends : SamePlace(op, Started(e, op.part))
           /\ op.st # "done" => SamePlace(op, Finished(op, "failed"))
BY DEF SamePlace, Aborted, Finished, Started, Operation

(* An end whose reader or writer stays where it is.                        *)
LEMMA ReaderStays ==
    ASSUME NEW r \in Ends, NEW h, ReaderSame(r), NextIn(r, h)
    PROVE  ReadPos(r)' = ReadPos(r) /\ NextIn(r, h)'
BY DEF ReaderSame, SamePlace, ReadPos, NextIn, Halfway

LEMMA WriterStays ==
    ASSUME NEW e \in Ends, NEW L \in Nat, WriterSame(e)
    PROVE  WritePos(e, L)' = WritePos(e, L)
BY DEF WriterSame, SamePlace, WritePos

(* A step that touches neither writer nor reader nor what is between them. *)
LEMMA Undisturbed ==
    ASSUME NEW e \in Ends, NEW L \in Nat, Stream(e, L), WriterSame(e), ReaderSame(Peer[e]),
           Peer[e] \in Ends, pipe'[e] = pipe[e], Posted(posted'[e], sent[e], L)
    PROVE  Stream(e, L)'
<1>1. sent'[e] = sent[e] /\ messagesOut'[e] = messagesOut[e]
  BY DEF WriterSame
<1>2. WritePos(e, L)' = WritePos(e, L)
  BY WriterStays
<1>3. /\ ReadPos(Peer[e])' = ReadPos(Peer[e])
      /\ NextIn(Peer[e], sent[e]) /\ NextIn(Peer[e], sent[e])'
  <2> DEFINE h == sent[e]
  <2>1. sent'[e] = h
    BY <1>1
  <2>2. NextIn(Peer[e], h)
    BY DEF Stream
  <2> QED BY <2>1, <2>2, ReaderStays DEF NextIn, Halfway, ReaderSame, SamePlace, ReadPos
<1>4. messagesIn'[Peer[e]] = messagesIn[Peer[e]]
  BY DEF ReaderSame
<1> QED BY <1>1, <1>2, <1>3, <1>4 DEF Stream

(* The messages a direction knows are messages.                            *)
LEMMA NthIs ==
    ASSUME NEW h \in Seq(Headers), Numbered(h), NEW n \in 1..Len(h)
    PROVE  /\ Nth(h, n) \in Messages /\ Nth(h, n).header = h[n]
           /\ h[n] \in Headers /\ h[n].num = n /\ h[n].sized \in BOOLEAN
           /\ Nth(h, n).body # NoBody <=> h[n].sized
<1>1. n \in DOMAIN h /\ n \in Nat /\ n # 0
  OBVIOUS
<1>2. h[n] \in Headers /\ h[n].num = n
  BY <1>1 DEF Numbered
<1>3. h[n].sized \in BOOLEAN /\ h[n] = [from |-> h[n].from, num |-> n, sized |-> h[n].sized]
  BY <1>2 DEF Headers
<1>4. Nth(h, n) \in Messages
  BY <1>1, <1>2, <1>3, MessageTyped DEF Nth, Headers
<1> QED BY <1>1, <1>2, <1>3, <1>4 DEF Nth, Message, NoBody

-----------------------------------------------------------------------------
(* A list with an element more at its end.                                 *)
LEMMA AppendOf ==
    ASSUME NEW S, NEW s \in Seq(S), NEW c \in S
    PROVE  /\ Len(s) \in Nat /\ Append(s, c) \in Seq(S)
           /\ Len(Append(s, c)) = Len(s) + 1 /\ Append(s, c) # <<>>
           /\ DOMAIN s = 1..Len(s) /\ DOMAIN Append(s, c) = 1..Len(s) + 1
           /\ Append(s, c)[Len(s) + 1] = c
           /\ \A i \in 1..Len(s) : Append(s, c)[i] = s[i]
OBVIOUS

(* What Send appends keeps the posted messages in order.                   *)
LEMMA PostedSend ==
    ASSUME NEW p \in Seq(Calls), NEW h \in Seq(Headers), NEW L \in 0..Len(h), Posted(p, h, L),
           NEW m \in Messages, m.header.num = Len(h) + 1, NEW g, g = Append(h, m.header),
           m = Nth(g, Len(h) + 1)
    PROVE  Posted(Append(p, PostSend(m)), g, L)
<1> DEFINE c == PostSend(m)
           q == Append(p, c)
           k == Len(p)
           S == Len(h)
<1>1. c \in Calls /\ IsSend(c) /\ c.msg = m /\ Num(c) = S + 1
  BY PostTyped DEF PostSend, IsSend, Num
<1>2. /\ k \in Nat /\ DOMAIN p = 1..k /\ DOMAIN q = 1..k + 1
      /\ q[k + 1] = c /\ \A i \in 1..k : q[i] = p[i]
  <2> HIDE DEF c
  <2> QED BY <1>1, AppendOf
<1>3. /\ S \in Nat /\ L \in 0..S /\ Len(g) = S + 1
      /\ \A n \in 1..S : Nth(g, n) = Nth(h, n)
  BY DEF Nth, Messages
<1>4. /\ \A i \in 1..k : IsSend(p[i]) =>
            Num(p[i]) \in L + 1..S /\ p[i].msg = Nth(h, Num(p[i]))
      /\ \A i, j \in 1..k :
            i < j /\ IsSend(p[i]) /\ IsSend(p[j]) => Num(p[i]) < Num(p[j])
      /\ \A n \in L + 1..S : \E i \in 1..k : IsSend(p[i]) /\ Num(p[i]) = n
  BY <1>2 DEF Posted
<1> HIDE DEF c, q, k, S
<1>5. ASSUME NEW i \in 1..k + 1, IsSend(q[i])
      PROVE  Num(q[i]) \in L + 1..S + 1 /\ q[i].msg = Nth(g, Num(q[i]))
  <2>1. CASE i = k + 1
    BY <1>1, <1>2, <1>3, <2>1 DEF S
  <2>2. CASE i # k + 1
    <3>1. i \in 1..k /\ q[i] = p[i]
      BY <1>2, <2>2
    <3>2. Num(q[i]) \in L + 1..S /\ q[i].msg = Nth(h, Num(q[i]))
      BY <1>4, <1>5, <3>1
    <3>3. Num(q[i]) \in 1..S /\ Num(q[i]) \in L + 1..S + 1
      BY <1>3, <3>2
    <3> QED BY <1>3, <3>2, <3>3
  <2> QED BY <2>1, <2>2
<1>6. ASSUME NEW i \in 1..k + 1, NEW j \in 1..k + 1, i < j, IsSend(q[i]), IsSend(q[j])
      PROVE  Num(q[i]) < Num(q[j])
  <2>1. i \in 1..k /\ q[i] = p[i]
    BY <1>2, <1>6
  <2>2. Num(q[i]) \in L + 1..S
    BY <1>4, <1>6, <2>1
  <2>3. CASE j = k + 1
    BY <1>1, <1>2, <1>3, <2>2, <2>3
  <2>4. CASE j # k + 1
    <3>1. j \in 1..k /\ q[j] = p[j]
      BY <1>2, <2>4
    <3> QED BY <1>4, <1>6, <2>1, <3>1
  <2> QED BY <2>3, <2>4
<1>7. ASSUME NEW n \in L + 1..S + 1 PROVE \E i \in 1..k + 1 : IsSend(q[i]) /\ Num(q[i]) = n
  <2>1. CASE n = S + 1
    BY <1>1, <1>2, <2>1
  <2>2. CASE n # S + 1
    <3>1. n \in L + 1..S
      BY <1>3, <2>2
    <3>2. PICK i \in 1..k : IsSend(p[i]) /\ Num(p[i]) = n
      BY <1>4, <3>1
    <3> QED BY <1>2, <3>2
  <2> QED BY <2>1, <2>2
<1>8. Posted(q, g, L)
  BY <1>2, <1>3, <1>5, <1>6, <1>7 DEF Posted
<1> QED BY <1>8 DEF q, c

(* A close among the posted functions changes nothing for the messages.    *)
LEMMA PostedClose ==
    ASSUME NEW e \in Ends, NEW p \in Seq(Calls), NEW h, NEW L \in Nat, Posted(p, h, L)
    PROVE  Posted(Append(p, PostClose(e)), h, L)
<1> DEFINE c == PostClose(e)
           q == Append(p, c)
           k == Len(p)
<1>1. c \in Calls /\ ~IsSend(c)
  BY PostTyped DEF PostClose, IsSend
<1>2. /\ k \in Nat /\ DOMAIN p = 1..k /\ DOMAIN q = 1..k + 1
      /\ q[k + 1] = c /\ \A i \in 1..k : q[i] = p[i]
  <2> HIDE DEF c
  <2> QED BY <1>1, AppendOf
<1> HIDE DEF c, q, k
<1>3. \A i \in 1..k + 1 : IsSend(q[i]) => i \in 1..k /\ q[i] = p[i]
  BY <1>1, <1>2
<1>4. \A i \in 1..k : q[i] = p[i] /\ i \in 1..k + 1
  BY <1>2
<1>5. Posted(q, h, L)
  BY <1>2, <1>3, <1>4 DEF Posted
<1> QED BY <1>5 DEF q, c

(* The first of the posted functions runs: a close, or the next message.   *)
LEMMA PostedTail ==
    ASSUME NEW p \in Seq(Calls), p # <<>>, NEW h \in Seq(Headers), NEW L \in Nat, Posted(p, h, L)
    PROVE  /\ ~IsSend(Head(p)) => Posted(Tail(p), h, L)
           /\ IsSend(Head(p)) => /\ L + 1 \in 1..Len(h) /\ Head(p).msg = Nth(h, L + 1)
                                 /\ Posted(Tail(p), h, L + 1)
<1> DEFINE q == Tail(p)
           k == Len(p)
           S == Len(h)
<1>1. /\ k \in Nat /\ k >= 1 /\ Head(p) = p[1]
      /\ q \in Seq(Calls) /\ Len(q) = k - 1
      /\ \A i \in 1..k - 1 : q[i] = p[i + 1]
  BY TailOf
<1>2. DOMAIN p = 1..k /\ DOMAIN q = 1..k - 1 /\ S \in Nat
  BY <1>1
<1>3. /\ \A i \in 1..k : IsSend(p[i]) =>
            Num(p[i]) \in L + 1..S /\ p[i].msg = Nth(h, Num(p[i]))
      /\ \A i, j \in 1..k :
            i < j /\ IsSend(p[i]) /\ IsSend(p[j]) => Num(p[i]) < Num(p[j])
      /\ \A n \in L + 1..S : \E i \in 1..k : IsSend(p[i]) /\ Num(p[i]) = n
  BY <1>2 DEF Posted
<1> HIDE DEF q, k, S
<1>4. \A i \in 1..k - 1 : i + 1 \in 1..k /\ 1 < i + 1 /\ q[i] = p[i + 1]
  BY <1>1
<1>5. ASSUME NEW i \in 1..k, i # 1 PROVE i - 1 \in 1..k - 1 /\ q[i - 1] = p[i]
  <2>1. i - 1 \in 1..k - 1 /\ (i - 1) + 1 = i
    BY <1>1, <1>5
  <2> QED BY <1>4, <2>1
<1>6. ASSUME NEW i \in 1..k - 1, NEW j \in 1..k - 1, i < j, IsSend(q[i]), IsSend(q[j])
      PROVE  Num(q[i]) < Num(q[j])
  <2>1. i + 1 \in 1..k /\ j + 1 \in 1..k /\ i + 1 < j + 1
    BY <1>1, <1>6
  <2> QED BY <1>3, <1>4, <1>6, <2>1
<1>7. CASE ~IsSend(p[1])
  <2>1. \A n \in L + 1..S : \E i \in 1..k - 1 : IsSend(q[i]) /\ Num(q[i]) = n
    BY <1>3, <1>5, <1>7
  <2>2. \A i \in 1..k - 1 : IsSend(q[i]) =>
            Num(q[i]) \in L + 1..S /\ q[i].msg = Nth(h, Num(q[i]))
    BY <1>3, <1>4
  <2>3. Posted(q, h, L)
    BY <1>2, <1>6, <2>1, <2>2 DEF Posted, S
  <2> QED BY <1>1, <1>7, <2>3 DEF q
<1>8. CASE IsSend(p[1])
  <2>1. 1 \in 1..k /\ Num(p[1]) \in L + 1..S
    BY <1>1, <1>3, <1>8
  <2>2. Num(p[1]) = L + 1 /\ L + 1 \in 1..S
    <3>1. L + 1 \in L + 1..S /\ L + 1 \in 1..S
      BY <1>2, <2>1
    <3>2. PICK i \in 1..k : IsSend(p[i]) /\ Num(p[i]) = L + 1
      BY <1>3, <3>1
    <3>3. i = 1 \/ 1 < i
      OBVIOUS
    <3>4. i # 1 => Num(p[1]) < L + 1
      BY <1>3, <1>8, <2>1, <3>2, <3>3
    <3> QED BY <1>2, <2>1, <3>1, <3>2, <3>4
  <2>3. p[1].msg = Nth(h, L + 1)
    BY <1>3, <1>8, <2>1, <2>2
  <2>4. ASSUME NEW i \in 1..k - 1, IsSend(q[i])
        PROVE  Num(q[i]) \in (L + 1) + 1..S /\ q[i].msg = Nth(h, Num(q[i]))
    <3>1. i + 1 \in 1..k /\ 1 < i + 1 /\ q[i] = p[i + 1]
      BY <1>4
    <3>2. Num(q[i]) \in L + 1..S /\ q[i].msg = Nth(h, Num(q[i]))
      BY <1>3, <2>4, <3>1
    <3>3. L + 1 < Num(q[i])
      BY <1>3, <1>8, <2>1, <2>2, <2>4, <3>1
    <3> QED BY <1>2, <3>2, <3>3
  <2>5. ASSUME NEW n \in (L + 1) + 1..S
        PROVE  \E i \in 1..k - 1 : IsSend(q[i]) /\ Num(q[i]) = n
    <3>1. n \in L + 1..S /\ n # L + 1
      BY <1>2
    <3>2. PICK i \in 1..k : IsSend(p[i]) /\ Num(p[i]) = n
      BY <1>3, <3>1
    <3>3. i # 1
      BY <2>2, <3>1, <3>2
    <3> QED BY <1>5, <3>2, <3>3
  <2>6. Posted(q, h, L + 1)
    BY <1>2, <1>6, <2>4, <2>5 DEF Posted, S
  <2> QED BY <1>1, <1>8, <2>2, <2>3, <2>6 DEF q, S
<1> QED BY <1>7, <1>8

-----------------------------------------------------------------------------
(* A direction that a step leaves alone.                                   *)
Still(e) == WriterSame(e) /\ ReaderSame(Peer[e]) /\ UNCHANGED <<pipe[e], posted[e]>>

LEMMA StillStream ==
    ASSUME NEW e \in Ends, NEW L \in Nat, Stream(e, L), Still(e)
    PROVE  Stream(e, L)'
<1>1. Peer[e] \in Ends
  BY EndsAssumption
<1>2. pipe'[e] = pipe[e] /\ posted'[e] = posted[e]
  BY DEF Still
<1>3. Posted(posted'[e], sent[e], L)
  BY <1>2 DEF Stream
<1> QED BY <1>1, <1>2, <1>3, Undisturbed DEF Still

(* Operations other than those of x keep their place, and so does that of  *)
(* x where its place is kept.                                              *)
LEMMA FamilyKept ==
    ASSUME NEW f \in [Ends -> Operation], NEW x \in Ends, NEW op,
           SamePlace(f[x], op), NEW g, g = [f EXCEPT ![x] = op]
    PROVE  \A d \in Ends : SamePlace(f[d], g[d])
BY DEF SamePlace

LEMMA StatusKept ==
    ASSUME NEW f \in [Ends -> Operation], NEW x \in Ends, f[x].st # "done", NEW st, st # "done",
           NEW g, g = [f EXCEPT ![x].st = st]
    PROVE  \A d \in Ends : SamePlace(f[d], g[d])
BY DEF SamePlace, Operation

LEMMA SameKept == ASSUME NEW f, NEW d PROVE SamePlace(f[d], f[d])
BY DEF SamePlace

(* What keeps every direction still.                                       *)
LEMMA AllStill ==
    ASSUME UNCHANGED <<posted, messagesOut, temporaryIn, messagesIn, pipe, sent>>,
           \A d \in Ends : SamePlace(readOp[d], readOp'[d]) /\ SamePlace(writeOp[d], writeOp'[d])
    PROVE  \A e \in Ends : Still(e)
<1>1. \A e \in Ends : Peer[e] \in Ends
  BY EndsAssumption
<1> QED BY <1>1 DEF Still, WriterSame, ReaderSame

(* Connecting, the destruction of an end, failures and the error handlers. *)
LEMMA ConnectingStill ==
    ASSUME Types, ChainInv, ReadStarts, NEW x \in Ends, Connecting(x) \/ ConnectFails(x)
    PROVE  \A e \in Ends : Still(e)
<1>0. readOp \in [Ends -> Operation] /\ writeOp \in [Ends -> Operation]
  BY DEF Types
<1>1. /\ UNCHANGED <<posted, messagesOut, temporaryIn, messagesIn, pipe, sent, writeOp>>
      /\ \/ readOp' = readOp
         \/ /\ readOp[x] = Idle
            /\ \E op \in Operation : /\ op.part = "header" /\ op.st # "done"
                                     /\ readOp' = [readOp EXCEPT ![x] = op]
  <2>1. CASE ConnectToListener(x) \/ Established(x) \/ ConnectFails(x)
    BY <2>1 DEF ConnectToListener, Established, ConnectFails
  <2>2. CASE ConnectHandler(x)
    <3>1. Outstanding(connectOp[x])
      BY <2>2 DEF ConnectHandler, Outstanding
    <3>2. readOp[x] = Idle
      BY <3>1 DEF ReadStarts
    <3>3. /\ Started(x, "header") \in Operation
          /\ Started(x, "header").part = "header" /\ Started(x, "header").st # "done"
      BY DEF Started, Operation, Parts, Status
    <3> QED BY <2>2, <3>2, <3>3 DEF ConnectHandler
  <2>3. CASE ConnectFromListener(x)
    <3>1. readOp[x] = Idle
      BY <2>3 DEF ConnectFromListener, ReadStarts, NotOpen
    <3> DEFINE op == [part |-> "header", st |-> "pending"]
    <3>2. op \in Operation /\ op.part = "header" /\ op.st # "done"
      BY DEF Operation, Parts, Status
    <3> QED BY <2>3, <3>1, <3>2 DEF ConnectFromListener
  <2> QED BY <2>1, <2>2, <2>3 DEF Connecting
<1>2. \A d \in Ends : SamePlace(readOp[d], readOp'[d])
  <2>1. CASE readOp' = readOp
    BY <2>1, SameKept
  <2>2. CASE readOp' # readOp
    <3>1. PICK op \in Operation : /\ op.part = "header" /\ op.st # "done"
                                  /\ readOp' = [readOp EXCEPT ![x] = op]
      BY <1>1, <2>2
    <3>2. SamePlace(readOp[x], op)
      BY <1>1, <2>2, <3>1 DEF SamePlace, Idle
    <3> QED BY <1>0, <3>1, <3>2, FamilyKept
  <2> QED BY <2>1, <2>2
<1>3. \A d \in Ends : SamePlace(writeOp[d], writeOp'[d])
  BY <1>1, SameKept
<1> QED BY <1>1, <1>2, <1>3, AllStill

LEMMA FailuresStill ==
    ASSUME Types, NEW x \in Ends,
           \/ Release(x) \/ BreakNetwork(x) \/ WriteErrorHandler(x) \/ ReadErrorHandler(x)
           \/ ReadEnd(x) \/ ReadReset(x) \/ WriteReset(x)
    PROVE  \A e \in Ends : Still(e)
<1>0. readOp \in [Ends -> Operation] /\ writeOp \in [Ends -> Operation]
  BY DEF Types
<1>1. UNCHANGED <<posted, messagesOut, temporaryIn, messagesIn, pipe, sent>>
  BY DEF Release, BreakNetwork, WriteErrorHandler, ReadErrorHandler, ReadEnd, ReadReset, WriteReset
<1>2. CASE Release(x) \/ BreakNetwork(x)
  <2>1. UNCHANGED <<readOp, writeOp>>
    BY <1>2 DEF Release, BreakNetwork
  <2> QED BY <1>1, <2>1, SameKept, AllStill
<1>3. CASE WriteErrorHandler(x)
  <2>1. /\ writeOp[x].st = "failed"
        /\ readOp' = [readOp EXCEPT ![x] = Aborted(readOp[x])]
        /\ writeOp' = [writeOp EXCEPT ![x] = Aborted(Finished(writeOp[x], "none"))]
    BY <1>3 DEF WriteErrorHandler, Close
  <2>2. /\ SamePlace(readOp[x], Aborted(readOp[x]))
        /\ SamePlace(writeOp[x], Aborted(Finished(writeOp[x], "none")))
    BY <1>0, <2>1, PlaceKept
  <2> QED BY <1>0, <1>1, <2>1, <2>2, FamilyKept, AllStill
<1>4. CASE ReadErrorHandler(x)
  <2>1. /\ readOp[x].st = "failed"
        /\ readOp' = [readOp EXCEPT ![x] = Aborted(Finished(readOp[x], "none"))]
        /\ writeOp' = [writeOp EXCEPT ![x] = Aborted(writeOp[x])]
    BY <1>4 DEF ReadErrorHandler, Close
  <2>2. /\ SamePlace(writeOp[x], Aborted(writeOp[x]))
        /\ SamePlace(readOp[x], Aborted(Finished(readOp[x], "none")))
    BY <1>0, <2>1, PlaceKept
  <2> QED BY <1>0, <1>1, <2>1, <2>2, FamilyKept, AllStill
<1>5. CASE ReadEnd(x) \/ ReadReset(x)
  <2>1. /\ readOp[x].st = "pending" /\ writeOp' = writeOp
        /\ readOp' = [readOp EXCEPT ![x].st = "failed"]
    BY <1>5 DEF ReadEnd, ReadReset
  <2>2. \A d \in Ends : SamePlace(readOp[d], readOp'[d])
    BY <1>0, <2>1, StatusKept
  <2> QED BY <1>1, <2>1, <2>2, SameKept, AllStill
<1>6. CASE WriteReset(x)
  <2>1. /\ writeOp[x].st = "pending" /\ readOp' = readOp
        /\ writeOp' = [writeOp EXCEPT ![x].st = "failed"]
    BY <1>6 DEF WriteReset
  <2>2. \A d \in Ends : SamePlace(writeOp[d], writeOp'[d])
    BY <1>0, <2>1, StatusKept
  <2> QED BY <1>1, <2>1, <2>2, SameKept, AllStill
<1> QED BY <1>2, <1>3, <1>4, <1>5, <1>6

-----------------------------------------------------------------------------
(* A close is posted or run: the writer and reader stay, the messages that *)
(* are posted stay in order.                                               *)
LEMMA CloseSteps ==
    ASSUME Types, NEW x \in Ends,
           Disconnect(x) \/ RefuseFromListener(x) \/ RunClose(x),
           NEW e \in Ends, NEW L \in Nat, Stream(e, L)
    PROVE  Stream(e, L)'
<1>0. /\ readOp \in [Ends -> Operation] /\ writeOp \in [Ends -> Operation]
      /\ posted \in [Ends -> Seq(Calls)] /\ sent \in [Ends -> Seq(Headers)]
  BY DEF Types, Calls
<1>1. /\ UNCHANGED <<messagesOut, temporaryIn, messagesIn, pipe, sent>>
      /\ \/ posted' = [posted EXCEPT ![x] = Append(@, PostClose(x))]
         \/ /\ posted[x] # <<>> /\ Head(posted[x]) = PostClose(x)
            /\ posted' = [posted EXCEPT ![x] = Tail(@)]
  BY DEF Disconnect, RefuseFromListener, RunClose
<1>2. \A d \in Ends : SamePlace(readOp[d], readOp'[d]) /\ SamePlace(writeOp[d], writeOp'[d])
  <2>1. CASE Disconnect(x) \/ RefuseFromListener(x)
    BY <2>1, SameKept DEF Disconnect, RefuseFromListener
  <2>2. CASE RunClose(x)
    <3>1. /\ readOp' = [readOp EXCEPT ![x] = Aborted(readOp[x])]
          /\ writeOp' = [writeOp EXCEPT ![x] = Aborted(writeOp[x])]
      BY <2>2 DEF RunClose, Close
    <3>2. /\ SamePlace(readOp[x], Aborted(readOp[x]))
          /\ SamePlace(writeOp[x], Aborted(writeOp[x]))
      BY <1>0, PlaceKept
    <3> QED BY <1>0, <3>1, <3>2, FamilyKept
  <2> QED BY <2>1, <2>2
<1>3. Posted(posted[e], sent[e], L) /\ posted[e] \in Seq(Calls) /\ sent[e] \in Seq(Headers)
  BY <1>0 DEF Stream
<1>4. Posted(posted'[e], sent[e], L)
  <2>1. CASE e # x
    BY <1>0, <1>1, <1>3, <2>1
  <2>2. CASE e = x /\ posted'[e] = Append(posted[e], PostClose(x))
    BY <1>3, <2>2, PostedClose
  <2>3. CASE /\ e = x /\ posted[e] # <<>> /\ Head(posted[e]) = PostClose(x)
             /\ posted'[e] = Tail(posted[e])
    <3>1. ~IsSend(Head(posted[e]))
      BY <2>3 DEF IsSend, PostClose
    <3> QED BY <1>3, <2>3, <3>1, PostedTail
  <2> QED BY <1>0, <1>1, <2>1, <2>2, <2>3
<1>5. Peer[e] \in Ends
  BY EndsAssumption
<1>6. WriterSame(e) /\ ReaderSame(Peer[e])
  BY <1>1, <1>2, <1>5 DEF WriterSame, ReaderSame
<1>7. pipe'[e] = pipe[e]
  BY <1>1
<1> QED BY <1>4, <1>5, <1>6, <1>7, Undisturbed

(* One more message is sent: what was known of the others stays true.      *)
LEMMA MoreSent ==
    ASSUME NEW h \in Seq(Headers), NEW c \in Headers, c.num = Len(h) + 1,
           NEW g, g = Append(h, c)
    PROVE  /\ Numbered(h) => Numbered(g)
           /\ \A L \in Nat, q \in Seq(Messages) : Queued(q, h, L) => Queued(q, g, L)
           /\ \A s \in Seq(Chunk) : Carries(s, h) => Carries(s, g)
           /\ \A s \in Seq(Messages) : Begins(s, h) => Begins(s, g)
           /\ \A r : messagesIn[r] \in Seq(Messages) /\ NextIn(r, h) => NextIn(r, g)
<1>1. /\ Len(h) \in Nat /\ Len(g) = Len(h) + 1
      /\ DOMAIN h = 1..Len(h) /\ DOMAIN g = 1..Len(h) + 1
      /\ g[Len(h) + 1] = c /\ \A i \in 1..Len(h) : g[i] = h[i]
  BY AppendOf
<1>2. \A n \in 1..Len(h) : Nth(g, n) = Nth(h, n) /\ n \in 1..Len(g)
  BY <1>1 DEF Nth
<1>3. Numbered(h) => Numbered(g)
  BY <1>1 DEF Numbered
<1>4. ASSUME NEW L \in Nat, NEW q \in Seq(Messages), Queued(q, h, L) PROVE Queued(q, g, L)
  <2>1. Len(q) \in Nat /\ DOMAIN q = 1..Len(q) /\ Len(q) <= L /\ L <= Len(h)
    BY <1>4 DEF Queued
  <2>2. \A i \in DOMAIN q : L - Len(q) + i \in 1..Len(h)
    BY <1>1, <2>1
  <2> QED BY <1>1, <1>2, <1>4, <2>1, <2>2 DEF Queued
<1>5. ASSUME NEW s \in Seq(Chunk), Carries(s, h) PROVE Carries(s, g)
  BY <1>2, <1>5 DEF Carries
<1>6. ASSUME NEW s \in Seq(Messages), Begins(s, h) PROVE Begins(s, g)
  <2>1. Len(s) \in Nat /\ DOMAIN s = 1..Len(s) /\ Len(s) <= Len(h)
    BY <1>6 DEF Begins
  <2> QED BY <1>1, <1>6, <2>1 DEF Begins
<1>7. ASSUME NEW r, messagesIn[r] \in Seq(Messages), NextIn(r, h) PROVE NextIn(r, g)
  <2>1. Len(messagesIn[r]) \in Nat
    BY <1>7
  <2> QED BY <1>1, <1>7, <2>1 DEF NextIn
<1> QED BY <1>3, <1>4, <1>5, <1>6, <1>7

(* The functions of an end other than x are left alone.                    *)
LEMMA OthersStill ==
    ASSUME NEW x \in Ends, NEW e \in Ends, e # x,
           UNCHANGED <<readOp, temporaryIn, messagesIn>>,
           /\ posted'[e] = posted[e] /\ messagesOut'[e] = messagesOut[e]
           /\ writeOp'[e] = writeOp[e] /\ pipe'[e] = pipe[e] /\ sent'[e] = sent[e]
    PROVE  Still(e)
BY EndsAssumption DEF Still, WriterSame, ReaderSame, SamePlace

(* The owner sends: the message is posted, behind those before it.         *)
LEMMA SendStep ==
    ASSUME Types, NEW x \in Ends, Send(x), NEW e \in Ends, NEW L \in Nat, Stream(e, L)
    PROVE  Stream(e, L)'
<1>0. /\ posted \in [Ends -> Seq(Calls)] /\ sent \in [Ends -> Seq(Headers)]
      /\ messagesOut \in [Ends -> Seq(Messages)] /\ messagesIn \in [Ends -> Seq(Messages)]
      /\ pipe \in [Ends -> Seq(Chunk)] /\ Peer[e] \in Ends
  BY EndsAssumption DEF Types, Calls
<1>1. UNCHANGED <<readOp, writeOp, messagesOut, temporaryIn, messagesIn, pipe>>
  BY DEF Send
<1>2. PICK sized \in Sized :
        /\ posted' = [posted EXCEPT ![x] =
                         Append(@, PostSend(Message(x, Len(sent[x]) + 1, sized)))]
        /\ sent' = [sent EXCEPT ![x] = Append(@, Message(x, Len(sent[x]) + 1, sized).header)]
  BY DEF Send
<1>3. CASE e # x
  BY <1>0, <1>1, <1>2, <1>3, OthersStill, StillStream
<1>4. CASE e = x
  <2> DEFINE h == sent[e]
             g == sent'[e]
             m == Message(x, Len(h) + 1, sized)
  <2>1. Len(h) + 1 \in Nat /\ sized \in BOOLEAN /\ h \in Seq(Headers) /\ Len(h) \in Nat
    <3>1. h \in Seq(Headers)
      BY <1>0
    <3>2. sized \in BOOLEAN
      BY ConnectionBounds
    <3> HIDE DEF h
    <3> QED BY <3>1, <3>2
  <2>2. m \in Messages /\ m.header \in Headers /\ m.header.num = Len(h) + 1
        /\ m.header.sized = sized
    BY <2>1, MessageTyped DEF Message, Messages
  <2>3. posted'[e] = Append(posted[e], PostSend(m)) /\ g = Append(h, m.header)
    BY <1>0, <1>2, <1>4
  <2>4. m = Nth(g, Len(h) + 1)
    <3>1. g[Len(h) + 1] = m.header
      BY <2>1, <2>2, <2>3, AppendOf
    <3>2. m.header.from = x /\ m.header.sized = sized
      BY DEF Message
    <3> HIDE DEF h, g
    <3> QED BY <3>1, <3>2 DEF Nth
  <2>5. /\ Numbered(h) /\ Queued(messagesOut[e], h, L) /\ Posted(posted[e], h, L)
        /\ Carries(pipe[e], h) /\ Links(pipe[e], ReadPos(Peer[e]), WritePos(e, L))
        /\ Begins(messagesIn[Peer[e]], h) /\ NextIn(Peer[e], h)
    BY DEF Stream
  <2>6. L \in 0..Len(h)
    <3>1. messagesOut[e] \in Seq(Messages)
      BY <1>0
    <3> QED BY <2>1, <2>5, <3>1 DEF Queued
  <2> HIDE DEF h, m, g
  <2>7. Posted(posted'[e], g, L)
    <3>1. posted[e] \in Seq(Calls)
      BY <1>0
    <3> QED BY <2>1, <2>2, <2>3, <2>4, <2>5, <2>6, <3>1, PostedSend
  <2>8. /\ Numbered(g) /\ Queued(messagesOut[e], g, L) /\ Carries(pipe[e], g)
        /\ Begins(messagesIn[Peer[e]], g) /\ NextIn(Peer[e], g)
    BY <1>0, <2>1, <2>2, <2>3, <2>5, MoreSent
  <2>9. ReadPos(Peer[e])' = ReadPos(Peer[e]) /\ WritePos(e, L)' = WritePos(e, L)
    BY <1>1 DEF ReadPos, WritePos
  <2>10. NextIn(Peer[e], sent[e])'
    BY <1>1, <2>8 DEF NextIn, Halfway, g
  <2> QED BY <1>1, <2>5, <2>7, <2>8, <2>9, <2>10 DEF Stream, g
<1> QED BY <1>3, <1>4

-----------------------------------------------------------------------------
(* A queue that is not empty begins with the oldest message not popped.    *)
LEMMA QueueHead ==
    ASSUME NEW h \in Seq(Headers), Numbered(h), NEW L \in Nat,
           NEW q \in Seq(Messages), q # <<>>, Queued(q, h, L)
    PROVE  LET n == L - Len(q) + 1
           IN /\ n \in 1..Len(h) /\ Head(q) = Nth(h, n) /\ Head(q) \in Messages
              /\ Head(q).header.num = n /\ Head(q).header.sized \in BOOLEAN
              /\ Head(q).body # NoBody <=> Head(q).header.sized
<1> DEFINE n == L - Len(q) + 1
<1>1. /\ Len(q) \in Nat /\ Len(q) >= 1 /\ Head(q) = q[1] /\ 1 \in DOMAIN q
      /\ Len(q) <= L /\ L <= Len(h) /\ Len(h) \in Nat
  BY TailOf DEF Queued
<1>2. n \in 1..Len(h) /\ q[1] = Nth(h, n)
  BY <1>1 DEF Queued
<1> HIDE DEF n
<1>3. /\ Nth(h, n) \in Messages /\ Nth(h, n).header.num = n
      /\ Nth(h, n).header.sized \in BOOLEAN
      /\ Nth(h, n).body # NoBody <=> Nth(h, n).header.sized
  BY <1>2, NthIs
<1> QED BY <1>1, <1>2, <1>3 DEF n

(* The queue gets the next message, or loses its first.                    *)
LEMMA QueueGrows ==
    ASSUME NEW h \in Seq(Headers), NEW L \in Nat, L + 1 <= Len(h),
           NEW q \in Seq(Messages), Queued(q, h, L), NEW m \in Messages, m = Nth(h, L + 1)
    PROVE  Queued(Append(q, m), h, L + 1)
<1> DEFINE t == Append(q, m)
<1>1. /\ Len(q) \in Nat /\ Len(t) = Len(q) + 1 /\ DOMAIN q = 1..Len(q)
      /\ DOMAIN t = 1..Len(q) + 1 /\ t[Len(q) + 1] = m /\ \A i \in 1..Len(q) : t[i] = q[i]
  BY AppendOf
<1> HIDE DEF t
<1>2. Len(q) <= L /\ \A i \in 1..Len(q) : q[i] = Nth(h, L - Len(q) + i)
  BY <1>1 DEF Queued
<1>3. ASSUME NEW i \in 1..Len(q) + 1 PROVE t[i] = Nth(h, (L + 1) - Len(t) + i)
  <2>1. (L + 1) - Len(t) + i = L - Len(q) + i
    BY <1>1
  <2>2. CASE i = Len(q) + 1
    <3>1. L - Len(q) + i = L + 1
      BY <1>1, <2>2
    <3> QED BY <1>1, <2>1, <2>2, <3>1
  <2>3. CASE i # Len(q) + 1
    <3>1. i \in 1..Len(q)
      BY <1>1, <2>3
    <3> QED BY <1>1, <1>2, <2>1, <3>1
  <2> QED BY <2>2, <2>3
<1>4. Len(t) <= L + 1
  BY <1>1, <1>2
<1>5. Queued(t, h, L + 1)
  BY <1>1, <1>3, <1>4 DEF Queued
<1> QED BY <1>5 DEF t

LEMMA QueueShrinks ==
    ASSUME NEW h \in Seq(Headers), NEW L \in Nat, NEW q \in Seq(Messages), q # <<>>,
           Queued(q, h, L)
    PROVE  Queued(Tail(q), h, L)
<1> DEFINE t == Tail(q)
<1>1. /\ Len(q) \in Nat /\ Len(q) >= 1 /\ Len(t) = Len(q) - 1 /\ t \in Seq(Messages)
      /\ \A i \in 1..Len(q) - 1 : t[i] = q[i + 1]
  BY TailOf
<1> HIDE DEF t
<1>a. DOMAIN t = 1..Len(q) - 1 /\ DOMAIN q = 1..Len(q)
  BY <1>1
<1>2. /\ Len(q) <= L /\ L <= Len(h)
      /\ \A i \in 1..Len(q) : q[i] = Nth(h, L - Len(q) + i)
  BY <1>a DEF Queued
<1>3. ASSUME NEW i \in 1..Len(q) - 1 PROVE t[i] = Nth(h, L - Len(t) + i)
  <2>1. i + 1 \in 1..Len(q) /\ L - Len(t) + i = L - Len(q) + (i + 1)
    BY <1>1
  <2> QED BY <1>1, <1>2, <2>1
<1>4. Len(t) <= L
  BY <1>1, <1>2
<1>5. Queued(t, h, L)
  BY <1>a, <1>2, <1>3, <1>4 DEF Queued
<1> QED BY <1>5 DEF t
-----------------------------------------------------------------------------
(* The lambda of Send queues the next message.                             *)
LEMMA RunSendStep ==
    ASSUME Types, NEW x \in Ends, RunSend(x), NEW e \in Ends, NEW L \in Nat, Stream(e, L)
    PROVE  Stream(e, L)' \/ Stream(e, L + 1)'
<1>0. /\ posted \in [Ends -> Seq(Calls)] /\ sent \in [Ends -> Seq(Headers)]
      /\ messagesOut \in [Ends -> Seq(Messages)] /\ writeOp \in [Ends -> Operation]
      /\ Peer[e] \in Ends
  BY EndsAssumption DEF Types, Calls
<1>1. /\ UNCHANGED <<readOp, temporaryIn, messagesIn, pipe, sent>>
      /\ posted[x] # <<>> /\ IsSend(Head(posted[x]))
      /\ posted' = [posted EXCEPT ![x] = Tail(@)]
      /\ messagesOut' = [messagesOut EXCEPT ![x] = Append(@, Head(posted[x]).msg)]
      /\ writeOp' = IF messagesOut[x] = <<>>
                    THEN [writeOp EXCEPT ![x] = Started(x, "header")] ELSE writeOp
  BY DEF RunSend, RunSendStarting, IsSend
<1>2. CASE e # x
  BY <1>0, <1>1, <1>2, OthersStill, StillStream
<1>3. CASE e = x
  <2> DEFINE h == sent[e]
             q == messagesOut[e]
             m == Head(posted[e]).msg
  <2>1. /\ Numbered(h) /\ Queued(q, h, L) /\ Posted(posted[e], h, L)
        /\ Carries(pipe[e], h) /\ Links(pipe[e], ReadPos(Peer[e]), WritePos(e, L))
        /\ Begins(messagesIn[Peer[e]], h) /\ NextIn(Peer[e], h)
    BY DEF Stream
  <2>2. /\ h \in Seq(Headers) /\ q \in Seq(Messages) /\ posted[e] \in Seq(Calls)
        /\ sent'[e] = h /\ messagesOut'[e] = Append(q, m) /\ posted'[e] = Tail(posted[e])
    BY <1>0, <1>1, <1>3
  <2>3. /\ L + 1 \in 1..Len(h) /\ m = Nth(h, L + 1) /\ Posted(posted'[e], h, L + 1)
    BY <1>1, <1>3, <2>1, <2>2, PostedTail
  <2>4. m \in Messages /\ m.header.num = L + 1 /\ L + 1 <= Len(h)
    <3>1. Len(h) \in Nat
      BY <2>2
    <3> HIDE DEF h, m
    <3> QED BY <2>1, <2>2, <2>3, <3>1, NthIs
  <2>5. Queued(messagesOut'[e], h, L + 1)
    <3> HIDE DEF h, q, m
    <3> QED BY <2>1, <2>2, <2>3, <2>4, QueueGrows
  <2>6. WritePos(e, L + 1)' = WritePos(e, L)
    <3>1. messagesOut'[e] # <<>> /\ (q # <<>> => Head(messagesOut'[e]) = Head(q))
      <4> HIDE DEF q, m
      <4> QED BY <2>2, <2>4
    <3>2. CASE q = <<>>
      <4>1. writeOp'[e].part = "header" /\ writeOp'[e].st # "done"
        BY <1>0, <1>1, <1>3, <3>2 DEF Started
      <4>2. Head(messagesOut'[e]) = m
        <5> HIDE DEF q, m
        <5> QED BY <2>2, <2>4, <3>2
      <4> QED BY <2>4, <3>1, <3>2, <4>1, <4>2 DEF WritePos, Pos
    <3>3. CASE q # <<>>
      <4>1. writeOp'[e] = writeOp[e]
        BY <1>1, <1>3, <3>3
      <4> QED BY <3>1, <3>3, <4>1 DEF WritePos
    <3> QED BY <3>2, <3>3
  <2>7. ReadPos(Peer[e])' = ReadPos(Peer[e]) /\ NextIn(Peer[e], sent[e])'
    BY <1>1, <2>1 DEF ReadPos, NextIn, Halfway
  <2>8. Stream(e, L + 1)'
    BY <1>1, <2>1, <2>2, <2>3, <2>5, <2>6, <2>7 DEF Stream
  <2> QED BY <2>8
<1> QED BY <1>2, <1>3

(* The handlers of a finished write go on with the body or the next        *)
(* message, where the writer is.                                           *)
LEMMA WriteHandlerStep ==
    ASSUME Types, ChainInv, NEW x \in Ends, WriteHandler(x),
           NEW e \in Ends, NEW L \in Nat, Stream(e, L)
    PROVE  Stream(e, L)'
<1>0. /\ sent \in [Ends -> Seq(Headers)] /\ messagesOut \in [Ends -> Seq(Messages)]
      /\ writeOp \in [Ends -> Operation] /\ Peer[e] \in Ends
  BY EndsAssumption DEF Types
<1> DEFINE toBody == HasBodyToWrite(x)
           left == Tail(messagesOut[x])
<1>1. /\ UNCHANGED <<readOp, temporaryIn, messagesIn, pipe, sent, posted>>
      /\ writeOp[x].st = "done"
      /\ messagesOut' = [messagesOut EXCEPT ![x] = IF toBody THEN @ ELSE left]
      /\ writeOp' = [writeOp EXCEPT ![x] =
                        IF toBody THEN Started(x, "body")
                        ELSE IF left # <<>> THEN Started(x, "header")
                        ELSE Finished(@, "none")]
  <2> HIDE DEF toBody, left
  <2> QED BY DEF WriteHandler, WriteNext, toBody, left
<1>2. CASE e # x
  <2>1. messagesOut'[e] = messagesOut[e] /\ writeOp'[e] = writeOp[e]
    <3> HIDE DEF toBody, left
    <3> QED BY <1>0, <1>1, <1>2
  <2> QED BY <1>1, <1>2, <2>1, OthersStill, StillStream
<1>3. CASE e = x
  <2> DEFINE h == sent[e]
             q == messagesOut[e]
  <2>1. /\ Numbered(h) /\ Queued(q, h, L) /\ Posted(posted[e], h, L)
        /\ Carries(pipe[e], h) /\ Links(pipe[e], ReadPos(Peer[e]), WritePos(e, L))
        /\ Begins(messagesIn[Peer[e]], h) /\ NextIn(Peer[e], h)
    BY DEF Stream
  <2>2. /\ h \in Seq(Headers) /\ q \in Seq(Messages) /\ q # <<>>
        /\ writeOp[e].part \in Parts
    BY <1>0, <1>1, <1>3 DEF ChainInv, WritePump, Outstanding, Operation
  <2>3. LET n == L - Len(q) + 1
        IN /\ n \in 1..Len(h) /\ Head(q).header.num = n /\ Head(q).header.sized \in BOOLEAN
           /\ Head(q).body # NoBody <=> Head(q).header.sized
    <3> HIDE DEF h, q
    <3> QED BY <2>1, <2>2, QueueHead
  <2>4. WritePos(e, L) = NextPos(writeOp[e].part, Head(q))
    BY <1>1, <1>3, <2>2 DEF WritePos
  <2>5. Queued(messagesOut'[e], h, L) /\ WritePos(e, L)' = WritePos(e, L)
    <3>1. CASE HasBodyToWrite(e)
      <4>1. messagesOut'[e] = q /\ writeOp'[e] = Started(e, "body")
        BY <1>0, <1>1, <1>3, <3>1
      <4>2. WritePos(e, L)' = Pos("body", Head(q))
        BY <2>2, <4>1 DEF WritePos, Started
      <4>3. NextPos(writeOp[e].part, Head(q)) = Pos("body", Head(q))
        BY <2>3, <3>1 DEF NextPos, Pos, HasBodyToWrite
      <4> QED BY <2>1, <2>4, <4>1, <4>2, <4>3
    <3>2. CASE ~HasBodyToWrite(e)
      <4> DEFINE t == Tail(q)
      <4>1. messagesOut'[e] = t
        <5> HIDE DEF left, toBody
        <5> QED BY <1>0, <1>1, <1>3, <3>2 DEF left, toBody
      <4>2. /\ t \in Seq(Messages) /\ Len(q) \in Nat /\ Len(t) = Len(q) - 1
            /\ (t = <<>> <=> Len(q) = 1) /\ Len(q) >= 1
        <5> HIDE DEF q
        <5> QED BY <2>2, TailOf
      <4>3. Queued(t, h, L)
        <5> HIDE DEF h, q
        <5> QED BY <2>1, <2>2, QueueShrinks
      <4>4. NextPos(writeOp[e].part, Head(q)) = <<Head(q).header.num + 1, "header">>
        BY <2>3, <3>2 DEF NextPos, HasBodyToWrite
      <4>5. CASE t = <<>>
        <5>1. Head(q).header.num = L
          <6> HIDE DEF h, q, t
          <6>1. Len(q) = 1
            BY <4>2, <4>5
          <6>2. Head(q).header.num = L - Len(q) + 1
            BY <2>3
          <6> QED BY <6>1, <6>2
        <5>2. WritePos(e, L)' = <<L + 1, "header">>
          BY <4>1, <4>5 DEF WritePos
        <5>3. WritePos(e, L)' = WritePos(e, L)
          <6> HIDE DEF q, t
          <6> QED BY <2>4, <4>4, <5>1, <5>2
        <5> HIDE DEF h, t
        <5> QED BY <4>1, <4>3, <5>3
      <4>6. CASE t # <<>>
        <5>1. writeOp'[e].part = "header" /\ writeOp'[e].st # "done"
          BY <1>0, <1>1, <1>3, <3>2, <4>6 DEF Started
        <5>2. WritePos(e, L)' = Pos("header", Head(t))
          BY <4>1, <4>6, <5>1 DEF WritePos
        <5>3. Head(t).header.num = L - Len(t) + 1
          <6> HIDE DEF h, t
          <6> QED BY <2>1, <2>2, <4>2, <4>3, <4>6, QueueHead
        <5>4. Head(t).header.num = Head(q).header.num + 1
          <6> HIDE DEF q, t
          <6> QED BY <2>3, <4>2, <5>3
        <5>5. WritePos(e, L)' = WritePos(e, L)
          <6> HIDE DEF q, t
          <6> QED BY <2>4, <4>4, <5>2, <5>4 DEF Pos
        <5> HIDE DEF h, t
        <5> QED BY <4>1, <4>3, <5>5
      <4> QED BY <4>5, <4>6
    <3> QED BY <3>1, <3>2
  <2>6. ReadPos(Peer[e])' = ReadPos(Peer[e]) /\ NextIn(Peer[e], sent[e])'
    BY <1>1, <2>1 DEF ReadPos, NextIn, Halfway
  <2> QED BY <1>1, <2>1, <2>5, <2>6 DEF Stream
<1> QED BY <1>2, <1>3


(* What is written comes next in the stream.                               *)
LEMMA TransmitStep ==
    ASSUME Types, ChainInv, NEW x \in Ends, Transmit(x),
           NEW e \in Ends, NEW L \in Nat, Stream(e, L)
    PROVE  Stream(e, L)'
<1>0. /\ sent \in [Ends -> Seq(Headers)] /\ messagesOut \in [Ends -> Seq(Messages)]
      /\ writeOp \in [Ends -> Operation] /\ pipe \in [Ends -> Seq(Chunk)] /\ Peer[e] \in Ends
  BY EndsAssumption DEF Types
<1>1. /\ UNCHANGED <<readOp, temporaryIn, messagesIn, messagesOut, sent, posted>>
      /\ writeOp[x].st = "pending"
      /\ pipe' = [pipe EXCEPT ![x] =
                     Append(@, [part |-> writeOp[x].part, msg |-> Head(messagesOut[x])])]
      /\ writeOp' = [writeOp EXCEPT ![x].st = "done"]
  BY DEF Transmit
<1>2. CASE e # x
  <2>1. pipe'[e] = pipe[e] /\ writeOp'[e] = writeOp[e]
    BY <1>0, <1>1, <1>2
  <2> QED BY <1>1, <1>2, <2>1, OthersStill, StillStream
<1>3. CASE e = x
  <2> DEFINE h == sent[e]
             q == messagesOut[e]
             s == pipe[e]
             c == [part |-> writeOp[e].part, msg |-> Head(q)]
  <2>1. /\ Numbered(h) /\ Queued(q, h, L) /\ Posted(posted[e], h, L)
        /\ Carries(s, h) /\ Links(s, ReadPos(Peer[e]), WritePos(e, L))
        /\ Begins(messagesIn[Peer[e]], h) /\ NextIn(Peer[e], h)
    BY DEF Stream
  <2>2. /\ h \in Seq(Headers) /\ q \in Seq(Messages) /\ q # <<>> /\ s \in Seq(Chunk)
        /\ writeOp[e].part \in Parts
    BY <1>0, <1>1, <1>3 DEF ChainInv, WritePump, Outstanding, Operation
  <2>3. LET n == L - Len(q) + 1
        IN n \in 1..Len(h) /\ Head(q) = Nth(h, n) /\ Head(q).header.num = n /\ Head(q) \in Messages
    <3> HIDE DEF h, q
    <3> QED BY <2>1, <2>2, QueueHead
  <2>4. c \in Chunk /\ Num(c) \in 1..Len(h) /\ c.msg = Nth(h, Num(c))
    <3> HIDE DEF h, q
    <3> QED BY <2>2, <2>3 DEF Chunk, Num
  <2>5. pipe'[e] = Append(s, c) /\ writeOp'[e] = [part |-> writeOp[e].part, st |-> "done"]
    BY <1>0, <1>1, <1>3 DEF Operation
  <2>6. WritePos(e, L) = Pos(c.part, c.msg) /\ WritePos(e, L)' = NextPos(c.part, c.msg)
    BY <1>1, <1>3, <2>2, <2>5 DEF WritePos
  <2>7. ReadPos(Peer[e])' = ReadPos(Peer[e]) /\ NextIn(Peer[e], sent[e])'
    BY <1>1, <2>1 DEF ReadPos, NextIn, Halfway
  <2>8. Links(pipe'[e], ReadPos(Peer[e])', WritePos(e, L)')
    <3> HIDE DEF s, c
    <3> QED BY <2>1, <2>2, <2>4, <2>5, <2>6, <2>7, LinksAppend
  <2>9. Carries(pipe'[e], h)
    <3> HIDE DEF h, s, c
    <3>1. /\ DOMAIN s = 1..Len(s) /\ DOMAIN pipe'[e] = 1..Len(s) + 1 /\ Len(s) \in Nat
          /\ pipe'[e][Len(s) + 1] = c /\ \A i \in 1..Len(s) : pipe'[e][i] = s[i]
      BY <2>2, <2>4, <2>5, AppendOf
    <3>2. \A i \in 1..Len(s) + 1 : i \in 1..Len(s) \/ i = Len(s) + 1
      BY <3>1
    <3> QED BY <2>1, <2>4, <3>1, <3>2 DEF Carries
  <2> QED BY <1>1, <2>1, <2>7, <2>8, <2>9 DEF Stream
<1> QED BY <1>2, <1>3
-----------------------------------------------------------------------------
(* The reader of an end is not that of another.                            *)
LEMMA OneReader ==
    ASSUME NEW x \in Ends, NEW e \in Ends
    PROVE  Peer[e] \in Ends /\ (Peer[e] = x <=> e = Peer[x])
BY EndsAssumption DEF Ends

LEMMA OthersRead ==
    ASSUME NEW x \in Ends, NEW e \in Ends, e # Peer[x],
           UNCHANGED <<writeOp, messagesOut, sent, posted>>, pipe'[e] = pipe[e],
           \A d \in Ends : d # x => /\ readOp'[d] = readOp[d] /\ temporaryIn'[d] = temporaryIn[d]
                                    /\ messagesIn'[d] = messagesIn[d]
    PROVE  Still(e)
<1>1. Peer[e] \in Ends /\ Peer[e] # x
  BY OneReader
<1> QED BY <1>1 DEF Still, WriterSame, ReaderSame, SamePlace

(* The handlers of a finished read go on with the body, or push the message*)
(* and go on with the next header.                                         *)
LEMMA ReadHandlerStep ==
    ASSUME Types, NEW x \in Ends, ReadHandler(x), NEW e \in Ends, NEW L \in Nat, Stream(e, L)
    PROVE  Stream(e, L)'
<1>0. /\ sent \in [Ends -> Seq(Headers)] /\ messagesIn \in [Ends -> Seq(Messages)]
      /\ readOp \in [Ends -> Operation] /\ temporaryIn \in [Ends -> Messages]
  BY DEF Types
<1> DEFINE toBody == HasBodyToRead(x)
<1>1. /\ UNCHANGED <<writeOp, messagesOut, sent, posted, pipe, temporaryIn>>
      /\ readOp[x].st = "done"
      /\ messagesIn' = IF toBody THEN messagesIn
                       ELSE [messagesIn EXCEPT ![x] = Append(@, temporaryIn[x])]
      /\ readOp' = [readOp EXCEPT ![x] = IF toBody THEN Started(x, "body")
                                         ELSE Started(x, "header")]
  <2> HIDE DEF toBody
  <2> QED BY DEF ReadHandler, ReadNext, toBody
<1>2. CASE e # Peer[x]
  <2>1. \A d \in Ends : d # x => /\ readOp'[d] = readOp[d] /\ temporaryIn'[d] = temporaryIn[d]
                                 /\ messagesIn'[d] = messagesIn[d]
    <3> HIDE DEF toBody
    <3> QED BY <1>0, <1>1
  <2> QED BY <1>1, <1>2, <2>1, OthersRead, StillStream
<1>3. CASE e = Peer[x]
  <2> DEFINE h == sent[e]
             n == Len(messagesIn[x])
             m == temporaryIn[x]
  <2>0. Peer[e] = x
    BY <1>3, OneReader
  <2>1. /\ Numbered(h) /\ Queued(messagesOut[e], h, L) /\ Posted(posted[e], h, L)
        /\ Carries(pipe[e], h) /\ Links(pipe[e], ReadPos(x), WritePos(e, L))
        /\ Begins(messagesIn[x], h) /\ NextIn(x, h)
    BY <2>0 DEF Stream
  <2>2. h \in Seq(Headers) /\ n \in Nat /\ n < Len(h) /\ m.header = h[n + 1] /\ Len(h) \in Nat
    BY <1>0, <1>1, <2>1 DEF NextIn, Halfway
  <2>3. m.header.num = n + 1 /\ m.header.sized \in BOOLEAN
    <3>1. n + 1 \in 1..Len(h)
      BY <2>2
    <3> HIDE DEF h, n, m
    <3> QED BY <2>1, <2>2, <3>1, NthIs
  <2>4. readOp[x].part \in Parts /\ ReadPos(x) = NextPos(readOp[x].part, m)
    BY <1>0, <1>1 DEF ReadPos, Operation
  <2>5. ReadPos(x)' = ReadPos(x) /\ Begins(messagesIn'[x], h) /\ NextIn(x, sent[e])'
    <3>1. CASE HasBodyToRead(x)
      <4>1. /\ messagesIn'[x] = messagesIn[x] /\ temporaryIn'[x] = m /\ sent'[e] = h
            /\ readOp'[x].part = "body" /\ readOp'[x].st # "done"
        BY <1>0, <1>1, <3>1 DEF Started
      <4>2. ReadPos(x)' = <<n + 1, "body">>
        BY <4>1 DEF ReadPos
      <4>3. NextPos(readOp[x].part, m) = <<n + 1, "body">>
        BY <2>3, <3>1 DEF NextPos, HasBodyToRead
      <4>4. NextIn(x, sent[e])'
        BY <2>2, <4>1 DEF NextIn
      <4> QED BY <2>1, <2>4, <4>1, <4>2, <4>3, <4>4
    <3>2. CASE ~HasBodyToRead(x)
      <4>1. /\ messagesIn'[x] = Append(messagesIn[x], m)
            /\ readOp'[x].part = "header" /\ readOp'[x].st # "done"
        BY <1>0, <1>1, <3>2 DEF Started
      <4>2. /\ Len(messagesIn'[x]) = n + 1 /\ messagesIn'[x][n + 1] = m
            /\ DOMAIN messagesIn[x] = 1..n /\ DOMAIN messagesIn'[x] = 1..n + 1
            /\ \A i \in 1..n : messagesIn'[x][i] = messagesIn[x][i]
        <5>1. messagesIn[x] \in Seq(Messages) /\ m \in Messages
          BY <1>0
        <5> HIDE DEF m
        <5> QED BY <4>1, <5>1, AppendOf
      <4>3. ReadPos(x)' = <<(n + 1) + 1, "header">>
        BY <4>1, <4>2 DEF ReadPos
      <4>4. NextPos(readOp[x].part, m) = <<(n + 1) + 1, "header">>
        BY <2>3, <2>4, <3>2 DEF NextPos, HasBodyToRead
      <4>5. Begins(messagesIn'[x], h)
        <5>1. n + 1 <= Len(h) /\ \A i \in 1..n + 1 : i \in 1..n \/ i = n + 1
          BY <2>2
        <5> HIDE DEF h, n, m
        <5> QED BY <2>1, <2>2, <4>2, <5>1 DEF Begins
      <4>6. NextIn(x, sent[e])'
        BY <4>1 DEF NextIn, Halfway
      <4> QED BY <2>4, <4>3, <4>4, <4>5, <4>6
    <3> QED BY <3>1, <3>2
  <2>6. WritePos(e, L)' = WritePos(e, L)
    BY <1>1 DEF WritePos
  <2> QED BY <1>1, <2>0, <2>1, <2>5, <2>6 DEF Stream
<1> QED BY <1>2, <1>3

(* What arrives is the first of the stream, where the reader is.           *)
LEMMA ArriveStep ==
    ASSUME Types, NEW x \in Ends, Arrive(x), NEW e \in Ends, NEW L \in Nat, Stream(e, L)
    PROVE  Stream(e, L)'
<1>0. /\ sent \in [Ends -> Seq(Headers)] /\ messagesIn \in [Ends -> Seq(Messages)]
      /\ readOp \in [Ends -> Operation] /\ temporaryIn \in [Ends -> Messages]
      /\ pipe \in [Ends -> Seq(Chunk)] /\ Peer[x] \in Ends
  BY OneReader DEF Types
<1> DEFINE s == pipe[Peer[x]]
           c == Head(s)
<1>1. /\ UNCHANGED <<writeOp, messagesOut, sent, posted, messagesIn>>
      /\ readOp[x].st = "pending" /\ s # <<>> /\ c.part = readOp[x].part
      /\ temporaryIn' = [temporaryIn EXCEPT ![x] =
             IF c.part = "header" THEN [@ EXCEPT !.header = c.msg.header]
             ELSE [@ EXCEPT !.body = c.msg.body]]
      /\ pipe' = [pipe EXCEPT ![Peer[x]] = Tail(@)]
      /\ readOp' = [readOp EXCEPT ![x].st = "done"]
  BY DEF Arrive
<1>2. CASE e # Peer[x]
  <2>1. /\ pipe'[e] = pipe[e]
        /\ \A d \in Ends : d # x => /\ readOp'[d] = readOp[d] /\ temporaryIn'[d] = temporaryIn[d]
                                    /\ messagesIn'[d] = messagesIn[d]
    <3> HIDE DEF c
    <3> QED BY <1>0, <1>1, <1>2
  <2> QED BY <1>1, <1>2, <2>1, OthersRead, StillStream
<1>3. CASE e = Peer[x]
  <2> DEFINE h == sent[e]
             n == Len(messagesIn[x])
             m == temporaryIn[x]
  <2>0. Peer[e] = x /\ pipe[e] = s
    BY <1>3, OneReader
  <2>1. /\ Numbered(h) /\ Queued(messagesOut[e], h, L) /\ Posted(posted[e], h, L)
        /\ Carries(s, h) /\ Links(s, ReadPos(x), WritePos(e, L))
        /\ Begins(messagesIn[x], h) /\ NextIn(x, h)
    BY <2>0 DEF Stream
  <2>2. /\ s \in Seq(Chunk) /\ h \in Seq(Headers) /\ n \in Nat
        /\ Len(h) \in Nat /\ readOp[x].part \in Parts /\ m \in Messages
    BY <1>0 DEF Operation
  <2>3. /\ pipe'[e] = Tail(s) /\ readOp'[x] = [part |-> readOp[x].part, st |-> "done"]
        /\ temporaryIn'[x] = IF c.part = "header" THEN [m EXCEPT !.header = c.msg.header]
                             ELSE [m EXCEPT !.body = c.msg.body]
    <3> HIDE DEF c
    <3> QED BY <1>0, <1>1, <1>3 DEF Operation
  <2>4. c \in Chunk /\ Pos(c.part, c.msg) = ReadPos(x)
        /\ Links(Tail(s), NextPos(c.part, c.msg), WritePos(e, L))
    <3>1. Head(s) \in Chunk
      <4> HIDE DEF s
      <4> QED BY <1>1, <2>2, TailOf
    <3> HIDE DEF s
    <3> QED BY <1>1, <2>1, <2>2, <3>1, LinksTail
  <2>5. ReadPos(x) = <<n + 1, readOp[x].part>>
    BY <1>1 DEF ReadPos
  <2>6. Num(c) = n + 1 /\ n + 1 \in 1..Len(h) /\ c.msg = Nth(h, n + 1)
    <3>1. c = s[1] /\ 1 \in DOMAIN s
      <4> HIDE DEF s
      <4> QED BY <1>1, <2>2, TailOf
    <3>2. Num(c) = n + 1
      <4> HIDE DEF c
      <4> QED BY <2>4, <2>5 DEF Pos, Num
    <3>3. Num(c) \in 1..Len(h) /\ c.msg = Nth(h, Num(c))
      <4> HIDE DEF s, c
      <4> QED BY <2>1, <3>1 DEF Carries
    <3> HIDE DEF c, h, n
    <3> QED BY <3>2, <3>3
  <2>7. c.msg.header = h[n + 1] /\ n < Len(h)
    <3> HIDE DEF c, h, n
    <3> QED BY <2>1, <2>2, <2>6, NthIs
  <2>8. temporaryIn'[x].header = h[n + 1]
    <3>1. CASE c.part = "header"
      <4> HIDE DEF c, h, n
      <4> QED BY <2>2, <2>3, <2>7, <3>1 DEF Messages
    <3>2. CASE c.part # "header"
      <4>1. temporaryIn'[x].header = m.header
        <5> HIDE DEF c
        <5> QED BY <2>2, <2>3, <3>2 DEF Messages
      <4>2. readOp[x].part = "body"
        BY <1>1, <2>2, <3>2 DEF Parts
      <4>3. m.header = h[n + 1]
        BY <2>1, <4>2 DEF NextIn, Halfway
      <4> QED BY <4>1, <4>3
    <3> QED BY <3>1, <3>2
  <2>9. ReadPos(x)' = NextPos(c.part, c.msg)
    <3>1. ReadPos(x)' = NextPos(readOp[x].part, temporaryIn'[x])
      BY <2>3 DEF ReadPos, NextPos
    <3> HIDE DEF c, h, n
    <3> QED BY <1>1, <2>7, <2>8, <3>1 DEF NextPos
  <2>10. NextIn(x, sent[e])'
    BY <1>1, <2>7, <2>8 DEF NextIn
  <2>11. Carries(pipe'[e], h)
    <3> HIDE DEF s, c, h
    <3>1. /\ Len(s) \in Nat /\ DOMAIN s = 1..Len(s) /\ DOMAIN Tail(s) = 1..Len(s) - 1
          /\ \A i \in 1..Len(s) - 1 : Tail(s)[i] = s[i + 1] /\ i + 1 \in 1..Len(s)
      <4>1. /\ Len(s) \in Nat /\ Len(s) >= 1 /\ Tail(s) \in Seq(Chunk) /\ Len(Tail(s)) = Len(s) - 1
            /\ \A i \in 1..Len(s) - 1 : Tail(s)[i] = s[i + 1]
        BY <1>1, <2>2, TailOf
      <4>2. \A i \in 1..Len(s) - 1 : i + 1 \in 1..Len(s)
        BY <4>1
      <4>3. DOMAIN Tail(s) = 1..Len(s) - 1 /\ DOMAIN s = 1..Len(s)
        BY <2>2, <4>1
      <4> QED BY <4>1, <4>2, <4>3
    <3> QED BY <2>1, <2>3, <3>1 DEF Carries
  <2>12. WritePos(e, L)' = WritePos(e, L)
    BY <1>1 DEF WritePos
  <2>13. Links(pipe'[e], ReadPos(x)', WritePos(e, L)')
    <3> HIDE DEF s, c
    <3> QED BY <2>3, <2>4, <2>9, <2>12
  <2> QED BY <1>1, <2>0, <2>1, <2>10, <2>11, <2>13 DEF Stream
<1> QED BY <1>2, <1>3

-----------------------------------------------------------------------------
(* An end that must not be reading yet.                                    *)
Before(e) == NotOpen(e) \/ Outstanding(connectOp[e]) \/ sock[e] \in {"connecting", "unreachable"}

LEMMA ReadStartsAs == ReadStarts <=> \A e \in Ends : Before(e) => readOp[e] = Idle
BY DEF ReadStarts, Before

(* A step that leaves the reads alone, and no end goes back to before.     *)
LEMMA NotBackBefore ==
    ASSUME ReadStarts, NEW x \in Ends,
           \A d \in Ends : Before(d)' => Before(d),
           \A d \in Ends : d # x => readOp'[d] = readOp[d],
           Before(x)' => readOp'[x] = readOp[x]
    PROVE  ReadStarts'
BY DEF ReadStarts, Before, NotOpen, Outstanding, Idle

(* Closing x keeps the end as it was: before, or not.                      *)
LEMMA CloseBefore ==
    ASSUME Types, ReadStarts, NEW x \in Ends, NEW r, NEW w,
           Close(x, connectOp[x], r, w), r = readOp[x] \/ readOp[x].st = "failed"
    PROVE  ReadStarts'
<1>0. /\ connectOp \in [Ends -> Operation] /\ readOp \in [Ends -> Operation]
      /\ sock \in [Ends -> SockStates]
  BY DEF Types, SockStates
<1>1. /\ sock'[x] = "closed" /\ connectOp'[x] = Aborted(connectOp[x]) /\ readOp'[x] = Aborted(r)
      /\ \A d \in Ends : d # x => /\ sock'[d] = sock[d] /\ connectOp'[d] = connectOp[d]
                                   /\ readOp'[d] = readOp[d]
  BY <1>0 DEF Close
<1>2. Outstanding(connectOp'[x]) <=> Outstanding(connectOp[x])
  BY <1>0, <1>1, StatusOf
<1>3. \A d \in Ends : Before(d)' => Before(d)
  BY <1>1, <1>2 DEF Before, NotOpen, Outstanding
<1>4. Before(x)' => readOp'[x] = readOp[x]
  <2> SUFFICES ASSUME Before(x)' PROVE readOp'[x] = readOp[x]
    OBVIOUS
  <2>1. readOp[x] = Idle
    BY <1>3, ReadStartsAs
  <2>2. r = Idle /\ Aborted(Idle) = Idle
    BY <2>1 DEF Idle, Aborted
  <2> QED BY <1>1, <2>1, <2>2
<1> QED BY <1>1, <1>3, <1>4, NotBackBefore

(* Connecting starts the first read once the socket is open.               *)
LEMMA ConnectingReads ==
    ASSUME Types, ChainInv, ReadStarts, NEW x \in Ends, Connecting(x) \/ ConnectFails(x)
    PROVE  ReadStarts'
<1>0. /\ connectOp \in [Ends -> Operation] /\ readOp \in [Ends -> Operation]
      /\ sock \in [Ends -> SockStates] /\ ConnectClauses(x)
  BY DEF Types, SockStates, ChainInv, ConnectStatus
<1>r. \A e \in Ends : Before(e) => readOp[e] = Idle
  BY ReadStartsAs
<1>1. CASE ConnectToListener(x) \/ ConnectFails(x)
  <2>1. Before(x) /\ readOp' = readOp
    BY <1>1 DEF ConnectToListener, ConnectFails, Before, NotOpen, Outstanding
  <2>2. \A d \in Ends : d # x => sock'[d] = sock[d] /\ connectOp'[d] = connectOp[d]
    BY <1>0, <1>1 DEF ConnectToListener, ConnectFails
  <2>3. \A d \in Ends : Before(d)' => Before(d)
    BY <2>1, <2>2 DEF Before, NotOpen, Outstanding
  <2> QED BY <2>1, <2>3, NotBackBefore
<1>2. CASE Established(x)
  <2>1. connectOp[x].st = "pending" /\ readOp' = readOp
    BY <1>2 DEF Established
  <2>2. Peer[x] \in Ends /\ sock[Peer[x]] = "none"
    BY <2>1, ListenersDoNotConnect
  <2>3. Before(x) /\ Before(Peer[x])
    BY <2>1, <2>2 DEF Before, NotOpen, Outstanding
  <2>4. \A d \in Ends : d # x /\ d # Peer[x] => sock'[d] = sock[d] /\ connectOp'[d] = connectOp[d]
    BY <1>0, <1>2 DEF Established
  <2>5. \A d \in Ends : Before(d)' => Before(d)
    BY <2>3, <2>4 DEF Before, NotOpen, Outstanding
  <2> QED BY <2>1, <2>5, NotBackBefore
<1>3. CASE ConnectHandler(x)
  <2>1. /\ sock' = sock /\ Outstanding(connectOp[x])
        /\ \A d \in Ends : d # x => connectOp'[d] = connectOp[d] /\ readOp'[d] = readOp[d]
        /\ connectOp'[x].st = "none"
    BY <1>0, <1>3 DEF ConnectHandler, Outstanding, Operation
  <2>2. \A d \in Ends : Before(d)' => Before(d)
    BY <2>1 DEF Before, NotOpen, Outstanding
  <2>3. Before(x)' => readOp'[x] = readOp[x]
    <3>1. CASE connectOp[x].st = "done"
      BY <1>0, <2>1, <3>1 DEF ConnectClauses, Before, NotOpen, Outstanding
    <3>2. CASE connectOp[x].st # "done"
      BY <1>3, <3>2 DEF ConnectHandler
    <3> QED BY <3>1, <3>2
  <2> QED BY <2>1, <2>2, <2>3, NotBackBefore
<1>4. CASE ConnectFromListener(x)
  <2>1. /\ sock[x] = "backlog" /\ sock'[x] = "connected" /\ connectOp' = connectOp
        /\ \A d \in Ends : d # x => sock'[d] = sock[d] /\ readOp'[d] = readOp[d]
    BY <1>0, <1>4 DEF ConnectFromListener
  <2>2. connectOp[x].st = "none"
    BY <1>0, <2>1 DEF ConnectClauses, Operation, Status
  <2>3. \A d \in Ends : Before(d)' => Before(d)
    BY <2>1 DEF Before, NotOpen, Outstanding
  <2>4. ~Before(x)'
    BY <2>1, <2>2 DEF Before, NotOpen, Outstanding
  <2> QED BY <2>1, <2>3, <2>4, NotBackBefore
<1> QED BY <1>1, <1>2, <1>3, <1>4 DEF Connecting

(* No other step makes an end read before it may.                          *)
LEMMA OthersDoNotRead ==
    ASSUME Types, ReadStarts, NEW x \in Ends,
           \/ RefuseFromListener(x) \/ Send(x) \/ Disconnect(x) \/ Release(x) \/ BreakNetwork(x)
           \/ RunPosted(x) \/ Writing(x) \/ WriteReset(x) \/ Reading(x) \/ ReadReset(x)
    PROVE  ReadStarts'
<1>0. /\ connectOp \in [Ends -> Operation] /\ readOp \in [Ends -> Operation]
      /\ sock \in [Ends -> SockStates]
  BY DEF Types, SockStates
<1>1. CASE RunClose(x) \/ WriteErrorHandler(x)
  BY <1>1, CloseBefore DEF RunClose, WriteErrorHandler
<1>2. CASE ReadErrorHandler(x)
  BY <1>2, CloseBefore DEF ReadErrorHandler
<1>3. CASE RefuseFromListener(x)
  <2>1. /\ UNCHANGED <<connectOp, readOp>> /\ sock[x] = "backlog"
        /\ \A d \in Ends : d # x => sock'[d] = sock[d]
    BY <1>3 DEF RefuseFromListener
  <2>2. \A d \in Ends : Before(d)' => Before(d)
    BY <2>1 DEF Before, NotOpen, Outstanding
  <2> QED BY <2>1, <2>2, NotBackBefore
<1>4. CASE \/ Send(x) \/ Disconnect(x) \/ Release(x) \/ BreakNetwork(x) \/ RunSend(x)
           \/ WriteHandler(x) \/ Transmit(x) \/ WriteReset(x)
  <2>1. UNCHANGED <<connectOp, readOp, sock>>
    BY <1>4 DEF Send, Disconnect, Release, BreakNetwork, RunSend, RunSendStarting,
                WriteHandler, WriteNext, Transmit, WriteReset
  <2> QED BY <2>1 DEF ReadStarts, NotOpen, Outstanding, Idle
<1>5. CASE ReadHandler(x) \/ Arrive(x) \/ ReadEnd(x) \/ ReadReset(x)
  <2>1. /\ UNCHANGED <<connectOp, sock>> /\ readOp[x].st # "none"
        /\ \A d \in Ends : d # x => readOp'[d] = readOp[d]
    BY <1>0, <1>5 DEF ReadHandler, ReadNext, Arrive, ReadEnd, ReadReset
  <2>2. ~Before(x)
    BY <2>1, ReadStartsAs DEF Idle
  <2>3. \A d \in Ends : Before(d)' <=> Before(d)
    BY <2>1 DEF Before, NotOpen, Outstanding
  <2> QED BY <2>1, <2>2, <2>3, NotBackBefore
<1> QED BY <1>1, <1>2, <1>3, <1>4, <1>5 DEF RunPosted, Writing, Reading
-----------------------------------------------------------------------------
(* The invariant of the two ends holds throughout.                         *)
LEMMA InitStreams == Init => StreamInv
<1> SUFFICES ASSUME Init PROVE StreamInv
  OBVIOUS
<1>1. ReadStarts
  BY DEF Init, ReadStarts
<1>2. ASSUME NEW e \in Ends PROVE Stream(e, 0)
  <2>1. Peer[e] \in Ends
    BY EndsAssumption
  <2>2. /\ sent[e] = <<>> /\ messagesOut[e] = <<>> /\ posted[e] = <<>> /\ pipe[e] = <<>>
        /\ messagesIn[Peer[e]] = <<>> /\ readOp[Peer[e]] = Idle
    BY <2>1 DEF Init
  <2>3. ReadPos(Peer[e]) = <<1, "header">> /\ WritePos(e, 0) = <<1, "header">>
    BY <2>2 DEF ReadPos, WritePos, Idle
  <2>4. Links(pipe[e], ReadPos(Peer[e]), WritePos(e, 0))
    BY <2>2, <2>3 DEF Links
  <2>5. NextIn(Peer[e], sent[e])
    BY <2>2 DEF NextIn, Halfway, Idle
  <2> QED BY <2>2, <2>4, <2>5 DEF Stream, Numbered, Queued, Posted, Carries, Begins
<1> QED BY <1>1, <1>2 DEF StreamInv

LEMMA NextStreams == Types /\ ChainInv /\ StreamInv /\ [Next]_vars => StreamInv'
<1> SUFFICES ASSUME Types, ChainInv, StreamInv, [Next]_vars PROVE StreamInv'
  OBVIOUS
<1>0. ReadStarts /\ \A e \in Ends : \E L \in Nat : Stream(e, L)
  BY DEF StreamInv
<1>1. CASE UNCHANGED vars
  <2>1. ReadStarts'
    BY <1>0, <1>1 DEF vars, ReadStarts, NotOpen, Outstanding, Idle
  <2>2. \A e \in Ends : Still(e)
    BY <1>1, AllStill, SameKept DEF vars
  <2> QED BY <1>0, <2>1, <2>2, StillStream DEF StreamInv
<1>2. ASSUME NEW x \in Ends,
             Connecting(x) \/ RunPosted(x) \/ Writing(x) \/ Reading(x) \/ Environment(x)
      PROVE  StreamInv'
  <2>1. ReadStarts'
    BY <1>0, <1>2, ConnectingReads, OthersDoNotRead DEF Environment
  <2>2. ASSUME NEW e \in Ends PROVE \E M \in Nat : Stream(e, M)'
    <3>1. PICK L \in Nat : Stream(e, L)
      BY <1>0
    <3>2. CASE Connecting(x) \/ ConnectFails(x)
      BY <1>0, <3>1, <3>2, ConnectingStill, StillStream
    <3>3. CASE \/ Release(x) \/ BreakNetwork(x) \/ WriteErrorHandler(x) \/ ReadErrorHandler(x)
               \/ ReadEnd(x) \/ ReadReset(x) \/ WriteReset(x)
      BY <3>1, <3>3, FailuresStill, StillStream
    <3>4. CASE Disconnect(x) \/ RefuseFromListener(x) \/ RunClose(x)
      BY <3>1, <3>4, CloseSteps
    <3>5. CASE Send(x) \/ WriteHandler(x) \/ Transmit(x) \/ ReadHandler(x) \/ Arrive(x)
      BY <3>1, <3>5, SendStep, WriteHandlerStep, TransmitStep, ReadHandlerStep, ArriveStep
    <3>6. CASE RunSend(x)
      <4>1. L + 1 \in Nat
        OBVIOUS
      <4> QED BY <3>1, <3>6, <4>1, RunSendStep
    <3>7. \/ Connecting(x) \/ ConnectFails(x)
          \/ Release(x) \/ BreakNetwork(x) \/ WriteErrorHandler(x) \/ ReadErrorHandler(x)
          \/ ReadEnd(x) \/ ReadReset(x) \/ WriteReset(x)
          \/ Disconnect(x) \/ RefuseFromListener(x) \/ RunClose(x)
          \/ Send(x) \/ WriteHandler(x) \/ Transmit(x) \/ ReadHandler(x) \/ Arrive(x)
          \/ RunSend(x)
      BY <1>2 DEF RunPosted, Writing, Reading, Environment
    <3> QED BY <3>2, <3>3, <3>4, <3>5, <3>6, <3>7
  <2> QED BY <2>1, <2>2 DEF StreamInv
<1> QED BY <1>1, <1>2 DEF Next

LEMMA StreamsInductive == Spec => [](Types /\ ChainInv /\ StreamInv)
BY ChainsInductive, InitStreams, NextStreams, PTL DEF Spec

(* Types of all variables; it needs WritePump, without which a handler     *)
(* could take the head of an empty queue.  What is delivered has been sent *)
(* and so has a number: no handler pushes a message that was never read.   *)
THEOREM ConnectionTypeCorrect == Spec => []TypeOK
<1>1. Types /\ StreamInv => TypeOK
  <2> SUFFICES ASSUME Types, StreamInv, NEW e \in Ends
               PROVE  messagesIn[e] \in Seq({m \in Messages : m.header.num > 0})
    BY DEF Types, TypeOK
  <2>1. Peer[e] \in Ends /\ Peer[Peer[e]] = e
    BY OneReader
  <2> DEFINE s == messagesIn[e]
             h == sent[Peer[e]]
  <2>2. s \in Seq(Messages) /\ h \in Seq(Headers) /\ Numbered(h) /\ Begins(s, h)
    BY <2>1 DEF Types, StreamInv, Stream
  <2> HIDE DEF s, h
  <2>3. ASSUME NEW i \in 1..Len(s) PROVE s[i] \in {m \in Messages : m.header.num > 0}
    BY <2>2 DEF Begins, Numbered
  <2>4. s \in Seq({m \in Messages : m.header.num > 0})
    BY <2>2, <2>3
  <2> QED BY <2>4 DEF s
<1> QED BY <1>1, StreamsInductive, PTL

(* Whatever fails and however the handlers of the two ends interleave, the *)
(* next bytes to arrive are the part that is being read: a header is never *)
(* taken for a body.                                                       *)
THEOREM StreamsStayInSync == Spec => []StreamInSync
<1>1. Types /\ StreamInv => StreamInSync
  <2> SUFFICES ASSUME Types, StreamInv, NEW e \in Ends,
                      readOp[e].st = "pending", pipe[Peer[e]] # <<>>
               PROVE  Head(pipe[Peer[e]]).part = readOp[e].part
    BY DEF StreamInSync
  <2>1. Peer[e] \in Ends /\ Peer[Peer[e]] = e
    BY OneReader
  <2> DEFINE s == pipe[Peer[e]]
  <2>2. PICK L \in Nat : Stream(Peer[e], L)
    BY <2>1 DEF StreamInv
  <2>3. Links(s, ReadPos(e), WritePos(Peer[e], L)) /\ s \in Seq(Chunk)
    BY <2>1, <2>2 DEF Stream, Types
  <2>4. Pos(Head(s).part, Head(s).msg) = ReadPos(e)
    <3>1. s # <<>>
      OBVIOUS
    <3> HIDE DEF s
    <3> QED BY <2>3, <3>1, LinksTail
  <2>5. ReadPos(e) = <<Len(messagesIn[e]) + 1, readOp[e].part>>
    BY DEF ReadPos
  <2> QED BY <2>4, <2>5 DEF Pos
<1> QED BY <1>1, StreamsInductive, PTL

-----------------------------------------------------------------------------
(* A function on 1..n is a list of length n.                               *)
LEMMA FunctionList ==
    ASSUME NEW S, NEW n \in Nat, NEW f \in [1..n -> S]
    PROVE  f \in Seq(S) /\ Len(f) = n
<1>1. f \in Seq(S)
  BY SeqDef
<1>2. Len(f) \in Nat /\ 1..Len(f) = 1..n
  BY <1>1, LenProperties
<1>3. Len(f) = n
  <2> DEFINE k == Len(f)
  <2>1. k \in Nat /\ \A i \in Nat : i \in 1..k <=> i \in 1..n
    BY <1>2
  <2> HIDE DEF k
  <2>2. (k >= 1 => k <= n) /\ (n >= 1 => n <= k)
    BY <2>1
  <2> QED BY <2>1, <2>2 DEF k
<1> QED BY <1>1, <1>3

(* The headers of a list of messages.                                      *)
LEMMA HeadersOf ==
    ASSUME NEW s \in Seq(Messages), NEW d, d = [i \in DOMAIN s |-> s[i].header]
    PROVE  /\ d \in Seq(Headers) /\ Len(d) = Len(s) /\ Len(s) \in Nat
           /\ \A m \in Messages :
                 [i \in DOMAIN Append(s, m) |-> Append(s, m)[i].header] = Append(d, m.header)
<1>m. \A m \in Messages : m.header \in Headers
  BY DEF Messages
<1>1. Len(s) \in Nat /\ DOMAIN s = 1..Len(s) /\ \A i \in 1..Len(s) : s[i].header \in Headers
  <2>1. \A i \in 1..Len(s) : s[i] \in Messages
    BY ElementOfSeq
  <2> QED BY <1>m, <2>1, LenProperties
<1>2. d \in Seq(Headers) /\ Len(d) = Len(s)
  <2> DEFINE n == Len(s)
  <2>1. d \in [1..n -> Headers] /\ n \in Nat
    BY <1>1
  <2> HIDE DEF n
  <2>2. d \in Seq(Headers) /\ Len(d) = n
    BY ONLY <2>1, FunctionList
  <2> QED BY <2>2 DEF n
<1>3. ASSUME NEW m \in Messages
      PROVE  [i \in DOMAIN Append(s, m) |-> Append(s, m)[i].header] = Append(d, m.header)
  <2> DEFINE t == Append(s, m)
             f == [i \in DOMAIN t |-> t[i].header]
             g == Append(d, m.header)
  <2>1. m.header \in Headers
    BY DEF Messages
  <2>2. /\ t \in Seq(Messages) /\ DOMAIN t = 1..Len(s) + 1 /\ t[Len(s) + 1] = m
        /\ \A i \in 1..Len(s) : t[i] = s[i]
    BY AppendOf
  <2>3. /\ g \in Seq(Headers) /\ Len(g) = Len(s) + 1 /\ g[Len(s) + 1] = m.header
        /\ \A i \in 1..Len(s) : g[i] = d[i]
    BY <1>2, <2>1, AppendOf
  <2> HIDE DEF t, g
  <2>4. f \in Seq(Headers) /\ Len(f) = Len(s) + 1
    <3>1. \A i \in 1..Len(s) + 1 : t[i].header \in Headers
      <4>1. \A i \in 1..Len(s) + 1 : i \in 1..Len(s) \/ i = Len(s) + 1
        BY <1>1
      <4> QED BY <1>m, <1>1, <2>2, <4>1, ElementOfSeq
    <3>2. f \in [1..Len(s) + 1 -> Headers] /\ Len(s) + 1 \in Nat
      BY <1>1, <2>2, <3>1
    <3> HIDE DEF f
    <3> DEFINE k == Len(s) + 1
    <3>3. f \in [1..k -> Headers] /\ k \in Nat
      BY <3>2
    <3> HIDE DEF k
    <3>4. f \in Seq(Headers) /\ Len(f) = k
      BY ONLY <3>3, FunctionList
    <3> QED BY <3>4 DEF k
  <2>5. ASSUME NEW i \in 1..Len(s) + 1 PROVE f[i] = g[i]
    <3>1. CASE i = Len(s) + 1
      BY <2>2, <2>3, <3>1
    <3>2. CASE i # Len(s) + 1
      <4>1. i \in 1..Len(s)
        BY <1>1, <3>2
      <4> QED BY <1>1, <2>2, <2>3, <4>1
    <3> QED BY <3>1, <3>2
  <2> HIDE DEF f
  <2>6. f = g
    BY <1>1, <2>3, <2>4, <2>5, SeqEqual
  <2> QED BY <2>6 DEF f, g, t
<1> QED BY <1>1, <1>2, <1>3

(* A direction as a channel: nothing happens to it, its end sends, or its  *)
(* peer is given the next message.                                         *)
ChannelStep(e) ==
    LET h == sent[e]
        n == Len(Delivered(Peer[e]))
    IN \/ sent'[e] = h /\ Delivered(Peer[e])' = Delivered(Peer[e])
       \/ /\ \E m \in [from : {e}, num : 1..MaxSend[e], sized : BOOLEAN] : sent'[e] = Append(h, m)
          /\ Delivered(Peer[e])' = Delivered(Peer[e])
       \/ /\ n < Len(h) /\ sent'[e] = h
          /\ Delivered(Peer[e])' = Append(Delivered(Peer[e]), h[n + 1])

(* That is all that happens to it.                                         *)
LEMMA StepsOfChannel ==
    ASSUME Types, StreamInv, [Next]_vars, NEW e \in Ends
    PROVE  ChannelStep(e)
<1>0. /\ Peer[e] \in Ends /\ Peer[Peer[e]] = e
      /\ sent \in [Ends -> Seq(Headers)] /\ messagesIn \in [Ends -> Seq(Messages)]
      /\ temporaryIn \in [Ends -> Messages]
  BY OneReader DEF Types
<1>1. CASE sent'[e] = sent[e] /\ messagesIn'[Peer[e]] = messagesIn[Peer[e]]
  BY <1>1 DEF ChannelStep, Delivered
<1>2. ASSUME NEW x \in Ends, Send(x) PROVE ChannelStep(e)
  <2>1. messagesIn' = messagesIn
    BY <1>2 DEF Send
  <2>2. CASE x # e
    <3>1. sent'[e] = sent[e]
      BY <1>0, <1>2, <2>2 DEF Send
    <3> QED BY <1>1, <2>1, <3>1
  <2>3. CASE x = e
    <3>1. PICK sized \in Sized : sent'[e] = Append(sent[e], Message(e, Len(sent[e]) + 1, sized).header)
      BY <1>0, <1>2, <2>3 DEF Send
    <3>2. Len(sent[e]) \in Nat /\ MaxSend[e] \in Nat /\ sized \in BOOLEAN
      BY <1>0, ConnectionBounds
    <3>4. Len(sent[e]) < MaxSend[e]
      BY <1>2, <2>3 DEF Send
    <3>3. Message(e, Len(sent[e]) + 1, sized).header \in [from : {e}, num : 1..MaxSend[e], sized : BOOLEAN]
      BY <3>2, <3>4 DEF Message
    <3> QED BY <2>1, <3>1, <3>3 DEF ChannelStep, Delivered
  <2> QED BY <2>2, <2>3
<1>3. ASSUME NEW x \in Ends, ReadHandler(x) PROVE ChannelStep(e)
  <2>1. /\ sent' = sent /\ readOp[x].st = "done"
        /\ messagesIn' = IF HasBodyToRead(x) THEN messagesIn
                         ELSE [messagesIn EXCEPT ![x] = Append(@, temporaryIn[x])]
    BY <1>3 DEF ReadHandler, ReadNext
  <2>2. CASE messagesIn'[Peer[e]] = messagesIn[Peer[e]]
    BY <1>1, <2>1, <2>2
  <2>3. CASE messagesIn'[Peer[e]] # messagesIn[Peer[e]]
    <3> DEFINE s == messagesIn[x]
               m == temporaryIn[x]
               d == Delivered(x)
    <3>1. x = Peer[e] /\ messagesIn'[x] = Append(s, m)
      BY <1>0, <2>1, <2>3
    <3>2. PICK L \in Nat : Stream(e, L)
      BY DEF StreamInv
    <3>3. Len(s) < Len(sent[e]) /\ m.header = sent[e][Len(s) + 1]
      BY <2>1, <3>1, <3>2 DEF Stream, NextIn, Halfway
    <3>4. s \in Seq(Messages) /\ m \in Messages /\ d = [i \in DOMAIN s |-> s[i].header]
      BY <1>0 DEF Delivered
    <3>5. Delivered(x)' = [i \in DOMAIN messagesIn'[x] |-> messagesIn'[x][i].header]
      BY DEF Delivered
    <3>6. Delivered(x)' = Append(d, m.header) /\ Len(d) = Len(s)
      <4> HIDE DEF s, m, d
      <4> QED BY <3>1, <3>4, <3>5, HeadersOf
    <3>7. Len(d) < Len(sent[e]) /\ Delivered(x)' = Append(d, sent[e][Len(d) + 1])
      BY <3>3, <3>6
    <3> QED BY <2>1, <3>1, <3>7 DEF ChannelStep
  <2> QED BY <2>2, <2>3
<1>4. CASE UNCHANGED <<sent, messagesIn>>
  BY <1>1, <1>4
<1>5. ASSUME NEW x \in Ends,
             Connecting(x) \/ RunPosted(x) \/ Writing(x) \/ Reading(x) \/ Environment(x)
      PROVE  Send(x) \/ ReadHandler(x) \/ UNCHANGED <<sent, messagesIn>>
  <2>1. CASE Connecting(x)
    BY <2>1 DEF Connecting, ConnectToListener, Established, ConnectHandler, ConnectFromListener
  <2>2. CASE RunPosted(x)
    BY <2>2 DEF RunPosted, RunClose, RunSend, RunSendStarting
  <2>3. CASE Writing(x)
    BY <2>3 DEF Writing, WriteHandler, WriteNext, WriteErrorHandler, Transmit
  <2>4. CASE Reading(x)
    BY <2>4 DEF Reading, ReadErrorHandler, Arrive, ReadEnd
  <2>5. CASE Environment(x)
    BY <2>5 DEF Environment, ConnectFails, RefuseFromListener, Disconnect, Release, BreakNetwork,
                ReadReset, WriteReset
  <2> QED BY <1>5, <2>1, <2>2, <2>3, <2>4, <2>5
<1>6. CASE UNCHANGED vars
  BY <1>4, <1>6 DEF vars
<1> QED BY <1>2, <1>3, <1>4, <1>5, <1>6 DEF Next

(* Each direction of every connection is a Channel: what is delivered at   *)
(* one end was sent at the other, in order and without a gap, even if the  *)
(* connection fails or is closed in the middle of a message.               *)
THEOREM ConnectionImplementsChannel == Spec => ImplementsChannel
<1>1. Init => \A e \in Ends : Chan(e)!Init
  <2> SUFFICES ASSUME Init, NEW e \in Ends PROVE Chan(e)!Init
    OBVIOUS
  <2>1. sent[e] = <<>> /\ messagesIn[Peer[e]] = <<>>
    BY OneReader DEF Init
  <2>2. Delivered(Peer[e]) = <<>>
    BY <2>1 DEF Delivered
  <2> QED BY <2>1, <2>2 DEF Chan!Init
<1>2. Types /\ StreamInv /\ [Next]_vars
      => [\A e \in Ends : Chan(e)!Next \/ UNCHANGED Chan(e)!chanVars]_<<sent, messagesIn>>
  <2> SUFFICES ASSUME Types, StreamInv, [Next]_vars, NEW e \in Ends
               PROVE  Chan(e)!Next \/ UNCHANGED Chan(e)!chanVars
    OBVIOUS
  <2>1. ChannelStep(e)
    BY StepsOfChannel
  <2> QED BY <2>1 DEF ChannelStep, Chan!Next, Chan!Send, Chan!Receive, Chan!chanVars
<1> QED BY <1>1, <1>2, StreamsInductive, PTL DEF Spec, ImplementsChannel
=============================================================================
