# TLA+ models of friendly-octo-pancake-Engine

The repository is a small C++ engine on Windows: a network layer over asio
(`Netzwerk/`), a behaviour framework with a main loop (`FrameWork/`), and a
`main` (`Quelle.cpp`) that starts the network layer. Its concurrency, its
ordering and its failure handling are in the network layer, which is where
these models are. Paths below are relative to
`src/friendly-octo-pancake-Engine/friendly-octo-pancake-Engine/`.

    tlc -config TSQueue.cfg MCTSQueue.tla        # one of the runs below
    tlapm TSQueueProofs.tla                      # the proofs

`PROJECT.json` holds the same information in a form a script can read: the
runs, for every mapped definition the source lines it models, for every
property a mutant of the code that breaks it, the findings and the hazards.

## 1. Inventory

### tsqueue (`Netzwerk/tsqueue.h`)
* State: a deque, a mutex for it (`muxQueue`), a second mutex (`muxBlocking`)
  and a condition variable.
* Operations: `push_back`, `push_front`, `pop_front`, `pop_back`, `front`,
  `back`, `empty`, `count`, `clear`, `wait`.
* Used by: `NetzwerkKernal` for `m_msgIn`, `m_msgOut` and `clientsToRemove`
  (pushed by any thread, drained by one each) and by each `connection` for
  `m_qMessagesOut` (one thread).
* Hard: `wait` tests `empty()` before it holds `muxBlocking`; the drain loop
  tests and pops in two critical sections; two mutexes are nested in
  `push_back`.
* Correct when: mutual exclusion holds, nothing is lost, duplicated or
  overtaken, `pop_front` never meets an empty deque, a waiting consumer gets
  what is pushed.

### connection (`Netzwerk/connection.h`) and message (`Netzwerk/message.h`)
* State: the socket, the queue of messages to write, the one message being
  read (`m_msgTemporaryIn`), a reference to the kernal's incoming queue, two ids
  that `NetzwerkKernal` fills in.
* Operations: `ConnectToListener`, `ConnectFromListener`,
  `RefuseFromListener`, `Disconnect`, `Send`, `IsConnected`, and the chains of
  handlers `ReadHeader`/`ReadBody` and `WriteHeader`/`WriteBody`.
* Interaction: `Send` and `Disconnect` are called from any thread and post a
  function to the io_context; handlers run one at a time on the context's
  thread. All of them capture a raw `this`.
* Hard: the write chain keeps itself alive by testing whether its queue is
  empty; header and body are separate operations on a byte stream; a failure
  may come at any of the steps and `close()` aborts the other operations; the
  body buffer is reused from message to message; the object may be destroyed
  while operations are outstanding.
* Correct when: a queued message always has a write on its way while the
  socket is open, a connected socket always has a read, both ends agree where
  a header starts, each direction delivers in order and without gaps, a closed
  peer is noticed, no handler runs on a destroyed object.

### NetzwerkKernal, threads (`Netzwerk/NetzwerkKernal.h:41-148`)
* State: the flag `running`, the io_context, four `std::thread`s (context, Out,
  In, Rem).
* Operations: two `Start`s, `Stop`, `isRunning`.
* Hard: `Stop` joins threads that may be asleep in `tsqueue::wait`; `Start` may
  throw half-way; `Start` and `Stop` in any order; `running` is a plain bool.
* Correct when: `Stop` returns and leaves no thread behind, `isRunning` says
  whether the system serves.

### NetzwerkKernal, overlay (`Netzwerk/NetzwerkKernal.h:153-515`)
* State: the node's id, its server's id and connection, `idsFromServer`,
  `clientToDirectClient` (id -> id of the direct client behind which it is),
  `directClients` (id -> connection), the three queues.
* Operations: `WaitForClientConnection`, `buildId`, `registerClient` (three
  overloads), `removeClient`, `removeSelf`, `sendMessage`,
  `sendMessageDirect`, `reciveMessage`, `useMessage`,
  `addMessageToMessageOut`, the callbacks `onConnect`, `onMessage`,
  `onConnectionAdded`, `onConnectionRemoved`, `onDestinationNotFound`.
* Interaction: nodes form a tree. A server gives each client an id, sends it to
  the client (destination 1) and to everybody (destination 0). Messages are
  routed by the tables.
* Hard: the tables are shared by four threads without a lock; notices, lists of
  known ids and user messages race; a broadcast must not return; ids are random
  numbers; losing a neighbour has to be told to everybody.
* Correct when: a table never points away from the node it names, each message
  is used once and only where meant or is reported undeliverable, everybody
  gets to know everybody, ids are unique.

### Behaviours and main loop (`FrameWork/EntryPoint.h`)
* State: the list of existing behaviours, the list to destroy, `endGame`.
* Operations: `instantiate`, `destroy`, `hasTime`, `clear`, `run`, `CallUpdate`,
  callbacks `Awake`, `Start`, `delayedStart`, `Update`, `onDestroy`.
* Hard: callbacks call back into the factory while it iterates; `destroy`
  twice deletes twice; `clear` works on a snapshot.
* Correct when: every behaviour is started once before its first update,
  destroyed once, and none survives `clear`.

### Event system (`FrameWork/EventSystem/EventSystem.h`)
* State: a map from listener numbers to listeners, a map from event types to
  lists of listeners, a queue of staged events.
* Operations: `registerListener`, `addEventToListener` (by pointer and by
  number), `stageEvent`, `hitEvent`, `sendStaged`.
* Hard: listeners that register, stage, hit or send from inside `onEvent`; the
  event at the front stays there while it is hit; a type with no entry in the
  map; a number nobody was given.
* Correct when: an event goes to the listeners there were, staged events go out
  in order and once, and nothing deleted or null is used.

Nothing in the repository uses the class yet; the model is of what its methods
do for any caller.

### JSON parser (`FrameWork/JsonParser/Json.h`)
A recursive-descent parser without error handling; sequential, and it prints
nothing. Correct when parsing a text gives the value the text says, and when a
text that breaks off does not make it invent anything.

### The rest
`FrameWork/Singletons/*` (one lazily made instance), `moduleLoader` (a
behaviour whose callbacks only log), `Tester.h` (calls the logger): no state
worth a model. `net_server.h`, `net_client.h`, `olc_net.h`: dead code, nothing
includes `olc_net.h`, and it passes a `tsqueue<owned_message>` where
`connection` takes a `tsqueue<message>`. `loguru` and `asio` are vendored;
`Connection` models what asio does for `connection.h`.

## 2. Modules

| module | models | state <-> code |
| --- | --- | --- |
| `Channel` | the promise of a message path: in order, nothing invented, duplicated or skipped | abstract |
| `TSQueue` | `tsqueue` and the drain loop, any number of producers, one consumer, a step per change of a mutex | `deqQueue`, `muxQueue`, `muxBlocking` as in the code; `ppc`, `cpc` say where a thread is |
| `Connection` | both ends of any number of connections | `sock` = `m_socket`, `messagesOut` = `m_qMessagesOut`, `temporaryIn` = `m_msgTemporaryIn`, `messagesIn` = `m_qMessagesIn`; `posted`, `readOp`, `writeOp`, `connectOp`, `pipe` are asio and TCP |
| `Relay` | `Connection`s in a tree, joined by nodes that forward and send messages of their own | adds `forwarded` |
| `KernalThreads` | `Start`, `Stop` and the four threads | `running`; `pc[t]` = "none" means `!joinable()`; queues are counters |
| `Kernal` | joining, notices, routing and use of messages, and losing connections, in a tree of nodes | tables have the names of the members; `msgIn`, `msgOut`, `clientsToRemove`, `link` are FIFOs; `open` says which sockets are open |
| `Lifecycle` | the behaviour factory, the main loop and the callbacks of the behaviours | `allExisting`, `toDestroy`, `endGame` as in the code; `status` is which of `firstUpdate` and `Update` is the callback; `stack` is the C++ call stack as far as callbacks are on it |
| `EventSystem` | listeners, hits and staged events | maps and queue have the names of the members; `stack` holds the calls of `sendStaged` and `hitEvent` under way |
| `Json` | the parser, and the texts of a value to compare it with | `it` is a position in the text, `Len + 1` the end |
| `TSQueueProofs`, `ConnectionProofs`, `RelayProofs`, `KernalThreadsProofs`, `KernalProofs`, `KernalOnceProofs`, `LifecycleProofs`, `EventSystemProofs` | theorems about these modules | |
| `MCTSQueue`, `MCConnection`, `MCRelay`, `MCKernal`, `MCJson` | instances for TLC | |

How they compose: `Relay` extends `Connection`. `Kernal` uses as its data
structure what the others establish: `TSQueue` and `Connection` implement
`Channel`, hence `msgIn`, `msgOut`, `clientsToRemove` and `link` are sequences
taken from at the head; the one thing `Connection` does beyond a channel,
delivering an empty message with the body of the one before, is in `Kernal` as
`lastBody`, and that a read notices a peer that has closed (`CloseNoticed`) is
its action `NoticesPeer`. `KernalThreads` keeps of a queue its length, and of
`wait` its test and its sleep.

Choices a reader should know:

* **TSQueue.** A critical section that only looks at or changes the deque and
  calls nothing (`empty`, `pop_front`) is one step, enabled while nobody holds
  `muxQueue`. `push_back` and `wait`, which hold one mutex while they take
  another, are split at each lock and unlock. `PopFront` is guarded by a
  non-empty deque because `front()` of an empty one is undefined;
  `PopNeverEmpty` says the guard never matters.
* **Connection.** A message is the end whose owner made it, its number in the
  order of `Send` calls there and whether it has a body. An asio operation is a
  record of the part it moves and a status (`pending`, `done`, `failed`,
  `none`); completion and handler are separate steps, so another handler or a
  `close()` can come in between, as with asio; the map names the lines of the
  vendored asio that say so (of the Windows implementation where there are
  several). `close()` turns `pending` into `failed` and leaves a completed
  operation alone. A write that completed is in the peer's `pipe`. Errors
  (`ReadEnd`, `ReadReset`, `WriteReset`, `ConnectFails`) come only where TCP can
  give them. `Arrive` needs the part that comes next to be the part being read;
  `StreamInSync` says it always is. A destroyed end takes no more steps: what
  its handlers would do is undefined.
* **KernalThreads.** `Start`'s threads are made one step each; `StartThrows`
  stands for any exception in between. Assigning to a joinable `std::thread`
  calls `std::terminate` (`StartTerminates`). `Push` says who can fill which
  queue: anybody `m_msgOut`, the context's handlers `m_msgIn`, a worker that is
  sending `clientsToRemove`.
* **Kernal.** One step handles one message or one id to remove. What is split:
  accepting a client (queue the notice and send the id / list the known ids /
  enter the client in the maps) and handling a broadcast (forward / use),
  because other threads act in between and the code's outcome depends on it.
  `Rand` gives each node the values of its `rand()`; with `After` a node is
  started only once others know their ids. `onConnect` answers true. `Within[n]`
  is the part of the tree below n, written as the least set that holds n and is
  closed under "has its server in the set" instead of by recursion, so that it
  can be reasoned about; `TreeAssumption` says of the tree the same way that
  everything is below the root. What the routes need is that the ids which have
  been given are proper (`ProperIds`): no two nodes have the same, none is a
  number that users write in their messages, and no server accepts a client
  before it has its own. This is not an assumption of the model, which lets any
  generator draw anything, but a hypothesis of the theorems on routes; section 4
  says when it is met and section 5 when it is not. In the runs every node draws
  numbers of its own (`FreshDraws`) and is started after its server knows its id
  (`StartedInOrder`), which `MCKernal` makes TLC evaluate.
* **Losing connections in Kernal.** An end closes by itself (`Fails`, for the
  ends in `MayFail`) or because its read finds the peer gone (`NoticesPeer`);
  what it has not read is lost, and any tail of what it has written may be. A
  message for a closed end goes nowhere and queues the id of the end for Rem
  (`Unsent`), once per message, as `sendMessageDirect` does. Rem tears
  everything down (`RemoveSelf`), drops a direct client with all ids behind it
  and sends the notice (`RemoveDirect`), or drops one id (`RemoveOther`).
* **Lifecycle.** A callback is any sequence of calls of `instantiate`, `destroy`
  and `playThanosTheme`, then it returns. `hasTime`, `clear`, `run` and
  `CallUpdate` are public too, but the comment at `EntryPoint.h:144` and the
  code make them calls of the main loop; a callback that makes them is not
  modelled. `Awake` runs nested inside the callback that instantiates. Objects
  made before `main` by `behaviourFactoryRegister` are made in the place
  "static". `onDestroy` of a deleted object is undefined and ends the behaviour
  in "undefined"; that no other callback of one is called is part of
  `EachOncePerFrame`.
* **EventSystem.** User code runs where `onEvent` is under way or nothing is,
  and may call every method there, to any depth of nesting. `getType` is
  static, so every event has the type `Base`; listeners of other types are in
  the map and never called. What is undefined in the code (a hit without an
  entry for the type, a null listener, a deleted event) ends in
  `defined = FALSE`. Each event is handed over once, because `hitEvent` deletes
  it. A registration for several types is modelled as a call for each, one for no
  type as a call for a type no event has. `usable` is a public field; an event of
  `Usable` may be answered either way at each `onEvent`, which covers an `onEvent`
  that changes it.
* **Json.** The iterator only moves forward, so a call that would read or step
  past the end leaves a position beyond `Len + 1`; `Defined` tells these calls,
  whose behaviour is undefined, from the others. The value of a repeated key is
  parsed into the old object, as `insert` and `operator[]` make it. `Text`, the
  reference, writes a value as JSON does, with a backslash before a quote or a
  backslash in a string.

## 3. Runs

| run | kind | what it shows |
| --- | --- | --- |
| `TSQueue` | pass | `PopNeverEmpty`; the lost wake-up is bounded (`MissesOnlyTheWindow`) and repaired by the next push (`LatePushDrainsAll`); `tsqueue` implements `Channel` |
| `TSQueue_wakeup` | violation | a pushed message may never be processed if nothing is pushed after it |
| `Connection` | pass | with every fault: `WritePump`, `ReadArmed`, `StreamInSync`, `Channel`, and a closed peer is noticed (`CloseNoticed`) |
| `Connection_lifetime` | violation | a connection is destroyed while asio still holds its buffers |
| `Relay` | pass | until a message is forwarded whose header and body do not agree, forwarding reorders, doubles and invents nothing (`InOrderEndToEnd`) and everything sent arrives (`AllDelivered`) |
| `KernalThreads` | pass | a `Stop` that returns leaves no thread; `Stop` waits for ever only where the thread it is joining is asleep in `wait` and stays asleep (`StopWaitsOnlyForSleepers`) |
| `Lifecycle` | pass | the loop calls each existing object once a frame, no deleted one, and starts it once; double deletes and survivors of `clear` have exactly the causes named in the properties; `destroy` takes effect |
| `Kernal` | pass | no message is used twice or where it was not meant (`UsedOnceWhereMeant`), notices have a body (`NoticesHaveBodies`), who was told of an id can reach it (`AnnouncedIsReachable`), messages are delivered or reported (`NoSilentLoss`, `BroadcastReachesAll`), everybody gets to know everybody (`KnownWhenQuiet`) |
| `Kernal_loss` | pass | sockets fail while nodes join and after: the tables never point the wrong way (`RoutesLead`), nobody is declared lost who is not cut off, nor does a node remove itself (`RemovedAreCut`), a loss is told once (`LossToldOnce`) and reaches every node that is still connected (`LossSpreads`) |
| `Kernal_fork` | violation | a client accepted at the wrong moment never learns of an id |
| `EventSystem` | pass | rounds are not disturbed by what listeners do, staged events go out in order and all, undefined behaviour has three named causes |
| `Json` | pass | which texts are read back, and that no others are (`ReadsBack`); nothing is invented from a broken one |

### Bounds and why they are enough
* `TSQueue`: two producers, so that one can hold a mutex the other wants and a
  notification can be followed by another push; two distinct messages and four
  pushes, so that order and duplicates show and the window of `wait` is met
  with a queue of length 0, 1 and more. `TSQueue_wakeup` needs one message.
* `Connection`: one connection (connections share nothing but the thread that
  runs their handlers one after the other), two messages one way, each with or
  without a body, all six kinds of fault at any moment. Two messages is what the
  write chain tells apart: the first finds the queue empty, the second does not;
  a body followed by an empty message is the stale-body case. The directions
  share `close` only, and the listener closes, reads and fails as the dialer
  does. `Connection_lifetime` sends one message each way.
* `Relay`: two clients whose messages a middle node forwards on the same
  connection, where it sends a message of its own; one client sends two, the
  other one, each with or without a body. That is the smallest system with a
  shared hop, a forwarder that is a sender too, and an empty message that follows
  one with a body, so the case in which forwarding breaks the framing (section 5)
  happens, and the properties say what holds until then. The run starts with the
  connections made and has no faults, since with them its liveness property takes
  too long; what faults do to the order is the theorem's part (section 4).
* `KernalThreads`: two `Start`s and three pushes, so that a restart, a failed
  start and a queue with more than one element occur.
* `Lifecycle`: three objects, so that one can make or destroy another while a
  third is ahead of or behind it in the list, `Awake` can nest three deep, and
  every object can be destroyed twice. `run`, `hasTime` and `clear` look at one
  element at a time and compare pointers only.
* `Kernal`, `Kernal_loss`: every node draws numbers of its own, so all that these
  runs show is shown for proper ids. With repeated ids most of it is false beyond
  one server (section 5).
* `Kernal`: a chain of three is the smallest tree in which a notice and a user
  message are forwarded, a node is server and client at once, and an id is known
  only through a neighbour. `FewSends` keeps the users to two kinds of run: one of
  the users at the two ends sends one message, to everybody or to any id it was
  told of, at any moment from its registration on; or b is not started, the
  user of the root sends two messages and that of a a third. The second kind is
  there because of the list of ids that is read from the body of a user's message
  (section 5): it takes one message for the body, one client that enters the tag
  it finds there as an id, and one user that writes to it. Nobody fails.
  `Kernal_fork` has a second child at the root, started last.
* `Kernal_loss`: two initial states, either nothing is started and a chain of
  three joins, or a fork of four nodes has joined (`Joined` is the last state of
  such a run). The servers' ends of root-a and a-b may fail at any moment, and
  the clients notice; the node x on the other branch may send two messages, which
  is what makes the others notice in any order and more than once. Both
  connections may fail, so a notice may find its way cut.
* `EventSystem`: two listeners and two registrations, so that a list can grow
  while it is gone through; three events and a stack of four, so that a loop can
  hit an event whose listener hits or stages others, and a loop can be entered
  from the hit of another.
* `Json`: strings that hold blanks and the parser's own symbols, numbers of one
  and two digits, lists and objects of one and two elements two deep, and of
  each kind some that the parser cannot read (empty, beginning with a blank,
  with an escaped quote or backslash, with a sign or a fraction), with every
  blank, none or a carriage return between symbols, cut at every place. Objects
  and lists are parsed by a call per element that keeps nothing but the
  position.

`CHECK_DEADLOCK FALSE` is used where the system really may stop: all messages
sent, sockets closed, threads joined, the text parsed. `TSQueue` always has a
next step (a sleeper may wake up spuriously) and is checked for deadlock.

### Fairness and why the code justifies it
* `TSQueue`: the operating system schedules the threads, so a started
  `push_back` and the consumer go on whenever they can. Nobody has to push, and
  no spurious wake-up has to happen.
* `Connection`, `Relay`: asio serves ready handlers and posted functions, and
  TCP delivers while the connection works. No owner has to send or close, and
  no reset has to happen; an orderly close is seen once the peer's data is
  read (`ReadEnd`).
* `KernalThreads`: threads are scheduled and a call of `Start` or `Stop` that
  has begun goes on. Nothing has to be pushed.
* `Lifecycle`: the engine is one thread and callbacks return. No callback has
  to call the factory, and no game has to end.
* `Kernal`: somebody goes on while somebody can: a node that may be started is
  started, a thread with something to do does it, a read notices a closed peer.
  That is weaker than fairness of every thread, and enough because the work is
  finite. In the `Kernal` run the fairness is that of the same steps within
  `FewSends`, which bounds the users and takes no step from a thread. No user has to
  send and no socket has to fail. The lost wake-up is not repeated here; it delays
  a message until the next one.
* `EventSystem`: `onEvent` returns, and the owner calls `sendStaged` again while
  something is staged. The second is an assumption about a caller the repository
  does not have.

## 4. Proofs

`TSQueueProofs`, for every set of producers and messages and every bound,
from `ThreadAssumption` (consumer and producers differ, `NoThread` is neither)
and `BoundAssumption`:

* `TypeCorrect`, `LockingCorrect`: `TypeOK` and `Locking` (program points and
  mutex holders agree: mutual exclusion) are inductive.
* `FifoCorrect`, `PopSafe`, `WindowBound`: from `QueueInv`, the conjunction of
  the three, inductive together with `TypeOK`. `PopNeverEmpty` needs no more
  because the only step that shortens the deque leaves "pop"; `FifoContents`
  rests on the sequence lemmas `MoveHead` and `AppendConcat`;
  `MissesOnlyTheWindow` holds because a push that finishes its notification
  leaves nobody asleep.
* `QueueRefinesChannel`: `emplace_back` is the channel's `Send`, `pop_front` its
  `Receive` (by `FifoContents` and `NextOfConcat`), every other step a stutter.

`KernalThreadsProofs`, for any number of calls and messages, from
`ThreadsAssumption`:

* `ThreadsTypeCorrect`: `TypeOK` bounds each queue by `MaxPush`, which is not
  inductive; `QueuedWerePushed` (the three queues together hold at most what was
  pushed) is.
* `StopLeavesNoThread`: `StopJoinsAll` speaks of the moment after `Stop`; the
  inductive `JoinedSoFar` adds what holds on the way: the flag is down, and the
  threads before the one being joined are joined and nobody restarts them.

`ConnectionProofs`, for any number of connections and messages and any faults,
from `EndsAssumption` and `ConnectionBounds`:

* `ConnectionTypeCorrect`, `WritesKeepGoing`, `ReadsKeepGoing`: `Types` and
  `WritePump` need each other (the handlers take the head of a queue that only
  `WritePump` says is not empty). The rest of `TypeOK`, that nothing is pushed
  before its header was read, follows from the next point: what is pushed was
  sent. The inductive `ChainInv` adds to `WritePump` and `ReadArmed` that an end
  which is not open yet has been given nothing to do, and what the status of a
  connect attempt says about the two sockets. All handlers that close share the
  lemma `CloseChained`.

* `StreamsStayInSync`, `ConnectionImplementsChannel`: a place in the stream is the
  number of a message and one of its parts. `Stream(e, L)` says where everything
  is when the lambdas of `Send` have queued the first `L` messages: `messagesOut`
  holds the last of those, the messages after them are posted in order (`Posted`),
  the chunks in the `pipe` are consecutive and lead from the place of the reader
  to the place of the writer (`Links`), and what has been pushed is the beginning
  of what was sent (`Begins`). `L` is the only thing that is not read off the
  state, and only the lambda of `Send` moves it. A failure moves neither end: an
  operation that fails leaves its place (`SamePlace`), and so does one that is
  started on a closed socket. `ReadStarts` says that nothing is read before the
  connect handler starts the first read; without it that handler could put a new
  read in the place of one that has completed.

`RelayProofs`, for trees of any shape, any number of messages, empty ones too, and
any faults on any of the connections, from `HopAssumption` (forwarding leads no
message back to where it came from: the nodes form a tree) and the assumptions of
`Connection`:

* `RelayInOrder`, `RelayStreamsInSync`: the invariant above does not hold on a
  hop, where messages keep the name and number of their first sender, those of
  several senders are mixed, and those that were dropped leave gaps. `RowInv`
  says instead, of each direction (`Row`), that the headers of what was pushed,
  of the message half read, of the headers in the pipe, of the messages whose
  header is not written and of the calls posted stand in line for each sender,
  each list rising and each below the next (`InLine`), and that the chunks in
  the pipe follow on each other from the reader's turn to the writer's
  (`Follows`). A step moves one header from one list to the list before it.
  `Sources` ties a hop to the connections before it: what was sent on it is
  numbered by its own sender or is among the first `forwarded` messages that
  came in; `OneWayToHop` says that one sender's messages come to a hop over one
  connection only, so that sharing it mixes no order.
* `ForwardedWhole`, the left side of both, is no assumption about the program but
  the condition under which the promise holds: as soon as a node has forwarded a
  message that came in with the body of the one before (section 5), a header says
  there is no body where one is written. `Follows` needs that what is queued is
  `Whole`, and nothing else. The theorems say that this is the only way to break it.

`KernalProofs`, for any tree of nodes, any numbers their generators give (equal
ones too), any users and any sockets that fail, from `TreeAssumption`:

* `KernalTypes`: `TypeOK` is not inductive, because a node takes its own id from
  the last four bytes of a notice's body, and a user message is counted by its
  body; an empty body would be a read of nothing. `KernalInv` adds that messages
  which are looked into have a body (`Good`), that no client is given the id 1,
  which marks those notices (so the list of known ids, which may be empty, is
  never one), that the maps are finite, so that their iterators end
  (`EveryRank`, `KeysTyped`), and that the accept handler works for a child of its
  node. The part of `TypeOK` that is not about types, nothing is on its way to a
  closed socket, is kept by sending only where both ends are open and by every
  close emptying what leads to it (`ClosesTyped`, `RemoveSelfTyped`,
  `RemoveDirectTyped`).

and, for any tree, any users, any generators and any sockets that fail, for as
long as the ids are proper (`Spec /\ []ProperIds => []...`):

* `KernalRoutesLead`, `KernalRemovedAreCut`, `KernalNoticesHaveBodies` follow from
  one inductive invariant, `RoutesInv`. Its idea: every message says whose ids it
  may name by the connection it is on. What b hears through a is about nodes on
  a's side of that connection (`Side(a, b)`: below a if a is b's client, else
  anywhere but below b), and what says that a node is removed is about nodes a
  dead connection on that side cuts off (`CutIn`). `LinksFit`, `LinksFull`,
  `Arrived` and `Leaving` say so of the connections, of what In holds and of what
  waits for Out; `Tables` says that a node files an id under the client it heard
  it through, so only if the id lies within that client, and `Removing` that Rem
  is asked for no node whose connection works and never for its own node.
* `Started` and `Waiting` follow a client from its dial to the notice with its own
  id. Until that notice has come the client has nothing else in its way, which is
  why it never takes another one for its own; this is where the last
  part of `ProperIds` is needed, since a server without an id sends as 0.
* `NoticesHaveBodies` is not about what is sent (the list for a first client is
  empty) but about what arrives: the connection received the client's own id
  before it, and `lastBody` is never empty again (`LinksFull`).
* `ProperIds`. Without it the theorems are false: the tables are keyed by id. That
  ids differ from what users' messages carry is needed because an empty list is
  delivered with the body of the message before it, whose numbers the receiver
  would then enter as ids. It speaks of the state, not of the generators, so that
  what the code does about it can be proved from it and for it:
* `KernalOneServerProperIds`: with one server (everybody dials the root) ids are
  proper whatever `rand()` returns, repeats included, while no connection has
  been lost (`Unbroken`: an id taken from the tables may be drawn again) and no
  id is a number that users write (`Numbered`). The root knows its own id and
  those it gave, and `buildId` rejects these. `KernalOneServerRoutes` draws the
  conclusion for `RoutesLead`, `NoticesHaveBodies` and `AnnouncedIsReachable`,
  `KernalOneServerUsedOnce` for `UsedOnceWhereMeant`. This is the deployment for
  which the code keeps its promise.
* `KernalFreshProperIds`: in any tree, if the servers draw numbers of their own
  (`FreshDraws`) and nodes are started from the root down (`StartedInOrder`). This
  is what a seeded generator would come to, and what the runs grant. The code does
  not seed it: in a chain root-a-b, b gets the number that the root drew first, for
  a has the same generator and the search through `idsFromServer` rejects nothing
  (section 5). Below depth one the theorems therefore speak of behaviours until
  such a pair has been given, and of the program once it draws proper ids.

and, as long as no connection has been lost either (`[]Unbroken`):

* `KernalAnnouncedIsReachable`. An id is announced before the maps have it: the
  accept handler queues the notice first and changes the maps at its end, and a
  node forwards a notice before it uses it. `FindInv` says why a message for
  such an id still meets a node that has it. `Tabled(n)` is what n could send to
  now, `Landing(n)` what it can send to when it looks at the next message (it
  uses what it has in hand first), `Soon(n)` when its accept handler is done.
  What a node sends names only what is in its own `Soon`; what is filed under a
  neighbour is in the neighbour's `Soon`; so a message for an id travels only to
  nodes that have it in theirs (`LinksLed`). Between `Soon` and `Landing` there
  is one gap, the accept handler, and nothing is taken in while it works
  (`DeliverFinds`); that is the step the mutant `ContextOverlapping` breaks. All
  three sets only grow (`Learns`). `Attached` and `NothingRemoved` say that
  every connection made is there and Rem has nothing to do.
* `Unbroken` is the meaning of the property rather than a limit of the proof: an
  id that was removed after a loss is unknown, although the user had been told
  of it. It speaks of what has happened, so sockets may fail later. Tags of
  users' messages are left out of the three sets (`Foreign`), since the list
  read from the wrong body may announce them; they are no node's id.

`KernalOnceProofs`, on top of `RoutesInv`, for any tree, any users and any sockets
that fail, as long as the ids are proper:

* `KernalUsedOnceWhereMeant`, `KernalLossToldOnce` follow from one inductive
  invariant, `OnceInv`. It follows a message by a key that it keeps on its way
  (`Key`): the tag of a user's message, the id of the client that a notice of a loss
  is about. `D[n]` is the set of the keys n has handled (sent, forwarded or used).
  No variable keeps it, so the invariant says that there is such a `D`, and each
  step of the proof names the next one.
* A tree has one way between two nodes. `Coming(a, b)` says that a message on its
  way from a to b has its origin on a's side and its destination on b's, and
  `Chained` that what came to b through a was handled by a. `Placed` says that a key
  is in one place at most: once in a queue, and in no queue of a node that has
  handled it. What is taken in is therefore handled for the first time.
* `UsedWellOnce`: what a node used it has handled, once, and it was meant for the
  node. `ToldWell`: how often a node was told of an id is bounded by the
  notices that it has handled, each about another connection that is cut.
* `LossHandled`: the server of a lost client handles its loss once, because the
  id is taken from `directClients` when it does, and only after the cut, so the
  client cannot still be entering. That `clientsToRemove` may hold the same id
  many times, one for each message that found the connection dead, does no harm:
  the second removal finds nothing in the maps and tells nobody (`RemoveOther`).
* A notice names its client twice at the front and every id behind it once
  (`Notice`, `Distinct`); hence the bound of `LossToldOnce`, which is twice for
  the client at the other end of the connection that is lost.

`LifecycleProofs`, for any set of objects and any number of requests to destroy
them, from `AsksAssumption`:

* `FrameCallsEachOnce`: its first part, `InListOrder`, is inductive with the types
  of the lists; its second, that no callback of a deleted object is under way, is
  `StackInv` below. The loop's list only grows at its end while a frame is under way
  (`AwakeReturns`); `hasTime` takes elements out between frames, and what it
  leaves is a list (`WithoutTyped`, which needs that a finite set of places has
  a last one, `LastPlace`).
* `LifecycleTypeCorrect`, `StartComesFirst`: `LifeInv` says where every object
  is. `WhereInv`: only calls of `Awake` lie above another callback, and the one
  at the bottom is the one the loop in `main` made. `StackInv`: the objects on the
  stack are different and alive. `ListInv`: the factory's list holds what has been
  made and is not being destroyed, each object once (`WithoutElements`: what is
  taken out is that object and nothing else). `StartInv`: how often `Start` was
  called follows from the status and from whether the object is in its first
  update.
* `ClearDestroysEverything`: `SurviveInv` says that during `clear` whatever
  exists, and was not made during it, is being destroyed or is queued where
  `hasTime` has not been yet. That it holds when `clear` starts is `ListInv`.
* `DeletedOnceUnlessAskedTwice`: `CleanInv` says that an object asked for once at
  most, from inside the main loop, is queued at one place at most, and behind the
  loop's index as soon as it is deleted.

`EventSystemProofs`, for any listeners, events, types and depth of nesting, from
`EventAssumption`:

* `EventsTypeCorrect`: `TypeOK` is inductive with `Anchored` (an event on the
  stack has been called for) and `NoneFresh`.
* `RoundsUndisturbed`: as long as `sendStaged` has not been called while it hits,
  the stack holds one loop at most, every hit is of an event of its own and none
  of them is still queued behind the front (`Solo`); with that, what an event's
  round has called is what its own frame says (`RoundInv`), whatever the frames
  above it do.
* `SentInStageOrder`: `OrderInv` relates the queue, the loop and the event it is
  hitting: that one is the front of the queue until it is popped.
* `UndefinedOnlyByMisuse`: `SafeInv` adds that every number below
  `listenerIDCounter` names a listener unless a number was used too early.

Only model-checked:

* All of `Json` (`ReadsBack`, `NothingInvented`).
* `KnownWhenQuiet` of `Kernal`: it holds on the chain and is false in the fork
  (section 5), so it is no theorem about every tree.
* Everything about liveness (`LatePushDrainsAll`, `CloseNoticed`,
  `AllDelivered`, `StopWaitsOnlyForSleepers`, `DestroyTakesEffect`,
  `NoSilentLoss`, `BroadcastReachesAll`, `LossSpreads`, `StagedAreSent`): fairness
  and ENABLED are outside what the prover handles.
* What the recursive definitions of `Json` compute: that needs induction over
  texts, which the installed provers cannot be given.

## 5. Where the code and its comments differ

With a run that shows it:

* `Netzwerk/tsqueue.h:83`: `wait` tests `empty()` outside `muxBlocking`, so a
  `push_back` in between is not noticed (`TSQueue_wakeup`).
* `Netzwerk/NetzwerkKernal.h:385,419`: `removeSelf` and `removeClient` let go of
  a connection whose handlers are still with asio (`Connection_lifetime`).
* `Netzwerk/NetzwerkKernal.h:305` with `258-264`: a client that is accepted while
  another node's id is being announced may be told of that id by nobody
  (`Kernal_fork`).

Seen while modelling, without a run of its own:

* `Netzwerk/connection.h:129`: a message without a body is delivered with the
  body of the message before it. Forwarded, it is written with the old body and
  the size 0 in its header, and the next reader takes the body for a header.
  `ForwardedWhole` of `Relay` says that this has not happened; nothing in the code
  keeps it true. Inside a node the old body hides that a
  list of ids is empty (`NoticesHaveBodies` says which messages have one).
* `Netzwerk/NetzwerkKernal.h:257-264` with `Netzwerk/connection.h:134`: that list is
  empty for the first client of a root, so this client reads the body of the
  message before. That is mostly the notice with its own id; but the list waits in
  `m_msgOut`, and a broadcast of the root's user may be queued before it. The client
  then announces four bytes of that user's message as an id and enters them in
  `idsFromServer`, where the comment at `NetzwerkKernal.h:503-505` says that the
  body holds the id of a client that was added. In the `Kernal` run this happens;
  `UsedOnceWhereMeant` and `AnnouncedIsReachable` are stated over the owners of
  an id, so that they say what still holds: no node is mistaken for another, and
  an id is reported as unknown only if it is no node's.
* `Netzwerk/NetzwerkKernal.h:140`: `Stop` waits for ever for a worker that sleeps
  in `wait`, which is where the workers of an idle system are. `KernalThreads`
  says that this is the only thing that keeps it: if `Stop` never gets past a
  thread, that very thread stays asleep (`StopWaitsOnlyForSleepers`).
* `Netzwerk/NetzwerkKernal.h:216-218`: the generator is not seeded, so every process
  draws the same numbers, and the search for an id that is taken in
  `idsFromServer` rejects nothing (its `continue` goes on with the search). In a
  chain root-a-b, b always gets the id of the root. With one server the search
  through the server's own ids is enough (section 4).
* A node that accepts clients before it has its own id sends as 0, and its client
  takes the first notice for its own: the client never gets an id.
* `Netzwerk/NetzwerkKernal.h:421`: the notice of a loss is sent at once and can
  overtake the notice of the same id's arrival in `m_msgOut`; the id is then
  known for ever.
* `Netzwerk/NetzwerkKernal.h:409`: a lost direct client is named twice in the
  notice, and `onConnectionRemoved` is called twice for it.
* `Netzwerk/NetzwerkKernal.h:427`: losing the server removes the server's id
  only and tells nobody; the ids behind it stay known.
* A `Start` that fails leaves `isRunning()` true; a `Start` after `Stop` finds the
  io_context stopped, and nothing is accepted or read.
* `FrameWork/JsonParser/Json.h`: empty strings and empty lists, strings that start
  with a blank (where the parser skips blanks first), escaped quotes and
  backslashes (line 51 stops at the first quote, escaped or not, and keeps the
  backslashes), `\r` between symbols (line 37), numbers with a sign or a fraction,
  and repeated keys are not read as JSON says. `ReadsBack` says so of all but the
  repeated keys: a text is read back exactly if it has none of these. Other
  escapes (`\n`, `\u0041`) and exponents are not among the texts of the run.
* `FrameWork/EntryPoint.h`: what an `onDestroy` makes during `clear` is never
  destroyed (`OnlyLateBornSurvive` says that nothing else survives).

## 6. Not modelled, and why

* Data races. The models interleave whole operations on containers and flags
  that the code shares without a lock; what a torn read or an optimiser does is
  not in them.
* The exception of `remote_endpoint()` (`NetzwerkKernal.h:174`), which ends the
  program.
* The byte layout of messages (`message.h`, `operator<<`, `operator>>`), logging
  and printing.
* Methods of `tsqueue` nobody calls (`push_front`, `pop_back`, `back`, `count`,
  `clear`), and `delayedStart`, which nothing calls.
* `onConnect` refusing a client in `Kernal`: no owner in the repository does, and
  a refused socket never becomes a connection of the overlay.
* `net_server.h`, `net_client.h`, `olc_net.h`: dead code that does not compile
  against the present `connection`.
* `Singletons`, `moduleLoader`, `Tester`: no state that could go wrong.
* `asio` and `loguru` are vendored. They make up about 99 % of the source
  lines; of asio, `Connection` models what `connection.h` relies on.

## 7. What is left

* `KnownWhenQuiet` of `Kernal` as a theorem: it needs a hypothesis that keeps a
  client from being accepted while the notice of a node beside it is under way.
* The overlay with repeated ids: which of its properties still hold for the nodes
  whose ids are not repeated.
* `StreamInSync` and the order of messages after a message was forwarded whose
  header and body do not agree: how far the damage spreads.
