------------------------------ MODULE TSQueue ------------------------------
(***************************************************************************)
(* netzwerk::tsqueue (Netzwerk/tsqueue.h) with the loop that drains it in  *)
(* NetzwerkKernal (sendMessageFromOutMessage, handleIncommingMessages and  *)
(* handleRemoveClients have the same shape): any number of threads call    *)
(* push_back, one thread calls wait() and then pops until empty().         *)
(*                                                                         *)
(* The grain is one step per change of a mutex.  A critical section that   *)
(* only looks at or changes the deque and calls nothing (empty, pop_front) *)
(* is one step, possible while nobody holds muxQueue.                      *)
(*                                                                         *)
(* push_front, pop_back, back, count and clear are left out: the program   *)
(* calls none of them outside the destructor.                              *)
(***************************************************************************)
EXTENDS Naturals, Sequences

CONSTANTS
    Producers,   \* the threads that call push_back
    Consumer,    \* the thread that calls wait, empty and pop_front
    NoThread,    \* "no holder" of a mutex
    Msgs,        \* what is pushed
    MaxPush      \* bound: push_back calls in a behaviour

ASSUME ThreadAssumption ==
    /\ Consumer \notin Producers
    /\ NoThread \notin Producers \cup {Consumer}

ASSUME BoundAssumption == MaxPush \in Nat

VARIABLES
    deqQueue,    \* the deque
    muxQueue,    \* holder of muxQueue
    muxBlocking, \* holder of muxBlocking
    ppc,         \* where each producer is inside push_back
    cpc,         \* where the consumer is inside wait and the drain loop
    pushed,      \* history: everything emplaced, in order
    popped,      \* history: everything popped, in order
    unheard      \* history: Len(deqQueue) when the consumer last fell asleep

vars == <<deqQueue, muxQueue, muxBlocking, ppc, cpc, pushed, popped, unheard>>
mutexes == <<muxQueue, muxBlocking>>

ProducerPC == {"idle", "emplaced", "notified", "unlocking"}
ConsumerPC == {"wait", "block", "armed", "asleep", "woken", "relocked",
               "drain", "pop"}

Init ==
    /\ deqQueue = <<>>
    /\ muxQueue = NoThread
    /\ muxBlocking = NoThread
    /\ ppc = [p \in Producers |-> "idle"]
    /\ cpc = "wait"
    /\ pushed = <<>>
    /\ popped = <<>>
    /\ unheard = 0

-----------------------------------------------------------------------------
(* push_back: the scoped_lock on muxQueue is held to the end of the call.  *)

\* scoped_lock lock(muxQueue); emplace_back
PushEmplace(p) ==
    /\ ppc[p] = "idle"
    /\ Len(pushed) < MaxPush
    /\ muxQueue = NoThread
    /\ muxQueue' = p
    /\ \E m \in Msgs : /\ deqQueue' = Append(deqQueue, m)
                       /\ pushed' = Append(pushed, m)
    /\ ppc' = [ppc EXCEPT ![p] = "emplaced"]
    /\ UNCHANGED <<muxBlocking, cpc, popped, unheard>>

\* a change of the program that the properties must notice (as are the
\* other actions marked `mutant'): no notification
PushSilently(p) ==
    /\ ppc[p] = "emplaced"
    /\ muxBlocking = NoThread
    /\ muxBlocking' = p
    /\ ppc' = [ppc EXCEPT ![p] = "notified"]
    /\ UNCHANGED <<deqQueue, muxQueue, cpc, pushed, popped, unheard>>

\* unique_lock ul(muxBlocking); notify_one wakes the consumer if it sleeps
PushNotify(p) ==
    /\ ppc[p] = "emplaced"
    /\ muxBlocking = NoThread
    /\ muxBlocking' = p
    /\ cpc' = IF cpc = "asleep" THEN "woken" ELSE cpc
    /\ ppc' = [ppc EXCEPT ![p] = "notified"]
    /\ UNCHANGED <<deqQueue, muxQueue, pushed, popped, unheard>>

\* ul is destroyed first ...
PushUnlockBlocking(p) ==
    /\ ppc[p] = "notified"
    /\ muxBlocking' = NoThread
    /\ ppc' = [ppc EXCEPT ![p] = "unlocking"]
    /\ UNCHANGED <<deqQueue, muxQueue, cpc, pushed, popped, unheard>>

\* ... then lock
PushUnlockQueue(p) ==
    /\ ppc[p] = "unlocking"
    /\ muxQueue' = NoThread
    /\ ppc' = [ppc EXCEPT ![p] = "idle"]
    /\ UNCHANGED <<deqQueue, muxBlocking, cpc, pushed, popped, unheard>>

-----------------------------------------------------------------------------
(* wait: while (empty()) { unique_lock ul(muxBlocking); cv.wait(ul); }     *)

\* mutant: empty() returns without releasing muxQueue
WaitCheckKeepingLock ==
    /\ cpc = "wait"
    /\ muxQueue = NoThread
    /\ muxQueue' = Consumer
    /\ cpc' = IF deqQueue = <<>> THEN "block" ELSE "drain"
    /\ UNCHANGED <<deqQueue, muxBlocking, ppc, pushed, popped, unheard>>

\* the loop condition; it takes and releases muxQueue only
WaitCheck ==
    /\ cpc = "wait"
    /\ muxQueue = NoThread
    /\ cpc' = IF deqQueue = <<>> THEN "block" ELSE "drain"
    /\ UNCHANGED <<deqQueue, mutexes, ppc, pushed, popped, unheard>>

WaitLock ==
    /\ cpc = "block"
    /\ muxBlocking = NoThread
    /\ muxBlocking' = Consumer
    /\ cpc' = "armed"
    /\ UNCHANGED <<deqQueue, muxQueue, ppc, pushed, popped, unheard>>

\* cvBlocking.wait(ul) releases muxBlocking and sleeps in one step
WaitSleep ==
    /\ cpc = "armed"
    /\ muxBlocking' = NoThread
    /\ cpc' = "asleep"
    /\ unheard' = Len(deqQueue)
    /\ UNCHANGED <<deqQueue, muxQueue, ppc, pushed, popped>>

\* std::condition_variable may return without a notification
SpuriousWakeup ==
    /\ cpc = "asleep"
    /\ cpc' = "woken"
    /\ UNCHANGED <<deqQueue, mutexes, ppc, pushed, popped, unheard>>

WaitRelock ==
    /\ cpc = "woken"
    /\ muxBlocking = NoThread
    /\ muxBlocking' = Consumer
    /\ cpc' = "relocked"
    /\ UNCHANGED <<deqQueue, muxQueue, ppc, pushed, popped, unheard>>

\* the end of the loop body destroys ul
WaitUnlock ==
    /\ cpc = "relocked"
    /\ muxBlocking' = NoThread
    /\ cpc' = "wait"
    /\ UNCHANGED <<deqQueue, muxQueue, ppc, pushed, popped, unheard>>

-----------------------------------------------------------------------------
(* while (!empty()) handle(pop_front());  then the thread calls wait again *)

\* mutant: popping without the test
DrainUnchecked ==
    /\ cpc = "drain"
    /\ cpc' = "pop"
    /\ UNCHANGED <<deqQueue, mutexes, ppc, pushed, popped, unheard>>

DrainCheck ==
    /\ cpc = "drain"
    /\ muxQueue = NoThread
    /\ cpc' = IF deqQueue = <<>> THEN "wait" ELSE "pop"
    /\ UNCHANGED <<deqQueue, mutexes, ppc, pushed, popped, unheard>>

\* mutant: pop_back instead of pop_front
PopBack ==
    /\ cpc = "pop"
    /\ muxQueue = NoThread
    /\ deqQueue # <<>>
    /\ popped' = Append(popped, deqQueue[Len(deqQueue)])
    /\ deqQueue' = SubSeq(deqQueue, 1, Len(deqQueue) - 1)
    /\ cpc' = "drain"
    /\ UNCHANGED <<mutexes, ppc, pushed, unheard>>

\* front() of an empty deque is undefined: PopNeverEmpty says it never is
PopFront ==
    /\ cpc = "pop"
    /\ muxQueue = NoThread
    /\ deqQueue # <<>>
    /\ popped' = Append(popped, Head(deqQueue))
    /\ deqQueue' = Tail(deqQueue)
    /\ cpc' = "drain"
    /\ UNCHANGED <<mutexes, ppc, pushed, unheard>>

-----------------------------------------------------------------------------
PushStep(p) ==
    \/ PushNotify(p)
    \/ PushUnlockBlocking(p)
    \/ PushUnlockQueue(p)

ConsumerStep ==
    \/ WaitCheck
    \/ WaitLock
    \/ WaitSleep
    \/ WaitRelock
    \/ WaitUnlock
    \/ DrainCheck
    \/ PopFront

Next ==
    \/ \E p \in Producers : PushEmplace(p) \/ PushStep(p)
    \/ ConsumerStep
    \/ SpuriousWakeup

Spec == Init /\ [][Next]_vars

(* Started calls go on and the consumer runs whenever it can: the threads  *)
(* are scheduled by the operating system.  No producer has to push and no  *)
(* spurious wake-up has to come.                                           *)
Fairness ==
    /\ \A p \in Producers : WF_vars(PushStep(p))
    /\ WF_vars(ConsumerStep)

FairSpec == Spec /\ Fairness

-----------------------------------------------------------------------------
(* Types of all variables, and which program points hold which mutex.      *)
TypeOK ==
    /\ deqQueue \in Seq(Msgs)
    /\ muxQueue \in Producers \cup {NoThread}
    /\ muxBlocking \in Producers \cup {Consumer, NoThread}
    /\ ppc \in [Producers -> ProducerPC]
    /\ cpc \in ConsumerPC
    /\ pushed \in Seq(Msgs)
    /\ popped \in Seq(Msgs)
    /\ unheard \in Nat

(* A producer is inside push_back exactly when it holds muxQueue, and      *)
(* muxBlocking is held exactly at the points between its lock and unlock.  *)
Locking ==
    /\ \A p \in Producers : ppc[p] # "idle" <=> muxQueue = p
    /\ \A p \in Producers : ppc[p] = "notified" <=> muxBlocking = p
    /\ cpc \in {"armed", "relocked"} <=> muxBlocking = Consumer

(* No message is lost, duplicated or overtaken inside the queue: what was  *)
(* popped followed by what is still queued is what was pushed.             *)
FifoContents == pushed = popped \o deqQueue

(* The drain loop tests empty() and pops in two critical sections; the     *)
(* deque is never empty when pop_front calls front().                      *)
PopNeverEmpty == cpc = "pop" => deqQueue # <<>>

(* wait() tests empty() before it holds muxBlocking, so a push between the *)
(* test and the sleep wakes nobody.  The damage is limited to that window: *)
(* once every notify_one is done, a sleeping consumer has missed only the  *)
(* messages that were already queued when it fell asleep.                  *)
MissesOnlyTheWindow ==
    cpc = "asleep" /\ (\A p \in Producers : ppc[p] # "emplaced")
        => Len(deqQueue) = unheard

(* A push that finds the consumer asleep gets everything drained, what the *)
(* consumer had missed before included.                                    *)
LatePushDrainsAll ==
    \A p \in Producers :
        (ppc[p] = "emplaced" /\ cpc = "asleep") ~> (deqQueue = <<>>)

(* What NetzwerkKernal.h says of the drain loops: the thread waits until   *)
(* an element is in the queue and then processes all that are present.     *)
PresentElementsProcessed == (deqQueue # <<>>) ~> (deqQueue = <<>>)

(* The queue is a channel from its producers to its consumer.              *)
Chan == INSTANCE Channel WITH sent <- pushed, received <- popped
ImplementsChannel == Chan!Spec
=============================================================================
