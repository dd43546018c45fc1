------------------------- MODULE KernalThreadsProofs -------------------------
(***************************************************************************)
(* Theorems about KernalThreads for any number of calls of Start and Stop  *)
(* and of messages, whether or not Start may fail.                         *)
(***************************************************************************)
EXTENDS KernalThreads, TLAPS

(* Every message still queued was pushed.                                  *)
QueuedWerePushed ==
    /\ queue \in [Workers -> Nat]
    /\ queue["out"] + queue["in"] + queue["rem"] <= pushes

States == {"none", "loop", "run", "wait", "block", "asleep", "drain", "exit"}
Places == {"idle", "starting", "stopping", "joining", "terminated"}

(* TypeOK with the queues bounded by what was pushed.                      *)
TypeInv ==
    /\ running \in BOOLEAN
    /\ stopped \in BOOLEAN
    /\ pc \in [Threads -> States]
    /\ pushes \in 0..MaxPush
    /\ caller \in [at : Places, i : 1..4]
    /\ starts \in 0..MaxStarts
    /\ QueuedWerePushed

(* What Stop has done by the time it is at a thread: those before it are   *)
(* joined, and nobody has set the flag again.                              *)
JoinedSoFar ==
    /\ caller.at = "starting" => running
    /\ caller.at \in {"stopping", "joining"} => ~running
    /\ caller.at = "joining" =>
          \A j \in 1..4 : j < caller.i => pc[Order[j]] = "none"
    /\ StopJoinsAll

(* The order in which the threads are made and joined names each of them.  *)
LEMMA OrderNamesAll ==
    /\ Len(Order) = 4
    /\ \A i \in 1..4 : Order[i] \in Threads
    /\ \A t \in Threads : \E i \in 1..4 : Order[i] = t
    /\ \A i, j \in 1..4 : Order[i] = Order[j] => i = j
<1>1. Len(Order) = 4
  BY DEF Order
<1>2. /\ Order[1] = "context" /\ Order[2] = "out"
      /\ Order[3] = "in" /\ Order[4] = "rem"
  BY DEF Order
<1>3. 1..4 = {1, 2, 3, 4}
  OBVIOUS
<1>4. Threads = {"context", "out", "in", "rem"}
  BY DEF Threads, Workers
<1> QED BY <1>1, <1>2, <1>3, <1>4

-----------------------------------------------------------------------------
LEMMA InitTyped == Init => TypeInv
<1> SUFFICES ASSUME Init PROVE TypeInv
  OBVIOUS
<1>1. queue \in [Workers -> Nat] /\ queue["out"] = 0 /\ queue["in"] = 0 /\ queue["rem"] = 0
  BY DEF Init, Workers
<1>2. caller \in [at : Places, i : 1..4]
  BY DEF Init, At, Places
<1>3. pc \in [Threads -> States]
  BY DEF Init, States
<1>4. QueuedWerePushed
  BY <1>1 DEF Init, QueuedWerePushed
<1>5. /\ pushes \in 0..MaxPush
      /\ starts \in 0..MaxStarts
  BY ThreadsAssumption DEF Init
<1>6. running \in BOOLEAN /\ stopped \in BOOLEAN
  BY DEF Init
<1> QED BY <1>2, <1>3, <1>4, <1>5, <1>6 DEF TypeInv

(* One step of the thread that calls Start and Stop keeps the types.       *)
LEMMA CallerTyped ==
    ASSUME TypeInv, StartBegin \/ StartThrows \/ StopBegin \/ CallerStep
    PROVE  TypeInv'
<1> USE ThreadsAssumption DEF TypeInv
<1>q. ASSUME UNCHANGED <<queue, pushes>> PROVE QueuedWerePushed'
  BY <1>q DEF QueuedWerePushed
<1>1. CASE StartBegin
  BY <1>1, <1>q DEF StartBegin, At, Places
<1>2. CASE StartThrows
  BY <1>2, <1>q DEF StartThrows, At, Places
<1>3. CASE StopBegin
  <2>1. caller' \in [at : Places, i : 1..4]
    BY <1>3 DEF StopBegin, At, Places
  <2> QED BY <1>3, <1>q, <2>1 DEF StopBegin
<1>4. CASE StartThread
  <2>1. pc' \in [Threads -> States]
    BY <1>4 DEF StartThread, States
  <2>2. caller' \in [at : Places, i : 1..4]
    BY <1>4, OrderNamesAll DEF StartThread, At, Places
  <2> QED BY <1>4, <1>q, <2>1, <2>2 DEF StartThread
<1>5. CASE StartTerminates
  BY <1>5, <1>q DEF StartTerminates, At, Places
<1>6. CASE StopContext
  BY <1>6, <1>q DEF StopContext, At, Places
<1>7. CASE Join
  <2>1. pc' \in [Threads -> States]
    BY <1>7 DEF Join, States
  <2>2. caller' \in [at : Places, i : 1..4]
    BY <1>7, OrderNamesAll DEF Join, At, Places
  <2> QED BY <1>7, <1>q, <2>1, <2>2 DEF Join
<1> QED BY <1>1, <1>2, <1>3, <1>4, <1>5, <1>6, <1>7 DEF CallerStep

(* One step of a started thread keeps the types.                           *)
LEMMA WorkerTyped ==
    ASSUME TypeInv, NEW w \in Workers, WorkerStep(w) PROVE TypeInv'
<1> USE DEF TypeInv, WorkerStep
<1>1. pc' \in [Threads -> States]
  BY DEF LoopTest, WaitTest, WaitBlock, Handle, DrainDone, States
<1>2. QueuedWerePushed'
  <2>1. CASE UNCHANGED queue
    BY <2>1 DEF QueuedWerePushed
  <2>2. CASE Handle(w)
    BY <2>2 DEF Handle, QueuedWerePushed, Workers
  <2> QED BY <2>1, <2>2 DEF LoopTest, WaitTest, WaitBlock, DrainDone
<1> QED BY <1>1, <1>2

LEMMA PushTyped ==
    ASSUME TypeInv, NEW w \in Workers, Push(w) PROVE TypeInv'
<1> USE ThreadsAssumption DEF TypeInv, Push
<1>1. pc' \in [Threads -> States]
  BY DEF States
<1>2. QueuedWerePushed'
  BY DEF QueuedWerePushed, Workers
<1> QED BY <1>1, <1>2

LEMMA NextTyped == TypeInv /\ [Next]_vars => TypeInv'
<1> SUFFICES ASSUME TypeInv, [Next]_vars PROVE TypeInv'
  OBVIOUS
<1>1. CASE ContextStep
  BY <1>1 DEF ContextStep, ContextRun, ContextReturn, TypeInv, QueuedWerePushed, States
<1>2. CASE UNCHANGED vars
  BY <1>2 DEF vars, TypeInv, QueuedWerePushed
<1> QED BY <1>1, <1>2, CallerTyped, WorkerTyped, PushTyped DEF Next

(* Types of all variables; in particular no queue ever holds a negative    *)
(* number of messages: every pop_front of a worker has something to pop.   *)
THEOREM ThreadsTypeCorrect == Spec => []TypeOK
<1>1. TypeInv => TypeOK
  <2> SUFFICES ASSUME TypeInv PROVE TypeOK
    OBVIOUS
  <2>1. queue \in [Workers -> 0..MaxPush]
    BY ThreadsAssumption DEF TypeInv, QueuedWerePushed, Workers
  <2> QED BY <2>1 DEF TypeInv, TypeOK, States, Places
<1> QED BY <1>1, InitTyped, NextTyped, PTL DEF Spec

-----------------------------------------------------------------------------
(* A step of a thread does not make a thread joinable that was not.        *)
LEMMA ThreadsStayAway ==
    ASSUME TypeInv, NEW w \in Workers, WorkerStep(w) \/ Push(w) \/ ContextStep,
           NEW t \in Threads, pc[t] = "none"
    PROVE  pc'[t] = "none"
<1> USE DEF TypeInv
<1>1. CASE WorkerStep(w)
  BY <1>1 DEF WorkerStep, LoopTest, WaitTest, WaitBlock, Handle, DrainDone
<1>2. CASE Push(w)
  BY <1>2 DEF Push
<1>3. CASE ContextStep
  BY <1>3 DEF ContextStep, ContextRun, ContextReturn
<1> QED BY <1>1, <1>2, <1>3

LEMMA ThreadsKeepJoined ==
    ASSUME TypeInv, JoinedSoFar, NEW w \in Workers,
           WorkerStep(w) \/ Push(w) \/ ContextStep
    PROVE  JoinedSoFar'
<1>1. UNCHANGED <<running, caller>>
  BY DEF WorkerStep, Push, ContextStep, ContextRun, ContextReturn
<1>2. \A t \in Threads : pc[t] = "none" => pc'[t] = "none"
  BY ThreadsStayAway
<1> QED BY <1>1, <1>2, OrderNamesAll DEF JoinedSoFar, StopJoinsAll

LEMMA JoinKeepsJoined ==
    ASSUME TypeInv, JoinedSoFar, Join PROVE JoinedSoFar'
<1> DEFINE i == caller.i
<1>1. i \in 1..4 /\ caller.at = "joining" /\ ~running /\ ~running'
  BY DEF TypeInv, JoinedSoFar, Join
<1>2. \A j \in 1..4 : j <= i => pc'[Order[j]] = "none"
  <2> TAKE j \in 1..4
  <2>1. pc' = [pc EXCEPT ![Order[i]] = "none"] /\ Order[i] \in Threads /\ Order[j] \in Threads
    BY <1>1, OrderNamesAll DEF Join
  <2>2. CASE j = i
    BY <2>1, <2>2 DEF TypeInv
  <2>3. CASE j < i
    BY <1>1, <2>1, <2>3 DEF TypeInv, JoinedSoFar
  <2> QED BY <1>1, <2>2, <2>3
<1>3. CASE i = 4
  <2>1. caller'.at = "idle"
    BY <1>3, OrderNamesAll DEF Join, At
  <2>2. \A t \in Threads : pc'[t] = "none"
    BY <1>2, <1>3, OrderNamesAll
  <2> QED BY <2>1, <2>2 DEF JoinedSoFar, StopJoinsAll
<1>4. CASE i # 4
  <2>1. caller'.at = "joining" /\ caller'.i = i + 1
    BY <1>4, OrderNamesAll DEF Join, At
  <2>2. \A j \in 1..4 : j < caller'.i => pc'[Order[j]] = "none"
    BY <1>1, <1>2, <2>1
  <2> QED BY <1>1, <2>1, <2>2 DEF JoinedSoFar, StopJoinsAll
<1> QED BY <1>3, <1>4

LEMMA CallerKeepsJoined ==
    ASSUME TypeInv, JoinedSoFar,
           StartBegin \/ StartThrows \/ StopBegin \/ CallerStep
    PROVE  JoinedSoFar'
<1> USE DEF JoinedSoFar, StopJoinsAll, At
<1>1. CASE StartBegin
  BY <1>1 DEF StartBegin
<1>2. CASE StartThrows
  BY <1>2 DEF StartThrows
<1>3. CASE StopBegin
  BY <1>3 DEF StopBegin
<1>4. CASE StartThread
  BY <1>4 DEF StartThread
<1>5. CASE StartTerminates
  BY <1>5 DEF StartTerminates
<1>6. CASE StopContext
  <2>1. caller'.i = 1 /\ caller'.at = "joining" /\ ~running'
    BY <1>6 DEF StopContext
  <2> QED BY <2>1
<1>7. CASE Join
  BY <1>7, JoinKeepsJoined
<1> QED BY <1>1, <1>2, <1>3, <1>4, <1>5, <1>6, <1>7 DEF CallerStep

(* When Stop has returned no thread of the kernal is left, whatever calls  *)
(* of Start and Stop came before and however Start ended.                  *)
THEOREM StopLeavesNoThread == Spec => []StopJoinsAll
<1>1. Init => TypeInv /\ JoinedSoFar
  <2>1. Init => JoinedSoFar
    BY DEF Init, JoinedSoFar, StopJoinsAll, At
  <2> QED BY <2>1, InitTyped
<1>2. TypeInv /\ JoinedSoFar /\ [Next]_vars => (TypeInv /\ JoinedSoFar)'
  <2> SUFFICES ASSUME TypeInv, JoinedSoFar, [Next]_vars PROVE JoinedSoFar'
    BY NextTyped
  <2>1. "out" \in Workers
    BY DEF Workers
  <2>2. CASE UNCHANGED vars
    BY <2>2 DEF vars, JoinedSoFar, StopJoinsAll
  <2> QED BY <2>1, <2>2, CallerKeepsJoined, ThreadsKeepJoined DEF Next
<1>3. TypeInv /\ JoinedSoFar => StopJoinsAll
  BY DEF JoinedSoFar
<1> QED BY <1>1, <1>2, <1>3, PTL DEF Spec
=============================================================================
