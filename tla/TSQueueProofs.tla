--------------------------- MODULE TSQueueProofs ---------------------------
(***************************************************************************)
(* Machine-checked proofs about TSQueue, for any set of producers, any set *)
(* of messages and any bound on the number of pushes.                      *)
(***************************************************************************)
EXTENDS TSQueue, TLAPS

(* Moving the head of the second of two concatenated sequences to the end  *)
(* of the first leaves their concatenation alone.                          *)
LEMMA MoveHead ==
    ASSUME NEW S, NEW s \in Seq(S), NEW t \in Seq(S), t # <<>>
    PROVE  Append(s, Head(t)) \o Tail(t) = s \o t
<1>1. /\ Head(t) \in S
      /\ Tail(t) \in Seq(S)
      /\ Len(Tail(t)) = Len(t) - 1
      /\ \A i \in 1 .. Len(t) - 1 : Tail(t)[i] = t[i + 1]
      /\ Head(t) = t[1]
      /\ Len(t) \in Nat \ {0}
  OBVIOUS
<1> DEFINE l == Append(s, Head(t)) \o Tail(t)
           r == s \o t
<1>2. /\ l \in Seq(S)
      /\ r \in Seq(S)
      /\ Len(l) = Len(r)
  BY <1>1
<1>3. ASSUME NEW i \in 1 .. Len(r)
      PROVE  l[i] = r[i]
  <2>1. CASE i <= Len(s)
    BY <1>1, <2>1
  <2>2. CASE i = Len(s) + 1
    BY <1>1, <2>2
  <2>3. CASE i > Len(s) + 1
    BY <1>1, <2>3
  <2> QED
    BY <2>1, <2>2, <2>3
<1> QED
  BY <1>2, <1>3

(* The element after a prefix is the head of the rest.                     *)
LEMMA NextOfConcat ==
    ASSUME NEW S, NEW s \in Seq(S), NEW t \in Seq(S), t # <<>>
    PROVE  /\ Len(s) < Len(s \o t)
           /\ (s \o t)[Len(s) + 1] = Head(t)
  OBVIOUS

(* Appending to the second of two concatenated sequences.                  *)
LEMMA AppendConcat ==
    ASSUME NEW s \in Seq(Msgs), NEW t \in Seq(Msgs), NEW e \in Msgs
    PROVE  Append(s \o t, e) = s \o Append(t, e)
<1> DEFINE l == Append(s \o t, e)
           r == s \o Append(t, e)
<1>1. /\ l \in Seq(Msgs)
      /\ r \in Seq(Msgs)
      /\ Len(l) = Len(r)
  OBVIOUS
<1>2. ASSUME NEW i \in 1 .. Len(r)
      PROVE  l[i] = r[i]
  OBVIOUS
<1> QED
  BY <1>1, <1>2

-----------------------------------------------------------------------------
(* Every variable keeps its type.                                          *)
THEOREM TypeCorrect == Spec => []TypeOK
<1>1. Init => TypeOK
  BY DEF Init, TypeOK, ProducerPC, ConsumerPC
<1>2. TypeOK /\ [Next]_vars => TypeOK'
  <2> SUFFICES ASSUME TypeOK, [Next]_vars
               PROVE  TypeOK'
    OBVIOUS
  <2> USE DEF TypeOK, ProducerPC, ConsumerPC, mutexes
  <2>1. ASSUME NEW p \in Producers, PushEmplace(p)
        PROVE  TypeOK'
    BY <2>1 DEF PushEmplace
  <2>2. ASSUME NEW p \in Producers, PushNotify(p)
        PROVE  TypeOK'
    BY <2>2 DEF PushNotify
  <2>3. ASSUME NEW p \in Producers, PushUnlockBlocking(p)
        PROVE  TypeOK'
    BY <2>3 DEF PushUnlockBlocking
  <2>4. ASSUME NEW p \in Producers, PushUnlockQueue(p)
        PROVE  TypeOK'
    BY <2>4 DEF PushUnlockQueue
  <2>5. CASE WaitCheck
    BY <2>5 DEF WaitCheck
  <2>6. CASE WaitLock
    BY <2>6 DEF WaitLock
  <2>7. CASE WaitSleep
    BY <2>7 DEF WaitSleep
  <2>8. CASE WaitRelock
    BY <2>8 DEF WaitRelock
  <2>9. CASE WaitUnlock
    BY <2>9 DEF WaitUnlock
  <2>10. CASE DrainCheck
    BY <2>10 DEF DrainCheck
  <2>11. CASE PopFront
    BY <2>11 DEF PopFront
  <2>12. CASE SpuriousWakeup
    BY <2>12 DEF SpuriousWakeup
  <2>13. CASE UNCHANGED vars
    BY <2>13 DEF vars
  <2> QED
    BY <2>1, <2>2, <2>3, <2>4, <2>5, <2>6, <2>7, <2>8, <2>9, <2>10, <2>11,
       <2>12, <2>13 DEF Next, PushStep, ConsumerStep
<1> QED
  BY <1>1, <1>2, PTL DEF Spec

-----------------------------------------------------------------------------
(* muxQueue and muxBlocking are held exactly at the program points between *)
(* their lock and their unlock, so push_back excludes push_back, and the   *)
(* consumer is never between two locks of which a producer holds one.      *)
THEOREM LockingCorrect == Spec => []Locking
<1>1. Init => Locking
  BY ThreadAssumption DEF Init, Locking
<1>2. TypeOK /\ Locking /\ [Next]_vars => Locking'
  <2> SUFFICES ASSUME TypeOK, Locking, [Next]_vars
               PROVE  Locking'
    OBVIOUS
  <2> USE ThreadAssumption DEF TypeOK, Locking, ProducerPC, ConsumerPC, mutexes
  <2>1. ASSUME NEW p \in Producers, PushEmplace(p)
        PROVE  Locking'
    BY <2>1 DEF PushEmplace
  <2>2. ASSUME NEW p \in Producers, PushNotify(p)
        PROVE  Locking'
    BY <2>2 DEF PushNotify
  <2>3. ASSUME NEW p \in Producers, PushUnlockBlocking(p)
        PROVE  Locking'
    BY <2>3 DEF PushUnlockBlocking
  <2>4. ASSUME NEW p \in Producers, PushUnlockQueue(p)
        PROVE  Locking'
    BY <2>4 DEF PushUnlockQueue
  <2>5. CASE WaitCheck
    BY <2>5 DEF WaitCheck
  <2>6. CASE WaitLock
    BY <2>6 DEF WaitLock
  <2>7. CASE WaitSleep
    BY <2>7 DEF WaitSleep
  <2>8. CASE WaitRelock
    BY <2>8 DEF WaitRelock
  <2>9. CASE WaitUnlock
    BY <2>9 DEF WaitUnlock
  <2>10. CASE DrainCheck
    BY <2>10 DEF DrainCheck
  <2>11. CASE PopFront
    BY <2>11 DEF PopFront
  <2>12. CASE SpuriousWakeup
    BY <2>12 DEF SpuriousWakeup
  <2>13. CASE UNCHANGED vars
    BY <2>13 DEF vars
  <2> QED
    BY <2>1, <2>2, <2>3, <2>4, <2>5, <2>6, <2>7, <2>8, <2>9, <2>10, <2>11,
       <2>12, <2>13 DEF Next, PushStep, ConsumerStep
<1> QED
  BY <1>1, <1>2, TypeCorrect, PTL DEF Spec

-----------------------------------------------------------------------------
(* The three content invariants are inductive together with TypeOK.        *)
QueueInv == FifoContents /\ PopNeverEmpty /\ MissesOnlyTheWindow

LEMMA QueueInvStep == TypeOK /\ QueueInv /\ [Next]_vars => QueueInv'
<1> SUFFICES ASSUME TypeOK, QueueInv, [Next]_vars
             PROVE  QueueInv'
  OBVIOUS
<1> USE DEF TypeOK, QueueInv, FifoContents, PopNeverEmpty,
            MissesOnlyTheWindow, mutexes
<1>1. ASSUME NEW p \in Producers, PushEmplace(p)
      PROVE  QueueInv'
  <2>1. PICK m \in Msgs : /\ deqQueue' = Append(deqQueue, m)
                          /\ pushed' = Append(pushed, m)
    BY <1>1 DEF PushEmplace
  <2>2. /\ ppc'[p] = "emplaced"
        /\ popped' = popped
        /\ cpc' = cpc
    BY <1>1 DEF PushEmplace
  <2>3. FifoContents'
    <3>1. Append(popped \o deqQueue, m) = popped \o Append(deqQueue, m)
      <4>1. popped \in Seq(Msgs) /\ deqQueue \in Seq(Msgs) /\ m \in Msgs
        OBVIOUS
      <4> QED
        BY ONLY <4>1, AppendConcat
    <3> QED
      BY <2>1, <2>2, <3>1
  <2>4. PopNeverEmpty'
    BY <2>1
  <2>5. MissesOnlyTheWindow'
    BY <2>2
  <2> QED
    BY <2>3, <2>4, <2>5
<1>2. ASSUME NEW p \in Producers, PushStep(p)
      PROVE  QueueInv'
  <2>1. /\ UNCHANGED <<deqQueue, pushed, popped, unheard>>
        /\ cpc' \in {cpc, "woken"}
    BY <1>2 DEF PushStep, PushNotify, PushUnlockBlocking, PushUnlockQueue
  <2>2. ASSUME cpc' = "asleep"
        PROVE  (\A q \in Producers : ppc'[q] # "emplaced")
                  => \A q \in Producers : ppc[q] # "emplaced"
    BY <1>2, <2>2
       DEF PushStep, PushNotify, PushUnlockBlocking, PushUnlockQueue
  <2> QED
    BY <2>1, <2>2
<1>3. CASE WaitSleep
  BY <1>3 DEF WaitSleep
<1>4. CASE WaitCheck \/ WaitLock \/ WaitRelock \/ WaitUnlock
  BY <1>4 DEF WaitCheck, WaitLock, WaitRelock, WaitUnlock
<1>5. CASE DrainCheck
  BY <1>5 DEF DrainCheck
<1>6. CASE PopFront
  <2>1. /\ deqQueue # <<>>
        /\ popped' = Append(popped, Head(deqQueue))
        /\ deqQueue' = Tail(deqQueue)
        /\ pushed' = pushed
        /\ cpc' = "drain"
    BY <1>6 DEF PopFront
  <2>2. FifoContents'
    <3>1. Append(popped, Head(deqQueue)) \o Tail(deqQueue) = popped \o deqQueue
      BY <2>1, MoveHead
    <3> QED
      BY <2>1, <3>1
  <2> QED
    BY <2>1, <2>2
<1>7. CASE SpuriousWakeup
  BY <1>7 DEF SpuriousWakeup
<1>8. CASE UNCHANGED vars
  BY <1>8 DEF vars
<1> QED
  BY <1>1, <1>2, <1>3, <1>4, <1>5, <1>6, <1>7, <1>8 DEF Next, ConsumerStep

LEMMA QueueInvInductive == Spec => []QueueInv
<1>1. Init => QueueInv
  BY DEF Init, QueueInv, FifoContents, PopNeverEmpty, MissesOnlyTheWindow
<1> QED
  BY <1>1, QueueInvStep, TypeCorrect, PTL DEF Spec

(* Nothing is lost, duplicated or reordered between push_back and          *)
(* pop_front, whatever the threads do.                                     *)
THEOREM FifoCorrect == Spec => []FifoContents
<1>1. QueueInv => FifoContents
  BY DEF QueueInv
<1> QED
  BY <1>1, QueueInvInductive, PTL

(* With one draining thread, the empty() test of the drain loop is still   *)
(* valid when pop_front runs.                                              *)
THEOREM PopSafe == Spec => []PopNeverEmpty
<1>1. QueueInv => PopNeverEmpty
  BY DEF QueueInv
<1> QED
  BY <1>1, QueueInvInductive, PTL

(* The lost wake-up of wait() never costs more than the messages pushed    *)
(* between its empty() test and its sleep.                                 *)
THEOREM WindowBound == Spec => []MissesOnlyTheWindow
<1>1. QueueInv => MissesOnlyTheWindow
  BY DEF QueueInv
<1> QED
  BY <1>1, QueueInvInductive, PTL

-----------------------------------------------------------------------------
(* tsqueue implements the abstract channel: emplace_back is its Send,      *)
(* pop_front its Receive, and every other step is a stutter.               *)
THEOREM QueueRefinesChannel == Spec => ImplementsChannel
<1>1. Init => Chan!Init
  BY DEF Init, Chan!Init
<1>2. TypeOK /\ QueueInv /\ [Next]_vars => [Chan!Next]_(Chan!chanVars)
  <2> SUFFICES ASSUME TypeOK, QueueInv, [Next]_vars
               PROVE  [Chan!Next]_(Chan!chanVars)
    OBVIOUS
  <2> USE DEF Chan!Next, Chan!chanVars, Chan!Send, Chan!Receive
  <2>1. ASSUME NEW p \in Producers, PushEmplace(p)
        PROVE  Chan!Send
    BY <2>1 DEF PushEmplace
  <2>2. ASSUME NEW p \in Producers, PushStep(p)
        PROVE  UNCHANGED Chan!chanVars
    BY <2>2 DEF PushStep, PushNotify, PushUnlockBlocking, PushUnlockQueue
  <2>3. CASE PopFront
    <3>1. /\ deqQueue \in Seq(Msgs)
          /\ popped \in Seq(Msgs)
          /\ deqQueue # <<>>
          /\ pushed = popped \o deqQueue
          /\ popped' = Append(popped, Head(deqQueue))
          /\ pushed' = pushed
      BY <2>3 DEF PopFront, TypeOK, QueueInv, FifoContents
    <3>2. Chan!Receive
      BY <3>1, NextOfConcat
    <3> QED
      BY <3>2
  <2>4. CASE \/ WaitCheck \/ WaitLock \/ WaitSleep \/ WaitRelock \/ WaitUnlock
             \/ DrainCheck \/ SpuriousWakeup \/ UNCHANGED vars
    <3>1. UNCHANGED <<pushed, popped>>
      BY <2>4 DEF WaitCheck, WaitLock, WaitSleep, WaitRelock, WaitUnlock,
                  DrainCheck, SpuriousWakeup, vars
    <3> QED
      BY <3>1
  <2>5. \/ \E p \in Producers : PushEmplace(p) \/ PushStep(p)
        \/ PopFront
        \/ \/ WaitCheck \/ WaitLock \/ WaitSleep \/ WaitRelock \/ WaitUnlock
           \/ DrainCheck \/ SpuriousWakeup \/ UNCHANGED vars
    BY DEF Next, ConsumerStep
  <2> QED
    BY <2>1, <2>2, <2>3, <2>4, <2>5
<1> QED
  BY <1>1, <1>2, TypeCorrect, QueueInvInductive, PTL
     DEF Spec, ImplementsChannel, Chan!Spec
=============================================================================
