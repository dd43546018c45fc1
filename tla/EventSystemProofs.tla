-------------------------- MODULE EventSystemProofs --------------------------
(***************************************************************************)
(* Theorems about EventSystem for any listeners, events and types, and any *)
(* number of calls.                                                        *)
(***************************************************************************)
EXTENDS EventSystem, SequenceTheorems, TLAPS

Targets == Listeners \cup {Null}
HitFrames == [of : Events, temp : Seq(Targets), i : Nat \ {0}]

(* TypeOK in parts.                                                        *)
TablesTyped ==
    /\ listenerIDCounter \in Nat /\ calls \in Nat
    /\ DOMAIN idToListenerMap \subseteq Nat
    /\ \A id \in DOMAIN idToListenerMap : idToListenerMap[id] \in Targets
    /\ DOMAIN eventToListenerMap \subseteq Types
    /\ \A t \in DOMAIN eventToListenerMap :
          eventToListenerMap[t] \in Seq(Targets) \ {<<>>}
QueuesTyped == eventQue \in Seq(Events) /\ staged \in Seq(Events) /\ sent \in Seq(Events)
StackTyped ==
    /\ stack \in Seq(Frames)
    /\ \A k \in DOMAIN stack : stack[k] # Loop => stack[k].i \in DOMAIN stack[k].temp
FlagsTyped ==
    /\ status \in [Events -> {"fresh", "live", "deleted"}]
    /\ {defined, reentered, misnumbered} \subseteq BOOLEAN
RoundsTyped ==
    /\ audience \in [Events -> Seq(Targets)]
    /\ called \in [Events -> Seq(Targets)]

(* A loop of sendStaged has hit the front of the queue, and as long as that *)
(* event lives it is still there: the loop never pops an empty queue.      *)
Anchored == \A k \in DOMAIN stack : k < Len(stack) /\ stack[k] = Loop =>
    /\ stack[k + 1] # Loop
    /\ status[stack[k + 1].of] = "live" =>
           eventQue # <<>> /\ Head(eventQue) = stack[k + 1].of

(* What is on the stack or in the queue was given to the event system.     *)
NoneFresh ==
    /\ \A k \in DOMAIN stack : stack[k] # Loop => status[stack[k].of] # "fresh"
    /\ \A i \in DOMAIN eventQue : status[eventQue[i]] # "fresh"

TypeInv ==
    /\ TablesTyped /\ QueuesTyped /\ StackTyped /\ FlagsTyped /\ RoundsTyped
    /\ Anchored /\ NoneFresh

LEMMA TypeInParts ==
    TypeOK <=> TablesTyped /\ QueuesTyped /\ StackTyped /\ FlagsTyped /\ RoundsTyped
BY DEF TypeOK, TablesTyped, QueuesTyped, StackTyped, FlagsTyped, RoundsTyped, Targets

-----------------------------------------------------------------------------
(* Frames and stacks.                                                      *)

LEMMA LoopIsNoHit == \A f \in HitFrames : f # Loop
<1> SUFFICES ASSUME NEW f \in HitFrames PROVE f # Loop
  OBVIOUS
<1>1. DOMAIN f = {"of", "temp", "i"} /\ DOMAIN Loop = {"of"}
  BY DEF HitFrames, Loop
<1>2. "i" \notin {"of"}
  OBVIOUS
<1> QED BY <1>1, <1>2

LEMMA HitTyped ==
    ASSUME NEW e \in Events, NEW temp \in Seq(Targets)
    PROVE  /\ Hit(e, temp) \in HitFrames /\ Hit(e, temp) # Loop
           /\ Hit(e, temp).of = e /\ Hit(e, temp).temp = temp /\ Hit(e, temp).i = 1
<1>1. Hit(e, temp) \in HitFrames
  BY DEF Hit, HitFrames
<1> QED BY <1>1, LoopIsNoHit DEF Hit

LEMMA FrameKinds == Frames = {Loop} \cup HitFrames
BY DEF Frames, HitFrames, Targets

LEMMA PushKeeps ==
    ASSUME NEW S, NEW s \in Seq(S), NEW x \in S
    PROVE  /\ Append(s, x) \in Seq(S)
           /\ Len(Append(s, x)) = Len(s) + 1
           /\ DOMAIN Append(s, x) = 1..(Len(s) + 1)
           /\ Append(s, x)[Len(s) + 1] = x
           /\ \A k \in 1..Len(s) : Append(s, x)[k] = s[k]
           /\ s # <<>> => Head(Append(s, x)) = Head(s)
OBVIOUS

LEMMA PopKeeps ==
    ASSUME NEW S, NEW s \in Seq(S), s # <<>>
    PROVE  LET p == SubSeq(s, 1, Len(s) - 1)
           IN  /\ p \in Seq(S) /\ Len(p) = Len(s) - 1 /\ DOMAIN p = 1..(Len(s) - 1)
               /\ \A k \in 1..(Len(s) - 1) : p[k] = s[k]
<1>1. Len(s) \in Nat \ {0} /\ \A k \in 1..(Len(s) - 1) : s[k] \in S
  OBVIOUS
<1> DEFINE p == SubSeq(s, 1, Len(s) - 1)
<1>2. /\ p \in Seq(S)
      /\ Len(p) = IF 1 <= Len(s) - 1 THEN Len(s) - 1 - 1 + 1 ELSE 0
      /\ \A k \in 1..(Len(s) - 1 - 1 + 1) : p[k] = s[1 + k - 1]
  BY <1>1, SubSeqProperties
<1> HIDE DEF p
<1>3. Len(p) = Len(s) - 1
  <2> DEFINE n == Len(s)
  <2>1. n \in Nat \ {0} /\ Len(p) = IF 1 <= n - 1 THEN n - 1 - 1 + 1 ELSE 0
    BY <1>1, <1>2
  <2> HIDE DEF n
  <2>2. Len(p) = n - 1
    BY ONLY <2>1
  <2> QED BY <2>2 DEF n
<1>4. DOMAIN p = 1..Len(p)
  BY <1>2, LenProperties
<1>5. \A k \in 1..(Len(s) - 1) : p[k] = s[k]
  BY <1>1, <1>2
<1> QED BY <1>2, <1>3, <1>4, <1>5 DEF p

LEMMA Below ==
    ASSUME NEW n \in Nat, NEW k \in 1..n, k # n
    PROVE  k + 1 \in 1..n /\ k < n /\ k \in 1..(n - 1)
OBVIOUS

(* The innermost frame.                                                    *)
LEMMA TopTyped ==
    ASSUME StackTyped, stack # <<>>
    PROVE  /\ Len(stack) \in Nat \ {0} /\ DOMAIN stack = 1..Len(stack)
           /\ Top = Loop \/ (Top \in HitFrames /\ Top.i \in DOMAIN Top.temp)
<1>1. stack \in Seq(Frames)
  BY DEF StackTyped
<1>2. Len(stack) \in Nat \ {0} /\ DOMAIN stack = 1..Len(stack) /\ Top \in Frames
  <2> HIDE DEF Frames
  <2> QED BY <1>1 DEF Top
<1> QED BY <1>2, FrameKinds DEF StackTyped, Top

-----------------------------------------------------------------------------
(* What hitEvent gets from the map is a list of at least one target.       *)
LEMMA TempTyped ==
    ASSUME TablesTyped
    PROVE  At(eventToListenerMap, Base, <<Null>>) \in Seq(Targets) \ {<<>>}
BY DEF TablesTyped, At, Targets

LEMMA AddToTyped ==
    ASSUME TablesTyped, NEW l \in Targets, NEW t \in Types, AddTo(l, t)
    PROVE  /\ DOMAIN eventToListenerMap' \subseteq Types
           /\ \A u \in DOMAIN eventToListenerMap' :
                 eventToListenerMap'[u] \in Seq(Targets) \ {<<>>}
<1> DEFINE old == At(eventToListenerMap, t, <<>>)
<1>1. old \in Seq(Targets)
  BY DEF TablesTyped, At
<1>2. Append(old, l) \in Seq(Targets) \ {<<>>}
  <2> HIDE DEF old
  <2> QED BY <1>1, AppendProperties
<1> HIDE DEF old
<1>3. eventToListenerMap' = [x \in DOMAIN eventToListenerMap \cup {t} |->
                                IF x = t THEN Append(old, l) ELSE eventToListenerMap[x]]
  BY DEF AddTo, With, old
<1> QED BY <1>2, <1>3 DEF TablesTyped

-----------------------------------------------------------------------------
(* Pushing, popping and changing the top keep StackTyped.                  *)

LEMMA PushTyped ==
    ASSUME StackTyped, NEW f \in Frames, stack' = Append(stack, f),
           f # Loop => f.i \in DOMAIN f.temp
    PROVE  /\ StackTyped'
           /\ Len(stack) \in Nat
           /\ Len(stack') = Len(stack) + 1 /\ DOMAIN stack' = 1..(Len(stack) + 1)
           /\ DOMAIN stack = 1..Len(stack)
           /\ stack'[Len(stack) + 1] = f
           /\ \A k \in 1..Len(stack) : stack'[k] = stack[k]
<1>1. stack \in Seq(Frames)
  BY DEF StackTyped
<1>2. Len(stack) \in Nat /\ DOMAIN stack = 1..Len(stack)
  BY <1>1, LenProperties
<1>3. /\ stack' \in Seq(Frames)
      /\ Len(stack') = Len(stack) + 1 /\ DOMAIN stack' = 1..(Len(stack) + 1)
      /\ stack'[Len(stack) + 1] = f
      /\ \A k \in 1..Len(stack) : stack'[k] = stack[k]
  BY <1>1, PushKeeps
<1>4. ASSUME NEW k \in DOMAIN stack', stack'[k] # Loop
      PROVE  stack'[k].i \in DOMAIN stack'[k].temp
  <2>1. CASE k = Len(stack) + 1
    BY <1>3, <1>4, <2>1
  <2>2. CASE k \in 1..Len(stack)
    BY <1>2, <1>3, <1>4, <2>2 DEF StackTyped
  <2> QED BY <1>2, <1>3, <2>1, <2>2
<1> QED BY <1>2, <1>3, <1>4 DEF StackTyped

LEMMA PopTyped ==
    ASSUME StackTyped, stack # <<>>, stack' = Popped
    PROVE  /\ StackTyped'
           /\ Len(stack) \in Nat \ {0} /\ DOMAIN stack = 1..Len(stack)
           /\ Len(stack') = Len(stack) - 1 /\ DOMAIN stack' = 1..(Len(stack) - 1)
           /\ \A k \in 1..(Len(stack) - 1) : stack'[k] = stack[k]
<1>1. stack \in Seq(Frames)
  BY DEF StackTyped
<1>2. Len(stack) \in Nat \ {0} /\ DOMAIN stack = 1..Len(stack)
  BY TopTyped
<1>3. /\ stack' \in Seq(Frames)
      /\ Len(stack') = Len(stack) - 1 /\ DOMAIN stack' = 1..(Len(stack) - 1)
      /\ \A k \in 1..(Len(stack) - 1) : stack'[k] = stack[k]
  BY <1>1, PopKeeps DEF Popped
<1>4. ASSUME NEW k \in DOMAIN stack', stack'[k] # Loop
      PROVE  stack'[k].i \in DOMAIN stack'[k].temp
  BY <1>2, <1>3, <1>4 DEF StackTyped
<1> QED BY <1>2, <1>3, <1>4 DEF StackTyped

(* A hit that goes on to the next listener.                                *)
LEMMA NextTyped ==
    ASSUME StackTyped, stack # <<>>, Top # Loop, Top.i # Len(Top.temp),
           stack' = [stack EXCEPT ![Len(stack)].i = @ + 1]
    PROVE  /\ StackTyped'
           /\ Len(stack) \in Nat \ {0} /\ DOMAIN stack = 1..Len(stack)
           /\ Len(stack') = Len(stack) /\ DOMAIN stack' = 1..Len(stack)
           /\ Top.i + 1 \in DOMAIN Top.temp
           /\ stack'[Len(stack)] \in HitFrames
           /\ stack'[Len(stack)].of = Top.of /\ stack'[Len(stack)].temp = Top.temp
           /\ stack'[Len(stack)].i = Top.i + 1
           /\ \A k \in 1..(Len(stack) - 1) : stack'[k] = stack[k]
<1>1. stack \in Seq(Frames) /\ stack \in [1..Len(stack) -> Frames]
  BY LenProperties DEF StackTyped
<1>2. Len(stack) \in Nat \ {0} /\ DOMAIN stack = 1..Len(stack)
  BY TopTyped
<1>3. Top \in HitFrames /\ Top.i \in DOMAIN Top.temp
  BY TopTyped
<1>4. Top.temp \in Seq(Targets) /\ Top.i \in Nat \ {0} /\ Top.of \in Events
  BY <1>3 DEF HitFrames
<1>5. Top.i + 1 \in DOMAIN Top.temp
  <2>1. DOMAIN Top.temp = 1..Len(Top.temp) /\ Len(Top.temp) \in Nat
    BY <1>4, LenProperties
  <2> QED BY <1>3, <1>4, <2>1
<1> DEFINE next == [Top EXCEPT !.i = @ + 1]
<1>6. /\ next \in HitFrames /\ next.of = Top.of /\ next.temp = Top.temp
      /\ next.i = Top.i + 1
  BY <1>3, <1>4 DEF HitFrames
<1>7. stack' = [stack EXCEPT ![Len(stack)] = next]
  BY <1>2 DEF Top
<1> HIDE DEF next
<1>8. next \in Frames
  BY <1>6, FrameKinds
<1>9. /\ stack' \in [1..Len(stack) -> Frames] /\ stack'[Len(stack)] = next
      /\ \A k \in 1..(Len(stack) - 1) : stack'[k] = stack[k]
  <2> HIDE DEF Frames
  <2> QED BY <1>1, <1>2, <1>7, <1>8
<1>10. stack' \in Seq(Frames) /\ Len(stack') = Len(stack) /\ DOMAIN stack' = 1..Len(stack)
  <2>1. stack' \in Seq(Frames) /\ Len(stack') = Len(stack)
    <3> HIDE DEF Frames
    <3> QED BY <1>1, <1>2, <1>7, <1>8, ExceptSeq
  <2> QED BY <2>1, LenProperties
<1>11. ASSUME NEW k \in DOMAIN stack', stack'[k] # Loop
       PROVE  stack'[k].i \in DOMAIN stack'[k].temp
  <2>1. CASE k = Len(stack)
    BY <1>5, <1>6, <1>9, <2>1
  <2>2. CASE k \in 1..(Len(stack) - 1)
    BY <1>2, <1>9, <1>11, <2>2 DEF StackTyped
  <2> QED BY <1>2, <1>10, <2>1, <2>2
<1> QED BY <1>2, <1>5, <1>6, <1>9, <1>10, <1>11 DEF StackTyped

-----------------------------------------------------------------------------
(* Every step keeps TypeInv.                                               *)

\* a queue with one more event, and one with its front gone
LEMMA StagedTyped ==
    ASSUME QueuesTyped, NEW e \in Events, eventQue' = Append(eventQue, e)
    PROVE  /\ eventQue' \in Seq(Events)
           /\ eventQue # <<>> => Head(eventQue') = Head(eventQue)
           /\ eventQue' # <<>>
           /\ DOMAIN eventQue = 1..Len(eventQue) /\ Len(eventQue) \in Nat
           /\ DOMAIN eventQue' = 1..(Len(eventQue) + 1)
           /\ eventQue'[Len(eventQue) + 1] = e
           /\ \A i \in 1..Len(eventQue) : eventQue'[i] = eventQue[i]
<1>1. eventQue \in Seq(Events)
  BY DEF QueuesTyped
<1> QED BY <1>1, PushKeeps, LenProperties, AppendProperties

LEMMA PoppedQueTyped ==
    ASSUME QueuesTyped, eventQue # <<>>, eventQue' = Tail(eventQue)
    PROVE  /\ eventQue' \in Seq(Events)
           /\ Len(eventQue) \in Nat \ {0} /\ DOMAIN eventQue = 1..Len(eventQue)
           /\ DOMAIN eventQue' = 1..(Len(eventQue) - 1)
           /\ \A i \in 1..(Len(eventQue) - 1) : eventQue'[i] = eventQue[i + 1]
<1>1. eventQue \in Seq(Events)
  BY DEF QueuesTyped
<1>2. /\ eventQue' \in Seq(Events) /\ Len(eventQue') = Len(eventQue) - 1
      /\ \A i \in 1..Len(eventQue') : eventQue'[i] = eventQue[i + 1]
  BY <1>1, HeadTailProperties
<1>3. Len(eventQue) \in Nat \ {0} /\ DOMAIN eventQue = 1..Len(eventQue)
  BY <1>1, LenProperties, EmptySeq
<1> QED BY <1>2, <1>3, LenProperties

\* what only changes the tables of listeners
LEMMA OnlyTables ==
    ASSUME TypeInv, TablesTyped', UNCHANGED <<events, hits, reentered>>,
           misnumbered' \in BOOLEAN
    PROVE  TypeInv'
BY DEF TypeInv, events, hits, QueuesTyped, StackTyped, FlagsTyped, RoundsTyped,
       Anchored, NoneFresh

LEMMA TablesStep ==
    ASSUME TypeInv, NEW l \in Listeners, NEW t \in Types,
           RegisterListener(l, t) \/ AddEventToListener(l, t)
    PROVE  TypeInv'
<1>1. TablesTyped /\ l \in Targets
  BY DEF TypeInv, Targets
<1>2. AddTo(l, t) /\ calls' \in Nat /\ listenerIDCounter' \in Nat
  BY <1>1 DEF TablesTyped, RegisterListener, AddEventToListener, Registering
<1>3. UNCHANGED <<events, hits, reentered>> /\ misnumbered' = misnumbered
  BY DEF RegisterListener, AddEventToListener, misuse
<1>4. /\ DOMAIN idToListenerMap' \subseteq Nat
      /\ \A id \in DOMAIN idToListenerMap' : idToListenerMap'[id] \in Targets
  BY <1>1 DEF TablesTyped, RegisterListener, AddEventToListener, With, At
<1>5. TablesTyped'
  BY <1>1, <1>2, <1>4, AddToTyped DEF TablesTyped
<1> QED BY <1>3, <1>5, OnlyTables DEF TypeInv, FlagsTyped

LEMMA NumberStep ==
    ASSUME TypeInv, NEW id \in Nat, NEW t \in Types, AddEventToListenerID(id, t)
    PROVE  TypeInv'
<1>1. TablesTyped
  BY DEF TypeInv
<1>2. AddTo(idToListenerMap'[id], t) /\ calls' \in Nat /\ listenerIDCounter' \in Nat
  BY <1>1 DEF TablesTyped, AddEventToListenerID, Registering
<1>3. UNCHANGED <<events, hits, reentered>> /\ misnumbered' \in BOOLEAN
  BY DEF AddEventToListenerID, TypeInv, FlagsTyped
<1>4. /\ DOMAIN idToListenerMap' \subseteq Nat /\ id \in DOMAIN idToListenerMap'
      /\ \A j \in DOMAIN idToListenerMap' : idToListenerMap'[j] \in Targets
  BY <1>1 DEF TablesTyped, AddEventToListenerID, With, At, Targets
<1>5. TablesTyped'
  BY <1>1, <1>2, <1>4, AddToTyped DEF TablesTyped
<1> QED BY <1>3, <1>5, OnlyTables

(* The event of a frame.                                                   *)
LEMMA FrameEvent ==
    ASSUME StackTyped, NEW k \in DOMAIN stack, stack[k] # Loop
    PROVE  stack[k] \in HitFrames /\ stack[k].of \in Events
<1>1. stack[k] \in Frames
  <2> HIDE DEF Frames
  <2> QED BY ElementOfSeq, LenProperties DEF StackTyped
<1> QED BY <1>1, FrameKinds DEF HitFrames

LEMMA StageStep ==
    ASSUME TypeInv, NEW e \in Events, StageEvent(e)
    PROVE  TypeInv'
<1>1. TablesTyped /\ QueuesTyped /\ StackTyped /\ FlagsTyped /\ RoundsTyped
  BY DEF TypeInv
<1>2. status[e] = "fresh" /\ status' = [status EXCEPT ![e] = "live"]
  BY DEF StageEvent
<1>3. /\ eventQue' = Append(eventQue, e) /\ staged' = Append(staged, e)
      /\ UNCHANGED <<tables, stack, defined, sent, audience, called, misuse>>
  BY DEF StageEvent
<1>4. QueuesTyped'
  BY <1>1, <1>3, StagedTyped, AppendProperties DEF QueuesTyped
<1>5. TablesTyped' /\ StackTyped' /\ RoundsTyped'
  BY <1>1, <1>3 DEF tables, TablesTyped, StackTyped, RoundsTyped
<1>6. FlagsTyped' /\ \A x \in Events : status'[x] = IF x = e THEN "live" ELSE status[x]
  BY <1>1, <1>2, <1>3 DEF misuse, FlagsTyped
<1>7. \A k \in DOMAIN stack : stack[k] # Loop => stack[k].of \in Events /\ stack[k].of # e
  <2> SUFFICES ASSUME NEW k \in DOMAIN stack, stack[k] # Loop
               PROVE  stack[k].of \in Events /\ stack[k].of # e
    OBVIOUS
  <2>1. stack[k].of \in Events
    BY <1>1, FrameEvent
  <2> QED BY <1>2, <2>1 DEF TypeInv, NoneFresh
<1>8. NoneFresh'
  <2>1. \A k \in DOMAIN stack' : stack'[k] # Loop => status'[stack'[k].of] # "fresh"
    BY <1>3, <1>6, <1>7 DEF TypeInv, NoneFresh
  <2>2. ASSUME NEW i \in DOMAIN eventQue'
        PROVE  status'[eventQue'[i]] # "fresh"
    <3>1. CASE i = Len(eventQue) + 1
      BY <1>1, <1>3, <1>6, <3>1, StagedTyped
    <3>2. CASE i \in 1..Len(eventQue)
      <4>1. eventQue[i] \in Events /\ i \in DOMAIN eventQue /\ eventQue'[i] = eventQue[i]
        BY <1>1, <1>3, <3>2, StagedTyped DEF QueuesTyped
      <4> QED BY <1>6, <4>1 DEF TypeInv, NoneFresh
    <3> QED BY <1>1, <1>3, <3>1, <3>2, StagedTyped
  <2> QED BY <2>1, <2>2 DEF NoneFresh
<1>9. Anchored'
  <2> SUFFICES ASSUME NEW k \in DOMAIN stack, k < Len(stack), stack[k] = Loop
               PROVE  /\ stack[k + 1] # Loop
                      /\ status'[stack[k + 1].of] = "live" =>
                             eventQue' # <<>> /\ Head(eventQue') = stack[k + 1].of
    BY <1>3 DEF Anchored
  <2>1. stack[k + 1] # Loop /\ k + 1 \in DOMAIN stack
    BY <1>1, LenProperties DEF TypeInv, Anchored, StackTyped
  <2>2. status'[stack[k + 1].of] = status[stack[k + 1].of]
    BY <1>6, <1>7, <2>1
  <2> QED BY <1>1, <1>3, <2>1, <2>2, StagedTyped DEF TypeInv, Anchored
<1> QED BY <1>4, <1>5, <1>6, <1>8, <1>9 DEF TypeInv

\* a hit begins, of an event on top of the loop that found it in front of the
\* queue, or of one nobody has seen before
LEMMA BeginTyped ==
    ASSUME TypeInv, NEW e \in Events, BeginHit(e)
    PROVE  /\ StackTyped' /\ RoundsTyped' /\ defined' \in BOOLEAN
           /\ Len(stack) \in Nat /\ DOMAIN stack = 1..Len(stack)
           /\ Len(stack') = Len(stack) + 1 /\ DOMAIN stack' = 1..(Len(stack) + 1)
           /\ stack'[Len(stack) + 1] # Loop /\ stack'[Len(stack) + 1].of = e
           /\ \A k \in 1..Len(stack) : stack'[k] = stack[k]
<1> DEFINE temp == At(eventToListenerMap, Base, <<Null>>)
<1>1. temp \in Seq(Targets) \ {<<>>} /\ StackTyped /\ RoundsTyped
  BY TempTyped DEF TypeInv
<1>2. /\ stack' = Append(stack, Hit(e, temp))
      /\ defined' = (temp[1] # Null)
      /\ audience' = [audience EXCEPT ![e] = temp]
      /\ called' = [called EXCEPT ![e] = <<temp[1]>>]
  BY DEF BeginHit
<1> HIDE DEF temp
<1>3. 1 \in DOMAIN temp /\ temp[1] \in Targets
  BY <1>1, EmptySeq, LenProperties
<1>4. Hit(e, temp) \in Frames /\ Hit(e, temp) # Loop
      /\ Hit(e, temp).of = e /\ Hit(e, temp).i \in DOMAIN Hit(e, temp).temp
  BY <1>1, <1>3, HitTyped, FrameKinds
<1>5. RoundsTyped'
  BY <1>1, <1>2, <1>3 DEF RoundsTyped
<1> QED BY <1>1, <1>2, <1>4, <1>5, PushTyped

LEMMA HitStep ==
    ASSUME TypeInv, NEW e \in Events, HitEvent(e)
    PROVE  TypeInv'
<1>1. /\ status[e] = "fresh" /\ status' = [status EXCEPT ![e] = "live"]
      /\ BeginHit(e) /\ UNCHANGED <<tables, events, sent, misuse>>
      /\ stack = <<>> \/ Top # Loop
  BY DEF HitEvent, Free, InCallback
<1>2. TablesTyped' /\ QueuesTyped' /\ StackTyped' /\ RoundsTyped'
  BY <1>1, BeginTyped DEF TypeInv, tables, events, TablesTyped, QueuesTyped
<1>3. FlagsTyped' /\ \A x \in Events : status'[x] = IF x = e THEN "live" ELSE status[x]
  BY <1>1, BeginTyped DEF TypeInv, FlagsTyped, misuse
<1>4. \A k \in DOMAIN stack : stack[k] # Loop =>
          status'[stack[k].of] = status[stack[k].of] /\ status[stack[k].of] # "fresh"
  BY <1>1, <1>3, FrameEvent DEF TypeInv, NoneFresh
<1>5. NoneFresh'
  <2>1. ASSUME NEW k \in DOMAIN stack', stack'[k] # Loop
        PROVE  status'[stack'[k].of] # "fresh"
    <3>1. CASE k = Len(stack) + 1
      BY <1>1, <1>3, <3>1, BeginTyped
    <3>2. CASE k \in 1..Len(stack)
      BY <1>1, <1>4, <2>1, <3>2, BeginTyped
    <3> QED BY <1>1, <3>1, <3>2, BeginTyped
  <2>2. ASSUME NEW i \in DOMAIN eventQue
        PROVE  status'[eventQue[i]] # "fresh"
    <3>1. eventQue[i] \in Events
      BY ElementOfSeq, LenProperties DEF TypeInv, QueuesTyped
    <3> QED BY <1>3, <3>1 DEF TypeInv, NoneFresh
  <2> QED BY <1>1, <2>1, <2>2 DEF NoneFresh, events
<1>6. Anchored'
  <2> SUFFICES ASSUME NEW k \in DOMAIN stack', k < Len(stack'), stack'[k] = Loop
               PROVE  /\ stack'[k + 1] # Loop
                      /\ status'[stack'[k + 1].of] = "live" =>
                             eventQue # <<>> /\ Head(eventQue) = stack'[k + 1].of
    BY <1>1 DEF Anchored, events
  <2>1. k \in 1..Len(stack) /\ stack[k] = Loop /\ Len(stack) \in Nat
    BY <1>1, BeginTyped
  <2>2. k # Len(stack) /\ k + 1 \in DOMAIN stack
    BY <1>1, <2>1, BeginTyped DEF Top
  <2>3. stack'[k + 1] = stack[k + 1]
    BY <1>1, <2>1, <2>2, BeginTyped
  <2> QED BY <1>4, <2>1, <2>2, <2>3, BeginTyped, <1>1 DEF TypeInv, Anchored
<1> QED BY <1>2, <1>3, <1>5, <1>6 DEF TypeInv

LEMMA SendNextStep ==
    ASSUME TypeInv, SendNext
    PROVE  TypeInv'
<1> DEFINE e == Head(eventQue)
<1>1. /\ stack # <<>> /\ Top = Loop /\ eventQue # <<>>
      /\ BeginHit(e) /\ sent' = Append(sent, e)
      /\ UNCHANGED <<tables, events, status, misuse>>
  BY DEF SendNext
<1>2. e \in Events /\ status[e] # "fresh"
  <2>1. /\ 1 \in DOMAIN eventQue /\ eventQue[1] = e /\ e \in Events
    BY <1>1, HeadTailProperties, LenProperties, EmptySeq DEF TypeInv, QueuesTyped
  <2> QED BY <2>1 DEF TypeInv, NoneFresh
<1> HIDE DEF e
<1>3. TablesTyped' /\ QueuesTyped' /\ StackTyped' /\ RoundsTyped' /\ FlagsTyped'
  BY <1>1, <1>2, BeginTyped, AppendProperties
     DEF TypeInv, tables, events, misuse, TablesTyped, QueuesTyped, FlagsTyped
<1>4. NoneFresh'
  <2>1. ASSUME NEW k \in DOMAIN stack', stack'[k] # Loop
        PROVE  status[stack'[k].of] # "fresh"
    <3>1. CASE k = Len(stack) + 1
      BY <1>1, <1>2, <3>1, BeginTyped
    <3>2. CASE k \in 1..Len(stack)
      BY <1>1, <1>2, <2>1, <3>2, BeginTyped DEF TypeInv, NoneFresh
    <3> QED BY <1>1, <1>2, <3>1, <3>2, BeginTyped
  <2> QED BY <1>1, <2>1 DEF TypeInv, NoneFresh, events
<1>5. Anchored'
  <2> SUFFICES ASSUME NEW k \in DOMAIN stack', k < Len(stack'), stack'[k] = Loop
               PROVE  /\ stack'[k + 1] # Loop
                      /\ status[stack'[k + 1].of] = "live" =>
                             eventQue # <<>> /\ Head(eventQue) = stack'[k + 1].of
    BY <1>1 DEF Anchored, events
  <2>1. k \in 1..Len(stack) /\ stack[k] = Loop /\ Len(stack) \in Nat
    BY <1>1, <1>2, BeginTyped
  <2>2. CASE k = Len(stack)
    BY <1>1, <1>2, <2>2, BeginTyped DEF e
  <2>3. CASE k < Len(stack)
    <3>1. k + 1 \in 1..Len(stack)
      BY <2>1, <2>3
    <3> QED BY <1>1, <1>2, <2>1, <2>3, <3>1, BeginTyped DEF TypeInv, Anchored
  <2> QED BY <2>1, <2>2, <2>3
<1> QED BY <1>3, <1>4, <1>5 DEF TypeInv

LEMMA SendStagedStep ==
    ASSUME TypeInv, SendStaged
    PROVE  TypeInv'
<1>1. /\ stack' = Append(stack, Loop) /\ (stack = <<>> \/ Top # Loop)
      /\ reentered' = (reentered \/ Sending)
      /\ UNCHANGED <<tables, events, status, defined, sent, audience, called, misnumbered>>
  BY DEF SendStaged, Free, InCallback
<1>2. /\ StackTyped' /\ Len(stack) \in Nat /\ DOMAIN stack = 1..Len(stack)
      /\ Len(stack') = Len(stack) + 1 /\ DOMAIN stack' = 1..(Len(stack) + 1)
      /\ stack'[Len(stack) + 1] = Loop
      /\ \A k \in 1..Len(stack) : stack'[k] = stack[k]
  BY <1>1, PushTyped, FrameKinds DEF TypeInv
<1>3. TablesTyped' /\ QueuesTyped' /\ FlagsTyped' /\ RoundsTyped'
  BY <1>1 DEF TypeInv, tables, events, TablesTyped, QueuesTyped, FlagsTyped, RoundsTyped
<1>4. NoneFresh'
  BY <1>1, <1>2 DEF TypeInv, NoneFresh, events
<1>5. Anchored'
  <2> SUFFICES ASSUME NEW k \in 1..Len(stack), stack[k] = Loop
               PROVE  /\ stack'[k + 1] # Loop
                      /\ status[stack'[k + 1].of] = "live" =>
                             eventQue # <<>> /\ Head(eventQue) = stack'[k + 1].of
    BY <1>1, <1>2 DEF Anchored, events
  <2>1. k # Len(stack)
    <3>1. stack # <<>>
      BY <1>2
    <3> QED BY <1>1, <3>1 DEF Top
  <2>2. k + 1 \in 1..Len(stack) /\ k < Len(stack) /\ k \in DOMAIN stack
    BY <1>2, <2>1, Below
  <2>3. stack'[k + 1] = stack[k + 1]
    BY ONLY <1>2, <2>2
  <2> QED BY <2>2, <2>3 DEF TypeInv, Anchored
<1> QED BY <1>2, <1>3, <1>4, <1>5 DEF TypeInv

LEMMA SendDoneStep ==
    ASSUME TypeInv, SendDone
    PROVE  TypeInv'
<1>1. /\ stack # <<>> /\ stack' = Popped
      /\ UNCHANGED <<tables, events, status, defined, sent, audience, called, misuse>>
  BY DEF SendDone
<1>2. /\ StackTyped'
      /\ Len(stack) \in Nat \ {0} /\ DOMAIN stack = 1..Len(stack)
      /\ Len(stack') = Len(stack) - 1 /\ DOMAIN stack' = 1..(Len(stack) - 1)
      /\ \A k \in 1..(Len(stack) - 1) : stack'[k] = stack[k]
  BY <1>1, PopTyped DEF TypeInv
<1>3. TablesTyped' /\ QueuesTyped' /\ FlagsTyped' /\ RoundsTyped'
  BY <1>1 DEF TypeInv, tables, events, misuse, TablesTyped, QueuesTyped, FlagsTyped,
              RoundsTyped
<1>4. NoneFresh'
  BY <1>1, <1>2 DEF TypeInv, NoneFresh, events
<1>5. Anchored'
  BY <1>1, <1>2 DEF TypeInv, Anchored, events
<1> QED BY <1>2, <1>3, <1>4, <1>5 DEF TypeInv

\* the frames stay what they are, and the top moves on
LEMMA CallNextShape ==
    ASSUME TypeInv, NEW handled \in BOOLEAN, CallNext(handled)
    PROVE  LET n == Len(stack)
               next == Top.temp[Top.i + 1]
           IN  /\ Top # Loop /\ Top.of \in Events /\ next \in Targets
               /\ Top.temp \in Seq(Targets) /\ Top.i \in DOMAIN Top.temp
               /\ Top.i + 1 \in DOMAIN Top.temp
               /\ defined' = (next # Null)
               /\ called' = [called EXCEPT ![Top.of] = Append(@, next)]
               /\ UNCHANGED <<tables, events, status, sent, audience, misuse>>
               /\ StackTyped' /\ n \in Nat \ {0} /\ DOMAIN stack = 1..n
               /\ Len(stack') = n /\ DOMAIN stack' = 1..n /\ stack[n] = Top
               /\ stack'[n].temp = Top.temp /\ stack'[n].i = Top.i + 1
               /\ \A k \in 1..n : stack'[k] = Loop <=> stack[k] = Loop
               /\ \A k \in 1..n : stack[k] # Loop => stack'[k].of = stack[k].of
               /\ \A k \in 1..(n - 1) : stack'[k] = stack[k]
<1> DEFINE n == Len(stack)
           next == Top.temp[Top.i + 1]
           chosen == IF Top.i + 1 \in DOMAIN Top.temp THEN next ELSE Null
<1>1. /\ stack # <<>> /\ Top # Loop /\ Top.i # Len(Top.temp)
      /\ stack' = [stack EXCEPT ![Len(stack)].i = @ + 1]
      /\ defined' = (chosen # Null)
      /\ called' = [called EXCEPT ![Top.of] = Append(@, chosen)]
      /\ UNCHANGED <<tables, events, status, sent, audience, misuse>>
  BY DEF CallNext, InCallback, Last
<1>2. /\ StackTyped' /\ n \in Nat \ {0} /\ DOMAIN stack = 1..n
      /\ Len(stack') = n /\ DOMAIN stack' = 1..n
      /\ Top.i + 1 \in DOMAIN Top.temp
      /\ stack'[n] # Loop /\ stack'[n].of = Top.of
      /\ stack'[n].temp = Top.temp /\ stack'[n].i = Top.i + 1
      /\ \A k \in 1..(n - 1) : stack'[k] = stack[k]
  BY <1>1, NextTyped, LoopIsNoHit DEF TypeInv
<1>3. chosen = next
  BY <1>2
<1>4. /\ Top.of \in Events /\ next \in Targets /\ Top.temp \in Seq(Targets)
      /\ Top.i \in DOMAIN Top.temp
  <2>1. Top \in HitFrames /\ Top.i \in DOMAIN Top.temp
    BY <1>1, TopTyped DEF TypeInv
  <2>2. Top.of \in Events /\ Top.temp \in Seq(Targets)
    BY <2>1 DEF HitFrames
  <2> QED BY <1>2, <2>1, <2>2, LenProperties, ElementOfSeq
<1>5. stack[n] = Top
  BY DEF Top
<1> HIDE DEF chosen, next, n
<1>6. /\ \A k \in 1..n : stack'[k] = Loop <=> stack[k] = Loop
      /\ \A k \in 1..n : stack[k] # Loop => stack'[k].of = stack[k].of
  <2> SUFFICES ASSUME NEW k \in 1..n
               PROVE  /\ stack'[k] = Loop <=> stack[k] = Loop
                      /\ stack[k] # Loop => stack'[k].of = stack[k].of
    OBVIOUS
  <2>1. CASE k = n
    BY <1>1, <1>2, <1>5, <2>1
  <2>2. CASE k # n
    BY <1>2, <2>2, Below
  <2> QED BY <2>1, <2>2
<1>7. defined' = (next # Null) /\ called' = [called EXCEPT ![Top.of] = Append(@, next)]
  BY <1>1, <1>3
<1> USE DEF n, next
<1> QED BY <1>1, <1>2, <1>4, <1>5, <1>6, <1>7

LEMMA CallNextStep ==
    ASSUME TypeInv, NEW handled \in BOOLEAN, CallNext(handled)
    PROVE  TypeInv'
<1> DEFINE n == Len(stack)
           next == Top.temp[Top.i + 1]
<1>1. /\ Top.of \in Events /\ next \in Targets /\ defined' = (next # Null)
      /\ called' = [called EXCEPT ![Top.of] = Append(@, next)]
      /\ UNCHANGED <<tables, events, status, sent, audience, misuse>>
  BY CallNextShape
<1>2. /\ StackTyped' /\ n \in Nat \ {0} /\ DOMAIN stack = 1..n
      /\ Len(stack') = n /\ DOMAIN stack' = 1..n
      /\ \A k \in 1..n : stack'[k] = Loop <=> stack[k] = Loop
      /\ \A k \in 1..n : stack[k] # Loop => stack'[k].of = stack[k].of
  BY CallNextShape
<1> HIDE DEF next, n
<1>3. RoundsTyped'
  <2>1. called[Top.of] \in Seq(Targets)
    BY <1>1 DEF TypeInv, RoundsTyped
  <2>2. Append(called[Top.of], next) \in Seq(Targets)
    BY <1>1, <2>1, AppendProperties
  <2> QED BY <1>1, <2>2 DEF TypeInv, RoundsTyped
<1>4. TablesTyped' /\ QueuesTyped' /\ FlagsTyped'
  BY <1>1 DEF TypeInv, tables, events, misuse, TablesTyped, QueuesTyped, FlagsTyped
<1>5. NoneFresh'
  BY <1>1, <1>2 DEF TypeInv, NoneFresh, events
<1>6. Anchored'
  <2> SUFFICES ASSUME NEW k \in 1..n, k < n, stack'[k] = Loop
               PROVE  /\ stack'[k + 1] # Loop
                      /\ status[stack'[k + 1].of] = "live" =>
                             eventQue # <<>> /\ Head(eventQue) = stack'[k + 1].of
    BY <1>1, <1>2 DEF Anchored, events
  <2>1. k + 1 \in 1..n
    BY <1>2, Below
  <2> QED BY <1>2, <2>1 DEF TypeInv, Anchored, n
<1> QED BY <1>2, <1>3, <1>4, <1>5, <1>6 DEF TypeInv

\* what FinishHit does to the queue: it loses its front, the event that is
\* deleted, or stays
LEMMA FinishPops ==
    ASSUME TypeInv, NEW handled \in BOOLEAN, FinishHit(handled)
    PROVE  /\ stack # <<>> /\ Top # Loop /\ Top.of \in Events
           /\ status[Top.of] = "live" /\ stack[Len(stack)] = Top
           /\ \/ /\ Len(stack) > 1 /\ stack[Len(stack) - 1] = Loop
                 /\ eventQue # <<>> /\ Head(eventQue) = Top.of
                 /\ eventQue' = Tail(eventQue)
              \/ /\ Len(stack) > 1 => stack[Len(stack) - 1] # Loop
                 /\ eventQue' = eventQue
<1> DEFINE n == Len(stack)
<1>1. /\ stack # <<>> /\ Top # Loop /\ status[Top.of] = "live" /\ stack[n] = Top
      /\ eventQue' = PopQue
  BY DEF FinishHit, InCallback, Top
<1>2. n \in Nat \ {0} /\ DOMAIN stack = 1..n /\ Top \in HitFrames
  BY <1>1, TopTyped DEF TypeInv
<1>3. /\ Len(Popped) = n - 1 /\ Popped \in Seq(Frames)
      /\ \A k \in 1..(n - 1) : Popped[k] = stack[k]
  BY <1>1, PopKeeps DEF Popped, TypeInv, StackTyped
<1>4. Top.of \in Events
  BY <1>2 DEF HitFrames
<1>5. CASE n = 1
  <2>1. Popped = <<>>
    BY <1>3, <1>5, EmptySeq
  <2> QED BY <1>1, <1>4, <1>5, <2>1 DEF PopQue
<1>6. CASE n > 1
  <2>1. n - 1 \in 1..(n - 1) /\ n - 1 \in DOMAIN stack /\ n - 1 < n /\ n - 1 + 1 = n
    BY <1>2, <1>6
  <2>2. Popped # <<>> /\ Popped[Len(Popped)] = stack[n - 1]
    BY <1>3, <1>6, <2>1, EmptySeq
  <2>3. CASE stack[n - 1] = Loop
    <3>1. eventQue # <<>> /\ Head(eventQue) = Top.of
      BY <1>1, <2>1, <2>3 DEF TypeInv, Anchored
    <3> QED BY <1>1, <1>4, <1>6, <2>2, <2>3, <3>1 DEF PopQue
  <2>4. CASE stack[n - 1] # Loop
    BY <1>1, <1>4, <1>6, <2>2, <2>4 DEF PopQue
  <2> QED BY <2>3, <2>4
<1> QED BY <1>2, <1>5, <1>6

LEMMA FinishStep ==
    ASSUME TypeInv, NEW handled \in BOOLEAN, FinishHit(handled)
    PROVE  TypeInv'
<1> DEFINE n == Len(stack)
           e == Top.of
<1>1. /\ stack' = Popped /\ status' = [status EXCEPT ![e] = "deleted"]
      /\ UNCHANGED <<tables, staged, defined, sent, audience, called, misuse>>
  BY DEF FinishHit
<1>2. /\ StackTyped'
      /\ n \in Nat \ {0} /\ DOMAIN stack = 1..n
      /\ Len(stack') = n - 1 /\ DOMAIN stack' = 1..(n - 1)
      /\ \A k \in 1..(n - 1) : stack'[k] = stack[k]
  BY <1>1, FinishPops, PopTyped DEF TypeInv
<1>3. e \in Events /\ QueuesTyped
  BY FinishPops DEF TypeInv
<1>4. /\ eventQue' \in Seq(Events)
      /\ \A i \in DOMAIN eventQue' : \E j \in DOMAIN eventQue : eventQue'[i] = eventQue[j]
  <2>1. CASE eventQue' = eventQue
    BY <1>3, <2>1 DEF QueuesTyped
  <2>2. CASE eventQue # <<>> /\ eventQue' = Tail(eventQue)
    <3>1. /\ eventQue' \in Seq(Events) /\ Len(eventQue) \in Nat \ {0}
          /\ DOMAIN eventQue = 1..Len(eventQue)
          /\ DOMAIN eventQue' = 1..(Len(eventQue) - 1)
          /\ \A i \in 1..(Len(eventQue) - 1) : eventQue'[i] = eventQue[i + 1]
      BY <1>3, <2>2, PoppedQueTyped
    <3>2. \A i \in DOMAIN eventQue' : i + 1 \in DOMAIN eventQue
      BY <3>1
    <3> QED BY <3>1, <3>2
  <2> QED BY <2>1, <2>2, FinishPops
<1>5. eventQue' = eventQue \/ (eventQue # <<>> /\ Head(eventQue) = e)
  BY FinishPops
<1> HIDE DEF n, e
<1>6. TablesTyped' /\ QueuesTyped' /\ RoundsTyped'
  BY <1>1, <1>3, <1>4 DEF TypeInv, tables, TablesTyped, QueuesTyped, RoundsTyped
<1>7. FlagsTyped' /\ \A x \in Events : status'[x] = IF x = e THEN "deleted" ELSE status[x]
  BY <1>1, <1>3 DEF TypeInv, FlagsTyped, misuse
<1>8. \A k \in DOMAIN stack : stack[k] # Loop => stack[k].of \in Events
  BY FrameEvent DEF TypeInv
<1>9. \A j \in DOMAIN eventQue : eventQue[j] \in Events
  BY <1>3, ElementOfSeq, LenProperties DEF QueuesTyped
<1>10. NoneFresh'
  BY <1>2, <1>4, <1>7, <1>8, <1>9 DEF TypeInv, NoneFresh
<1>11. Anchored'
  <2> SUFFICES ASSUME NEW k \in 1..(n - 1), k < n - 1, stack'[k] = Loop
               PROVE  /\ stack'[k + 1] # Loop
                      /\ status'[stack'[k + 1].of] = "live" =>
                             eventQue' # <<>> /\ Head(eventQue') = stack'[k + 1].of
    BY <1>2 DEF Anchored
  <2>1. k + 1 \in 1..(n - 1) /\ k \in 1..n /\ k + 1 \in 1..n /\ k < n
    BY <1>2
  <2>2. stack[k] = Loop /\ stack'[k + 1] = stack[k + 1]
    BY <1>2, <2>1
  <2>3. /\ stack[k + 1] # Loop /\ stack[k + 1].of \in Events
        /\ status[stack[k + 1].of] = "live" =>
               eventQue # <<>> /\ Head(eventQue) = stack[k + 1].of
    BY <1>2, <1>8, <2>1, <2>2 DEF TypeInv, Anchored, n
  <2> QED BY <1>5, <1>7, <2>2, <2>3
<1> QED BY <1>2, <1>6, <1>7, <1>10, <1>11 DEF TypeInv

LEMMA UseDeletedStep ==
    ASSUME TypeInv, UseDeleted
    PROVE  TypeInv'
BY DEF UseDeleted, TypeInv, tables, events, misuse, TablesTyped, QueuesTyped,
       StackTyped, FlagsTyped, RoundsTyped, Anchored, NoneFresh

LEMMA TypeInvInductive == TypeInv /\ [Next]_vars => TypeInv'
<1> SUFFICES ASSUME TypeInv, [Next]_vars PROVE TypeInv'
  OBVIOUS
<1>1. CASE UNCHANGED vars
  BY <1>1 DEF vars, TypeInv, tables, events, hits, misuse, TablesTyped, QueuesTyped,
              StackTyped, FlagsTyped, RoundsTyped, Anchored, NoneFresh
<1>2. CASE Next
  <2>1. \A id \in 0..1 : id \in Nat
    OBVIOUS
  <2> QED BY <1>2, <2>1, TablesStep, NumberStep, StageStep, HitStep, SendStagedStep,
             SendNextStep, SendDoneStep, CallNextStep, FinishStep, UseDeletedStep
          DEF Next, Running
<1> QED BY <1>1, <1>2

LEMMA TypeInvInitial == Init => TypeInv
<1> SUFFICES ASSUME Init PROVE TypeInv
  OBVIOUS
<1>1. TablesTyped /\ QueuesTyped /\ StackTyped
  BY DEF Init, TablesTyped, QueuesTyped, StackTyped
<1>2. FlagsTyped /\ RoundsTyped
  <2>1. <<>> \in Seq(Targets)
    BY EmptySeq
  <2>2. RoundsTyped
    BY <2>1 DEF Init, RoundsTyped
  <2>3. FlagsTyped
    BY DEF Init, FlagsTyped
  <2> QED BY <2>2, <2>3
<1>3. Anchored /\ NoneFresh
  BY DEF Init, Anchored, NoneFresh
<1> QED BY <1>1, <1>2, <1>3 DEF TypeInv

(* The event system stays within its types for any listeners, events and   *)
(* types and any depth of calls: pop() never meets an empty queue, not even *)
(* when sendStaged is called from an onEvent, and a hit never runs past the *)
(* list it copied.                                                         *)
THEOREM EventsTypeCorrect == Spec => []TypeOK
<1>1. TypeInv => TypeOK
  BY TypeInParts DEF TypeInv
<1> QED BY <1>1, TypeInvInitial, TypeInvInductive, PTL DEF Spec

-----------------------------------------------------------------------------
(* While sendStaged has not been called inside a hit: there is one loop,   *)
(* every event is in one place, alive, and an event in the queue is being  *)
(* hit by the loop or not at all.                                          *)

OneLoop == \A k, m \in DOMAIN stack : stack[k] = Loop /\ stack[m] = Loop => k = m

HitsApart ==
    /\ \A k \in DOMAIN stack : stack[k] # Loop => status[stack[k].of] = "live"
    /\ \A k, m \in DOMAIN stack :
          stack[k] # Loop /\ stack[m] # Loop /\ stack[k].of = stack[m].of => k = m

QueuedApart ==
    /\ \A i \in DOMAIN eventQue : status[eventQue[i]] = "live"
    /\ \A i, j \in DOMAIN eventQue : eventQue[i] = eventQue[j] => i = j
    /\ \A k \in DOMAIN stack : \A i \in DOMAIN eventQue :
          stack[k] # Loop /\ stack[k].of = eventQue[i] => k > 1 /\ stack[k - 1] = Loop

Solo == ~reentered => OneLoop /\ HitsApart /\ QueuedApart

LEMMA SoloStage ==
    ASSUME TypeInv, Solo, ~reentered, NEW e \in Events, StageEvent(e)
    PROVE  OneLoop' /\ HitsApart' /\ QueuedApart'
<1>1. /\ status[e] = "fresh" /\ status' = [status EXCEPT ![e] = "live"]
      /\ eventQue' = Append(eventQue, e) /\ stack' = stack
  BY DEF StageEvent
<1>2. \A x \in Events : status'[x] = IF x = e THEN "live" ELSE status[x]
  BY <1>1 DEF TypeInv, FlagsTyped
<1>3. \A k \in DOMAIN stack : stack[k] # Loop => stack[k].of \in Events /\ stack[k].of # e
  BY <1>1, FrameEvent DEF TypeInv, NoneFresh
<1>4. \A i \in DOMAIN eventQue : eventQue[i] \in Events /\ eventQue[i] # e
  BY <1>1, ElementOfSeq, LenProperties DEF TypeInv, QueuesTyped, NoneFresh
<1> DEFINE n == Len(eventQue)
<1>5. /\ n \in Nat /\ DOMAIN eventQue = 1..n /\ DOMAIN eventQue' = 1..(n + 1)
      /\ eventQue'[n + 1] = e /\ \A i \in 1..n : eventQue'[i] = eventQue[i]
  BY <1>1, StagedTyped DEF TypeInv
<1> HIDE DEF n
<1>6. OneLoop' /\ HitsApart'
  BY <1>1, <1>2, <1>3 DEF Solo, OneLoop, HitsApart
<1>7. \A i \in 1..(n + 1) : i = n + 1 \/ i \in 1..n
  BY <1>5
<1>8. \A i \in DOMAIN eventQue' : status'[eventQue'[i]] = "live"
  BY <1>2, <1>4, <1>5, <1>7 DEF Solo, QueuedApart
<1>9. \A i, j \in DOMAIN eventQue' : eventQue'[i] = eventQue'[j] => i = j
  BY <1>4, <1>5, <1>7 DEF Solo, QueuedApart
<1>10. \A k \in DOMAIN stack : \A i \in DOMAIN eventQue' :
           stack[k] # Loop /\ stack[k].of = eventQue'[i] => k > 1 /\ stack[k - 1] = Loop
  BY <1>3, <1>5, <1>7 DEF Solo, QueuedApart
<1> QED BY <1>1, <1>6, <1>8, <1>9, <1>10 DEF QueuedApart

LEMMA SoloHit ==
    ASSUME TypeInv, Solo, ~reentered, NEW e \in Events, HitEvent(e)
    PROVE  OneLoop' /\ HitsApart' /\ QueuedApart'
<1> DEFINE n == Len(stack)
<1>1. /\ status[e] = "fresh" /\ status' = [status EXCEPT ![e] = "live"]
      /\ eventQue' = eventQue /\ BeginHit(e)
  BY DEF HitEvent, events
<1>2. \A x \in Events : status'[x] = IF x = e THEN "live" ELSE status[x]
  BY <1>1 DEF TypeInv, FlagsTyped
<1>3. \A k \in DOMAIN stack : stack[k] # Loop => stack[k].of \in Events /\ stack[k].of # e
  BY <1>1, FrameEvent DEF TypeInv, NoneFresh
<1>4. \A i \in DOMAIN eventQue : eventQue[i] \in Events /\ eventQue[i] # e
  BY <1>1, ElementOfSeq, LenProperties DEF TypeInv, QueuesTyped, NoneFresh
<1>5. /\ n \in Nat /\ DOMAIN stack = 1..n /\ DOMAIN stack' = 1..(n + 1)
      /\ stack'[n + 1] # Loop /\ stack'[n + 1].of = e
      /\ \A k \in 1..n : stack'[k] = stack[k]
  BY <1>1, BeginTyped
<1> HIDE DEF n
<1>6. \A k \in 1..(n + 1) : k = n + 1 \/ k \in 1..n
  BY <1>5
<1>7. OneLoop'
  BY <1>5, <1>6 DEF Solo, OneLoop
<1>8. HitsApart'
  BY <1>2, <1>3, <1>5, <1>6 DEF Solo, HitsApart
<1>9. \A i \in DOMAIN eventQue : status'[eventQue[i]] = "live"
  BY <1>2, <1>4 DEF Solo, QueuedApart
<1>10. ASSUME NEW k \in 1..(n + 1), NEW i \in DOMAIN eventQue,
              stack'[k] # Loop, stack'[k].of = eventQue[i]
       PROVE  k > 1 /\ stack'[k - 1] = Loop
  <2>1. k \in 1..n /\ stack[k] # Loop /\ stack[k].of = eventQue[i]
    BY <1>4, <1>5, <1>6, <1>10
  <2>2. k > 1 /\ stack[k - 1] = Loop
    BY <1>5, <2>1 DEF Solo, QueuedApart
  <2>3. k - 1 \in 1..n
    BY <1>5, <2>1, <2>2
  <2> QED BY <1>5, <2>2, <2>3
<1> QED BY <1>1, <1>5, <1>7, <1>8, <1>9, <1>10 DEF Solo, QueuedApart

LEMMA SoloSendNext ==
    ASSUME TypeInv, Solo, ~reentered, SendNext
    PROVE  OneLoop' /\ HitsApart' /\ QueuedApart'
<1> DEFINE n == Len(stack)
           e == Head(eventQue)
<1>1. /\ stack # <<>> /\ Top = Loop /\ eventQue # <<>>
      /\ status' = status /\ eventQue' = eventQue /\ BeginHit(e)
  BY DEF SendNext, events
<1>2. 1 \in DOMAIN eventQue /\ eventQue[1] = e /\ e \in Events
  BY <1>1, HeadTailProperties, LenProperties, EmptySeq DEF TypeInv, QueuesTyped
<1>3. n \in Nat \ {0} /\ stack[n] = Loop /\ DOMAIN stack = 1..n
  BY <1>1, TopTyped DEF TypeInv, Top
<1>4. /\ DOMAIN stack' = 1..(n + 1)
      /\ stack'[n + 1] # Loop /\ stack'[n + 1].of = e
      /\ \A k \in 1..n : stack'[k] = stack[k]
  BY <1>1, <1>2, BeginTyped
<1> HIDE DEF n, e
<1>5. \A k \in 1..(n + 1) : k = n + 1 \/ k \in 1..n
  BY <1>3
<1>6. \A k \in 1..n : stack[k] # Loop => stack[k].of # e
  <2> SUFFICES ASSUME NEW k \in 1..n, stack[k] # Loop, stack[k].of = e PROVE FALSE
    OBVIOUS
  <2>1. k > 1 /\ stack[k - 1] = Loop
    BY <1>2, <1>3 DEF Solo, QueuedApart
  <2>2. k - 1 \in 1..n /\ k - 1 # n
    BY <1>3, <2>1
  <2> QED BY <1>3, <2>1, <2>2 DEF Solo, OneLoop
<1>7. OneLoop'
  BY <1>3, <1>4, <1>5 DEF Solo, OneLoop
<1>8. HitsApart'
  BY <1>1, <1>2, <1>3, <1>4, <1>5, <1>6 DEF Solo, HitsApart, QueuedApart
<1>9. ASSUME NEW k \in 1..(n + 1), NEW i \in DOMAIN eventQue,
             stack'[k] # Loop, stack'[k].of = eventQue[i]
      PROVE  k > 1 /\ stack'[k - 1] = Loop
  <2>1. CASE k = n + 1
    <3>1. k > 1 /\ k - 1 = n /\ n \in 1..n
      BY <1>3, <2>1
    <3> QED BY <1>3, <1>4, <3>1
  <2>2. CASE k \in 1..n
    <3>1. k > 1 /\ stack[k - 1] = Loop
      BY <1>3, <1>4, <1>9, <2>2 DEF Solo, QueuedApart
    <3>2. k - 1 \in 1..n
      BY <1>3, <2>2, <3>1
    <3> QED BY <1>4, <3>1, <3>2
  <2> QED BY <1>5, <2>1, <2>2
<1> QED BY <1>1, <1>4, <1>7, <1>8, <1>9 DEF Solo, QueuedApart

LEMMA SoloSendStaged ==
    ASSUME TypeInv, Solo, ~reentered', SendStaged
    PROVE  OneLoop' /\ HitsApart' /\ QueuedApart'
<1> DEFINE n == Len(stack)
<1>1. /\ stack' = Append(stack, Loop) /\ ~reentered
      /\ status' = status /\ eventQue' = eventQue
      /\ \A k \in DOMAIN stack : stack[k] # Loop
  BY DEF SendStaged, Sending, events, TypeInv, FlagsTyped
<1>2. /\ n \in Nat /\ DOMAIN stack = 1..n /\ DOMAIN stack' = 1..(n + 1)
      /\ stack'[n + 1] = Loop /\ \A k \in 1..n : stack'[k] = stack[k]
  BY <1>1, PushTyped, FrameKinds DEF TypeInv
<1> HIDE DEF n
<1>3. \A k \in 1..(n + 1) : k = n + 1 \/ k \in 1..n
  BY <1>2
<1>4. OneLoop'
  BY <1>1, <1>2, <1>3 DEF OneLoop
<1>5. HitsApart'
  BY <1>1, <1>2, <1>3 DEF Solo, HitsApart
<1>6. ASSUME NEW k \in 1..(n + 1), NEW i \in DOMAIN eventQue,
             stack'[k] # Loop, stack'[k].of = eventQue[i]
      PROVE  k > 1 /\ stack'[k - 1] = Loop
  <2>1. k \in 1..n /\ k > 1 /\ stack[k - 1] = Loop
    BY <1>1, <1>2, <1>3, <1>6 DEF Solo, QueuedApart
  <2>2. k - 1 \in 1..n
    BY <1>2, <2>1
  <2> QED BY <1>2, <2>1, <2>2
<1> QED BY <1>1, <1>2, <1>4, <1>5, <1>6 DEF Solo, QueuedApart

LEMMA SoloSendDone ==
    ASSUME TypeInv, Solo, ~reentered, SendDone
    PROVE  OneLoop' /\ HitsApart' /\ QueuedApart'
<1> DEFINE n == Len(stack)
<1>1. /\ stack # <<>> /\ stack' = Popped
      /\ status' = status /\ eventQue' = eventQue
  BY DEF SendDone, events
<1>2. /\ n \in Nat \ {0} /\ DOMAIN stack = 1..n /\ DOMAIN stack' = 1..(n - 1)
      /\ \A k \in 1..(n - 1) : stack'[k] = stack[k]
  BY <1>1, PopTyped DEF TypeInv
<1> HIDE DEF n
<1>3. \A k \in 1..(n - 1) : k \in 1..n /\ (k > 1 => k - 1 \in 1..(n - 1))
  BY <1>2
<1> QED BY <1>1, <1>2, <1>3 DEF Solo, OneLoop, HitsApart, QueuedApart

LEMMA SoloCallNext ==
    ASSUME TypeInv, Solo, ~reentered, NEW handled \in BOOLEAN, CallNext(handled)
    PROVE  OneLoop' /\ HitsApart' /\ QueuedApart'
<1> DEFINE n == Len(stack)
<1>1. /\ status' = status /\ eventQue' = eventQue
      /\ n \in Nat \ {0} /\ DOMAIN stack = 1..n /\ DOMAIN stack' = 1..n
      /\ \A k \in 1..n : stack'[k] = Loop <=> stack[k] = Loop
      /\ \A k \in 1..n : stack[k] # Loop => stack'[k].of = stack[k].of
  BY CallNextShape DEF events
<1> HIDE DEF n
<1>2. \A k \in 1..n : k > 1 => k - 1 \in 1..n
  BY <1>1
<1>3. OneLoop' /\ HitsApart'
  BY <1>1 DEF Solo, OneLoop, HitsApart
<1> QED BY <1>1, <1>2, <1>3 DEF Solo, QueuedApart

LEMMA SoloFinish ==
    ASSUME TypeInv, Solo, ~reentered, NEW handled \in BOOLEAN, FinishHit(handled)
    PROVE  OneLoop' /\ HitsApart' /\ QueuedApart'
<1> DEFINE n == Len(stack)
           e == Top.of
<1>1. /\ stack # <<>> /\ stack' = Popped /\ status' = [status EXCEPT ![e] = "deleted"]
      /\ stack[n] # Loop /\ stack[n].of = e /\ e \in Events
  BY FinishPops DEF FinishHit
<1>2. /\ n \in Nat \ {0} /\ DOMAIN stack = 1..n /\ DOMAIN stack' = 1..(n - 1)
      /\ \A k \in 1..(n - 1) : stack'[k] = stack[k]
  BY <1>1, PopTyped DEF TypeInv
<1>3. \/ eventQue # <<>> /\ Head(eventQue) = e /\ eventQue' = Tail(eventQue)
      \/ (n > 1 => stack[n - 1] # Loop) /\ eventQue' = eventQue
  BY FinishPops
<1> HIDE DEF n, e
<1>4. \A x \in Events : status'[x] = IF x = e THEN "deleted" ELSE status[x]
  BY <1>1 DEF TypeInv, FlagsTyped
<1>5. \A k \in 1..(n - 1) : k \in 1..n /\ k # n /\ (k > 1 => k - 1 \in 1..(n - 1))
  BY <1>2
<1>6. n \in 1..n
  BY <1>2
<1>7. \A k \in 1..(n - 1) : stack[k] # Loop => stack[k].of \in Events /\ stack[k].of # e
  BY <1>1, <1>2, <1>5, <1>6, FrameEvent DEF TypeInv, Solo, HitsApart
<1>8. OneLoop' /\ HitsApart'
  BY <1>2, <1>4, <1>5, <1>7 DEF Solo, OneLoop, HitsApart
<1>9. \A i \in DOMAIN eventQue : eventQue[i] \in Events
  BY ElementOfSeq, LenProperties DEF TypeInv, QueuesTyped
<1>10. CASE eventQue # <<>> /\ Head(eventQue) = e /\ eventQue' = Tail(eventQue)
  <2> DEFINE q == Len(eventQue)
  <2>1. /\ q \in Nat \ {0} /\ DOMAIN eventQue = 1..q /\ DOMAIN eventQue' = 1..(q - 1)
        /\ \A i \in 1..(q - 1) : eventQue'[i] = eventQue[i + 1]
        /\ eventQue[1] = e
    BY <1>10, PoppedQueTyped DEF TypeInv, QueuesTyped
  <2> HIDE DEF q
  <2>2. \A i \in 1..(q - 1) : i + 1 \in 1..q /\ i + 1 # 1 /\ 1 \in 1..q
    BY <2>1
  <2>3. \A i \in 1..(q - 1) : eventQue'[i] \in Events /\ eventQue'[i] # e
    BY <1>9, <2>1, <2>2 DEF Solo, QueuedApart
  <2>4. \A i \in DOMAIN eventQue' : status'[eventQue'[i]] = "live"
    BY <1>4, <2>1, <2>2, <2>3 DEF Solo, QueuedApart
  <2>5. ASSUME NEW i \in 1..(q - 1), NEW j \in 1..(q - 1), eventQue'[i] = eventQue'[j]
        PROVE  i = j
    <3>1. i + 1 \in DOMAIN eventQue /\ j + 1 \in DOMAIN eventQue
      BY <2>1, <2>2
    <3>2. eventQue[i + 1] = eventQue[j + 1]
      BY <2>1, <2>5
    <3>3. \A a, b \in DOMAIN eventQue : eventQue[a] = eventQue[b] => a = b
      BY DEF Solo, QueuedApart
    <3>4. i + 1 = j + 1
      BY ONLY <3>1, <3>2, <3>3
    <3> QED BY <2>1, <3>4
  <2>6. ASSUME NEW k \in 1..(n - 1), NEW i \in 1..(q - 1),
               stack'[k] # Loop, stack'[k].of = eventQue'[i]
        PROVE  k > 1 /\ stack'[k - 1] = Loop
    <3>1. stack[k] # Loop /\ stack[k].of = eventQue[i + 1] /\ stack'[k] = stack[k]
      BY <1>2, <2>1, <2>6
    <3>2. k > 1 /\ stack[k - 1] = Loop
      BY <1>2, <1>5, <2>1, <2>2, <3>1 DEF Solo, QueuedApart
    <3> QED BY <1>2, <1>5, <3>2
  <2> QED BY <1>2, <1>8, <2>1, <2>4, <2>5, <2>6 DEF QueuedApart
<1>11. CASE (n > 1 => stack[n - 1] # Loop) /\ eventQue' = eventQue
  <2>1. \A i \in DOMAIN eventQue : eventQue[i] # e
    BY <1>1, <1>2, <1>6, <1>11 DEF Solo, QueuedApart
  <2>2. \A i \in DOMAIN eventQue' : status'[eventQue'[i]] = "live"
    BY <1>4, <1>9, <1>11, <2>1 DEF Solo, QueuedApart
  <2>3. \A k \in DOMAIN stack' : \A i \in DOMAIN eventQue' :
            stack'[k] # Loop /\ stack'[k].of = eventQue'[i]
                => k > 1 /\ stack'[k - 1] = Loop
    BY <1>2, <1>5, <1>11 DEF Solo, QueuedApart
  <2> QED BY <1>8, <1>11, <2>2, <2>3 DEF Solo, QueuedApart
<1> QED BY <1>3, <1>10, <1>11

LEMMA ReenteredStays == TypeInv /\ [Next]_vars => (reentered => reentered')
BY DEF Next, Running, vars, misuse, RegisterListener, AddEventToListener,
       AddEventToListenerID, StageEvent, HitEvent, SendStaged, SendNext, SendDone,
       CallNext, FinishHit, UseDeleted, TypeInv, FlagsTyped

LEMMA SoloInductive == TypeInv /\ Solo /\ [Next]_vars => Solo'
<1> SUFFICES ASSUME TypeInv, Solo, [Next]_vars, ~reentered'
             PROVE  OneLoop' /\ HitsApart' /\ QueuedApart'
  BY DEF Solo
<1>1. ~reentered /\ OneLoop /\ HitsApart /\ QueuedApart
  BY ReenteredStays DEF Solo
<1>2. CASE UNCHANGED <<stack, status, eventQue>>
  BY <1>1, <1>2 DEF OneLoop, HitsApart, QueuedApart
<1>3. CASE UNCHANGED vars
  BY <1>2, <1>3 DEF vars, events, hits
<1>4. CASE Next
  <2>1. ASSUME NEW l \in Listeners, NEW t \in Types,
               RegisterListener(l, t) \/ AddEventToListener(l, t)
        PROVE  UNCHANGED <<stack, status, eventQue>>
    BY <2>1 DEF RegisterListener, AddEventToListener, events, hits
  <2>2. ASSUME NEW id \in 0..1, NEW t \in Types, AddEventToListenerID(id, t)
        PROVE  UNCHANGED <<stack, status, eventQue>>
    BY <2>2 DEF AddEventToListenerID, events, hits
  <2>3. ASSUME UseDeleted PROVE UNCHANGED <<stack, status, eventQue>>
    BY <2>3 DEF UseDeleted, events
  <2> QED BY <1>1, <1>2, <1>4, <2>1, <2>2, <2>3, SoloStage, SoloHit, SoloSendNext,
             SoloSendStaged, SoloSendDone, SoloCallNext, SoloFinish DEF Next, Running
<1> QED BY <1>3, <1>4

-----------------------------------------------------------------------------
(* The rounds: a hit has called the first i of the listeners it copied.    *)

RoundsCopied == ~reentered => \A k \in DOMAIN stack : stack[k] # Loop =>
    /\ audience[stack[k].of] = stack[k].temp
    /\ called[stack[k].of] = SubSeq(stack[k].temp, 1, stack[k].i)

RoundInv == RoundsCopied /\ RoundUndisturbed

LEMMA RoundBegins ==
    ASSUME NEW S, NEW temp \in Seq(S), temp # <<>>
    PROVE  <<temp[1]>> = SubSeq(temp, 1, 1)
<1>1. Len(temp) \in Nat \ {0} /\ 1 \in 1..Len(temp)
  BY EmptySeq
<1>2. temp[1] \in S
  BY <1>1, ElementOfSeq
<1>3. \A k \in 1..1 : temp[k] \in S
  BY <1>2
<1>4. /\ SubSeq(temp, 1, 1) \in Seq(S)
      /\ Len(SubSeq(temp, 1, 1)) = 1
      /\ SubSeq(temp, 1, 1)[1] = temp[1]
  BY <1>3, SubSeqProperties
<1> QED BY <1>2, <1>4

LEMMA RoundGoesOn ==
    ASSUME NEW S, NEW temp \in Seq(S), NEW i \in 1..Len(temp), i + 1 \in 1..Len(temp)
    PROVE  Append(SubSeq(temp, 1, i), temp[i + 1]) = SubSeq(temp, 1, i + 1)
<1>1. SubSeq(temp, 1, i + 1) = SubSeq(temp, 1, (i + 1) - 1) \o <<temp[i + 1]>>
  BY LenProperties, SubSeqRecursiveSecond
<1>2. (i + 1) - 1 = i
  OBVIOUS
<1>3. SubSeq(temp, 1, i) \in Seq(S) /\ temp[i + 1] \in S
  <2>1. \A k \in 1..i : temp[k] \in S
    BY ElementOfSeq
  <2> QED BY <2>1, ElementOfSeq, SubSeqProperties
<1> QED BY <1>1, <1>2, <1>3, AppendIsConcat

LEMMA RoundIsPrefix ==
    ASSUME NEW S, NEW temp \in Seq(S), NEW i \in 1..Len(temp)
    PROVE  Prefix(SubSeq(temp, 1, i), temp)
<1>1. \A k \in 1..i : temp[k] \in S
  BY ElementOfSeq
<1>2. Len(SubSeq(temp, 1, i)) = i
  BY <1>1, SubSeqProperties
<1>3. i <= Len(temp) /\ Len(temp) \in Nat
  BY LenProperties
<1> QED BY <1>2, <1>3 DEF Prefix

\* a step that only gives out, stacks and unstacks
LEMMA RoundUntouched ==
    ASSUME RoundInv, ~reentered, UNCHANGED <<audience, called>>,
           \A k \in DOMAIN stack' : stack'[k] # Loop =>
               k \in DOMAIN stack /\ stack'[k] = stack[k],
           \A x \in Events : status'[x] = "deleted" => status[x] = "deleted"
    PROVE  RoundInv'
BY DEF RoundInv, RoundsCopied, RoundUndisturbed, Prefix

LEMMA RoundBegin ==
    ASSUME TypeInv, RoundInv, ~reentered, NEW e \in Events, BeginHit(e), HitsApart',
           \A x \in Events : x # e => status'[x] = status[x]
    PROVE  RoundInv'
<1> DEFINE temp == At(eventToListenerMap, Base, <<Null>>)
           n == Len(stack)
<1>1. /\ stack' = Append(stack, Hit(e, temp))
      /\ audience' = [audience EXCEPT ![e] = temp]
      /\ called' = [called EXCEPT ![e] = <<temp[1]>>]
  BY DEF BeginHit
<1>2. temp \in Seq(Targets) /\ temp # <<>>
  BY TempTyped DEF TypeInv
<1>3. /\ n \in Nat /\ DOMAIN stack = 1..n /\ DOMAIN stack' = 1..(n + 1)
      /\ stack'[n + 1] # Loop /\ stack'[n + 1].of = e
      /\ \A k \in 1..n : stack'[k] = stack[k]
  BY BeginTyped
<1>4. stack'[n + 1] = Hit(e, temp)
  <2>1. Hit(e, temp) \in Frames
    BY <1>2, HitTyped, FrameKinds
  <2> QED BY <1>1, <2>1, PushKeeps DEF TypeInv, StackTyped
<1>5. stack'[n + 1].temp = temp /\ stack'[n + 1].i = 1
  BY <1>2, <1>4, HitTyped
<1>6. \A x \in Events : /\ audience'[x] = IF x = e THEN temp ELSE audience[x]
                        /\ called'[x] = IF x = e THEN <<temp[1]>> ELSE called[x]
  BY <1>1 DEF TypeInv, RoundsTyped
<1>7. <<temp[1]>> = SubSeq(temp, 1, 1) /\ Prefix(<<temp[1]>>, temp)
  <2>1. 1 \in 1..Len(temp)
    BY <1>2, EmptySeq
  <2> QED BY <1>2, <2>1, RoundBegins, RoundIsPrefix
<1> HIDE DEF temp, n
<1>8. \A k \in 1..(n + 1) : k = n + 1 \/ (k \in 1..n /\ k # n + 1)
  BY <1>3
<1>9. \A k \in 1..n : stack[k] # Loop => stack[k].of \in Events /\ stack[k].of # e
  <2> SUFFICES ASSUME NEW k \in 1..n, stack[k] # Loop
               PROVE  stack[k].of \in Events /\ stack[k].of # e
    OBVIOUS
  <2>1. k \in 1..(n + 1) /\ n + 1 \in 1..(n + 1) /\ k # n + 1
    BY <1>3
  <2>2. stack[k].of \in Events
    BY <1>3, FrameEvent DEF TypeInv
  <2> QED BY <1>3, <2>1, <2>2 DEF HitsApart
<1>10. RoundsCopied'
  <2> SUFFICES ASSUME NEW k \in 1..(n + 1), stack'[k] # Loop
               PROVE  /\ audience'[stack'[k].of] = stack'[k].temp
                      /\ called'[stack'[k].of] = SubSeq(stack'[k].temp, 1, stack'[k].i)
    BY <1>3 DEF RoundsCopied
  <2>1. CASE k = n + 1
    BY <1>3, <1>5, <1>6, <1>7, <2>1
  <2>2. CASE k \in 1..n
    BY <1>3, <1>6, <1>9, <2>2 DEF RoundInv, RoundsCopied
  <2> QED BY <1>8, <2>1, <2>2
<1>11. status'[e] # "deleted"
  <2>1. n + 1 \in 1..(n + 1)
    BY <1>3
  <2> QED BY <1>3, <2>1 DEF HitsApart
<1>12. RoundUndisturbed'
  <2> SUFFICES ASSUME NEW x \in Events
               PROVE  /\ Prefix(called'[x], audience'[x])
                      /\ status'[x] = "deleted" /\ x \notin Usable
                             => called'[x] = audience'[x]
    BY DEF RoundUndisturbed, Prefix
  <2>1. CASE x = e
    BY <1>6, <1>7, <1>11, <2>1
  <2>2. CASE x # e
    BY <1>6, <2>2 DEF RoundInv, RoundUndisturbed
  <2> QED BY <2>1, <2>2
<1> QED BY <1>10, <1>12 DEF RoundInv

LEMMA RoundCallNext ==
    ASSUME TypeInv, Solo, RoundInv, ~reentered, NEW handled \in BOOLEAN, CallNext(handled)
    PROVE  RoundInv'
<1> DEFINE n == Len(stack)
           e == Top.of
           i == Top.i
           temp == Top.temp
<1>1. /\ Top # Loop /\ e \in Events /\ temp \in Seq(Targets)
      /\ i \in DOMAIN temp /\ i + 1 \in DOMAIN temp
      /\ called' = [called EXCEPT ![e] = Append(@, temp[i + 1])]
      /\ status' = status /\ audience' = audience
  BY CallNextShape
<1>2. /\ n \in Nat \ {0} /\ DOMAIN stack = 1..n /\ DOMAIN stack' = 1..n /\ stack[n] = Top
      /\ stack'[n].temp = temp /\ stack'[n].i = i + 1
      /\ \A k \in 1..n : stack'[k] = Loop <=> stack[k] = Loop
      /\ \A k \in 1..n : stack[k] # Loop => stack'[k].of = stack[k].of
      /\ \A k \in 1..(n - 1) : stack'[k] = stack[k]
  BY CallNextShape
<1>3. DOMAIN temp = 1..Len(temp)
  BY <1>1, LenProperties
<1> HIDE DEF n, e, i, temp
<1>4. n \in 1..n /\ stack[n].of = e /\ stack[n].temp = temp /\ stack[n].i = i
  BY <1>2 DEF e, i, temp
<1>5. audience[e] = temp /\ called[e] = SubSeq(temp, 1, i)
  BY <1>1, <1>2, <1>4 DEF RoundInv, RoundsCopied
<1>6. \A x \in Events :
          called'[x] = IF x = e THEN SubSeq(temp, 1, i + 1) ELSE called[x]
  <2>1. Append(called[e], temp[i + 1]) = SubSeq(temp, 1, i + 1)
    BY <1>1, <1>3, <1>5, RoundGoesOn
  <2> QED BY <1>1, <2>1 DEF TypeInv, RoundsTyped
<1>7. RoundsCopied'
  <2> SUFFICES ASSUME NEW k \in 1..n, stack'[k] # Loop
               PROVE  /\ audience'[stack'[k].of] = stack'[k].temp
                      /\ called'[stack'[k].of] = SubSeq(stack'[k].temp, 1, stack'[k].i)
    BY <1>2 DEF RoundsCopied
  <2>1. CASE k = n
    <3>1. stack'[n].of = e
      BY <1>1, <1>2, <1>4
    <3> QED BY <1>1, <1>2, <1>5, <1>6, <2>1, <3>1
  <2>2. CASE k # n
    <3>1. k \in 1..(n - 1)
      BY <1>2, <2>2, Below
    <3>2. stack'[k] = stack[k] /\ stack[k] # Loop /\ stack[k].of \in Events
      BY <1>2, <2>2, <3>1, FrameEvent DEF TypeInv
    <3>3. stack[k].of # e
      BY <1>1, <1>2, <1>4, <2>2, <3>2 DEF Solo, HitsApart
    <3> QED BY <1>1, <1>2, <1>6, <3>2, <3>3 DEF RoundInv, RoundsCopied
  <2> QED BY <2>1, <2>2
<1>8. RoundUndisturbed'
  <2> SUFFICES ASSUME NEW x \in Events
               PROVE  /\ Prefix(called'[x], audience'[x])
                      /\ status'[x] = "deleted" /\ x \notin Usable
                             => called'[x] = audience'[x]
    BY DEF RoundUndisturbed, Prefix
  <2>1. CASE x = e
    <3>1. status[e] = "live"
      BY <1>1, <1>2, <1>4 DEF Solo, HitsApart
    <3>2. Prefix(SubSeq(temp, 1, i + 1), temp)
      BY <1>1, <1>3, RoundIsPrefix
    <3> QED BY <1>1, <1>5, <1>6, <2>1, <3>1, <3>2
  <2>2. CASE x # e
    BY <1>1, <1>6, <2>2 DEF RoundInv, RoundUndisturbed
  <2> QED BY <2>1, <2>2
<1> QED BY <1>7, <1>8 DEF RoundInv

LEMMA RoundFinish ==
    ASSUME TypeInv, RoundInv, ~reentered, NEW handled \in BOOLEAN, FinishHit(handled)
    PROVE  RoundInv'
<1> DEFINE n == Len(stack)
           e == Top.of
<1>1. /\ stack # <<>> /\ stack' = Popped /\ status' = [status EXCEPT ![e] = "deleted"]
      /\ UNCHANGED <<audience, called>> /\ Last(handled)
      /\ Top # Loop /\ stack[n] = Top /\ e \in Events
  BY FinishPops DEF FinishHit
<1>2. /\ n \in Nat \ {0} /\ DOMAIN stack = 1..n /\ DOMAIN stack' = 1..(n - 1)
      /\ \A k \in 1..(n - 1) : stack'[k] = stack[k]
  BY <1>1, PopTyped DEF TypeInv
<1>3. Top.temp \in Seq(Targets)
  BY <1>1, TopTyped DEF TypeInv, HitFrames
<1>4. n \in 1..n /\ \A k \in 1..(n - 1) : k \in 1..n
  BY <1>2
<1>5. e \notin Usable => called[e] = audience[e]
  <2> SUFFICES ASSUME e \notin Usable PROVE called[e] = audience[e]
    OBVIOUS
  <2>1. Top.i = Len(Top.temp)
    BY <1>1 DEF Last
  <2>2. audience[e] = Top.temp /\ called[e] = SubSeq(Top.temp, 1, Top.i)
    BY <1>1, <1>2, <1>4 DEF RoundInv, RoundsCopied
  <2> QED BY <1>3, <2>1, <2>2, SubSeqFull
<1> HIDE DEF n, e
<1>6. \A x \in Events : x # e => status'[x] = status[x]
  BY <1>1
<1>7. RoundsCopied'
  BY <1>1, <1>2, <1>4 DEF RoundInv, RoundsCopied
<1>8. RoundUndisturbed'
  BY <1>1, <1>5, <1>6 DEF RoundInv, RoundUndisturbed, Prefix
<1> QED BY <1>7, <1>8 DEF RoundInv

LEMMA RoundInductive == TypeInv /\ Solo /\ RoundInv /\ [Next]_vars => RoundInv'
<1> SUFFICES ASSUME TypeInv, Solo, RoundInv, [Next]_vars PROVE RoundInv'
  OBVIOUS
<1>1. CASE reentered'
  BY <1>1 DEF RoundInv, RoundsCopied, RoundUndisturbed
<1>2. CASE ~reentered'
  <2>1. ~reentered /\ HitsApart'
    BY <1>2, ReenteredStays, SoloInductive DEF Solo
  <2>2. CASE UNCHANGED <<stack, status, audience, called>>
    BY <2>1, <2>2, RoundUntouched
  <2>3. CASE UNCHANGED vars
    BY <2>2, <2>3 DEF vars, hits
  <2>4. ASSUME NEW l \in Listeners, NEW t \in Types,
               RegisterListener(l, t) \/ AddEventToListener(l, t)
        PROVE  UNCHANGED <<stack, status, audience, called>>
    BY <2>4 DEF RegisterListener, AddEventToListener, hits
  <2>5. ASSUME NEW id \in 0..1, NEW t \in Types, AddEventToListenerID(id, t)
        PROVE  UNCHANGED <<stack, status, audience, called>>
    BY <2>5 DEF AddEventToListenerID, hits
  <2>6. ASSUME UseDeleted PROVE UNCHANGED <<stack, status, audience, called>>
    BY <2>6 DEF UseDeleted
  <2>7. ASSUME NEW e \in Events, StageEvent(e) PROVE RoundInv'
    <3>1. \A x \in Events : status'[x] = "deleted" => status[x] = "deleted"
      BY <2>7 DEF StageEvent, TypeInv, FlagsTyped
    <3> QED BY <2>1, <2>7, <3>1, RoundUntouched DEF StageEvent
  <2>8. ASSUME NEW e \in Events, HitEvent(e) PROVE RoundInv'
    <3>1. BeginHit(e) /\ \A x \in Events : x # e => status'[x] = status[x]
      BY <2>8 DEF HitEvent, TypeInv, FlagsTyped
    <3> QED BY <2>1, <3>1, RoundBegin
  <2>9. ASSUME SendNext PROVE RoundInv'
    <3>1. Head(eventQue) \in Events /\ BeginHit(Head(eventQue)) /\ status' = status
      BY <2>9, HeadTailProperties DEF SendNext, TypeInv, QueuesTyped
    <3> QED BY <2>1, <3>1, RoundBegin
  <2>10. ASSUME SendStaged PROVE RoundInv'
    <3>1. /\ stack' = Append(stack, Loop) /\ UNCHANGED <<status, audience, called>>
      BY <2>10 DEF SendStaged
    <3>2. /\ Len(stack) \in Nat
          /\ DOMAIN stack' = 1..(Len(stack) + 1) /\ DOMAIN stack = 1..Len(stack)
          /\ stack'[Len(stack) + 1] = Loop
          /\ \A k \in 1..Len(stack) : stack'[k] = stack[k]
      BY <3>1, PushTyped, FrameKinds DEF TypeInv
    <3>3. \A k \in 1..(Len(stack) + 1) : k = Len(stack) + 1 \/ k \in 1..Len(stack)
      BY <3>2
    <3> QED BY <2>1, <3>1, <3>2, <3>3, RoundUntouched
  <2>11. ASSUME SendDone PROVE RoundInv'
    <3>1. /\ stack # <<>> /\ stack' = Popped /\ UNCHANGED <<status, audience, called>>
      BY <2>11 DEF SendDone
    <3>2. /\ Len(stack) \in Nat
          /\ DOMAIN stack' = 1..(Len(stack) - 1) /\ DOMAIN stack = 1..Len(stack)
          /\ \A k \in 1..(Len(stack) - 1) : stack'[k] = stack[k]
      BY <3>1, PopTyped DEF TypeInv
    <3>3. \A k \in 1..(Len(stack) - 1) : k \in 1..Len(stack)
      BY <3>2
    <3> QED BY <2>1, <3>1, <3>2, <3>3, RoundUntouched
  <2>12. CASE Next
    BY <2>1, <2>2, <2>4, <2>5, <2>6, <2>7, <2>8, <2>9, <2>10, <2>11, <2>12,
       RoundCallNext, RoundFinish DEF Next, Running
  <2> QED BY <2>3, <2>12
<1> QED BY <1>1, <1>2

LEMMA SoloRoundInitial == Init => Solo /\ RoundInv
<1> SUFFICES ASSUME Init PROVE Solo /\ RoundInv
  OBVIOUS
<1>1. stack = <<>> /\ DOMAIN stack = {} /\ eventQue = <<>> /\ DOMAIN eventQue = {}
  BY DEF Init
<1>2. Solo /\ RoundsCopied
  BY <1>1 DEF Solo, OneLoop, HitsApart, QueuedApart, RoundsCopied
<1>3. RoundUndisturbed
  <2>1. Prefix(<<>>, <<>>)
    BY SubSeqFull, EmptySeq DEF Prefix
  <2> QED BY <2>1 DEF Init, RoundUndisturbed
<1> QED BY <1>2, <1>3 DEF RoundInv

(* Whatever the listeners register, stage and hit while an event is handed  *)
(* round, it goes to the listeners there were when it was hit, in order and *)
(* to all of them unless a usable event was handled.                       *)
THEOREM RoundsUndisturbed == Spec => []RoundUndisturbed
<1> DEFINE I == TypeInv /\ Solo /\ RoundInv
<1>1. Init => I
  BY TypeInvInitial, SoloRoundInitial
<1>2. I /\ [Next]_vars => I'
  BY TypeInvInductive, SoloInductive, RoundInductive
<1>3. I => RoundUndisturbed
  BY DEF RoundInv
<1> HIDE DEF I
<1> QED BY <1>1, <1>2, <1>3, PTL DEF Spec

-----------------------------------------------------------------------------
(* The order of the queue.                                                 *)

OrderInv == InStageOrder /\ (~reentered /\ Underway => sent # <<>>)

LEMMA FrontAndRest ==
    ASSUME NEW S, NEW q \in Seq(S), q # <<>>
    PROVE  q = <<Head(q)>> \o Tail(q) /\ Head(q) \in S /\ Tail(q) \in Seq(S)
<1>1. Len(q) \in Nat \ {0} /\ 1 \in 1..Len(q) /\ Len(q) \in 1..Len(q)
  BY EmptySeq
<1>2. SubSeq(q, 1, Len(q)) = <<q[1]>> \o SubSeq(q, 1 + 1, Len(q))
  BY <1>1, SubSeqRecursiveFirst
<1>3. Head(q) = q[1] /\ 1 + 1 = 2
  OBVIOUS
<1> QED BY <1>2, <1>3, SubSeqFull, TailIsSubSeq, HeadTailProperties

LEMMA AllButLast ==
    ASSUME NEW S, NEW s \in Seq(S), s # <<>>
    PROVE  /\ s = SubSeq(s, 1, Len(s) - 1) \o <<s[Len(s)]>>
           /\ SubSeq(s, 1, Len(s) - 1) \in Seq(S)
<1>1. 1 \in 1..Len(s) /\ Len(s) \in 1..Len(s)
  BY EmptySeq
<1>2. SubSeq(s, 1, Len(s)) = SubSeq(s, 1, Len(s) - 1) \o <<s[Len(s)]>>
  BY <1>1, SubSeqRecursiveSecond
<1> QED BY <1>2, SubSeqFull, PopKeeps

LEMMA FrontOfAppend ==
    ASSUME NEW S, NEW s \in Seq(S), NEW x \in S
    PROVE  SubSeq(Append(s, x), 1, Len(s)) = s
<1>1. <<x>> \in Seq(S) /\ Append(s, x) = s \o <<x>>
  BY AppendIsConcat
<1>2. CASE s = <<>>
  <2>1. Len(s) = 0 /\ 0 < 1
    BY <1>2, EmptySeq
  <2> QED BY <1>2, <2>1, SubSeqEmpty
<1>3. CASE s # <<>>
  <2>1. 1 \in 1..Len(s) /\ Len(s) \in 1..Len(s)
    BY <1>3, EmptySeq
  <2> QED BY <1>1, <2>1, SubSeqOfConcat1, SubSeqFull
<1> QED BY <1>2, <1>3

\* a step that neither begins nor ends a hit of the loop
LEMMA OrderUntouched ==
    ASSUME OrderInv, ~reentered, Underway' = Underway, sent' = sent,
           \/ eventQue' = eventQue /\ staged' = staged
           \/ \E e \in Events : /\ eventQue' = Append(eventQue, e)
                                /\ staged' = Append(staged, e),
           eventQue \in Seq(Events), staged \in Seq(Events), sent \in Seq(Events)
    PROVE  OrderInv'
<1>1. Finished' = Finished
  BY DEF Finished
<1>2. /\ staged = Finished \o eventQue
      /\ Underway => eventQue # <<>> /\ Head(eventQue) = sent[Len(sent)]
  BY DEF OrderInv, InStageOrder
<1>3. CASE eventQue' = eventQue /\ staged' = staged
  BY <1>1, <1>2, <1>3 DEF OrderInv, InStageOrder
<1>4. ASSUME NEW e \in Events, eventQue' = Append(eventQue, e), staged' = Append(staged, e)
      PROVE  OrderInv'
  <2>1. Finished \in Seq(Events)
    <3>1. CASE Underway
      <4>1. \A k \in 1..(Len(sent) - 1) : sent[k] \in Events
        BY ElementOfSeq, LenProperties
      <4>2. Len(sent) - 1 \in Int /\ 1 \in Int
        BY LenProperties
      <4> QED BY <3>1, <4>1, <4>2, SubSeqProperties DEF Finished
    <3>2. CASE ~Underway
      BY <3>2 DEF Finished
    <3> QED BY <3>1, <3>2
  <2> HIDE DEF Finished
  <2>2. staged' = Finished \o eventQue'
    <3>1. eventQue' = eventQue \o <<e>> /\ staged' = staged \o <<e>>
      BY <1>4, AppendIsConcat
    <3>2. <<e>> \in Seq(Events) /\ eventQue \in Seq(Events)
      OBVIOUS
    <3>3. (Finished \o eventQue) \o <<e>> = Finished \o (eventQue \o <<e>>)
      BY ONLY <2>1, <3>2, ConcatAssociative
    <3> QED BY ONLY <1>2, <3>1, <3>3
  <2>3. Underway => eventQue' # <<>> /\ Head(eventQue') = Head(eventQue)
    <3>1. eventQue' # <<>> /\ (eventQue # <<>> => Head(eventQue') = Head(eventQue))
      BY <1>4, HeadTailAppend, AppendProperties
    <3> QED BY <1>2, <3>1
  <2> QED BY <1>1, <1>2, <1>4, <2>2, <2>3 DEF OrderInv, InStageOrder
<1> QED BY <1>3, <1>4

LEMMA OrderSendNext ==
    ASSUME TypeInv, Solo, OrderInv, ~reentered, SendNext
    PROVE  OrderInv'
<1> DEFINE n == Len(stack)
           e == Head(eventQue)
<1>1. /\ stack # <<>> /\ Top = Loop /\ eventQue # <<>> /\ BeginHit(e)
      /\ sent' = Append(sent, e) /\ UNCHANGED <<eventQue, staged>>
  BY DEF SendNext, events
<1>2. e \in Events /\ sent \in Seq(Events)
  BY <1>1, HeadTailProperties DEF TypeInv, QueuesTyped
<1>3. n \in Nat \ {0} /\ stack[n] = Loop /\ DOMAIN stack = 1..n
  BY <1>1, TopTyped DEF TypeInv, Top
<1>4. /\ DOMAIN stack' = 1..(n + 1) /\ Len(stack') = n + 1
      /\ \A k \in 1..n : stack'[k] = stack[k]
  BY <1>1, <1>2, BeginTyped
<1>5. ~Underway
  <2> SUFFICES ASSUME NEW k \in 1..n, stack[k] = Loop, k < n PROVE FALSE
    BY <1>3 DEF Underway
  <2>1. n \in 1..n
    BY <1>3
  <2> QED BY <1>3, <2>1 DEF Solo, OneLoop
<1>6. Underway'
  <2>1. n \in 1..(n + 1) /\ n \in 1..n /\ n < n + 1
    BY <1>3
  <2> QED BY <1>3, <1>4, <2>1 DEF Underway
<1> HIDE DEF n, e
<1>7. /\ Len(sent') = Len(sent) + 1 /\ sent'[Len(sent')] = e
      /\ SubSeq(sent', 1, Len(sent') - 1) = sent /\ sent' # <<>>
  <2>1. /\ Len(sent) \in Nat /\ Len(sent') = Len(sent) + 1
        /\ sent'[Len(sent) + 1] = e /\ sent' # <<>>
    BY <1>1, <1>2, AppendProperties, LenProperties
  <2>2. Len(sent') - 1 = Len(sent)
    BY <2>1
  <2> QED BY <1>1, <1>2, <2>1, <2>2, FrontOfAppend
<1>8. Finished' = Finished /\ Finished = sent
  BY <1>5, <1>6, <1>7 DEF Finished
<1> QED BY <1>1, <1>6, <1>7, <1>8 DEF OrderInv, InStageOrder, e

LEMMA OrderFinish ==
    ASSUME TypeInv, Solo, OrderInv, ~reentered,
           NEW handled \in BOOLEAN, FinishHit(handled)
    PROVE  OrderInv'
<1> DEFINE n == Len(stack)
<1>1. /\ stack # <<>> /\ stack' = Popped /\ UNCHANGED <<staged, sent>>
      /\ stack[n] # Loop
  BY FinishPops DEF FinishHit
<1>2. /\ n \in Nat \ {0} /\ DOMAIN stack = 1..n
      /\ DOMAIN stack' = 1..(n - 1) /\ Len(stack') = n - 1
      /\ \A k \in 1..(n - 1) : stack'[k] = stack[k]
  BY <1>1, PopTyped DEF TypeInv
<1>3. \/ n > 1 /\ stack[n - 1] = Loop /\ eventQue # <<>> /\ eventQue' = Tail(eventQue)
      \/ (n > 1 => stack[n - 1] # Loop) /\ eventQue' = eventQue
  BY FinishPops
<1>4. eventQue \in Seq(Events) /\ staged \in Seq(Events) /\ sent \in Seq(Events)
  BY DEF TypeInv, QueuesTyped
<1> HIDE DEF n
<1>5. CASE n > 1 /\ stack[n - 1] = Loop /\ eventQue # <<>> /\ eventQue' = Tail(eventQue)
  <2>1. n - 1 \in 1..n /\ n - 1 < n
    BY <1>2, <1>5
  <2>2. Underway
    BY <1>2, <1>5, <2>1 DEF Underway, n
  <2>3. ~Underway'
    <3> SUFFICES ASSUME NEW k \in 1..(n - 1), stack'[k] = Loop, k < n - 1 PROVE FALSE
      BY <1>2 DEF Underway
    <3>1. k \in 1..n /\ k # n - 1
      BY <1>2
    <3> QED BY <1>2, <1>5, <2>1, <3>1 DEF Solo, OneLoop
  <2> DEFINE front == SubSeq(sent, 1, Len(sent) - 1)
             e == Head(eventQue)
             rest == Tail(eventQue)
  <2>4. staged = front \o eventQue /\ e = sent[Len(sent)] /\ sent # <<>>
    BY <2>2 DEF OrderInv, InStageOrder, Finished
  <2>5. sent = front \o <<e>> /\ front \in Seq(Events)
    BY <1>4, <2>4, AllButLast
  <2>6. eventQue = <<e>> \o rest /\ e \in Events /\ rest \in Seq(Events)
    BY <1>4, <1>5, FrontAndRest
  <2>7. <<e>> \in Seq(Events)
    BY <2>6
  <2> HIDE DEF front, e, rest
  <2>8. staged = sent \o rest
    BY <2>4, <2>5, <2>6, <2>7, ConcatAssociative
  <2> QED BY <1>1, <1>5, <2>3, <2>8 DEF OrderInv, InStageOrder, Finished, rest
<1>6. CASE (n > 1 => stack[n - 1] # Loop) /\ eventQue' = eventQue
  <2>1. ASSUME NEW k \in 1..n, stack[k] = Loop, k < n
        PROVE  k \in 1..(n - 1) /\ k < n - 1
    <3>1. k # n - 1
      BY <1>2, <1>6, <2>1
    <3> QED BY <1>2, <2>1, <3>1
  <2>2. \A k \in 1..(n - 1) : k \in 1..n /\ (k < n - 1 => k < n)
    BY <1>2
  <2>3. Underway' = Underway
    BY <1>2, <2>1, <2>2 DEF Underway, n
  <2> QED BY <1>1, <1>4, <1>6, <2>3, OrderUntouched
<1> QED BY <1>3, <1>5, <1>6

LEMMA OrderInductive == TypeInv /\ Solo /\ OrderInv /\ [Next]_vars => OrderInv'
<1> SUFFICES ASSUME TypeInv, Solo, OrderInv, [Next]_vars PROVE OrderInv'
  OBVIOUS
<1>1. CASE reentered'
  BY <1>1 DEF OrderInv, InStageOrder
<1>2. CASE ~reentered'
  <2>1. ~reentered /\ OneLoop
    BY <1>2, ReenteredStays DEF Solo
  <2>2. eventQue \in Seq(Events) /\ staged \in Seq(Events) /\ sent \in Seq(Events)
    BY DEF TypeInv, QueuesTyped
  <2>3. ASSUME UNCHANGED <<stack, eventQue, staged, sent>> PROVE OrderInv'
    <3>1. Underway' = Underway
      BY <2>3 DEF Underway
    <3> QED BY <2>1, <2>2, <2>3, <3>1, OrderUntouched
  <2>4. CASE UNCHANGED vars
    BY <2>3, <2>4 DEF vars, hits, events
  <2>5. ASSUME NEW l \in Listeners, NEW t \in Types,
               RegisterListener(l, t) \/ AddEventToListener(l, t)
        PROVE  OrderInv'
    BY <2>3, <2>5 DEF RegisterListener, AddEventToListener, hits, events
  <2>6. ASSUME NEW id \in 0..1, NEW t \in Types, AddEventToListenerID(id, t)
        PROVE  OrderInv'
    BY <2>3, <2>6 DEF AddEventToListenerID, hits, events
  <2>7. ASSUME UseDeleted PROVE OrderInv'
    BY <2>3, <2>7 DEF UseDeleted, events
  <2>8. ASSUME NEW e \in Events, StageEvent(e) PROVE OrderInv'
    <3>1. /\ eventQue' = Append(eventQue, e) /\ staged' = Append(staged, e)
          /\ stack' = stack /\ sent' = sent
      BY <2>8 DEF StageEvent
    <3>2. Underway' = Underway
      BY <3>1 DEF Underway
    <3> QED BY <2>1, <2>2, <3>1, <3>2, OrderUntouched
  <2>9. ASSUME NEW e \in Events, HitEvent(e) PROVE OrderInv'
    <3> DEFINE n == Len(stack)
    <3>1. /\ BeginHit(e) /\ UNCHANGED <<eventQue, staged, sent>>
          /\ stack = <<>> \/ Top # Loop
      BY <2>9 DEF HitEvent, Free, InCallback, events
    <3>2. /\ n \in Nat /\ DOMAIN stack = 1..n
          /\ DOMAIN stack' = 1..(n + 1) /\ Len(stack') = n + 1
          /\ stack'[n + 1] # Loop /\ \A k \in 1..n : stack'[k] = stack[k]
      BY <3>1, BeginTyped
    <3>3. n \in 1..n => stack[n] # Loop
      <4>1. n \in 1..n => stack # <<>>
        BY <3>2
      <4> QED BY <3>1, <4>1 DEF Top
    <3> HIDE DEF n
    <3>4. /\ \A k \in 1..(n + 1) : k = n + 1 \/ (k \in 1..n /\ (k = n \/ k < n))
          /\ \A k \in 1..n : k \in 1..(n + 1) /\ k < n + 1
      BY <3>2
    <3>5. Underway' = Underway
      BY <3>2, <3>3, <3>4 DEF Underway, n
    <3> QED BY <2>1, <2>2, <3>1, <3>5, OrderUntouched
  <2>10. ASSUME SendStaged PROVE OrderInv'
    <3> DEFINE n == Len(stack)
    <3>1. /\ stack' = Append(stack, Loop) /\ UNCHANGED <<eventQue, staged, sent>>
          /\ \A k \in DOMAIN stack : stack[k] # Loop
      BY <1>2, <2>10 DEF SendStaged, Sending, events, TypeInv, FlagsTyped
    <3>2. /\ n \in Nat /\ DOMAIN stack = 1..n
          /\ DOMAIN stack' = 1..(n + 1) /\ Len(stack') = n + 1
          /\ \A k \in 1..n : stack'[k] = stack[k]
      BY <3>1, PushTyped, FrameKinds DEF TypeInv
    <3> HIDE DEF n
    <3>3. \A k \in 1..(n + 1) : k < n + 1 => k \in 1..n
      BY <3>2
    <3>4. Underway' = Underway
      BY <3>1, <3>2, <3>3 DEF Underway
    <3> QED BY <2>1, <2>2, <3>1, <3>4, OrderUntouched
  <2>11. ASSUME SendDone PROVE OrderInv'
    <3> DEFINE n == Len(stack)
    <3>1. /\ stack # <<>> /\ Top = Loop /\ stack' = Popped
          /\ UNCHANGED <<eventQue, staged, sent>>
      BY <2>11 DEF SendDone, events
    <3>2. /\ n \in Nat \ {0} /\ DOMAIN stack = 1..n /\ stack[n] = Loop
          /\ DOMAIN stack' = 1..(n - 1) /\ Len(stack') = n - 1
          /\ \A k \in 1..(n - 1) : stack'[k] = stack[k]
      BY <3>1, PopTyped DEF TypeInv, Top
    <3> HIDE DEF n
    <3>3. n \in 1..n /\ \A k \in 1..(n - 1) : k \in 1..n /\ k # n
      BY <3>2
    <3>4. \A k \in 1..n : stack[k] = Loop => k = n
      BY <2>1, <3>2, <3>3 DEF OneLoop
    <3>5. ~Underway
      <4>1. \A k \in 1..n : k < n => k # n
        BY <3>2
      <4> QED BY <3>2, <3>4, <4>1 DEF Underway, n
    <3>6. ~Underway'
      BY <3>2, <3>3, <3>4 DEF Underway
    <3>7. Underway' = Underway
      BY <3>5, <3>6 DEF Underway
    <3> QED BY <2>1, <2>2, <3>1, <3>7, OrderUntouched
  <2>12. ASSUME NEW handled \in BOOLEAN, CallNext(handled) PROVE OrderInv'
    <3>1. /\ UNCHANGED <<eventQue, staged, sent>> /\ DOMAIN stack = 1..Len(stack)
          /\ Len(stack') = Len(stack) /\ DOMAIN stack' = 1..Len(stack)
          /\ \A k \in 1..Len(stack) : stack'[k] = Loop <=> stack[k] = Loop
      BY <2>12, CallNextShape DEF events
    <3>2. Underway' = Underway
      BY <3>1 DEF Underway
    <3> QED BY <2>1, <2>2, <3>1, <3>2, OrderUntouched
  <2>13. CASE Next
    BY <2>1, <2>5, <2>6, <2>7, <2>8, <2>9, <2>10, <2>11, <2>12, <2>13,
       OrderSendNext, OrderFinish DEF Next, Running
  <2> QED BY <2>4, <2>13
<1> QED BY <1>1, <1>2

(* Events are sent in the order they were staged, and none is dropped or    *)
(* sent again, for any events and any nesting of hits.                     *)
THEOREM SentInStageOrder == Spec => []InStageOrder
<1> DEFINE I == TypeInv /\ Solo /\ OrderInv
<1>1. Init => I
  <2> SUFFICES ASSUME Init PROVE OrderInv
    BY TypeInvInitial, SoloRoundInitial
  <2>1. ~Underway
    BY DEF Init, Underway
  <2>2. <<>> = <<>> \o <<>>
    BY ConcatEmptySeq, EmptySeq
  <2> QED BY <2>1, <2>2 DEF Init, OrderInv, InStageOrder, Finished
<1>2. I /\ [Next]_vars => I'
  BY TypeInvInductive, SoloInductive, OrderInductive
<1>3. I => InStageOrder
  BY DEF OrderInv
<1> HIDE DEF I
<1> QED BY <1>1, <1>2, <1>3, PTL DEF Spec

-----------------------------------------------------------------------------
(* While no number was used before it was given to a listener, the tables   *)
(* and what is copied from them name listeners only.                       *)

Numbered == ~misnumbered =>
    /\ DOMAIN idToListenerMap = 0..(listenerIDCounter - 1)
    /\ \A id \in DOMAIN idToListenerMap : idToListenerMap[id] \in Listeners
    /\ \A t \in DOMAIN eventToListenerMap : eventToListenerMap[t] \in Seq(Listeners)
    /\ defined => \A k \in DOMAIN stack :
           stack[k] # Loop => stack[k].temp \in Seq(Listeners)

LEMMA AddToNumbered ==
    ASSUME TablesTyped, Numbered, ~misnumbered, NEW l \in Listeners, NEW t \in Types,
           AddTo(l, t)
    PROVE  \A u \in DOMAIN eventToListenerMap' : eventToListenerMap'[u] \in Seq(Listeners)
<1> DEFINE old == At(eventToListenerMap, t, <<>>)
<1>1. old \in Seq(Listeners)
  BY EmptySeq DEF Numbered, At
<1>2. Append(old, l) \in Seq(Listeners)
  <2> HIDE DEF old
  <2> QED BY <1>1, AppendProperties
<1> HIDE DEF old
<1>3. eventToListenerMap' = [x \in DOMAIN eventToListenerMap \cup {t} |->
                                IF x = t THEN Append(old, l) ELSE eventToListenerMap[x]]
  BY DEF AddTo, With, old
<1> QED BY <1>2, <1>3 DEF Numbered

(* A hit that finds no list for the type all events have is undefined;     *)
(* otherwise it gets a list of listeners.                                  *)
LEMMA BeginNumbered ==
    ASSUME TypeInv, Numbered, ~misnumbered, NEW e \in Events, BeginHit(e),
           UNCHANGED <<tables, misnumbered>>, defined
    PROVE  Numbered' /\ (Base \in DOMAIN eventToListenerMap => defined')
<1> DEFINE temp == At(eventToListenerMap, Base, <<Null>>)
           n == Len(stack)
<1>1. stack' = Append(stack, Hit(e, temp)) /\ defined' = (temp[1] # Null)
  BY DEF BeginHit
<1>2. temp \in Seq(Targets) /\ temp # <<>>
  BY TempTyped DEF TypeInv
<1>3. CASE Base \notin DOMAIN eventToListenerMap
  <2>1. ~defined'
    BY <1>1, <1>3 DEF At
  <2> QED BY <1>3, <2>1 DEF Numbered, tables
<1>4. CASE Base \in DOMAIN eventToListenerMap
  <2>1. temp \in Seq(Listeners)
    BY <1>4 DEF At, Numbered
  <2>2. temp[1] \in Listeners
    <3>1. 1 \in 1..Len(temp)
      BY <1>2, EmptySeq
    <3> QED BY <2>1, <3>1, ElementOfSeq
  <2>3. defined'
    BY <1>1, <2>2, EventAssumption
  <2>4. Hit(e, temp) \in Frames /\ Hit(e, temp).temp = temp
    BY <1>2, HitTyped, FrameKinds
  <2> HIDE DEF temp
  <2>5. /\ n \in Nat /\ DOMAIN stack = 1..n /\ DOMAIN stack' = 1..(n + 1)
        /\ stack'[n + 1] = Hit(e, temp) /\ \A k \in 1..n : stack'[k] = stack[k]
    BY <1>1, <2>4, PushKeeps, LenProperties DEF TypeInv, StackTyped
  <2> HIDE DEF n
  <2>6. \A k \in 1..(n + 1) : k = n + 1 \/ k \in 1..n
    BY <2>5
  <2>7. \A k \in DOMAIN stack' : stack'[k] # Loop => stack'[k].temp \in Seq(Listeners)
    BY <2>1, <2>4, <2>5, <2>6 DEF Numbered
  <2> QED BY <2>3, <2>7 DEF Numbered, tables
<1> QED BY <1>3, <1>4

LEMMA NumberedTables ==
    ASSUME TypeInv, Numbered, ~misnumbered', UNCHANGED <<hits>>,
           \/ \E l \in Listeners, t \in Types :
                 RegisterListener(l, t) \/ AddEventToListener(l, t)
           \/ \E id \in 0..1, t \in Types : AddEventToListenerID(id, t)
    PROVE  Numbered'
<1>1. \A k : stack'[k] = stack[k] /\ defined' = defined /\ stack' = stack
  BY DEF hits
<1>2. listenerIDCounter \in Nat
  BY DEF TypeInv, TablesTyped
<1>3. ASSUME NEW l \in Listeners, NEW t \in Types, RegisterListener(l, t)
      PROVE  Numbered'
  <2> DEFINE c == listenerIDCounter
  <2>1. ~misnumbered /\ AddTo(l, t)
    BY <1>3 DEF RegisterListener, misuse
  <2>2. /\ c' = c + 1
        /\ idToListenerMap' = With(idToListenerMap, c, At(idToListenerMap, c, l))
    BY <1>3 DEF RegisterListener
  <2>3. DOMAIN idToListenerMap = 0..(c - 1)
        /\ \A id \in DOMAIN idToListenerMap : idToListenerMap[id] \in Listeners
    BY <2>1 DEF Numbered
  <2>4. c \notin 0..(c - 1) /\ 0..((c + 1) - 1) = 0..(c - 1) \cup {c}
    BY <1>2
  <2>5. /\ DOMAIN idToListenerMap' = 0..(c' - 1)
        /\ \A id \in DOMAIN idToListenerMap' : idToListenerMap'[id] \in Listeners
    BY <2>2, <2>3, <2>4 DEF With, At
  <2>6. \A u \in DOMAIN eventToListenerMap' : eventToListenerMap'[u] \in Seq(Listeners)
    BY <2>1, AddToNumbered DEF TypeInv
  <2> QED BY <1>1, <2>1, <2>5, <2>6 DEF Numbered
<1>4. ASSUME NEW l \in Listeners, NEW t \in Types, AddEventToListener(l, t)
      PROVE  Numbered'
  <2>1. /\ ~misnumbered /\ AddTo(l, t)
        /\ UNCHANGED <<listenerIDCounter, idToListenerMap>>
    BY <1>4 DEF AddEventToListener, misuse
  <2>2. \A u \in DOMAIN eventToListenerMap' : eventToListenerMap'[u] \in Seq(Listeners)
    BY <2>1, AddToNumbered DEF TypeInv
  <2> QED BY <1>1, <2>1, <2>2 DEF Numbered
<1>5. ASSUME NEW id \in 0..1, NEW t \in Types, AddEventToListenerID(id, t)
      PROVE  Numbered'
  <2>1. /\ ~misnumbered /\ id < listenerIDCounter
        /\ listenerIDCounter' = listenerIDCounter
        /\ idToListenerMap' = With(idToListenerMap, id, At(idToListenerMap, id, Null))
        /\ AddTo(idToListenerMap'[id], t)
    <3>1. misnumbered' = (misnumbered \/ id >= listenerIDCounter)
      BY <1>5 DEF AddEventToListenerID
    <3>2. ~misnumbered /\ ~(id >= listenerIDCounter)
      BY <3>1
    <3>3. id < listenerIDCounter
      BY <1>2, <3>2
    <3> QED BY <1>5, <3>2, <3>3 DEF AddEventToListenerID
  <2>2. id \in DOMAIN idToListenerMap
    BY <1>2, <2>1 DEF Numbered
  <2>3. /\ DOMAIN idToListenerMap' = DOMAIN idToListenerMap
        /\ \A j \in DOMAIN idToListenerMap' : idToListenerMap'[j] = idToListenerMap[j]
    BY <2>1, <2>2 DEF With, At
  <2>4. idToListenerMap'[id] \in Listeners
    BY <2>1, <2>2, <2>3 DEF Numbered
  <2>5. \A u \in DOMAIN eventToListenerMap' : eventToListenerMap'[u] \in Seq(Listeners)
    BY <2>1, <2>4, AddToNumbered DEF TypeInv
  <2> QED BY <1>1, <2>1, <2>3, <2>5 DEF Numbered
<1> QED BY <1>3, <1>4, <1>5

LEMMA MisnumberedStays == [Next]_vars => misnumbered' = misnumbered
                                         \/ \E id \in 0..1, t \in Types :
                                                AddEventToListenerID(id, t)
BY DEF Next, Running, vars, misuse, RegisterListener, AddEventToListener,
       StageEvent, HitEvent, SendStaged, SendNext, SendDone,
       CallNext, FinishHit, UseDeleted

LEMMA MisnumberedGrows == TypeInv /\ [Next]_vars => (misnumbered => misnumbered')
BY MisnumberedStays DEF AddEventToListenerID, TypeInv, FlagsTyped

(* A step after which the stack holds fewer frames, or loops more.          *)
LEMMA NumberedStack ==
    ASSUME Numbered, ~misnumbered, defined, UNCHANGED <<tables>>,
           \A k \in DOMAIN stack' : stack'[k] # Loop =>
               k \in DOMAIN stack /\ stack'[k].temp = stack[k].temp /\ stack[k] # Loop
    PROVE  Numbered'
BY DEF Numbered, tables

(* No action but the registering ones is possible once the program is      *)
(* undefined, and those neither.                                           *)
LEMMA StepsNeedDefined == Next => defined
BY DEF Next, Running, RegisterListener, AddEventToListener, AddEventToListenerID,
       Registering, StageEvent, HitEvent, SendStaged, SendNext, SendDone,
       CallNext, FinishHit, UseDeleted, Free, InCallback

SafeInv == UndefinedNeedsMisuse /\ Numbered

LEMMA SafeInductive == TypeInv /\ Solo /\ SafeInv /\ [Next]_vars => SafeInv'
<1> SUFFICES ASSUME TypeInv, Solo, SafeInv, [Next]_vars PROVE SafeInv'
  OBVIOUS
<1>1. CASE UNCHANGED vars
  BY <1>1 DEF vars, tables, hits, misuse, SafeInv, UndefinedNeedsMisuse, Numbered
<1>2. CASE Next
  <2>1. defined /\ Numbered
    BY <1>2, StepsNeedDefined DEF SafeInv
  <2>2. ASSUME misnumbered' PROVE SafeInv'
    BY <2>2 DEF SafeInv, UndefinedNeedsMisuse, Numbered
  <2>3. ASSUME ~misnumbered', UNCHANGED <<hits>>, Numbered' PROVE SafeInv'
    BY <2>1, <2>3 DEF SafeInv, UndefinedNeedsMisuse, hits
  <2>4. ASSUME ~misnumbered', defined' = defined, Numbered' PROVE SafeInv'
    BY <2>1, <2>4 DEF SafeInv, UndefinedNeedsMisuse
  <2> SUFFICES ASSUME ~misnumbered' PROVE SafeInv'
    BY <2>2
  <2>5. ~misnumbered
    BY <1>2, MisnumberedGrows
  <2>6. ASSUME \/ \E l \in Listeners, t \in Types :
                     RegisterListener(l, t) \/ AddEventToListener(l, t)
               \/ \E id \in 0..1, t \in Types : AddEventToListenerID(id, t)
        PROVE  SafeInv'
    <3>1. UNCHANGED hits
      BY <2>6 DEF RegisterListener, AddEventToListener, AddEventToListenerID
    <3> QED BY <2>1, <2>3, <2>6, <3>1, NumberedTables
  <2>7. ASSUME NEW e \in Events, StageEvent(e) PROVE SafeInv'
    <3>1. UNCHANGED <<tables, stack, defined>>
      BY <2>7 DEF StageEvent
    <3>2. Numbered'
      BY <2>1, <2>5, <3>1, NumberedStack
    <3> QED BY <2>4, <3>1, <3>2
  <2>8. ASSUME NEW e \in Events, BeginHit(e), UNCHANGED <<tables, misnumbered>>
        PROVE  SafeInv'
    <3>1. Numbered' /\ (Base \in DOMAIN eventToListenerMap => defined')
      BY <2>1, <2>5, <2>8, BeginNumbered
    <3>2. eventToListenerMap' = eventToListenerMap
      BY <2>8 DEF tables
    <3> QED BY <3>1, <3>2 DEF SafeInv, UndefinedNeedsMisuse
  <2>9. ASSUME NEW e \in Events, HitEvent(e) PROVE SafeInv'
    BY <2>8, <2>9 DEF HitEvent, misuse
  <2>10. ASSUME SendNext PROVE SafeInv'
    <3>1. Head(eventQue) \in Events
      BY <2>10, HeadTailProperties DEF SendNext, TypeInv, QueuesTyped
    <3> QED BY <2>8, <2>10, <3>1 DEF SendNext, misuse
  <2>11. ASSUME SendStaged PROVE SafeInv'
    <3>1. stack' = Append(stack, Loop) /\ UNCHANGED <<tables, defined>>
      BY <2>11 DEF SendStaged
    <3>2. /\ Len(stack) \in Nat /\ DOMAIN stack = 1..Len(stack)
          /\ DOMAIN stack' = 1..(Len(stack) + 1)
          /\ stack'[Len(stack) + 1] = Loop
          /\ \A k \in 1..Len(stack) : stack'[k] = stack[k]
      BY <3>1, PushTyped, FrameKinds DEF TypeInv
    <3>3. \A k \in 1..(Len(stack) + 1) : k = Len(stack) + 1 \/ k \in 1..Len(stack)
      BY <3>2
    <3>4. Numbered'
      BY <2>1, <2>5, <3>1, <3>2, <3>3, NumberedStack
    <3> QED BY <2>4, <3>1, <3>4
  <2>12. ASSUME stack # <<>>, stack' = Popped, UNCHANGED <<tables, defined>>
         PROVE  SafeInv'
    <3>1. /\ Len(stack) \in Nat /\ DOMAIN stack = 1..Len(stack)
          /\ DOMAIN stack' = 1..(Len(stack) - 1)
          /\ \A k \in 1..(Len(stack) - 1) : stack'[k] = stack[k]
      BY <2>12, PopTyped DEF TypeInv
    <3>2. \A k \in 1..(Len(stack) - 1) : k \in 1..Len(stack)
      BY <3>1
    <3>3. Numbered'
      BY <2>1, <2>5, <2>12, <3>1, <3>2, NumberedStack
    <3> QED BY <2>4, <2>12, <3>3
  <2>13. ASSUME SendDone PROVE SafeInv'
    BY <2>12, <2>13 DEF SendDone
  <2>14. ASSUME NEW handled \in BOOLEAN, FinishHit(handled) PROVE SafeInv'
    BY <2>12, <2>14 DEF FinishHit, InCallback
  <2>15. ASSUME NEW handled \in BOOLEAN, CallNext(handled) PROVE SafeInv'
    <3> DEFINE n == Len(stack)
               next == Top.temp[Top.i + 1]
    <3>1. /\ Top # Loop /\ Top.i + 1 \in DOMAIN Top.temp
          /\ defined' = (next # Null) /\ UNCHANGED <<tables>>
          /\ n \in Nat \ {0} /\ DOMAIN stack = 1..n /\ stack[n] = Top
          /\ DOMAIN stack' = 1..n /\ stack'[n].temp = Top.temp
          /\ \A k \in 1..n : stack'[k] = Loop <=> stack[k] = Loop
          /\ \A k \in 1..(n - 1) : stack'[k] = stack[k]
      BY <2>15, CallNextShape
    <3>2. n \in 1..n
      BY <3>1
    <3>3. Top.temp \in Seq(Listeners)
      BY <2>1, <2>5, <3>1, <3>2 DEF Numbered
    <3>4. next \in Listeners
      BY <3>1, <3>3, ElementOfSeq, LenProperties
    <3>5. defined'
      BY <3>1, <3>4, EventAssumption
    <3> HIDE DEF n, next
    <3>6. \A k \in 1..n : stack[k] # Loop => stack'[k].temp = stack[k].temp
      <4> SUFFICES ASSUME NEW k \in 1..n, stack[k] # Loop
                   PROVE  stack'[k].temp = stack[k].temp
        OBVIOUS
      <4>1. CASE k = n
        BY <3>1, <4>1
      <4>2. CASE k # n
        BY <3>1, <4>2, Below
      <4> QED BY <4>1, <4>2
    <3>7. Numbered'
      BY <2>1, <2>5, <3>1, <3>6, NumberedStack
    <3> QED BY <2>1, <2>4, <3>5, <3>7 DEF SafeInv, UndefinedNeedsMisuse
  <2>16. ASSUME UseDeleted PROVE SafeInv'
    <3> DEFINE n == Len(stack)
    <3>1. /\ stack # <<>> /\ Top # Loop /\ status[Top.of] = "deleted"
          /\ UNCHANGED <<tables, stack, reentered>>
      BY <2>16 DEF UseDeleted, InCallback, misuse
    <3>2. n \in DOMAIN stack /\ stack[n] = Top
      BY <3>1, TopTyped DEF TypeInv, Top
    <3>3. reentered
      BY <3>1, <3>2 DEF Solo, HitsApart
    <3>4. Numbered'
      BY <2>1, <2>5, <3>1, NumberedStack
    <3> QED BY <3>1, <3>3, <3>4 DEF SafeInv, UndefinedNeedsMisuse
  <2> QED BY <1>2, <2>6, <2>7, <2>9, <2>10, <2>11, <2>13, <2>14, <2>15, <2>16
          DEF Next, Running
<1> QED BY <1>1, <1>2

(* The event system uses only what exists, unless sendStaged is called in a *)
(* hit of its own, nobody listens to the type all events have, or a number *)
(* is used before it was given to a listener.                              *)
THEOREM UndefinedOnlyByMisuse == Spec => []UndefinedNeedsMisuse
<1> DEFINE I == TypeInv /\ Solo /\ SafeInv
<1>1. Init => I
  <2> SUFFICES ASSUME Init PROVE SafeInv
    BY TypeInvInitial, SoloRoundInitial
  <2>1. 0..(0 - 1) = {} /\ DOMAIN <<>> = {}
    OBVIOUS
  <2> QED BY <2>1 DEF Init, SafeInv, UndefinedNeedsMisuse, Numbered
<1>2. I /\ [Next]_vars => I'
  BY TypeInvInductive, SoloInductive, SafeInductive
<1>3. I => UndefinedNeedsMisuse
  BY DEF SafeInv
<1> HIDE DEF I
<1> QED BY <1>1, <1>2, <1>3, PTL DEF Spec

=============================================================================
