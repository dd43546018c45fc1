----------------------------- MODULE EventSystem -----------------------------
(***************************************************************************)
(* EventSystem (FrameWork/EventSystem/EventSystem.h): listeners, and a     *)
(* queue of events that sendStaged hands to them.                          *)
(*                                                                         *)
(* Everything runs on one thread.  The stack holds the sendStaged loops    *)
(* and the events being hit; user code runs when the stack is empty or in  *)
(* the onEvent call of its top, and may use the event system there.        *)
(* Event::getType is static, so that hitEvent calls Event's own for every  *)
(* event: what listeners asked for other types never matters.              *)
(*                                                                         *)
(* A caller hands over each event once, as the final delete demands.  A    *)
(* registration for several types stands as a call for each of them, one   *)
(* for no type as a call for a type no event has.  usable is a public      *)
(* field that an onEvent may change: an event of Usable stands for one     *)
(* that changes too, as its onEvent may answer either way at every call.   *)
(***************************************************************************)
EXTENDS Naturals, Sequences, FiniteSets

CONSTANTS
    Listeners,
    Events,
    Usable,     \* events whose usable is ever set
    Types,      \* names of event types
    Base,       \* the type every event has: ""
    Null,       \* the null pointer
    MaxCalls,   \* bound: calls that register something
    MaxDepth    \* bound: the stack

ASSUME EventAssumption ==
    /\ Usable \subseteq Events
    /\ Base \in Types
    /\ Null \notin Listeners
    /\ MaxCalls \in Nat /\ MaxDepth \in Nat

VARIABLES
    listenerIDCounter,
    idToListenerMap,
    eventToListenerMap,
    eventQue,
    stack,      \* loops of sendStaged and hits, the innermost last
    status,     \* of each event: "fresh", "live" or "deleted"
    defined,    \* FALSE once the program has done something undefined
    calls,      \* history: calls that registered something
    staged,     \* history: the events given to stageEvent, in order
    sent,       \* history: the events sendStaged has hit, in order
    audience,   \* history: the listeners there were when an event was hit
    called,     \* history: the listeners an event was given to, in order
    reentered,  \* history: sendStaged was called while it hit an event
    misnumbered \* history: a number was used that no listener had been given

tables == <<listenerIDCounter, idToListenerMap, eventToListenerMap, calls>>
events == <<eventQue, staged>>
hits == <<stack, status, defined, sent, audience, called>>
misuse == <<reentered, misnumbered>>
vars == <<tables, events, hits, misuse>>

Loop == [of |-> "sendStaged"]
Hit(e, temp) == [of |-> e, temp |-> temp, i |-> 1]
Top == stack[Len(stack)]
Popped == SubSeq(stack, 1, Len(stack) - 1)
InCallback == defined /\ stack # <<>> /\ Top # Loop
Free == defined /\ (stack = <<>> \/ InCallback)
Sending == \E k \in DOMAIN stack : stack[k] = Loop

Init ==
    /\ listenerIDCounter = 0
    /\ idToListenerMap = <<>>
    /\ eventToListenerMap = <<>>
    /\ eventQue = <<>>
    /\ stack = <<>>
    /\ status = [e \in Events |-> "fresh"]
    /\ defined = TRUE
    /\ calls = 0
    /\ staged = <<>>
    /\ sent = <<>>
    /\ audience = [e \in Events |-> <<>>]
    /\ called = [e \in Events |-> <<>>]
    /\ reentered = FALSE
    /\ misnumbered = FALSE

-----------------------------------------------------------------------------
(* What user code may do.                                                  *)

\* operator[] and insert of the maps; insert does not replace
At(f, k, default) == IF k \in DOMAIN f THEN f[k] ELSE default
With(f, k, v) == [x \in DOMAIN f \cup {k} |-> IF x = k THEN v ELSE f[x]]

AddTo(l, t) ==
    eventToListenerMap' =
        With(eventToListenerMap, t, Append(At(eventToListenerMap, t, <<>>), l))

Registering == Free /\ calls < MaxCalls /\ calls' = calls + 1

\* mutant: the number is used up before it is given away
RegisterLate(l, t) ==
    /\ Registering
    /\ listenerIDCounter' = listenerIDCounter + 1
    /\ idToListenerMap' = With(idToListenerMap, listenerIDCounter + 1,
                               At(idToListenerMap, listenerIDCounter + 1, l))
    /\ AddTo(l, t)
    /\ UNCHANGED <<events, hits, misuse>>

\* registerListener: a number that is in use already keeps what it names
RegisterListener(l, t) ==
    /\ Registering
    /\ listenerIDCounter' = listenerIDCounter + 1
    /\ idToListenerMap' = With(idToListenerMap, listenerIDCounter,
                               At(idToListenerMap, listenerIDCounter, l))
    /\ AddTo(l, t)
    /\ UNCHANGED <<events, hits, misuse>>

\* addEventToListener by pointer, and by number: an unknown number names a
\* null pointer from then on
AddEventToListener(l, t) ==
    /\ Registering
    /\ AddTo(l, t)
    /\ UNCHANGED <<listenerIDCounter, idToListenerMap, events, hits, misuse>>

AddEventToListenerID(id, t) ==
    /\ Registering
    /\ idToListenerMap' = With(idToListenerMap, id, At(idToListenerMap, id, Null))
    /\ AddTo(idToListenerMap'[id], t)
    /\ misnumbered' = (misnumbered \/ id >= listenerIDCounter)
    /\ UNCHANGED <<listenerIDCounter, events, hits, reentered>>

StageEvent(e) ==
    /\ Free
    /\ status[e] = "fresh"
    /\ status' = [status EXCEPT ![e] = "live"]
    /\ eventQue' = Append(eventQue, e)
    /\ staged' = Append(staged, e)
    /\ UNCHANGED <<tables, stack, defined, sent, audience, called, misuse>>

\* hitEvent up to the first onEvent; without an entry for the type, or with
\* a null pointer in it, that is undefined
BeginHit(e) ==
    LET temp == At(eventToListenerMap, Base, <<Null>>)
    IN /\ stack' = Append(stack, Hit(e, temp))
       /\ defined' = (temp[1] # Null)
       /\ audience' = [audience EXCEPT ![e] = temp]
       /\ called' = [called EXCEPT ![e] = <<temp[1]>>]

HitEvent(e) ==
    /\ Free
    /\ Len(stack) < MaxDepth
    /\ status[e] = "fresh"
    /\ status' = [status EXCEPT ![e] = "live"]
    /\ BeginHit(e)
    /\ UNCHANGED <<tables, events, sent, misuse>>

SendStaged ==
    /\ Free
    /\ Len(stack) + 1 < MaxDepth
    /\ stack' = Append(stack, Loop)
    /\ reentered' = (reentered \/ Sending)
    /\ UNCHANGED <<tables, events, status, defined, sent, audience, called, misnumbered>>

-----------------------------------------------------------------------------
(* The loops.                                                              *)

\* the test of the loop in sendStaged; the event stays in front while it is hit
SendNext ==
    /\ defined /\ stack # <<>> /\ Top = Loop
    /\ eventQue # <<>>
    /\ sent' = Append(sent, Head(eventQue))
    /\ BeginHit(Head(eventQue))
    /\ UNCHANGED <<tables, events, status, misuse>>

SendDone ==
    /\ defined /\ stack # <<>> /\ Top = Loop
    /\ eventQue = <<>>
    /\ stack' = Popped
    /\ UNCHANGED <<tables, events, status, defined, sent, audience, called, misuse>>

\* mutants: the loop runs one too far; it looks at the list of now
LastOffByOne(handled) == (handled /\ Top.of \in Usable) \/ Top.i > Len(Top.temp)
LastOfNow(handled) ==
    (handled /\ Top.of \in Usable) \/ Top.i >= Len(eventToListenerMap[Base])

\* onEvent has answered: the event goes no further
Last(handled) == (handled /\ Top.of \in Usable) \/ Top.i = Len(Top.temp)

CallNext(handled) ==
    /\ InCallback
    /\ status[Top.of] = "live"
    /\ ~Last(handled)
    /\ LET next == IF Top.i + 1 \in DOMAIN Top.temp THEN Top.temp[Top.i + 1] ELSE Null
       IN /\ defined' = (next # Null)
          /\ called' = [called EXCEPT ![Top.of] = Append(@, next)]
    /\ stack' = [stack EXCEPT ![Len(stack)].i = @ + 1]
    /\ UNCHANGED <<tables, events, status, sent, audience, misuse>>

\* mutants: the queue is emptied; every event is taken for a staged one
ClearQue == IF Popped # <<>> /\ Popped[Len(Popped)] = Loop THEN <<>> ELSE eventQue
PopQueAlways == IF eventQue = <<>> THEN <<>> ELSE Tail(eventQue)

\* pop(), if the event was hit by sendStaged
PopQue == IF Popped # <<>> /\ Popped[Len(Popped)] = Loop THEN Tail(eventQue)
          ELSE eventQue

FinishHit(handled) ==
    /\ InCallback
    /\ status[Top.of] = "live"
    /\ Last(handled)
    /\ status' = [status EXCEPT ![Top.of] = "deleted"]
    /\ stack' = Popped
    /\ eventQue' = PopQue
    /\ UNCHANGED <<tables, staged, defined, sent, audience, called, misuse>>

\* the event was deleted meanwhile: whatever comes next uses or deletes it
UseDeleted ==
    /\ InCallback
    /\ status[Top.of] = "deleted"
    /\ defined' = FALSE
    /\ UNCHANGED <<tables, events, stack, status, sent, audience, called, misuse>>

-----------------------------------------------------------------------------
Running ==
    \/ SendNext
    \/ SendDone
    \/ \E handled \in BOOLEAN : CallNext(handled) \/ FinishHit(handled)
    \/ UseDeleted

Next ==
    \/ \E l \in Listeners, t \in Types :
          RegisterListener(l, t) \/ AddEventToListener(l, t)
    \/ \E id \in 0..1, t \in Types : AddEventToListenerID(id, t)
    \/ \E e \in Events : StageEvent(e) \/ HitEvent(e)
    \/ SendStaged
    \/ Running

Spec == Init /\ [][Next]_vars

(* onEvent returns, the loops go on, and whoever owns the event system     *)
(* calls sendStaged again while something is staged.                       *)
Fairness ==
    /\ WF_vars(Running)
    /\ WF_vars(stack = <<>> /\ eventQue # <<>> /\ SendStaged)

FairSpec == Spec /\ Fairness

-----------------------------------------------------------------------------
Frames == {Loop} \cup [of : Events, temp : Seq(Listeners \cup {Null}), i : Nat \ {0}]

(* Types of all variables; a hit is at one of the listeners it copied.     *)
TypeOK ==
    /\ listenerIDCounter \in Nat /\ calls \in Nat
    /\ DOMAIN idToListenerMap \subseteq Nat
    /\ \A id \in DOMAIN idToListenerMap : idToListenerMap[id] \in Listeners \cup {Null}
    /\ DOMAIN eventToListenerMap \subseteq Types
    /\ \A t \in DOMAIN eventToListenerMap :
          eventToListenerMap[t] \in Seq(Listeners \cup {Null}) \ {<<>>}
    /\ eventQue \in Seq(Events) /\ staged \in Seq(Events) /\ sent \in Seq(Events)
    /\ stack \in Seq(Frames)
    /\ \A k \in DOMAIN stack : stack[k] # Loop => stack[k].i \in DOMAIN stack[k].temp
    /\ status \in [Events -> {"fresh", "live", "deleted"}]
    /\ {defined, reentered, misnumbered} \subseteq BOOLEAN
    /\ audience \in [Events -> Seq(Listeners \cup {Null})]
    /\ called \in [Events -> Seq(Listeners \cup {Null})]

Prefix(s, t) == Len(s) <= Len(t) /\ s = SubSeq(t, 1, Len(s))

(* A listener may register others, stage and hit events while an event is  *)
(* handed round: the event still goes to the listeners there were when it  *)
(* was hit, in the order of their registration, and to all of them unless  *)
(* one that handled a usable event ends the round.                         *)
RoundUndisturbed == ~reentered => \A e \in Events :
    /\ Prefix(called[e], audience[e])
    /\ status[e] = "deleted" /\ e \notin Usable => called[e] = audience[e]

(* Events are sent in the order they were staged, whoever stages them and  *)
(* whatever is hit in between, and none is dropped or sent again, unless   *)
(* sendStaged is called while it hits an event.                            *)
Underway == \E k \in DOMAIN stack : stack[k] = Loop /\ k < Len(stack)
Finished == IF Underway THEN SubSeq(sent, 1, Len(sent) - 1) ELSE sent
InStageOrder == ~reentered =>
    /\ staged = Finished \o eventQue
    /\ Underway => eventQue # <<>> /\ Head(eventQue) = sent[Len(sent)]

(* The program uses only what exists, unless sendStaged is called while it *)
(* hits an event (the front one is then hit again, and deleted twice),     *)
(* nobody has registered for the type all events have, or a number was     *)
(* used before it was given to a listener.                                 *)
UndefinedNeedsMisuse ==
    defined \/ reentered \/ misnumbered \/ Base \notin DOMAIN eventToListenerMap

(* An event that was staged is sent.                                       *)
StagedAreSent == \A e \in Events :
    (\E k \in DOMAIN staged : staged[k] = e)
        ~> ((\E k \in DOMAIN sent : sent[k] = e) \/ ~defined)
=============================================================================
