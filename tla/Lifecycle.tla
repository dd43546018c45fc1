------------------------------ MODULE Lifecycle ------------------------------
(***************************************************************************)
(* behaviourFactory, mainBehaviour and mainClass (FrameWork/EntryPoint.h): *)
(* the main loop calls every behaviour once a frame, and the callbacks of  *)
(* the behaviours call back into the factory while the loop is in the      *)
(* middle of its lists.                                                    *)
(*                                                                         *)
(* Everything runs on one thread.  The stack holds the callbacks under way *)
(* (createbehaviour calls Awake inside the caller's callback); a callback  *)
(* may instantiate and destroy objects and end the game, any number of     *)
(* times, then it returns.                                                 *)
(*                                                                         *)
(* instantiate of a type nobody registered answers NULL and changes        *)
(* nothing, so it is left out.  The calls that are run's own - hasTime,    *)
(* "call at end of main loop", clear, run and CallUpdate - are public too; *)
(* a callback that makes them is not modelled.                             *)
(***************************************************************************)
EXTENDS Naturals, Sequences

CONSTANTS
    Behaviours,  \* bound: the objects that can be made in a behaviour
    MaxAsks      \* bound: calls of destroy for one object

ASSUME AsksAssumption == MaxAsks \in Nat

VARIABLES
    allExisting, \* as in behaviourFactory
    toDestroy,   \* as in behaviourFactory
    endGame,     \* as in mainClass
    status,      \* of each object; "fresh": its callback is still firstUpdate
    stack,       \* the callbacks under way, the innermost last
    main,        \* where run, hasTime and clear are
    index,       \* the i of run, the j of hasTime: elements passed
    started,     \* history: how often Start was called
    seen,        \* history: the objects called in this frame, in order
    asked,       \* history: how often destroy was called for an object
    outAsked,    \* history: objects destroy was called for outside the main loop
    lateBorn     \* history: objects made during clear

lists == <<allExisting, toDestroy>>
control == <<main, index, endGame>>
history == <<started, seen, asked, outAsked, lateBorn>>
vars == <<lists, control, status, stack, history>>

Callbacks == {"Awake", "Start", "Update", "onDestroy"}
Frame(cb, b) == [cb |-> cb, of |-> b]
Top == stack[Len(stack)]
Popped == SubSeq(stack, 1, Len(stack) - 1)
InCallback == stack # <<>> /\ main # "undefined"
In(cb) == InCallback /\ Top.cb = cb

Elements(s) == {s[i] : i \in DOMAIN s}
Erased(s, i) == SubSeq(s, 1, i - 1) \o SubSeq(s, i + 1, Len(s))

\* what hasTime leaves of allExisting: the last place that holds b is erased
Without(s, b) ==
    IF b \notin Elements(s) THEN s
    ELSE Erased(s, CHOOSE i \in DOMAIN s :
                       s[i] = b /\ \A k \in DOMAIN s : s[k] = b => k <= i)

Init ==
    /\ allExisting = <<>>
    /\ toDestroy = <<>>
    /\ endGame = FALSE
    /\ status = [b \in Behaviours |-> "unborn"]
    /\ stack = <<>>
    /\ main = "static"
    /\ index = 0
    /\ started = [b \in Behaviours |-> 0]
    /\ seen = <<>>
    /\ asked = [b \in Behaviours |-> 0]
    /\ outAsked = {}
    /\ lateBorn = {}

-----------------------------------------------------------------------------
(* What a callback may do.                                                 *)

\* createbehaviour: new T() and Awake(); behaviourFactoryRegister does the
\* same before main starts
Instantiate(b) ==
    /\ InCallback \/ main = "static"
    /\ status[b] = "unborn"
    /\ status' = [status EXCEPT ![b] = "awake"]
    /\ stack' = Append(stack, Frame("Awake", b))
    /\ lateBorn' = IF main = "clearing" THEN lateBorn \cup {b} ELSE lateBorn
    /\ UNCHANGED <<lists, control, started, seen, asked, outAsked>>

\* the caller holds a pointer, so the object was made and not yet deleted
Asked(b) ==
    /\ InCallback
    /\ status[b] \in {"awake", "fresh", "running"}
    /\ asked[b] < MaxAsks
    /\ asked' = [asked EXCEPT ![b] = @ + 1]
    /\ outAsked' = IF main \in {"static", "clearing"} THEN outAsked \cup {b}
                   ELSE outAsked
    /\ UNCHANGED <<control, status, stack, started, seen, lateBorn>>

\* mutants: the object is taken out of the list the loop is running over;
\* only the latest request is kept
DestroyAtOnce(b) ==
    /\ Asked(b)
    /\ toDestroy' = Append(toDestroy, b)
    /\ allExisting' = Without(allExisting, b)
DestroyLatest(b) ==
    /\ Asked(b)
    /\ toDestroy' = <<b>>
    /\ UNCHANGED allExisting

Destroy(b) ==
    /\ Asked(b)
    /\ toDestroy' = Append(toDestroy, b)
    /\ UNCHANGED allExisting

PlayThanosTheme ==
    /\ InCallback
    /\ ~endGame
    /\ endGame' = TRUE
    /\ UNCHANGED <<lists, main, index, status, stack, history>>

-----------------------------------------------------------------------------
(* The callbacks return.                                                   *)

\* instantiate appends what createbehaviour made
AwakeReturns ==
    /\ In("Awake")
    /\ status' = [status EXCEPT ![Top.of] = "fresh"]
    /\ allExisting' = Append(allExisting, Top.of)
    /\ stack' = Popped
    /\ UNCHANGED <<toDestroy, control, history>>

\* firstUpdate: Start(); Update(); and only then the callback is changed
StartReturns ==
    /\ In("Start")
    /\ stack' = Append(Popped, Frame("Update", Top.of))
    /\ UNCHANGED <<lists, control, status, history>>

\* mutant: firstUpdate stays the callback
UpdateKeepsFirst ==
    /\ In("Update")
    /\ stack' = Popped
    /\ UNCHANGED <<lists, control, status, history>>

UpdateReturns ==
    /\ In("Update")
    /\ status' = [status EXCEPT ![Top.of] = "running"]
    /\ stack' = Popped
    /\ UNCHANGED <<lists, control, history>>

OnDestroyReturns ==
    /\ In("onDestroy")
    /\ status' = [status EXCEPT ![Top.of] = "deleted"]
    /\ stack' = Popped
    /\ UNCHANGED <<lists, control, history>>

-----------------------------------------------------------------------------
(* run, hasTime and clear go on when no callback is under way.             *)

At(where) == main = where /\ stack = <<>>

StartRun ==
    /\ At("static")
    /\ main' = "frame"
    /\ UNCHANGED <<lists, index, endGame, status, stack, history>>

\* while (!endGame); otherwise clear() queues whatever exists
NextFrame ==
    /\ At("frame")
    /\ index' = 0
    /\ seen' = <<>>
    /\ IF endGame
       THEN main' = "clearing" /\ toDestroy' = toDestroy \o allExisting
       ELSE main' = "updating" /\ UNCHANGED toDestroy
    /\ UNCHANGED <<allExisting, endGame, status, stack, started, asked,
                   outAsked, lateBorn>>

CallWith(cb) ==
    /\ At("updating")
    /\ index < Len(allExisting)
    /\ LET b == allExisting[index + 1]
       IN /\ stack' = <<Frame(cb[b], b)>>
          /\ seen' = Append(seen, b)
          /\ started' = [started EXCEPT ![b] = IF cb[b] = "Start" THEN @ + 1 ELSE @]
    /\ index' = index + 1
    /\ UNCHANGED <<lists, main, endGame, status, asked, outAsked, lateBorn>>

\* mutant: the constructor sets the callback to Update
CallUpdateUnstarted == CallWith([b \in Behaviours |-> "Update"])

\* it->at(i)->CallUpdate(), the size of the list being read every time
CallUpdate == CallWith([b \in Behaviours |->
                           IF status[b] = "fresh" THEN "Start" ELSE "Update"])

FrameDone ==
    /\ At("updating")
    /\ index >= Len(allExisting)
    /\ main' = "hasTime"
    /\ index' = 0
    /\ UNCHANGED <<lists, endGame, status, stack, history>>

\* hasTime takes the next one; onDestroy of a deleted object is undefined
DestroyNext ==
    /\ main \in {"hasTime", "clearing"} /\ stack = <<>>
    /\ index < Len(toDestroy)
    /\ LET b == toDestroy[index + 1]
       IN /\ allExisting' = Without(allExisting, b)
          /\ IF status[b] = "deleted"
             THEN main' = "undefined" /\ UNCHANGED stack
             ELSE stack' = <<Frame("onDestroy", b)>> /\ UNCHANGED main
    /\ index' = index + 1
    /\ UNCHANGED <<toDestroy, endGame, status, history>>

\* mutant: toDestroy.clear() is missing
HasTimeKeeping ==
    /\ main \in {"hasTime", "clearing"} /\ stack = <<>>
    /\ index >= Len(toDestroy)
    /\ main' = IF main = "clearing" THEN "ended" ELSE "frame"
    /\ index' = 0
    /\ UNCHANGED <<lists, endGame, status, stack, history>>

HasTimeDone ==
    /\ main \in {"hasTime", "clearing"} /\ stack = <<>>
    /\ index >= Len(toDestroy)
    /\ toDestroy' = <<>>
    /\ main' = IF main = "clearing" THEN "ended" ELSE "frame"
    /\ index' = 0
    /\ UNCHANGED <<allExisting, endGame, status, stack, history>>

-----------------------------------------------------------------------------
Engine ==
    \/ AwakeReturns \/ StartReturns \/ UpdateReturns \/ OnDestroyReturns
    \/ StartRun \/ NextFrame \/ CallUpdate \/ FrameDone
    \/ DestroyNext \/ HasTimeDone

UserCode ==
    \/ \E b \in Behaviours : Instantiate(b) \/ Destroy(b)
    \/ PlayThanosTheme

Next == Engine \/ UserCode

Spec == Init /\ [][Next]_vars

(* One thread, and callbacks return; nothing makes them call the factory.  *)
FairSpec == Spec /\ WF_vars(Engine)

-----------------------------------------------------------------------------
(* Types of all variables.                                                 *)
TypeOK ==
    /\ allExisting \in Seq(Behaviours)
    /\ toDestroy \in Seq(Behaviours)
    /\ endGame \in BOOLEAN
    /\ status \in [Behaviours -> {"unborn", "awake", "fresh", "running", "deleted"}]
    /\ stack \in Seq([cb : Callbacks, of : Behaviours])
    /\ main \in {"static", "frame", "updating", "hasTime", "clearing", "ended",
                 "undefined"}
    /\ index \in Nat
    /\ started \in [Behaviours -> 0..1]
    /\ seen \in Seq(Behaviours)
    /\ asked \in [Behaviours -> 0..MaxAsks]
    /\ outAsked \subseteq Behaviours /\ lateBorn \subseteq Behaviours

InListOrder ==
    main = "updating" =>
        /\ Len(seen) = index /\ index <= Len(allExisting)
        /\ \A k \in 1..index : seen[k] = allExisting[k]
NoDeletedCalled == \A i \in DOMAIN stack : status[stack[i].of] # "deleted"

(* Within a frame the objects are called in the order of the list, each    *)
(* once, those made during the frame too: destroying does not shift the    *)
(* list under the loop's index.  And no callback of a deleted object runs: *)
(* run's loop never comes to one.                                          *)
EachOncePerFrame == InListOrder /\ NoDeletedCalled

(* Start is called once, before the first Update, and nobody is running    *)
(* who was not started.                                                    *)
StartedOnce == \A b \in Behaviours :
    /\ started[b] <= 1
    /\ status[b] = "running" => started[b] = 1
    /\ \A i \in DOMAIN stack : stack[i] = Frame("Update", b) => started[b] = 1

(* Nothing is deleted twice unless some callback asked for it twice, or    *)
(* asked outside the main loop: during clear, which destroys the object as *)
(* well, or before a main loop that never runs a frame.                    *)
DoubleDeleteNeedsTwoAsks ==
    main = "undefined" => \E b \in Behaviours : asked[b] >= 2 \/ b \in outAsked

(* clear() "destroys everything": what exists after it was made by an      *)
(* onDestroy during it.                                                    *)
OnlyLateBornSurvive ==
    main = "ended" => \A b \in Behaviours \ lateBorn : status[b] \in {"unborn", "deleted"}

(* destroy takes effect, however the callbacks nest and whatever happens   *)
(* to the game meanwhile.                                                  *)
DestroyTakesEffect == \A b \in Behaviours :
    asked[b] > 0 ~> status[b] = "deleted" \/ main = "undefined"
=============================================================================
