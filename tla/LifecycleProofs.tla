--------------------------- MODULE LifecycleProofs ---------------------------
(***************************************************************************)
(* Theorems about Lifecycle for any set of objects and any number of       *)
(* requests to destroy them.                                               *)
(***************************************************************************)
EXTENDS Lifecycle, SequenceTheorems, WellFoundedInduction, TLAPS

(* The part of TypeOK that the lists need.                                 *)
ListsTyped ==
    /\ allExisting \in Seq(Behaviours)
    /\ toDestroy \in Seq(Behaviours)
    /\ seen \in Seq(Behaviours)
    /\ stack \in Seq([cb : Callbacks, of : Behaviours])
    /\ index \in Nat

FrameInv == ListsTyped /\ InListOrder

-----------------------------------------------------------------------------
(* Erasing keeps a list a list of the same things.                         *)
LEMMA ErasedTyped ==
    ASSUME NEW S, NEW s \in Seq(S), NEW i \in DOMAIN s
    PROVE  Erased(s, i) \in Seq(S)
<1>1. i \in 1..Len(s) /\ Len(s) \in Nat
  OBVIOUS
<1>2. SubSeq(s, 1, i - 1) \in Seq(S)
  BY <1>1
<1>3. SubSeq(s, i + 1, Len(s)) \in Seq(S)
  BY <1>1
<1> QED BY <1>2, <1>3 DEF Erased

(* A set of places of a list that is not empty has a last one.             *)
LEMMA LastPlace ==
    ASSUME NEW n \in Nat, NEW P \in SUBSET (1..n), P # {}
    PROVE  \E i \in P : \A k \in P : k <= i
<1> DEFINE T == {n - i : i \in P}
<1>1. T \in SUBSET Nat /\ T # {}
  <2>1. \A i \in P : i \in 1..n /\ n - i \in Nat
    OBVIOUS
  <2> QED BY <2>1
<1>2. \E x \in T : \A y \in T : ~(<<y, x>> \in OpToRel(<, Nat))
  <2> HIDE DEF T
  <2> QED BY <1>1, NatLessThanWellFounded, WFMin
<1>3. PICK x \in T : \A y \in T : ~(y < x)
  BY <1>1, <1>2 DEF OpToRel
<1>4. PICK i \in P : x = n - i
  BY <1>3
<1>5. ASSUME NEW k \in P PROVE k <= i
  <2>1. n - k \in T
    OBVIOUS
  <2> QED BY <1>3, <1>4, <2>1
<1> QED BY <1>5

(* A list that holds b holds it for the last time somewhere, so what       *)
(* hasTime leaves is the list or the list with one place erased.           *)
LEMMA WithoutTyped ==
    ASSUME NEW s \in Seq(Behaviours), NEW b \in Behaviours
    PROVE  Without(s, b) \in Seq(Behaviours)
<1>1. CASE b \notin Elements(s)
  BY <1>1 DEF Without
<1>2. CASE b \in Elements(s)
  <2> DEFINE P == {i \in DOMAIN s : s[i] = b}
             IsLast(i) == s[i] = b /\ \A k \in DOMAIN s : s[k] = b => k <= i
  <2>1. P # {} /\ P \in SUBSET (1..Len(s)) /\ Len(s) \in Nat
    BY <1>2 DEF Elements
  <2>2. \E i \in P : \A k \in P : k <= i
    <3> HIDE DEF P
    <3> QED BY <2>1, LastPlace
  <2>3. \E i \in DOMAIN s : IsLast(i)
    BY <2>2
  <2>4. (CHOOSE i \in DOMAIN s : IsLast(i)) \in DOMAIN s
    BY <2>3
  <2>5. Erased(s, CHOOSE i \in DOMAIN s : IsLast(i)) \in Seq(Behaviours)
    BY <2>4, ErasedTyped
  <2> QED BY <1>2, <2>5 DEF Without
<1> QED BY <1>1, <1>2

(* Appending to a list leaves the places it had.                           *)
LEMMA AppendKeeps ==
    ASSUME NEW S, NEW s \in Seq(S), NEW b \in S
    PROVE  /\ Append(s, b) \in Seq(S)
           /\ Len(Append(s, b)) = Len(s) + 1
           /\ Append(s, b)[Len(s) + 1] = b
           /\ \A k \in 1..Len(s) : Append(s, b)[k] = s[k]
OBVIOUS

(* A list of one.                                                          *)
LEMMA OneTyped ==
    ASSUME NEW S, NEW b \in S
    PROVE  <<b>> \in Seq(S)
OBVIOUS

(* The front of a list that is not empty.                                  *)
LEMMA FrontOf ==
    ASSUME NEW S, NEW s \in Seq(S), s # <<>>
    PROVE  /\ SubSeq(s, 1, Len(s) - 1) \in Seq(S)
           /\ Len(SubSeq(s, 1, Len(s) - 1)) = Len(s) - 1
           /\ \A k \in 1..Len(s) - 1 : SubSeq(s, 1, Len(s) - 1)[k] = s[k]
<1> DEFINE n == Len(s)
           t == SubSeq(s, 1, n - 1)
<1>1. n \in Nat /\ n >= 1 /\ \A k \in 1..n : s[k] \in S
  OBVIOUS
<1>2. \A k \in 1..n - 1 : s[k] \in S
  BY <1>1
<1>3. /\ t \in Seq(S) /\ Len(t) = IF 1 <= n - 1 THEN n - 1 - 1 + 1 ELSE 0
      /\ \A k \in 1..n - 1 - 1 + 1 : t[k] = s[1 + k - 1]
  BY <1>1, <1>2, SubSeqProperties
<1> HIDE DEF n, t
<1>4. Len(t) = n - 1
  BY <1>1, <1>3
<1>5. ASSUME NEW k \in 1..n - 1 PROVE t[k] = s[k]
  <2>1. k \in 1..n - 1 - 1 + 1 /\ 1 + k - 1 = k
    BY <1>1
  <2> QED BY <1>3, <2>1
<1> QED BY <1>3, <1>4, <1>5 DEF n, t

(* What is left of the stack when a callback returns, and whose it was.    *)
LEMMA PoppedTyped ==
    ASSUME ListsTyped, stack # <<>>
    PROVE  /\ Popped \in Seq([cb : Callbacks, of : Behaviours])
           /\ Top.of \in Behaviours
<1> DEFINE S == [cb : Callbacks, of : Behaviours]
<1>1. stack \in Seq(S) /\ Len(stack) \in Nat /\ Len(stack) >= 1
  BY DEF ListsTyped
<1>2. Popped \in Seq(S)
  <2> HIDE DEF S
  <2> QED BY <1>1, FrontOf DEF Popped
<1>3. Top \in S
  <2> HIDE DEF S
  <2> QED BY <1>1 DEF Top
<1> QED BY <1>2, <1>3

-----------------------------------------------------------------------------
(* Every step keeps FrameInv.                                              *)
LEMMA FrameInvInductive ==
    ASSUME FrameInv, [Next]_vars
    PROVE  FrameInv'
<1> DEFINE S == [cb : Callbacks, of : Behaviours]
<1> USE DEF lists, control, history
<1>1. CASE UNCHANGED vars
  BY <1>1 DEF vars, FrameInv, ListsTyped, InListOrder
<1>2. ASSUME NEW b \in Behaviours, Instantiate(b) PROVE FrameInv'
  <2>1. Frame("Awake", b) \in S
    BY DEF Frame, Callbacks
  <2>2. stack' \in Seq(S)
    <3>1. stack \in Seq(S) /\ stack' = Append(stack, Frame("Awake", b))
      BY <1>2 DEF Instantiate, FrameInv, ListsTyped
    <3> HIDE DEF S
    <3> QED BY ONLY <2>1, <3>1, AppendKeeps
  <2> QED BY <1>2, <2>2 DEF Instantiate, FrameInv, ListsTyped, InListOrder
<1>3. ASSUME NEW b \in Behaviours, Destroy(b) PROVE FrameInv'
  <2>1. toDestroy' \in Seq(Behaviours)
    BY <1>3 DEF Destroy, FrameInv, ListsTyped
  <2> QED BY <1>3, <2>1 DEF Destroy, Asked, FrameInv, ListsTyped, InListOrder
<1>4. CASE PlayThanosTheme
  BY <1>4 DEF PlayThanosTheme, FrameInv, ListsTyped, InListOrder
<1>5. CASE AwakeReturns
  <2>1. stack' \in Seq(S) /\ Top.of \in Behaviours
    BY <1>5, PoppedTyped DEF AwakeReturns, In, InCallback, FrameInv
  <2>2. /\ allExisting' = Append(allExisting, Top.of)
        /\ allExisting \in Seq(Behaviours)
    BY <1>5 DEF AwakeReturns, FrameInv, ListsTyped
  <2>3. /\ allExisting' \in Seq(Behaviours)
        /\ Len(allExisting') = Len(allExisting) + 1
        /\ \A k \in 1..Len(allExisting) : allExisting'[k] = allExisting[k]
    BY ONLY <2>1, <2>2, AppendKeeps
  <2> QED
    BY <1>5, <2>1, <2>2, <2>3 DEF AwakeReturns, FrameInv, ListsTyped, InListOrder
<1>6. CASE StartReturns
  <2>1. Popped \in Seq(S) /\ Frame("Update", Top.of) \in S
    BY <1>6, PoppedTyped DEF StartReturns, In, InCallback, FrameInv, Frame, Callbacks
  <2>2. stack' \in Seq(S)
    <3>1. stack' = Append(Popped, Frame("Update", Top.of))
      BY <1>6 DEF StartReturns
    <3> HIDE DEF S
    <3> QED BY ONLY <2>1, <3>1, AppendKeeps
  <2> QED BY <1>6, <2>2 DEF StartReturns, FrameInv, ListsTyped, InListOrder
<1>7. CASE UpdateReturns
  <2>1. stack' \in Seq(S)
    BY <1>7, PoppedTyped DEF UpdateReturns, In, InCallback, FrameInv
  <2> QED BY <1>7, <2>1 DEF UpdateReturns, FrameInv, ListsTyped, InListOrder
<1>8. CASE OnDestroyReturns
  <2>1. stack' \in Seq(S)
    BY <1>8, PoppedTyped DEF OnDestroyReturns, In, InCallback, FrameInv
  <2> QED BY <1>8, <2>1 DEF OnDestroyReturns, FrameInv, ListsTyped, InListOrder
<1>9. CASE StartRun
  BY <1>9 DEF StartRun, FrameInv, ListsTyped, InListOrder
<1>10. CASE NextFrame
  <2>1. toDestroy' \in Seq(Behaviours)
    <3>1. toDestroy \in Seq(Behaviours) /\ allExisting \in Seq(Behaviours)
      BY DEF FrameInv, ListsTyped
    <3>2. CASE toDestroy' = toDestroy \o allExisting
      BY <3>1, <3>2
    <3>3. CASE toDestroy' = toDestroy
      BY <3>1, <3>3
    <3> QED BY <1>10, <3>2, <3>3 DEF NextFrame
  <2>2. seen' = <<>> /\ index' = 0 /\ Len(allExisting) \in Nat
    BY <1>10 DEF NextFrame, FrameInv, ListsTyped
  <2> QED
    BY <1>10, <2>1, <2>2 DEF NextFrame, FrameInv, ListsTyped, InListOrder
<1>11. CASE CallUpdate
  <2> DEFINE b == allExisting[index + 1]
  <2>1. /\ main = "updating" /\ main' = main /\ allExisting' = allExisting
        /\ toDestroy' = toDestroy /\ index' = index + 1 /\ index < Len(allExisting)
        /\ seen' = Append(seen, b)
    BY <1>11 DEF CallUpdate, CallWith, At
  <2>2. b \in Behaviours
    BY <2>1 DEF FrameInv, ListsTyped
  <2>3. \E cb \in {"Start", "Update"} : stack' = <<Frame(cb, b)>>
    BY <1>11, <2>2 DEF CallUpdate, CallWith
  <2>4. stack' \in Seq(S)
    BY <2>2, <2>3 DEF Frame, Callbacks
  <2>5. /\ seen' \in Seq(Behaviours) /\ Len(seen') = Len(seen) + 1
        /\ seen'[Len(seen) + 1] = b
        /\ \A k \in 1..Len(seen) : seen'[k] = seen[k]
    <3>1. seen \in Seq(Behaviours)
      BY DEF FrameInv, ListsTyped
    <3> HIDE DEF b
    <3> QED BY ONLY <2>1, <2>2, <3>1, AppendKeeps
  <2>6. ListsTyped'
    BY <2>1, <2>4, <2>5 DEF FrameInv, ListsTyped
  <2>7. InListOrder'
    BY <2>1, <2>5 DEF FrameInv, ListsTyped, InListOrder
  <2> QED BY <2>6, <2>7 DEF FrameInv
<1>12. CASE FrameDone
  BY <1>12 DEF FrameDone, FrameInv, ListsTyped, InListOrder
<1>13. CASE DestroyNext
  <2> DEFINE b == toDestroy[index + 1]
  <2>1. /\ main \in {"hasTime", "clearing"} /\ index' = index + 1
        /\ index < Len(toDestroy) /\ toDestroy' = toDestroy /\ seen' = seen
        /\ allExisting' = Without(allExisting, b)
        /\ main' \in {main, "undefined"}
        /\ stack' = stack \/ stack' = <<Frame("onDestroy", b)>>
    BY <1>13 DEF DestroyNext
  <2>2. b \in Behaviours
    BY <2>1 DEF FrameInv, ListsTyped
  <2>3. allExisting' \in Seq(Behaviours)
    BY <2>1, <2>2, WithoutTyped DEF FrameInv, ListsTyped
  <2>4. stack' \in Seq(S)
    <3>1. stack \in Seq(S)
      BY DEF FrameInv, ListsTyped
    <3>2. Frame("onDestroy", b) \in S
      BY <2>2 DEF Frame, Callbacks
    <3>3. <<Frame("onDestroy", b)>> \in Seq(S)
      <4> HIDE DEF S, b
      <4> QED BY ONLY <3>1, <3>2, OneTyped
    <3> HIDE DEF S, b
    <3> QED BY ONLY <2>1, <3>1, <3>3
  <2> QED BY <2>1, <2>3, <2>4 DEF FrameInv, ListsTyped, InListOrder
<1>14. CASE HasTimeDone
  BY <1>14 DEF HasTimeDone, FrameInv, ListsTyped, InListOrder
<1> QED
  BY <1>1, <1>2, <1>3, <1>4, <1>5, <1>6, <1>7, <1>8, <1>9, <1>10, <1>11, <1>12,
     <1>13, <1>14 DEF Next, Engine, UserCode

-----------------------------------------------------------------------------
(* What is true of every object: where it is in its life, on which lists   *)
(* and how often it was started.                                           *)

(* The part of TypeOK that ListsTyped leaves; how often Start is called is *)
(* bounded by StartInv.                                                    *)
RestTyped ==
    /\ endGame \in BOOLEAN
    /\ status \in [Behaviours -> {"unborn", "awake", "fresh", "running", "deleted"}]
    /\ main \in {"static", "frame", "updating", "hasTime", "clearing", "ended",
                 "undefined"}
    /\ started \in [Behaviours -> Nat]
    /\ asked \in [Behaviours -> 0..MaxAsks]
    /\ outAsked \subseteq Behaviours /\ lateBorn \subseteq Behaviours

Born == {"fresh", "running"}

(* The callback at the bottom of the stack is called by the loop main is   *)
(* in; above it there are only calls of Awake.                             *)
WhereInv ==
    /\ stack # <<>> => main \in {"static", "updating", "hasTime", "clearing"}
    /\ \A k \in DOMAIN stack : stack[k].cb # "Awake" => k = 1
    /\ stack # <<>> =>
          /\ stack[1].cb \in {"Start", "Update"} => main = "updating"
          /\ stack[1].cb = "onDestroy" =>
                /\ main \in {"hasTime", "clearing"}
                /\ index \in 1..Len(toDestroy)
                /\ toDestroy[index] = stack[1].of
          /\ stack[1].cb = "Awake" => main = "static"

(* The objects with a callback under way are different ones, alive, and    *)
(* those in Awake are the ones that are being made.                        *)
Lives(cb) == CASE cb = "Awake" -> {"awake"} [] cb = "Start" -> {"fresh"}
               [] OTHER -> Born
StackInv ==
    /\ \A k \in DOMAIN stack : status[stack[k].of] \in Lives(stack[k].cb)
    /\ \A j, k \in DOMAIN stack : stack[j].of = stack[k].of => j = k
    /\ \A b \in Behaviours : status[b] = "awake" =>
          \E k \in DOMAIN stack : stack[k].of = b /\ stack[k].cb = "Awake"

(* The factory's list holds each object that was made and not yet taken    *)
(* out for its onDestroy, once; only what was made is asked to go.         *)
Going(b) == stack # <<>> /\ stack[1].of = b /\ stack[1].cb = "onDestroy"
ListInv ==
    /\ \A j, k \in DOMAIN allExisting : allExisting[j] = allExisting[k] => j = k
    /\ \A b \in Behaviours :
          b \in Elements(allExisting) <=> status[b] \in Born /\ ~Going(b)
    /\ \A k \in DOMAIN toDestroy : status[toDestroy[k]] # "unborn"

(* Start has been called once for what runs, or is in its first Update.    *)
InFirst(b) == stack # <<>> /\ stack[1].of = b /\ stack[1].cb \in {"Start", "Update"}
StartInv == \A b \in Behaviours :
    /\ started[b] <= 1
    /\ status[b] \in {"unborn", "awake"} => started[b] = 0
    /\ status[b] = "fresh" => started[b] = (IF InFirst(b) THEN 1 ELSE 0)
    /\ status[b] = "running" => started[b] = 1

LifeInv == ListsTyped /\ RestTyped /\ WhereInv /\ StackInv /\ ListInv /\ StartInv

-----------------------------------------------------------------------------
(* A callback returns: the stack keeps the places below the top.           *)
LEMMA PoppedKeeps ==
    ASSUME ListsTyped, stack # <<>>
    PROVE  /\ Len(stack) \in Nat /\ Len(stack) >= 1 /\ Top = stack[Len(stack)]
           /\ Popped \in Seq([cb : Callbacks, of : Behaviours])
           /\ Len(Popped) = Len(stack) - 1
           /\ \A k \in 1..Len(stack) - 1 : Popped[k] = stack[k]
<1> DEFINE S == [cb : Callbacks, of : Behaviours]
<1>1. stack \in Seq(S) /\ Len(stack) \in Nat /\ Len(stack) >= 1
  BY DEF ListsTyped
<1>2. /\ Popped \in Seq(S) /\ Len(Popped) = Len(stack) - 1
      /\ \A k \in 1..Len(stack) - 1 : Popped[k] = stack[k]
  <2> HIDE DEF S
  <2> QED BY <1>1, FrontOf DEF Popped
<1>3. Top = stack[Len(stack)]
  BY DEF Top
<1> QED BY <1>1, <1>2, <1>3

(* A callback is called inside another: the stack grows by one.            *)
LEMMA PushedKeeps ==
    ASSUME ListsTyped, NEW f \in [cb : Callbacks, of : Behaviours]
    PROVE  /\ Append(stack, f) \in Seq([cb : Callbacks, of : Behaviours])
           /\ Len(stack) \in Nat /\ Len(Append(stack, f)) = Len(stack) + 1
           /\ Append(stack, f)[Len(stack) + 1] = f
           /\ \A k \in 1..Len(stack) : Append(stack, f)[k] = stack[k]
<1> DEFINE S == [cb : Callbacks, of : Behaviours]
<1>1. stack \in Seq(S) /\ f \in S
  BY DEF ListsTyped
<1> HIDE DEF S
<1>2. Append(stack, f) \in Seq(S)
  BY <1>1
<1>3. Len(stack) \in Nat /\ Len(Append(stack, f)) = Len(stack) + 1
  BY <1>1
<1>4. /\ Append(stack, f)[Len(stack) + 1] = f
      /\ \A k \in 1..Len(stack) : Append(stack, f)[k] = stack[k]
  BY ONLY <1>1, AppendKeeps
<1> USE DEF S
<1> QED BY <1>2, <1>3, <1>4

(* What a call of an object in a frame does.                               *)
LEMMA CallUpdateDoes ==
    ASSUME ListsTyped, RestTyped, CallUpdate, NEW b, b = allExisting[index + 1]
    PROVE  /\ b \in Behaviours /\ main = "updating" /\ stack = <<>>
           /\ index \in Nat /\ index < Len(allExisting) /\ index' = index + 1
           /\ stack' = <<Frame(IF status[b] = "fresh" THEN "Start" ELSE "Update", b)>>
           /\ started' = [started EXCEPT ![b] = IF status[b] = "fresh" THEN @ + 1 ELSE @]
           /\ UNCHANGED <<lists, main, endGame, status, asked, outAsked, lateBorn>>
<1>1. /\ main = "updating" /\ stack = <<>> /\ index' = index + 1
      /\ index \in Nat /\ index < Len(allExisting) /\ b \in Behaviours
      /\ UNCHANGED <<lists, main, endGame, status, asked, outAsked, lateBorn>>
  BY DEF CallUpdate, CallWith, At, ListsTyped
<1> DEFINE cb == [a \in Behaviours |-> IF status[a] = "fresh" THEN "Start" ELSE "Update"]
<1>2. /\ stack' = <<Frame(cb[b], b)>>
      /\ started' = [started EXCEPT ![b] = IF cb[b] = "Start" THEN @ + 1 ELSE @]
  BY DEF CallUpdate, CallWith
<1>3. cb[b] = IF status[b] = "fresh" THEN "Start" ELSE "Update"
  BY <1>1
<1>4. stack' = <<Frame(IF status[b] = "fresh" THEN "Start" ELSE "Update", b)>>
  <2> HIDE DEF cb
  <2> QED BY <1>2, <1>3
<1>5. (cb[b] = "Start") <=> (status[b] = "fresh")
  BY <1>3
<1>6. started' = [started EXCEPT ![b] = IF status[b] = "fresh" THEN @ + 1 ELSE @]
  <2> HIDE DEF cb
  <2> QED BY <1>2, <1>5
<1> QED BY <1>1, <1>4, <1>6

(* The types of the variables that are not lists.                          *)
LEMMA RestTypedKept ==
    ASSUME ListsTyped, RestTyped, [Next]_vars
    PROVE  RestTyped'
<1> USE AsksAssumption DEF lists, control, history
<1>1. CASE UNCHANGED vars
  BY <1>1 DEF vars, RestTyped
<1>2. ASSUME NEW b \in Behaviours, Instantiate(b) PROVE RestTyped'
  <2>1. status' = [status EXCEPT ![b] = "awake"] /\ lateBorn' \subseteq lateBorn \cup {b}
    BY <1>2 DEF Instantiate
  <2>2. UNCHANGED <<control, started, asked, outAsked>>
    BY <1>2 DEF Instantiate
  <2> QED BY <2>1, <2>2 DEF RestTyped
<1>3. ASSUME NEW b \in Behaviours, Destroy(b) PROVE RestTyped'
  <2>1. asked' \in [Behaviours -> 0..MaxAsks]
    BY <1>3 DEF Destroy, Asked, RestTyped
  <2>2. outAsked' \subseteq Behaviours
    BY <1>3 DEF Destroy, Asked, RestTyped
  <2> QED BY <1>3, <2>1, <2>2 DEF Destroy, Asked, RestTyped
<1>4. CASE PlayThanosTheme
  BY <1>4 DEF PlayThanosTheme, RestTyped
<1>5. CASE AwakeReturns
  <2>1. status' = [status EXCEPT ![Top.of] = "fresh"] /\ UNCHANGED <<control, history>>
    BY <1>5 DEF AwakeReturns
  <2> QED BY <2>1 DEF RestTyped
<1>6. CASE StartReturns
  BY <1>6 DEF StartReturns, RestTyped
<1>7. CASE UpdateReturns
  <2>1. status' = [status EXCEPT ![Top.of] = "running"] /\ UNCHANGED <<control, history>>
    BY <1>7 DEF UpdateReturns
  <2> QED BY <2>1 DEF RestTyped
<1>8. CASE OnDestroyReturns
  <2>1. status' = [status EXCEPT ![Top.of] = "deleted"] /\ UNCHANGED <<control, history>>
    BY <1>8 DEF OnDestroyReturns
  <2> QED BY <2>1 DEF RestTyped
<1>9. CASE StartRun
  BY <1>9 DEF StartRun, RestTyped
<1>10. CASE NextFrame
  BY <1>10 DEF NextFrame, RestTyped
<1>11. CASE CallUpdate
  <2>1. started' \in [Behaviours -> Nat]
    <3> DEFINE b == allExisting[index + 1]
    <3>1. /\ b \in Behaviours
          /\ started' = [started EXCEPT ![b] = IF status[b] = "fresh" THEN @ + 1 ELSE @]
      BY <1>11, CallUpdateDoes
    <3> HIDE DEF b
    <3> QED BY <3>1 DEF RestTyped
  <2> QED BY <1>11, <2>1, CallUpdateDoes DEF RestTyped
<1>12. CASE FrameDone
  BY <1>12 DEF FrameDone, RestTyped
<1>13. CASE DestroyNext
  BY <1>13 DEF DestroyNext, RestTyped
<1>14. CASE HasTimeDone
  BY <1>14 DEF HasTimeDone, RestTyped
<1> QED
  BY <1>1, <1>2, <1>3, <1>4, <1>5, <1>6, <1>7, <1>8, <1>9, <1>10, <1>11, <1>12,
     <1>13, <1>14 DEF Next, Engine, UserCode

(* How a stack that grew by a call of Awake looks.                         *)
LEMMA InstantiateDoes ==
    ASSUME ListsTyped, NEW b \in Behaviours, Instantiate(b), NEW n, n = Len(stack) + 1
    PROVE  /\ n \in Nat \ {0} /\ (stack = <<>> => n = 1)
           /\ DOMAIN stack' = 1..n
           /\ stack'[n] = Frame("Awake", b) /\ stack'[n].cb = "Awake" /\ stack'[n].of = b
           /\ \A k \in 1..n : k # n => k \in DOMAIN stack /\ stack'[k] = stack[k]
           /\ \A k \in DOMAIN stack : k \in 1..n /\ k # n
           /\ InCallback \/ main = "static"
           /\ status[b] = "unborn" /\ status' = [status EXCEPT ![b] = "awake"]
           /\ UNCHANGED <<lists, control, started, seen, asked, outAsked>>
<1> DEFINE f == Frame("Awake", b)
<1>1. f \in [cb : Callbacks, of : Behaviours] /\ f.cb = "Awake" /\ f.of = b
  BY DEF Frame, Callbacks
<1>2. stack' = Append(stack, f)
  BY DEF Instantiate
<1>3. /\ Len(stack) \in Nat /\ Len(stack') = n
      /\ stack' \in Seq([cb : Callbacks, of : Behaviours])
      /\ stack'[n] = f
      /\ \A k \in 1..Len(stack) : stack'[k] = stack[k]
  <2> HIDE DEF f
  <2> QED BY <1>1, <1>2, PushedKeeps
<1>4. DOMAIN stack = 1..Len(stack) /\ DOMAIN stack' = 1..n
  BY <1>3 DEF ListsTyped
<1>5. /\ n \in Nat \ {0}
      /\ \A k \in 1..n : k # n => k \in DOMAIN stack /\ stack'[k] = stack[k]
      /\ \A k \in DOMAIN stack : k \in 1..n /\ k # n
  BY <1>3, <1>4
<1>6. stack = <<>> => n = 1
  OBVIOUS
<1>7. stack'[n].cb = "Awake" /\ stack'[n].of = b
  <2> HIDE DEF f
  <2> QED BY <1>1, <1>3
<1>8. /\ InCallback \/ main = "static"
      /\ status[b] = "unborn" /\ status' = [status EXCEPT ![b] = "awake"]
      /\ UNCHANGED <<lists, control, started, seen, asked, outAsked>>
  BY DEF Instantiate
<1> QED BY <1>3, <1>4, <1>5, <1>6, <1>7, <1>8

(* How a stack whose top has returned looks.                               *)
LEMMA ReturnDoes ==
    ASSUME ListsTyped, stack # <<>>, stack' = Popped, NEW n, n = Len(stack)
    PROVE  /\ n \in Nat \ {0} /\ DOMAIN stack = 1..n /\ n \in DOMAIN stack
           /\ \A k \in DOMAIN stack' : k \in DOMAIN stack /\ k # n
           /\ \A k \in DOMAIN stack : k # n => k \in DOMAIN stack' /\ stack'[k] = stack[k]
           /\ Top = stack[n] /\ Top.of \in Behaviours
           /\ stack' = <<>> <=> n = 1
<1>1. /\ n \in Nat \ {0} /\ Top = stack[n]
      /\ stack' \in Seq([cb : Callbacks, of : Behaviours])
      /\ Len(stack') = n - 1
      /\ \A k \in 1..n - 1 : stack'[k] = stack[k]
  BY PoppedKeeps
<1>2. DOMAIN stack = 1..n /\ DOMAIN stack' = 1..n - 1
  BY <1>1 DEF ListsTyped
<1>3. /\ \A k \in DOMAIN stack' : k \in DOMAIN stack /\ k # n
      /\ \A k \in DOMAIN stack : k # n => k \in DOMAIN stack' /\ stack'[k] = stack[k]
  BY <1>1, <1>2
<1>4. stack' = <<>> <=> n = 1
  <2> DEFINE S == [cb : Callbacks, of : Behaviours]
  <2>1. stack' \in Seq(S) /\ Len(stack') = n - 1
    BY <1>1
  <2> HIDE DEF S
  <2> QED BY <1>1, <2>1
<1> QED BY <1>1, <1>2, <1>3, <1>4, PoppedTyped

(* An empty stack and an empty domain are the same thing.                  *)
LEMMA EmptyStack ==
    ASSUME ListsTyped
    PROVE  /\ stack = <<>> <=> 1 \notin DOMAIN stack
           /\ Len(stack) \in Nat /\ DOMAIN stack = 1..Len(stack)
           /\ stack # <<>> => Len(stack) >= 1
           /\ \A k \in DOMAIN stack : /\ stack[k].of \in Behaviours
                                      /\ stack[k].cb \in Callbacks
                                      /\ stack[k] = Frame(stack[k].cb, stack[k].of)
<1> DEFINE S == [cb : Callbacks, of : Behaviours]
<1>1. stack \in Seq(S)
  BY DEF ListsTyped
<1>2. /\ stack = <<>> <=> 1 \notin DOMAIN stack
      /\ Len(stack) \in Nat /\ DOMAIN stack = 1..Len(stack)
      /\ stack # <<>> => Len(stack) >= 1
      /\ \A k \in DOMAIN stack : stack[k] \in S
  <2> HIDE DEF S
  <2> QED BY <1>1
<1>3. \A f \in S : f.of \in Behaviours /\ f.cb \in Callbacks /\ f = Frame(f.cb, f.of)
  BY DEF Frame
<1> QED BY <1>2, <1>3

-----------------------------------------------------------------------------
(* Every step keeps the callback at the bottom of the stack in its place.  *)
LEMMA WhereKept ==
    ASSUME ListsTyped, ListsTyped', RestTyped, WhereInv, [Next]_vars
    PROVE  WhereInv'
<1> USE DEF lists, control, history
<1>1. CASE UNCHANGED vars
  BY <1>1 DEF vars, WhereInv
<1>2. ASSUME NEW b \in Behaviours, Instantiate(b) PROVE WhereInv'
  <2>1. stack # <<>> => stack'[1] = stack[1]
    BY <1>2, InstantiateDoes, EmptyStack
  <2>2. stack = <<>> => stack'[1].cb = "Awake" /\ main = "static"
    BY <1>2, InstantiateDoes DEF InCallback
  <2>3. \A k \in DOMAIN stack' : stack'[k].cb # "Awake" => k = 1
    BY <1>2, InstantiateDoes DEF WhereInv
  <2>4. stack # <<>> => main \in {"static", "updating", "hasTime", "clearing"}
    BY DEF WhereInv
  <2>5. UNCHANGED <<main, index, toDestroy>>
    BY <1>2 DEF Instantiate
  <2>6. CASE stack = <<>>
    BY <2>2, <2>3, <2>5, <2>6 DEF WhereInv
  <2>7. CASE stack # <<>>
    BY <2>1, <2>3, <2>4, <2>5, <2>7 DEF WhereInv
  <2> QED BY <2>6, <2>7
<1>3. ASSUME NEW b \in Behaviours, Destroy(b) PROVE WhereInv'
  <2>1. /\ Len(toDestroy) \in Nat /\ Len(toDestroy') = Len(toDestroy) + 1
        /\ \A k \in 1..Len(toDestroy) : toDestroy'[k] = toDestroy[k]
    BY <1>3, AppendKeeps DEF Destroy, ListsTyped
  <2> QED BY <1>3, <2>1 DEF Destroy, Asked, WhereInv, ListsTyped
<1>4. CASE PlayThanosTheme
  BY <1>4 DEF PlayThanosTheme, WhereInv
<1>5. CASE AwakeReturns
  BY <1>5, ReturnDoes, EmptyStack DEF AwakeReturns, In, InCallback, WhereInv
<1>6. CASE StartReturns
  <2>1. stack # <<>> /\ Top.cb = "Start" /\ stack' = Append(Popped, Frame("Update", Top.of))
        /\ UNCHANGED <<lists, control>>
    BY <1>6 DEF StartReturns, In, InCallback
  <2>2. Len(stack) = 1 /\ stack[1].cb = "Start" /\ main = "updating"
    BY <2>1, PoppedKeeps, EmptyStack DEF WhereInv
  <2>3. Popped = <<>>
    BY <2>2, PoppedKeeps DEF Popped
  <2>4. stack' = <<Frame("Update", Top.of)>>
    BY <2>1, <2>3
  <2>5. DOMAIN stack' = {1} /\ stack'[1].cb = "Update"
    BY <2>4 DEF Frame
  <2> QED BY <2>1, <2>2, <2>5 DEF WhereInv
<1>7. CASE UpdateReturns
  BY <1>7, ReturnDoes, EmptyStack DEF UpdateReturns, In, InCallback, WhereInv
<1>8. CASE OnDestroyReturns
  BY <1>8, ReturnDoes, EmptyStack DEF OnDestroyReturns, In, InCallback, WhereInv
<1>9. CASE StartRun
  BY <1>9 DEF StartRun, At, WhereInv
<1>10. CASE NextFrame
  BY <1>10 DEF NextFrame, At, WhereInv
<1>11. CASE CallUpdate
  BY <1>11, CallUpdateDoes DEF WhereInv, Frame
<1>12. CASE FrameDone
  BY <1>12 DEF FrameDone, At, WhereInv
<1>13. CASE DestroyNext
  <2>1. /\ main \in {"hasTime", "clearing"} /\ index' = index + 1 /\ stack = <<>>
        /\ index < Len(toDestroy) /\ toDestroy' = toDestroy
        /\ \/ stack' = stack
           \/ stack' = <<Frame("onDestroy", toDestroy[index + 1])>> /\ main' = main
    BY <1>13 DEF DestroyNext
  <2>2. index + 1 \in 1..Len(toDestroy)
    BY <2>1 DEF ListsTyped
  <2> QED BY <2>1, <2>2 DEF WhereInv, Frame
<1>14. CASE HasTimeDone
  BY <1>14 DEF HasTimeDone, WhereInv
<1> QED
  BY <1>1, <1>2, <1>3, <1>4, <1>5, <1>6, <1>7, <1>8, <1>9, <1>10, <1>11, <1>12,
     <1>13, <1>14 DEF Next, Engine, UserCode
-----------------------------------------------------------------------------
(* What the callbacks that return leave: only calls of Awake lie above     *)
(* another, so Start, Update and onDestroy return to an empty stack.       *)
LEMMA OnlyOne ==
    ASSUME ListsTyped, WhereInv, stack # <<>>, Top.cb # "Awake"
    PROVE  /\ Len(stack) = 1 /\ DOMAIN stack = {1} /\ stack[1] = Top
           /\ Top.of \in Behaviours /\ Popped = <<>>
<1>1. Len(stack) \in DOMAIN stack /\ Top = stack[Len(stack)]
  BY PoppedKeeps, EmptyStack
<1>2. Len(stack) = 1
  BY <1>1 DEF WhereInv
<1>3. Popped = <<>>
  BY <1>2 DEF Popped
<1> QED BY <1>1, <1>2, <1>3, EmptyStack, PoppedTyped

(* In which part of its life an object is called back.                     *)
LEMMA LivesAre ==
    /\ Lives("Awake") = {"awake"} /\ Lives("Start") = {"fresh"}
    /\ Lives("Update") = Born /\ Lives("onDestroy") = Born
    /\ \A cb \in Callbacks : "unborn" \notin Lives(cb) /\ "deleted" \notin Lives(cb)
BY DEF Lives, Born, Callbacks

(* Every step keeps the objects on the stack different and alive.          *)
LEMMA StackKept ==
    ASSUME ListsTyped, ListsTyped', RestTyped, WhereInv, StackInv, ListInv, [Next]_vars
    PROVE  StackInv'
<1> USE DEF lists, control, history
<1>1. CASE UNCHANGED <<stack, status>>
  BY <1>1 DEF StackInv
<1>2. ASSUME NEW b \in Behaviours, Instantiate(b) PROVE StackInv'
  <2>1. \A k \in DOMAIN stack : stack[k].of # b /\ stack[k].of \in Behaviours
    BY <1>2, InstantiateDoes, EmptyStack, LivesAre DEF StackInv
  <2> DEFINE n == Len(stack) + 1
  <2>2. /\ n \in 1..n /\ DOMAIN stack' = 1..n /\ stack'[n].cb = "Awake" /\ stack'[n].of = b
        /\ \A k \in 1..n : k # n => k \in DOMAIN stack /\ stack'[k] = stack[k]
        /\ \A k \in DOMAIN stack : k \in 1..n /\ k # n
    BY <1>2, InstantiateDoes
  <2>3. status' = [status EXCEPT ![b] = "awake"]
    BY <1>2 DEF Instantiate
  <2> HIDE DEF n
  <2>4. \A k \in DOMAIN stack' : status'[stack'[k].of] \in Lives(stack'[k].cb)
    BY <2>1, <2>2, <2>3, LivesAre DEF StackInv, RestTyped
  <2>5. \A j, k \in DOMAIN stack' : stack'[j].of = stack'[k].of => j = k
    BY <2>1, <2>2 DEF StackInv
  <2>6. \A a \in Behaviours : status'[a] = "awake" =>
            \E k \in DOMAIN stack' : stack'[k].of = a /\ stack'[k].cb = "Awake"
    BY <2>1, <2>2, <2>3 DEF StackInv, RestTyped
  <2> QED BY <2>4, <2>5, <2>6 DEF StackInv
<1>3. ASSUME NEW b \in Behaviours, Destroy(b) PROVE StackInv'
  BY <1>1, <1>3 DEF Destroy, Asked
<1>4. CASE AwakeReturns
  <2> DEFINE n == Len(stack)
  <2>1. /\ stack # <<>> /\ stack' = Popped /\ Top.cb = "Awake"
        /\ status' = [status EXCEPT ![Top.of] = "fresh"]
    BY <1>4 DEF AwakeReturns, In, InCallback
  <2>2. /\ n \in DOMAIN stack
        /\ \A k \in DOMAIN stack' : k \in DOMAIN stack /\ k # n
        /\ \A k \in DOMAIN stack : k # n => k \in DOMAIN stack' /\ stack'[k] = stack[k]
        /\ Top = stack[n] /\ Top.of \in Behaviours
    BY <2>1, ReturnDoes
  <2> HIDE DEF n
  <2>3. \A k \in DOMAIN stack' : stack[k].of # Top.of
    BY <2>2 DEF StackInv
  <2>4. \A k \in DOMAIN stack' : status'[stack'[k].of] \in Lives(stack'[k].cb)
    BY <2>1, <2>2, <2>3, EmptyStack DEF StackInv, RestTyped
  <2>5. \A j, k \in DOMAIN stack' : stack'[j].of = stack'[k].of => j = k
    BY <2>2 DEF StackInv
  <2>6. ASSUME NEW a \in Behaviours, status'[a] = "awake"
        PROVE  \E k \in DOMAIN stack' : stack'[k].of = a /\ stack'[k].cb = "Awake"
    <3>1. a # Top.of /\ status[a] = "awake"
      BY <2>1, <2>2, <2>6 DEF RestTyped
    <3>2. PICK k \in DOMAIN stack : stack[k].of = a /\ stack[k].cb = "Awake"
      BY <3>1 DEF StackInv
    <3> QED BY <2>2, <3>1, <3>2
  <2> QED BY <2>4, <2>5, <2>6 DEF StackInv
<1>5. CASE StartReturns
  <2>1. /\ stack # <<>> /\ Top.cb = "Start" /\ status' = status
        /\ stack' = Append(Popped, Frame("Update", Top.of))
    BY <1>5 DEF StartReturns, In, InCallback
  <2>2. /\ DOMAIN stack = {1} /\ stack[1] = Top /\ Top.of \in Behaviours /\ Popped = <<>>
    BY <2>1, OnlyOne
  <2>3. DOMAIN stack' = {1} /\ stack'[1].of = Top.of /\ stack'[1].cb = "Update"
    BY <2>1, <2>2 DEF Frame
  <2> QED BY <2>1, <2>2, <2>3, LivesAre DEF StackInv, Born
<1>6. CASE UpdateReturns \/ OnDestroyReturns
  <2>1. /\ stack # <<>> /\ Top.cb # "Awake" /\ stack' = Popped
        /\ \E s \in {"running", "deleted"} : status' = [status EXCEPT ![Top.of] = s]
    BY <1>6 DEF UpdateReturns, OnDestroyReturns, In, InCallback
  <2>2. /\ DOMAIN stack = {1} /\ stack[1] = Top /\ stack' = <<>>
    BY <2>1, OnlyOne
  <2>3. \A a \in Behaviours : status'[a] # "awake"
    BY <2>1, <2>2 DEF StackInv, RestTyped
  <2> QED BY <2>2, <2>3 DEF StackInv
<1>7. CASE CallUpdate
  <2> DEFINE b == allExisting[index + 1]
             cb == IF status[b] = "fresh" THEN "Start" ELSE "Update"
  <2>1. /\ b \in Behaviours /\ stack = <<>> /\ index \in Nat /\ index < Len(allExisting)
        /\ stack' = <<Frame(cb, b)>> /\ status' = status
    BY <1>7, CallUpdateDoes
  <2>2. status[b] \in Born
    BY <2>1 DEF ListInv, Elements, ListsTyped
  <2>3. DOMAIN stack' = {1} /\ stack'[1].of = b /\ stack'[1].cb = cb
    BY <2>1 DEF Frame
  <2>4. status[b] \in Lives(cb)
    BY <2>2, LivesAre DEF Born
  <2>5. \A a \in Behaviours : status[a] # "awake"
    BY <2>1, EmptyStack DEF StackInv
  <2> HIDE DEF b, cb
  <2> QED BY <2>1, <2>3, <2>4, <2>5 DEF StackInv
<1>8. CASE DestroyNext
  <2> DEFINE b == toDestroy[index + 1]
  <2>1. /\ stack = <<>> /\ status' = status /\ index < Len(toDestroy)
        /\ stack' = stack \/ (status[b] # "deleted" /\ stack' = <<Frame("onDestroy", b)>>)
    BY <1>8 DEF DestroyNext
  <2>2. b \in Behaviours /\ status[b] # "unborn"
    BY <2>1 DEF ListInv, ListsTyped
  <2>3. \A a \in Behaviours : status[a] # "awake"
    BY <2>1, EmptyStack DEF StackInv
  <2>4. CASE stack' = stack
    BY <1>1, <2>1, <2>4
  <2>5. CASE status[b] # "deleted" /\ stack' = <<Frame("onDestroy", b)>>
    <3>1. status[b] \in Born
      BY <2>2, <2>3, <2>5 DEF RestTyped, Born
    <3>2. DOMAIN stack' = {1} /\ stack'[1].of = b /\ stack'[1].cb = "onDestroy"
      BY <2>5 DEF Frame
    <3> HIDE DEF b
    <3> QED BY <2>1, <2>3, <3>1, <3>2, LivesAre DEF StackInv
  <2> QED BY <2>1, <2>4, <2>5
<1>9. CASE PlayThanosTheme \/ StartRun \/ NextFrame \/ FrameDone \/ HasTimeDone
  BY <1>1, <1>9 DEF PlayThanosTheme, StartRun, NextFrame, FrameDone, HasTimeDone
<1> QED
  BY <1>1, <1>2, <1>3, <1>4, <1>5, <1>6, <1>7, <1>8, <1>9
  DEF Next, Engine, UserCode, vars
-----------------------------------------------------------------------------
(* Where the k-th of a list was before the i-th was erased.                *)
Past(i, k) == IF k < i THEN k ELSE k + 1

(* The places of a list with one place erased.                             *)
LEMMA ErasedPlaces ==
    ASSUME NEW S, NEW s \in Seq(S), NEW i \in DOMAIN s, NEW n, n = Len(s)
    PROVE  /\ n \in Nat /\ i \in 1..n /\ DOMAIN s = 1..n
           /\ DOMAIN Erased(s, i) = 1..n - 1
           /\ \A k \in 1..n - 1 : Erased(s, i)[k] = s[Past(i, k)]
<1> DEFINE u == SubSeq(s, 1, i - 1)
           v == SubSeq(s, i + 1, n)
<1>1. n \in Nat /\ i \in 1..n /\ DOMAIN s = 1..n
  OBVIOUS
<1>2. /\ u \in Seq(S) /\ Len(u) = i - 1
      /\ \A k \in 1..i - 1 : u[k] = s[k]
  <2>1. \A k \in 1..i - 1 : s[k] \in S
    BY <1>1
  <2>2. /\ u \in Seq(S) /\ Len(u) = IF 1 <= i - 1 THEN i - 1 - 1 + 1 ELSE 0
        /\ \A k \in 1..i - 1 - 1 + 1 : u[k] = s[1 + k - 1]
    BY <1>1, <2>1, SubSeqProperties
  <2> HIDE DEF u
  <2> QED BY <1>1, <2>2
<1>3. /\ v \in Seq(S) /\ Len(v) = n - i
      /\ \A k \in 1..n - i : v[k] = s[i + k]
  <2>1. \A k \in i + 1..n : s[k] \in S
    BY <1>1
  <2>2. /\ v \in Seq(S) /\ Len(v) = IF i + 1 <= n THEN n - (i + 1) + 1 ELSE 0
        /\ \A k \in 1..n - (i + 1) + 1 : v[k] = s[i + 1 + k - 1]
    BY <1>1, <2>1, SubSeqProperties
  <2> HIDE DEF v
  <2>3. Len(v) = n - i
    BY <1>1, <2>2
  <2>4. ASSUME NEW k \in 1..n - i PROVE v[k] = s[i + k]
    <3>1. k \in 1..n - (i + 1) + 1 /\ i + 1 + k - 1 = i + k
      BY <1>1
    <3> QED BY <2>2, <3>1
  <2> QED BY <2>2, <2>3, <2>4
<1>4. Erased(s, i) = u \o v
  BY DEF Erased
<1> HIDE DEF u, v
<1>5. /\ u \o v \in Seq(S) /\ Len(u \o v) = Len(u) + Len(v)
      /\ \A k \in 1..Len(u) + Len(v) :
            (u \o v)[k] = IF k <= Len(u) THEN u[k] ELSE v[k - Len(u)]
  BY <1>2, <1>3, ConcatProperties
<1>6. Len(u \o v) = n - 1 /\ DOMAIN (u \o v) = 1..n - 1
  BY <1>1, <1>2, <1>3, <1>5
<1>7. ASSUME NEW k \in 1..n - 1 PROVE (u \o v)[k] = s[Past(i, k)]
  <2>1. CASE k < i
    BY <1>1, <1>2, <1>3, <1>5, <2>1 DEF Past
  <2>2. CASE ~(k < i)
    <3>1. k - (i - 1) \in 1..n - i /\ i + (k - (i - 1)) = k + 1
      BY <1>1, <2>2
    <3>2. v[k - (i - 1)] = s[k + 1]
      BY <1>3, <3>1
    <3>3. (u \o v)[k] = v[k - (i - 1)]
      BY <1>1, <1>2, <1>3, <1>5, <2>2
    <3> QED BY <2>2, <3>2, <3>3 DEF Past
  <2> QED BY <2>1, <2>2
<1> QED BY <1>1, <1>4, <1>6, <1>7

(* What hasTime leaves of a list that holds everything once: everything    *)
(* but b, once.                                                            *)
LEMMA WithoutElements ==
    ASSUME NEW s \in Seq(Behaviours), NEW b \in Behaviours,
           \A j, k \in DOMAIN s : s[j] = s[k] => j = k
    PROVE  /\ Elements(Without(s, b)) = Elements(s) \ {b}
           /\ \A j, k \in DOMAIN Without(s, b) :
                 Without(s, b)[j] = Without(s, b)[k] => j = k
<1>1. CASE b \notin Elements(s)
  BY <1>1 DEF Without, Elements
<1>2. CASE b \in Elements(s)
  <2>1. PICK i \in DOMAIN s : s[i] = b
    BY <1>2 DEF Elements
  <2>2. Without(s, b) = Erased(s, i)
    <3> DEFINE IsLast(p) == s[p] = b /\ \A k \in DOMAIN s : s[k] = b => k <= p
    <3>1. IsLast(i) /\ \A p \in DOMAIN s : IsLast(p) => p = i
      BY <2>1
    <3>2. (CHOOSE p \in DOMAIN s : IsLast(p)) = i
      BY <3>1
    <3> QED BY <1>2, <3>2 DEF Without
  <2> DEFINE n == Len(s)
             t == Erased(s, i)
  <2>3. /\ n \in Nat /\ i \in 1..n /\ DOMAIN s = 1..n /\ DOMAIN t = 1..n - 1
        /\ \A k \in 1..n - 1 : t[k] = s[Past(i, k)]
    BY ErasedPlaces
  <2>4. /\ \A k \in 1..n - 1 : Past(i, k) \in 1..n /\ Past(i, k) # i
        /\ \A j, k \in 1..n - 1 : Past(i, j) = Past(i, k) => j = k
    <3> HIDE DEF n
    <3> QED BY <2>3 DEF Past
  <2> HIDE DEF t, n
  <2>5. \A j, k \in DOMAIN t : t[j] = t[k] => j = k
    BY <2>3, <2>4
  <2>6. \A k \in DOMAIN t : t[k] \in Elements(s) \ {b}
    BY <2>1, <2>3, <2>4 DEF Elements
  <2>7. ASSUME NEW a \in Elements(s) \ {b} PROVE \E k \in DOMAIN t : t[k] = a
    <3>1. PICK k \in 1..n : s[k] = a
      BY <2>3 DEF Elements
    <3>2. k # i
      BY <2>1, <3>1
    <3>3. CASE k < i
      <4>1. k \in 1..n - 1 /\ Past(i, k) = k
        BY <2>3, <3>1, <3>3 DEF Past
      <4> QED BY <2>3, <3>1, <4>1
    <3>4. CASE k > i
      <4>1. k - 1 \in 1..n - 1 /\ Past(i, k - 1) = k
        BY <2>3, <3>1, <3>4 DEF Past
      <4> QED BY <2>3, <3>1, <4>1
    <3> QED BY <2>3, <3>2, <3>3, <3>4
  <2>8. Elements(t) = Elements(s) \ {b}
    <3>1. \A a : a \in Elements(t) <=> \E k \in DOMAIN t : t[k] = a
      BY DEF Elements
    <3> QED BY <2>6, <2>7, <3>1
  <2> QED BY <2>2, <2>5, <2>8 DEF t
<1> QED BY <1>1, <1>2
-----------------------------------------------------------------------------
(* The start and the end of a call of Awake leave the call at the bottom   *)
(* of the stack, or there is none but Awake.                               *)
LEMMA BottomKept ==
    ASSUME ListsTyped, AwakeReturns \/ \E b \in Behaviours : Instantiate(b), NEW a
    PROVE  (Going(a)' <=> Going(a)) /\ (InFirst(a)' <=> InFirst(a))
<1>1. ASSUME NEW b \in Behaviours, Instantiate(b)
      PROVE  (Going(a)' <=> Going(a)) /\ (InFirst(a)' <=> InFirst(a))
  <2>1. stack # <<>> => stack'[1] = stack[1]
    BY <1>1, InstantiateDoes, EmptyStack
  <2>2. stack = <<>> => stack'[1].cb = "Awake"
    BY <1>1, InstantiateDoes
  <2>3. stack' # <<>>
    BY <1>1, InstantiateDoes
  <2> QED BY <2>1, <2>2, <2>3 DEF Going, InFirst
<1>2. CASE AwakeReturns
  <2> DEFINE n == Len(stack)
  <2>1. stack # <<>> /\ stack' = Popped /\ Top.cb = "Awake"
    BY <1>2 DEF AwakeReturns, In, InCallback
  <2>2. /\ (stack' = <<>> <=> n = 1) /\ stack[n].cb = "Awake"
        /\ 1 \in DOMAIN stack
        /\ \A k \in DOMAIN stack : k # n => stack'[k] = stack[k]
    BY <2>1, ReturnDoes, EmptyStack
  <2> HIDE DEF n
  <2>3. CASE n = 1
    BY <2>1, <2>2, <2>3 DEF Going, InFirst
  <2>4. CASE n # 1
    BY <2>1, <2>2, <2>4 DEF Going, InFirst
  <2> QED BY <2>3, <2>4
<1> QED BY <1>1, <1>2

(* Every step keeps the list of the factory exact.                         *)
LEMMA ListKept ==
    ASSUME ListsTyped, RestTyped, WhereInv, StackInv, ListInv, [Next]_vars
    PROVE  ListInv'
<1> USE DEF lists, control, history
<1>1. ASSUME UNCHANGED <<allExisting, toDestroy>>,
             \A a \in Behaviours : Going(a)' <=> Going(a),
             \A a \in Behaviours :
                 /\ status[a] # "unborn" => status'[a] # "unborn"
                 /\ status'[a] \in Born <=> status[a] \in Born
      PROVE  ListInv'
  BY <1>1 DEF ListInv, Elements, ListsTyped
<1>2. CASE UNCHANGED <<allExisting, toDestroy, stack, status>>
  BY <1>1, <1>2 DEF Going
<1>3. ASSUME NEW b \in Behaviours, Instantiate(b) PROVE ListInv'
  <2>1. \A a \in Behaviours : Going(a)' <=> Going(a)
    BY <1>3, BottomKept
  <2> QED BY <1>1, <1>3, <2>1 DEF Instantiate, RestTyped, Born
<1>4. ASSUME NEW b \in Behaviours, Destroy(b) PROVE ListInv'
  <2>1. /\ Len(toDestroy) \in Nat /\ DOMAIN toDestroy' = 1..Len(toDestroy) + 1
        /\ toDestroy'[Len(toDestroy) + 1] = b
        /\ \A k \in 1..Len(toDestroy) : toDestroy'[k] = toDestroy[k]
    BY <1>4, AppendKeeps DEF Destroy, ListsTyped
  <2>2. \A k \in DOMAIN toDestroy' : status[toDestroy'[k]] # "unborn"
    BY <1>4, <2>1 DEF Destroy, Asked, ListInv, ListsTyped
  <2> QED BY <1>4, <2>2 DEF Destroy, Asked, ListInv, Going
<1>5. CASE AwakeReturns
  <2> DEFINE n == Len(stack)
             b == Top.of
  <2>1. /\ stack # <<>> /\ stack' = Popped /\ Top.cb = "Awake"
        /\ status' = [status EXCEPT ![b] = "fresh"]
        /\ allExisting' = Append(allExisting, b) /\ toDestroy' = toDestroy
    BY <1>5 DEF AwakeReturns, In, InCallback
  <2>2. /\ n \in DOMAIN stack /\ (stack' = <<>> <=> n = 1)
        /\ \A k \in DOMAIN stack : k # n => k \in DOMAIN stack' /\ stack'[k] = stack[k]
        /\ Top = stack[n] /\ b \in Behaviours
    BY <2>1, ReturnDoes
  <2>3. status[b] = "awake"
    BY <2>1, <2>2, LivesAre DEF StackInv
  <2>4. \A a \in Behaviours : Going(a)' <=> Going(a)
    BY <1>5, BottomKept
  <2>5. ~Going(b)
    BY <2>1, <2>2, EmptyStack DEF Going, StackInv
  <2> DEFINE m == Len(allExisting)
  <2>6. /\ m \in Nat /\ DOMAIN allExisting = 1..m /\ DOMAIN allExisting' = 1..m + 1
        /\ allExisting'[m + 1] = b
        /\ \A k \in 1..m : allExisting'[k] = allExisting[k]
    BY <2>1, <2>2, AppendKeeps DEF ListsTyped
  <2>7. \A k \in 1..m : allExisting[k] # b
    BY <2>2, <2>3, <2>6 DEF ListInv, Elements, Born
  <2> HIDE DEF n, m
  <2>8. \A j, k \in DOMAIN allExisting' : allExisting'[j] = allExisting'[k] => j = k
    BY <2>6, <2>7 DEF ListInv
  <2>9. \A a \in Behaviours :
           a \in Elements(allExisting)' <=> a = b \/ a \in Elements(allExisting)
    BY <2>6 DEF Elements
  <2>10. \A a \in Behaviours : a \in Elements(allExisting)' <=> status'[a] \in Born /\ ~Going(a)'
    BY <2>1, <2>2, <2>4, <2>5, <2>9 DEF ListInv, RestTyped, Born
  <2>11. \A k \in DOMAIN toDestroy' : status'[toDestroy'[k]] # "unborn"
    BY <2>1, <2>2 DEF ListInv, RestTyped, ListsTyped
  <2> QED BY <2>8, <2>10, <2>11 DEF ListInv
<1>6. CASE StartReturns
  <2>1. /\ stack # <<>> /\ Top.cb = "Start" /\ status' = status
        /\ stack' = Append(Popped, Frame("Update", Top.of))
        /\ UNCHANGED <<allExisting, toDestroy>>
    BY <1>6 DEF StartReturns, In, InCallback
  <2>2. stack[1] = Top /\ stack' = <<Frame("Update", Top.of)>>
    BY <2>1, OnlyOne
  <2>3. \A a \in Behaviours : ~Going(a) /\ ~Going(a)'
    BY <2>1, <2>2 DEF Going, Frame
  <2> QED BY <1>1, <2>1, <2>3
<1>7. CASE UpdateReturns
  <2>1. /\ stack # <<>> /\ Top.cb = "Update" /\ stack' = Popped
        /\ status' = [status EXCEPT ![Top.of] = "running"]
        /\ UNCHANGED <<allExisting, toDestroy>>
    BY <1>7 DEF UpdateReturns, In, InCallback
  <2>2. stack[1] = Top /\ stack' = <<>> /\ Top.of \in Behaviours /\ 1 \in DOMAIN stack
    BY <2>1, OnlyOne
  <2>3. status[Top.of] \in Born
    BY <2>1, <2>2, LivesAre DEF StackInv
  <2>4. \A a \in Behaviours : ~Going(a) /\ ~Going(a)'
    BY <2>1, <2>2 DEF Going
  <2> QED BY <1>1, <2>1, <2>2, <2>3, <2>4 DEF Born, RestTyped
<1>8. CASE OnDestroyReturns
  <2>1. /\ stack # <<>> /\ Top.cb = "onDestroy" /\ stack' = Popped
        /\ status' = [status EXCEPT ![Top.of] = "deleted"]
        /\ UNCHANGED <<allExisting, toDestroy>>
    BY <1>8 DEF OnDestroyReturns, In, InCallback
  <2>2. stack[1] = Top /\ stack' = <<>> /\ Top.of \in Behaviours
    BY <2>1, OnlyOne
  <2>3. \A a \in Behaviours : (Going(a) <=> a = Top.of) /\ ~Going(a)'
    BY <2>1, <2>2 DEF Going
  <2>4. \A a \in Behaviours : a \in Elements(allExisting)' <=> status'[a] \in Born /\ ~Going(a)'
    BY <2>1, <2>2, <2>3 DEF ListInv, RestTyped, Born, Elements
  <2>5. \A k \in DOMAIN toDestroy' : status'[toDestroy'[k]] # "unborn"
    BY <2>1, <2>2 DEF ListInv, RestTyped, ListsTyped
  <2> QED BY <2>1, <2>4, <2>5 DEF ListInv
<1>9. CASE NextFrame
  <2>1. \A k \in DOMAIN toDestroy' : status[toDestroy'[k]] # "unborn"
    <3>1. CASE toDestroy' = toDestroy
      BY <3>1 DEF ListInv
    <3>2. CASE toDestroy' = toDestroy \o allExisting
      <4>1. \A k \in DOMAIN allExisting : status[allExisting[k]] # "unborn"
        BY DEF ListInv, ListsTyped, Elements, Born
      <4> DEFINE m == Len(toDestroy)
                 n == Len(allExisting)
      <4>2. /\ m \in Nat /\ n \in Nat /\ DOMAIN toDestroy = 1..m /\ DOMAIN allExisting = 1..n
            /\ DOMAIN toDestroy' = 1..m + n
            /\ \A k \in 1..m + n : toDestroy'[k] =
                  IF k <= m THEN toDestroy[k] ELSE allExisting[k - m]
        BY <3>2, ConcatProperties DEF ListsTyped
      <4> HIDE DEF m, n
      <4>3. ASSUME NEW k \in 1..m + n PROVE status[toDestroy'[k]] # "unborn"
        <5>1. CASE k <= m
          BY <4>2, <5>1 DEF ListInv
        <5>2. CASE ~(k <= m)
          <6>1. k - m \in 1..n
            BY <4>2, <5>2
          <6> QED BY <4>1, <4>2, <5>2, <6>1
        <5> QED BY <5>1, <5>2
      <4> QED BY <4>2, <4>3
    <3> QED BY <1>9, <3>1, <3>2 DEF NextFrame
  <2> QED BY <1>9, <2>1 DEF NextFrame, ListInv, Going
<1>10. CASE CallUpdate
  <2>1. /\ stack = <<>> /\ UNCHANGED <<allExisting, toDestroy, status>>
        /\ stack' = <<Frame(IF status[allExisting[index + 1]] = "fresh"
                            THEN "Start" ELSE "Update", allExisting[index + 1])>>
    BY <1>10, CallUpdateDoes
  <2>2. \A a \in Behaviours : ~Going(a) /\ ~Going(a)'
    BY <2>1 DEF Going, Frame
  <2> QED BY <1>1, <2>1, <2>2
<1>11. CASE DestroyNext
  <2> DEFINE b == toDestroy[index + 1]
  <2>1. /\ stack = <<>> /\ UNCHANGED <<status, toDestroy>> /\ index < Len(toDestroy)
        /\ allExisting' = Without(allExisting, b)
        /\ \/ status[b] = "deleted" /\ stack' = stack
           \/ status[b] # "deleted" /\ stack' = <<Frame("onDestroy", b)>>
    BY <1>11 DEF DestroyNext
  <2>2. b \in Behaviours
    BY <2>1 DEF ListsTyped
  <2>3. /\ Elements(allExisting)' = Elements(allExisting) \ {b}
        /\ \A j, k \in DOMAIN allExisting' : allExisting'[j] = allExisting'[k] => j = k
    <3>1. \A j, k \in DOMAIN allExisting : allExisting[j] = allExisting[k] => j = k
      BY DEF ListInv
    <3>2. Elements(allExisting)' = Elements(Without(allExisting, b))
      BY <2>1 DEF Elements
    <3> QED BY <2>1, <2>2, <3>1, <3>2, WithoutElements DEF ListsTyped
  <2>4. \A a \in Behaviours : ~Going(a) /\ (Going(a)' <=> a = b /\ status[b] # "deleted")
    BY <2>1 DEF Going, Frame
  <2>5. \A a \in Behaviours : a \in Elements(allExisting)' <=> status'[a] \in Born /\ ~Going(a)'
    BY <2>1, <2>3, <2>4 DEF ListInv, Born
  <2> QED BY <2>1, <2>3, <2>5 DEF ListInv
<1>12. CASE HasTimeDone
  BY <1>12 DEF HasTimeDone, ListInv, Going
<1>13. CASE PlayThanosTheme \/ StartRun \/ FrameDone
  BY <1>2, <1>13 DEF PlayThanosTheme, StartRun, FrameDone
<1> QED
  BY <1>2, <1>3, <1>4, <1>5, <1>6, <1>7, <1>8, <1>9, <1>10, <1>11, <1>12, <1>13
  DEF Next, Engine, UserCode, vars
-----------------------------------------------------------------------------
(* Every step keeps the count of Start what the status says.               *)
LEMMA StartKept ==
    ASSUME ListsTyped, RestTyped, WhereInv, StackInv, ListInv, StartInv, [Next]_vars
    PROVE  StartInv'
<1> USE DEF lists, control, history
<1>1. CASE UNCHANGED <<stack, status, started>>
  BY <1>1 DEF StartInv, InFirst
<1>2. ASSUME NEW b \in Behaviours, Instantiate(b) PROVE StartInv'
  <2>1. /\ status[b] = "unborn" /\ status' = [status EXCEPT ![b] = "awake"]
        /\ started' = started
    BY <1>2 DEF Instantiate
  <2>2. \A a \in Behaviours : InFirst(a)' <=> InFirst(a)
    BY <1>2, BottomKept
  <2> QED BY <2>1, <2>2 DEF StartInv, RestTyped
<1>3. ASSUME NEW b \in Behaviours, Destroy(b) PROVE StartInv'
  BY <1>1, <1>3 DEF Destroy, Asked
<1>4. CASE AwakeReturns
  <2> DEFINE n == Len(stack)
             b == Top.of
  <2>1. /\ stack # <<>> /\ stack' = Popped /\ Top.cb = "Awake" /\ started' = started
        /\ status' = [status EXCEPT ![b] = "fresh"]
    BY <1>4 DEF AwakeReturns, In, InCallback
  <2>2. n \in DOMAIN stack /\ Top = stack[n] /\ b \in Behaviours
    BY <2>1, ReturnDoes
  <2>3. stack[n].cb = "Awake" /\ stack[n].of = b
    BY <2>1, <2>2, EmptyStack
  <2>4. status[b] = "awake"
    BY <2>2, <2>3, LivesAre DEF StackInv
  <2> HIDE DEF n, b
  <2>5. \A a \in Behaviours : InFirst(a)' <=> InFirst(a)
    BY <1>4, BottomKept
  <2>6. ~InFirst(b)
    BY <2>2, <2>3, EmptyStack DEF InFirst, StackInv
  <2> QED BY <2>1, <2>2, <2>4, <2>5, <2>6 DEF StartInv, RestTyped
<1>5. CASE StartReturns
  <2>1. /\ stack # <<>> /\ Top.cb = "Start" /\ UNCHANGED <<status, started>>
        /\ stack' = Append(Popped, Frame("Update", Top.of))
    BY <1>5 DEF StartReturns, In, InCallback
  <2>2. stack[1] = Top /\ stack' = <<Frame("Update", Top.of)>>
    BY <2>1, OnlyOne
  <2>3. \A a \in Behaviours : InFirst(a)' <=> InFirst(a)
    BY <2>1, <2>2 DEF InFirst, Frame
  <2> QED BY <2>1, <2>3 DEF StartInv
<1>6. CASE UpdateReturns
  <2>1. /\ stack # <<>> /\ Top.cb = "Update" /\ stack' = Popped /\ started' = started
        /\ status' = [status EXCEPT ![Top.of] = "running"]
    BY <1>6 DEF UpdateReturns, In, InCallback
  <2>2. stack[1] = Top /\ stack' = <<>> /\ Top.of \in Behaviours /\ 1 \in DOMAIN stack
    BY <2>1, OnlyOne
  <2>3. InFirst(Top.of) /\ \A a \in Behaviours : InFirst(a) => a = Top.of
    BY <2>1, <2>2 DEF InFirst
  <2>4. status[Top.of] \in Born
    BY <2>1, <2>2, LivesAre DEF StackInv
  <2>5. started[Top.of] = 1
    BY <2>2, <2>3, <2>4 DEF StartInv, Born
  <2>6. \A a \in Behaviours : ~InFirst(a)'
    BY <2>2 DEF InFirst
  <2> QED BY <2>1, <2>2, <2>3, <2>5, <2>6 DEF StartInv, RestTyped
<1>7. CASE OnDestroyReturns
  <2>1. /\ stack # <<>> /\ Top.cb = "onDestroy" /\ stack' = Popped /\ started' = started
        /\ status' = [status EXCEPT ![Top.of] = "deleted"]
    BY <1>7 DEF OnDestroyReturns, In, InCallback
  <2>2. stack[1] = Top /\ stack' = <<>> /\ Top.of \in Behaviours
    BY <2>1, OnlyOne
  <2>3. \A a \in Behaviours : ~InFirst(a) /\ ~InFirst(a)'
    BY <2>1, <2>2 DEF InFirst
  <2> QED BY <2>1, <2>2, <2>3 DEF StartInv, RestTyped
<1>8. CASE CallUpdate
  <2> DEFINE b == allExisting[index + 1]
             cb == IF status[b] = "fresh" THEN "Start" ELSE "Update"
  <2>1. /\ b \in Behaviours /\ stack = <<>> /\ status' = status
        /\ index \in Nat /\ index < Len(allExisting)
        /\ stack' = <<Frame(cb, b)>>
        /\ started' = [started EXCEPT ![b] = IF status[b] = "fresh" THEN @ + 1 ELSE @]
    BY <1>8, CallUpdateDoes
  <2>2. status[b] \in Born
    BY <2>1 DEF ListInv, Elements, ListsTyped
  <2>3. stack' # <<>> /\ stack'[1].of = b /\ stack'[1].cb \in {"Start", "Update"}
    BY <2>1 DEF Frame
  <2> HIDE DEF b, cb
  <2>4. \A a \in Behaviours : ~InFirst(a) /\ (InFirst(a)' <=> a = b)
    BY <2>1, <2>3 DEF InFirst
  <2> QED BY <2>1, <2>2, <2>4 DEF StartInv, RestTyped, Born
<1>9. CASE DestroyNext
  <2>1. /\ stack = <<>> /\ UNCHANGED <<status, started>>
        /\ \/ stack' = stack
           \/ stack' = <<Frame("onDestroy", toDestroy[index + 1])>>
    BY <1>9 DEF DestroyNext
  <2>2. \A a \in Behaviours : ~InFirst(a) /\ ~InFirst(a)'
    BY <2>1 DEF InFirst, Frame
  <2> QED BY <2>1, <2>2 DEF StartInv
<1>10. CASE PlayThanosTheme \/ StartRun \/ NextFrame \/ FrameDone \/ HasTimeDone
  BY <1>1, <1>10 DEF PlayThanosTheme, StartRun, NextFrame, FrameDone, HasTimeDone
<1> QED
  BY <1>1, <1>2, <1>3, <1>4, <1>5, <1>6, <1>7, <1>8, <1>9, <1>10
  DEF Next, Engine, UserCode, vars

(* Every step keeps the whole invariant.                                   *)
LEMMA LifeInvInductive ==
    ASSUME FrameInv, LifeInv, [Next]_vars
    PROVE  LifeInv'
<1>1. ListsTyped'
  BY FrameInvInductive DEF FrameInv
<1>2. RestTyped' /\ WhereInv' /\ StackInv' /\ ListInv' /\ StartInv'
  BY <1>1, RestTypedKept, WhereKept, StackKept, ListKept, StartKept DEF LifeInv
<1> QED BY <1>1, <1>2 DEF LifeInv

(* The invariant holds in every state the engine reaches.                  *)
LEMMA LifeInvHolds == Spec => [](FrameInv /\ LifeInv)
<1>1. Init => FrameInv /\ LifeInv
  <2> SUFFICES ASSUME Init PROVE FrameInv /\ LifeInv
    OBVIOUS
  <2>1. FrameInv
    BY DEF Init, FrameInv, ListsTyped, InListOrder
  <2>2. RestTyped
    <3>1. asked \in [Behaviours -> 0..MaxAsks]
      BY AsksAssumption DEF Init
    <3>2. started \in [Behaviours -> Nat]
      BY DEF Init
    <3>3. status \in [Behaviours -> {"unborn", "awake", "fresh", "running", "deleted"}]
      BY DEF Init
    <3> QED BY <3>1, <3>2, <3>3 DEF Init, RestTyped
  <2>3. WhereInv /\ StackInv
    BY DEF Init, WhereInv, StackInv
  <2>4. ListInv /\ StartInv
    BY DEF Init, ListInv, StartInv, Elements, Born
  <2> QED BY <2>1, <2>2, <2>3, <2>4 DEF LifeInv, FrameInv
<1>2. FrameInv /\ LifeInv /\ [Next]_vars => (FrameInv /\ LifeInv)'
  BY FrameInvInductive, LifeInvInductive
<1> QED BY <1>1, <1>2, PTL DEF Spec

(* Whatever the callbacks make, destroy and end, a frame calls the objects *)
(* of behaviourFactory's list in its order and each once: nothing that     *)
(* runs in the middle of run's loop takes an element out of the list, and  *)
(* what is made goes to its end.  No callback is called of an object that  *)
(* was deleted, nor is one deleted while a callback of it is under way.    *)
THEOREM FrameCallsEachOnce == Spec => []EachOncePerFrame
<1>1. LifeInv => NoDeletedCalled
  <2> SUFFICES ASSUME LifeInv, NEW i \in DOMAIN stack, status[stack[i].of] = "deleted"
               PROVE  FALSE
    BY DEF NoDeletedCalled
  <2>1. "deleted" \in Lives(stack[i].cb)
    BY DEF LifeInv, StackInv
  <2> QED BY <2>1 DEF Lives, Born
<1>2. FrameInv /\ LifeInv => EachOncePerFrame
  BY <1>1 DEF FrameInv, EachOncePerFrame
<1> QED BY <1>2, LifeInvHolds, PTL

(* The lists hold objects of the game, and what is called of an object is  *)
(* one of its four callbacks; Start is counted up to one.                  *)
THEOREM LifecycleTypeCorrect == Spec => []TypeOK
<1>1. LifeInv => TypeOK
  <2> SUFFICES ASSUME LifeInv PROVE TypeOK
    OBVIOUS
  <2>1. started \in [Behaviours -> 0..1]
    BY DEF LifeInv, RestTyped, StartInv
  <2> QED BY <2>1 DEF LifeInv, ListsTyped, RestTyped, TypeOK
<1> QED BY <1>1, LifeInvHolds, PTL

(* However the callbacks nest, and whatever they make and destroy          *)
(* meanwhile, Start is called once for an object, and before its Update.   *)
THEOREM StartComesFirst == Spec => []StartedOnce
<1>1. LifeInv => StartedOnce
  <2> SUFFICES ASSUME LifeInv PROVE StartedOnce
    OBVIOUS
  <2>1. ASSUME NEW b \in Behaviours, NEW i \in DOMAIN stack, stack[i] = Frame("Update", b)
        PROVE  started[b] = 1
    <3>1. stack[i].cb = "Update" /\ stack[i].of = b
      BY <2>1 DEF Frame
    <3>2. i = 1 /\ InFirst(b)
      BY <2>1, <3>1, EmptyStack DEF LifeInv, WhereInv, InFirst
    <3>3. status[b] \in Born
      BY <2>1, <3>1, LivesAre DEF LifeInv, StackInv
    <3> QED BY <3>2, <3>3 DEF LifeInv, StartInv, Born
  <2> QED BY <2>1 DEF LifeInv, StartInv, StartedOnce
<1> QED BY <1>1, LifeInvHolds, PTL

-----------------------------------------------------------------------------
(* What clear() still has to destroy: what exists and was not made during  *)
(* it is being destroyed, or is queued where hasTime has not been yet.     *)
LeftToGo(b) == Going(b) \/ \E i \in DOMAIN toDestroy : i > index /\ toDestroy[i] = b
SurviveInv == \A b \in Behaviours \ lateBorn :
    /\ main \in {"clearing", "ended"} => status[b] # "awake"
    /\ main = "clearing" /\ status[b] \in Born => LeftToGo(b)
    /\ main = "ended" => status[b] \notin Born

(* The queue when destroy appends to it.                                   *)
LEMMA DestroyDoes ==
    ASSUME ListsTyped, NEW b \in Behaviours, Destroy(b)
    PROVE  /\ Len(toDestroy) \in Nat /\ DOMAIN toDestroy = 1..Len(toDestroy)
           /\ DOMAIN toDestroy' = 1..Len(toDestroy) + 1
           /\ toDestroy'[Len(toDestroy) + 1] = b
           /\ \A k \in DOMAIN toDestroy :
                 k \in DOMAIN toDestroy' /\ toDestroy'[k] = toDestroy[k]
           /\ UNCHANGED <<allExisting, main, index, status, stack, lateBorn>>
           /\ \A a \in Behaviours : Going(a)' <=> Going(a)
<1> USE DEF control, history, lists
<1> DEFINE m == Len(toDestroy)
<1>1. /\ m \in Nat /\ DOMAIN toDestroy = 1..m /\ DOMAIN toDestroy' = 1..m + 1
      /\ toDestroy'[m + 1] = b
      /\ \A k \in 1..m : toDestroy'[k] = toDestroy[k]
  BY AppendKeeps DEF Destroy, ListsTyped
<1>2. UNCHANGED <<allExisting, main, index, status, stack, lateBorn>>
  BY DEF Destroy, Asked
<1>3. \A a \in Behaviours : Going(a)' <=> Going(a)
  BY <1>2 DEF Going
<1>4. \A k \in DOMAIN toDestroy :
         k \in DOMAIN toDestroy' /\ toDestroy'[k] = toDestroy[k]
  BY <1>1
<1> QED BY <1>1, <1>2, <1>3, <1>4

(* The queue when clear() appends the factory's list to it.                *)
LEMMA ClearDoes ==
    ASSUME ListsTyped, NextFrame, endGame,
           NEW m, m = Len(toDestroy), NEW n, n = Len(allExisting)
    PROVE  /\ m \in Nat /\ DOMAIN toDestroy = 1..m
           /\ n \in Nat /\ DOMAIN allExisting = 1..n
           /\ DOMAIN toDestroy' = 1..m + n
           /\ \A k \in 1..m : toDestroy'[k] = toDestroy[k]
           /\ \A k \in 1..n : toDestroy'[m + k] = allExisting[k]
           /\ \A k \in 1..m + n : k \in 1..m \/ \E j \in 1..n : k = m + j
<1>1. toDestroy' = toDestroy \o allExisting
  BY DEF NextFrame
<1>2. /\ m \in Nat /\ DOMAIN toDestroy = 1..m
      /\ n \in Nat /\ DOMAIN allExisting = 1..n
      /\ DOMAIN toDestroy' = 1..m + n
      /\ \A k \in 1..m + n : toDestroy'[k] =
            IF k <= m THEN toDestroy[k] ELSE allExisting[k - m]
  BY <1>1, ConcatProperties DEF ListsTyped
<1>3. ASSUME NEW k \in 1..n PROVE toDestroy'[m + k] = allExisting[k]
  <2>1. m + k \in 1..m + n /\ ~(m + k <= m) /\ (m + k) - m = k
    BY <1>2
  <2> QED BY <1>2, <2>1
<1>4. ASSUME NEW k \in 1..m + n PROVE k \in 1..m \/ \E j \in 1..n : k = m + j
  <2>1. k <= m => k \in 1..m
    BY <1>2
  <2>2. ~(k <= m) => k - m \in 1..n /\ k = m + (k - m)
    BY <1>2
  <2> QED BY <2>1, <2>2
<1>5. \A k \in 1..m : k \in 1..m + n /\ k <= m
  BY <1>2
<1> QED BY <1>2, <1>3, <1>4, <1>5

(* What hasTime does with the next one.                                    *)
LEMMA DestroyNextDoes ==
    ASSUME ListsTyped, DestroyNext, NEW b, b = toDestroy[index + 1]
    PROVE  /\ b \in Behaviours /\ main \in {"hasTime", "clearing"} /\ stack = <<>>
           /\ index \in Nat /\ index' = index + 1 /\ index + 1 \in DOMAIN toDestroy
           /\ UNCHANGED <<toDestroy, status, history>>
           /\ status[b] = "deleted" => main' = "undefined" /\ stack' = stack
           /\ status[b] # "deleted" => main' = main /\ stack' = <<Frame("onDestroy", b)>>
           /\ \A a : ~Going(a) /\ (Going(a)' <=> a = b /\ status[b] # "deleted")
<1>1. /\ main \in {"hasTime", "clearing"} /\ stack = <<>>
      /\ index < Len(toDestroy) /\ index' = index + 1
      /\ UNCHANGED <<toDestroy, status, history>>
      /\ status[b] = "deleted" => main' = "undefined" /\ stack' = stack
      /\ status[b] # "deleted" => main' = main /\ stack' = <<Frame("onDestroy", b)>>
  BY DEF DestroyNext
<1>2. index \in Nat /\ index + 1 \in DOMAIN toDestroy /\ b \in Behaviours
  BY <1>1 DEF ListsTyped
<1>3. \A a : ~Going(a) /\ (Going(a)' <=> a = b /\ status[b] # "deleted")
  BY <1>1 DEF Going, Frame
<1> QED BY <1>1, <1>2, <1>3

(* Every step of clear() keeps what is left within its reach.              *)
LEMMA SurviveKept ==
    ASSUME LifeInv, SurviveInv, [Next]_vars
    PROVE  SurviveInv'
<1> USE DEF lists, control, history, LifeInv
<1>1. CASE UNCHANGED <<main, index, status, stack, toDestroy, lateBorn>>
  BY <1>1 DEF SurviveInv, LeftToGo, Going
<1>2. CASE main' \notin {"clearing", "ended"}
  BY <1>2 DEF SurviveInv
<1>3. ASSUME NEW b \in Behaviours, Instantiate(b) PROVE SurviveInv'
  <2>1. /\ UNCHANGED <<main, index, toDestroy>>
        /\ status' = [status EXCEPT ![b] = "awake"]
        /\ lateBorn' = IF main = "clearing" THEN lateBorn \cup {b} ELSE lateBorn
        /\ InCallback \/ main = "static"
    BY <1>3 DEF Instantiate
  <2>2. main # "ended"
    BY <2>1 DEF InCallback, WhereInv
  <2>3. CASE main = "clearing"
    <3>1. \A a \in Behaviours : Going(a)' <=> Going(a)
      BY <1>3, BottomKept
    <3>2. \A a \in Behaviours \ lateBorn' : status'[a] = status[a] /\ a \in Behaviours \ lateBorn
      BY <2>1, <2>3 DEF RestTyped
    <3> QED BY <2>1, <2>3, <3>1, <3>2 DEF SurviveInv, LeftToGo
  <2> QED BY <1>2, <2>1, <2>2, <2>3
<1>4. ASSUME NEW b \in Behaviours, Destroy(b) PROVE SurviveInv'
  <2>1. /\ UNCHANGED <<main, index, status, lateBorn>>
        /\ \A a \in Behaviours : Going(a)' <=> Going(a)
        /\ \A k \in DOMAIN toDestroy : k \in DOMAIN toDestroy' /\ toDestroy'[k] = toDestroy[k]
    BY <1>4, DestroyDoes
  <2>2. \A a \in Behaviours : LeftToGo(a) => LeftToGo(a)'
    BY <2>1 DEF LeftToGo
  <2> QED BY <2>1, <2>2 DEF SurviveInv
<1>5. CASE AwakeReturns
  <2> DEFINE b == Top.of
  <2>1. /\ stack # <<>> /\ stack' = Popped /\ Top.cb = "Awake"
        /\ status' = [status EXCEPT ![b] = "fresh"]
        /\ UNCHANGED <<main, index, toDestroy, lateBorn>>
    BY <1>5 DEF AwakeReturns, In, InCallback
  <2>2. status[b] = "awake" /\ b \in Behaviours
    BY <2>1, ReturnDoes, LivesAre DEF StackInv
  <2>3. \A a \in Behaviours : Going(a)' <=> Going(a)
    BY <1>5, BottomKept
  <2>4. main \in {"clearing", "ended"} => b \in lateBorn
    BY <2>2 DEF SurviveInv
  <2> HIDE DEF b
  <2> QED BY <2>1, <2>2, <2>3, <2>4 DEF SurviveInv, LeftToGo, RestTyped
<1>6. CASE StartReturns \/ UpdateReturns
  <2>1. stack # <<>> /\ Top.cb \in {"Start", "Update"} /\ main' = main
    BY <1>6 DEF StartReturns, UpdateReturns, In, InCallback
  <2>2. main = "updating"
    BY <2>1, OnlyOne DEF WhereInv
  <2> QED BY <1>2, <2>1, <2>2
<1>7. CASE OnDestroyReturns
  <2>1. /\ stack # <<>> /\ Top.cb = "onDestroy" /\ stack' = Popped
        /\ status' = [status EXCEPT ![Top.of] = "deleted"]
        /\ UNCHANGED <<main, index, toDestroy, lateBorn>>
    BY <1>7 DEF OnDestroyReturns, In, InCallback
  <2>2. stack[1] = Top /\ Top.of \in Behaviours
    BY <2>1, OnlyOne
  <2>3. \A a \in Behaviours : a # Top.of => ~Going(a)
    BY <2>1, <2>2 DEF Going
  <2> QED BY <2>1, <2>2, <2>3 DEF SurviveInv, LeftToGo, RestTyped, Born
<1>8. CASE NextFrame
  <2>1. CASE endGame
    <3> DEFINE m == Len(toDestroy)
               n == Len(allExisting)
    <3>1. stack = <<>> /\ main' = "clearing" /\ index' = 0 /\ status' = status
      BY <1>8, <2>1 DEF NextFrame, At
    <3>2. \A a \in Behaviours : status[a] # "awake" /\ ~Going(a)
      BY <3>1, EmptyStack DEF StackInv, Going
    <3>3. /\ m \in Nat /\ n \in Nat /\ DOMAIN allExisting = 1..n
          /\ DOMAIN toDestroy' = 1..m + n
          /\ \A k \in 1..n : toDestroy'[m + k] = allExisting[k]
      BY <1>8, <2>1, ClearDoes
    <3> HIDE DEF m, n
    <3>4. ASSUME NEW a \in Behaviours, status[a] \in Born PROVE LeftToGo(a)'
      <4>1. PICK k \in 1..n : allExisting[k] = a
        BY <3>2, <3>3, <3>4 DEF ListInv, Elements
      <4>2. m + k \in DOMAIN toDestroy' /\ m + k > 0 /\ toDestroy'[m + k] = a
        BY <3>3, <4>1
      <4> QED BY <3>1, <4>2 DEF LeftToGo
    <3> QED BY <3>1, <3>2, <3>4 DEF SurviveInv
  <2>2. CASE ~endGame
    BY <1>2, <1>8, <2>2 DEF NextFrame
  <2> QED BY <2>1, <2>2
<1>9. CASE CallUpdate
  BY <1>2, <1>9, CallUpdateDoes
<1>10. CASE DestroyNext
  <2> DEFINE b == toDestroy[index + 1]
  <2>1. CASE status[b] = "deleted"
    BY <1>2, <1>10, <2>1, DestroyNextDoes
  <2>2. CASE status[b] # "deleted"
    <3>1. /\ index \in Nat /\ index' = index + 1 /\ main \in {"hasTime", "clearing"}
          /\ UNCHANGED <<main, toDestroy, status, lateBorn>>
          /\ \A a : ~Going(a) /\ (Going(a)' <=> a = b)
      BY <1>10, <2>2, DestroyNextDoes
    <3>2. ASSUME NEW a \in Behaviours, LeftToGo(a) PROVE LeftToGo(a)'
      <4>1. CASE a = b
        BY <3>1, <4>1 DEF LeftToGo
      <4>2. CASE a # b
        <5>1. PICK i \in DOMAIN toDestroy : i > index /\ toDestroy[i] = a
          BY <3>1, <3>2 DEF LeftToGo
        <5>2. i \in Nat /\ i # index + 1
          BY <4>2, <5>1 DEF ListsTyped
        <5>3. i > index'
          BY <3>1, <5>1, <5>2
        <5> QED BY <3>1, <5>1, <5>3 DEF LeftToGo
      <4> QED BY <4>1, <4>2
    <3> HIDE DEF b
    <3> QED BY <3>1, <3>2 DEF SurviveInv
  <2> QED BY <2>1, <2>2
<1>11. CASE HasTimeDone
  <2>1. /\ main \in {"hasTime", "clearing"} /\ stack = <<>> /\ index >= Len(toDestroy)
        /\ main' = IF main = "clearing" THEN "ended" ELSE "frame"
        /\ UNCHANGED <<status, lateBorn>>
    BY <1>11 DEF HasTimeDone
  <2>2. \A a \in Behaviours : ~LeftToGo(a)
    <3>1. DOMAIN toDestroy = 1..Len(toDestroy) /\ index \in Nat /\ Len(toDestroy) \in Nat
      BY DEF ListsTyped
    <3> QED BY <2>1, <3>1 DEF LeftToGo, Going
  <2> QED BY <2>1, <2>2 DEF SurviveInv
<1>12. CASE PlayThanosTheme
  BY <1>1, <1>12 DEF PlayThanosTheme
<1>13. CASE StartRun \/ FrameDone
  BY <1>2, <1>13 DEF StartRun, FrameDone
<1> QED
  BY <1>1, <1>3, <1>4, <1>5, <1>6, <1>7, <1>8, <1>9, <1>10, <1>11, <1>12, <1>13
  DEF Next, Engine, UserCode, vars

(* When the program has ended, mainClass's clear has destroyed everything  *)
(* the game ever made, however the onDestroy callbacks ask for more, but   *)
(* what they made meanwhile.                                               *)
THEOREM ClearDestroysEverything == Spec => []OnlyLateBornSurvive
<1>1. Init => SurviveInv
  BY DEF Init, SurviveInv
<1>2. LifeInv /\ SurviveInv /\ [Next]_vars => SurviveInv'
  BY SurviveKept
<1>3. LifeInv /\ SurviveInv => OnlyLateBornSurvive
  BY DEF LifeInv, RestTyped, SurviveInv, OnlyLateBornSurvive, Born
<1> QED BY <1>1, <1>2, <1>3, LifeInvHolds, PTL DEF Spec

-----------------------------------------------------------------------------
(* What was asked to go once at most, and by the main loop, is queued once *)
(* at most, and not any more when it is deleted.                           *)
Clean(b) == asked[b] <= 1 /\ b \notin outAsked
OnceAsked(b) ==
    /\ \A i, j \in DOMAIN toDestroy : toDestroy[i] = b /\ toDestroy[j] = b => i = j
    /\ \A i \in DOMAIN toDestroy : toDestroy[i] = b =>
          /\ main \in {"updating", "hasTime", "clearing"}
          /\ main # "clearing" => asked[b] = 1
          /\ (status[b] = "deleted" \/ Going(b)) => i <= index /\ main # "updating"
CleanInv ==
    /\ main # "undefined" => \A b \in Behaviours : Clean(b) => OnceAsked(b)
    /\ main = "undefined" => \E b \in Behaviours : ~Clean(b)

(* Every step keeps a single request single.                               *)
LEMMA CleanKept ==
    ASSUME LifeInv, CleanInv, [Next]_vars
    PROVE  CleanInv'
<1> USE DEF lists, control, history, LifeInv
<1>1. ASSUME UNCHANGED <<main, index, toDestroy, asked, outAsked>>,
             main # "undefined",
             \A b \in Behaviours :
                (status'[b] = "deleted" \/ Going(b)') => (status[b] = "deleted" \/ Going(b))
      PROVE  CleanInv'
  BY <1>1 DEF CleanInv, Clean, OnceAsked
<1>2. ASSUME main' # "undefined",
             \A b \in Behaviours : Clean(b)' => \A i \in DOMAIN toDestroy' : toDestroy'[i] # b
      PROVE  CleanInv'
  BY <1>2 DEF CleanInv, OnceAsked
<1>3. CASE UNCHANGED vars
  BY <1>3 DEF vars, CleanInv, Clean, OnceAsked, Going
<1>4. ASSUME NEW b \in Behaviours, Instantiate(b) PROVE CleanInv'
  <2>1. /\ UNCHANGED <<main, index, toDestroy, asked, outAsked>>
        /\ status' = [status EXCEPT ![b] = "awake"]
        /\ main # "undefined"
    BY <1>4 DEF Instantiate, InCallback
  <2>2. \A a \in Behaviours : Going(a)' <=> Going(a)
    BY <1>4, BottomKept
  <2>3. \A a \in Behaviours : status'[a] = "deleted" => status[a] = "deleted"
    BY <2>1 DEF RestTyped
  <2> QED BY <1>1, <2>1, <2>2, <2>3
<1>5. ASSUME NEW b \in Behaviours, Destroy(b) PROVE CleanInv'
  <2> DEFINE m == Len(toDestroy)
  <2>1. /\ m \in Nat /\ DOMAIN toDestroy = 1..m /\ DOMAIN toDestroy' = 1..m + 1
        /\ toDestroy'[m + 1] = b
        /\ \A k \in 1..m : toDestroy'[k] = toDestroy[k]
        /\ UNCHANGED <<main, index, status>>
        /\ \A a \in Behaviours : Going(a)' <=> Going(a)
    BY <1>5, DestroyDoes
  <2>2. /\ stack # <<>> /\ main # "undefined"
        /\ status[b] \in {"awake", "fresh", "running"}
        /\ asked' = [asked EXCEPT ![b] = @ + 1]
        /\ outAsked' = IF main \in {"static", "clearing"} THEN outAsked \cup {b} ELSE outAsked
    BY <1>5 DEF Destroy, Asked, InCallback
  <2> HIDE DEF m
  <2>3. ASSUME NEW a \in Behaviours, Clean(a)' PROVE OnceAsked(a)'
    <3>1. CASE a # b
      <4>1. Clean(a) /\ asked'[a] = asked[a]
        BY <2>2, <2>3, <3>1 DEF Clean, RestTyped
      <4>2. OnceAsked(a)
        BY <2>2, <4>1 DEF CleanInv
      <4>3. \A k \in 1..m + 1 : toDestroy'[k] = a => k \in 1..m /\ toDestroy[k] = a
        BY <2>1, <3>1
      <4> QED BY <2>1, <4>1, <4>2, <4>3 DEF OnceAsked
    <3>2. CASE a = b
      <4>1. asked[a] = 0 /\ asked'[a] = 1 /\ a \notin outAsked
            /\ main \notin {"static", "clearing"}
        BY <2>2, <2>3, <3>2, AsksAssumption DEF Clean, RestTyped
      <4>2. main \in {"updating", "hasTime"}
        BY <2>2, <4>1 DEF WhereInv
      <4>3. OnceAsked(a)
        BY <2>2, <4>1 DEF CleanInv, Clean
      <4>4. \A k \in 1..m : toDestroy[k] # a
        BY <2>1, <4>1, <4>2, <4>3 DEF OnceAsked
      <4>5. ~Going(a)
        <5>1. SUFFICES ASSUME Going(a) PROVE FALSE
          OBVIOUS
        <5>2. index \in DOMAIN toDestroy /\ toDestroy[index] = a
          BY <5>1 DEF WhereInv, Going, ListsTyped
        <5> QED BY <2>1, <4>4, <5>2
      <4>6. \A k \in 1..m + 1 : toDestroy'[k] = a => k = m + 1
        BY <2>1, <4>4
      <4>7. status'[a] # "deleted" /\ ~Going(a)'
        BY <2>1, <2>2, <3>2, <4>5
      <4> QED BY <2>1, <4>1, <4>2, <4>6, <4>7 DEF OnceAsked
    <3> QED BY <3>1, <3>2
  <2> QED BY <2>1, <2>2, <2>3 DEF CleanInv
<1>6. CASE AwakeReturns
  <2>1. /\ UNCHANGED <<main, index, toDestroy, asked, outAsked>>
        /\ status' = [status EXCEPT ![Top.of] = "fresh"]
        /\ main # "undefined"
    BY <1>6 DEF AwakeReturns, In, InCallback
  <2>2. \A a \in Behaviours : Going(a)' <=> Going(a)
    BY <1>6, BottomKept
  <2>3. \A a \in Behaviours : status'[a] = "deleted" => status[a] = "deleted"
    BY <2>1 DEF RestTyped
  <2> QED BY <1>1, <2>1, <2>2, <2>3
<1>7. CASE StartReturns \/ UpdateReturns
  <2>1. /\ stack # <<>> /\ Top.cb \in {"Start", "Update"} /\ main # "undefined"
        /\ UNCHANGED <<main, index, toDestroy, asked, outAsked>>
        /\ status' = status \/ status' = [status EXCEPT ![Top.of] = "running"]
        /\ stack' = Popped \/ stack' = Append(Popped, Frame("Update", Top.of))
    BY <1>7 DEF StartReturns, UpdateReturns, In, InCallback
  <2>2. stack' = <<>> \/ stack' = <<Frame("Update", Top.of)>>
    <3>1. Popped = <<>>
      BY <2>1, OnlyOne
    <3> QED BY <2>1, <3>1
  <2>3. \A a \in Behaviours : ~Going(a)'
    BY <2>2 DEF Going, Frame
  <2>4. \A a \in Behaviours : status'[a] = "deleted" => status[a] = "deleted"
    BY <2>1 DEF RestTyped
  <2> QED BY <1>1, <2>1, <2>3, <2>4
<1>8. CASE OnDestroyReturns
  <2>1. /\ stack # <<>> /\ Top.cb = "onDestroy" /\ stack' = Popped /\ main # "undefined"
        /\ status' = [status EXCEPT ![Top.of] = "deleted"]
        /\ UNCHANGED <<main, index, toDestroy, asked, outAsked>>
    BY <1>8 DEF OnDestroyReturns, In, InCallback
  <2>2. stack[1] = Top /\ stack' = <<>> /\ Top.of \in Behaviours
    BY <2>1, OnlyOne
  <2>3. Going(Top.of) /\ \A a \in Behaviours : ~Going(a)'
    BY <2>1, <2>2 DEF Going
  <2>4. \A a \in Behaviours : status'[a] = "deleted" => status[a] = "deleted" \/ a = Top.of
    BY <2>1 DEF RestTyped
  <2> QED BY <1>1, <2>1, <2>3, <2>4
<1>9. CASE StartRun
  <2>1. /\ main = "static" /\ main' = "frame"
        /\ UNCHANGED <<toDestroy, asked, outAsked>>
    BY <1>9 DEF StartRun, At
  <2> QED BY <1>2, <2>1 DEF CleanInv, Clean, OnceAsked
<1>10. CASE NextFrame
  <2>1. /\ main = "frame" /\ stack = <<>> /\ UNCHANGED <<status, stack, asked, outAsked>>
        /\ main' \in {"clearing", "updating"}
    BY <1>10 DEF NextFrame, At
  <2>2. \A a \in Behaviours : Clean(a)' => \A i \in DOMAIN toDestroy : toDestroy[i] # a
    BY <2>1 DEF CleanInv, Clean, OnceAsked
  <2>3. CASE ~endGame
    <3>1. toDestroy' = toDestroy
      BY <1>10, <2>3 DEF NextFrame
    <3> QED BY <1>2, <2>1, <2>2, <3>1
  <2>4. CASE endGame
    <3> DEFINE m == Len(toDestroy)
               n == Len(allExisting)
    <3>1. main' = "clearing"
      BY <1>10, <2>4 DEF NextFrame
    <3>2. /\ m \in Nat /\ DOMAIN toDestroy = 1..m
          /\ n \in Nat /\ DOMAIN allExisting = 1..n
          /\ DOMAIN toDestroy' = 1..m + n
          /\ \A k \in 1..m : toDestroy'[k] = toDestroy[k]
          /\ \A k \in 1..n : toDestroy'[m + k] = allExisting[k]
          /\ \A k \in 1..m + n : k \in 1..m \/ \E j \in 1..n : k = m + j
      BY <1>10, <2>4, ClearDoes
    <3> HIDE DEF m, n
    <3>3. ASSUME NEW a \in Behaviours, Clean(a)' PROVE OnceAsked(a)'
      <4>1. \A k \in 1..m : toDestroy[k] # a
        BY <2>2, <3>2, <3>3
      <4>2. \A k \in DOMAIN toDestroy' : toDestroy'[k] = a =>
               \E j \in 1..n : k = m + j /\ allExisting[j] = a
        BY <3>2, <4>1
      <4>3. ASSUME NEW i \in DOMAIN toDestroy', NEW j \in DOMAIN toDestroy',
                   toDestroy'[i] = a, toDestroy'[j] = a
            PROVE  i = j
        <5>1. PICK p \in 1..n : i = m + p /\ allExisting[p] = a
          BY <4>2, <4>3
        <5>2. PICK q \in 1..n : j = m + q /\ allExisting[q] = a
          BY <4>2, <4>3
        <5>3. \A x, y \in 1..n : allExisting[x] = allExisting[y] => x = y
          BY <3>2 DEF ListInv
        <5>4. p = q
          BY <5>1, <5>2, <5>3
        <5> QED BY <5>1, <5>2, <5>4
      <4>4. ASSUME NEW k \in DOMAIN toDestroy', toDestroy'[k] = a
            PROVE  status'[a] # "deleted" /\ ~Going(a)'
        <5>1. a \in Elements(allExisting)
          BY <3>2, <4>2, <4>4 DEF Elements
        <5>2. status[a] \in Born
          BY <5>1 DEF ListInv
        <5> QED BY <2>1, <5>2 DEF Born, Going
      <4> QED BY <3>1, <4>3, <4>4 DEF OnceAsked
    <3> QED BY <3>1, <3>3 DEF CleanInv
  <2> QED BY <2>3, <2>4
<1>11. CASE CallUpdate
  <2>1. /\ main = "updating" /\ main' = main
        /\ UNCHANGED <<status, toDestroy, asked, outAsked>>
    BY <1>11, CallUpdateDoes
  <2>2. \A a \in Behaviours : ~Going(a)'
    BY <1>11, CallUpdateDoes DEF Going, Frame
  <2> QED BY <2>1, <2>2 DEF CleanInv, Clean, OnceAsked
<1>12. CASE FrameDone
  <2>1. /\ main = "updating" /\ main' = "hasTime"
        /\ UNCHANGED <<status, stack, toDestroy, asked, outAsked>>
    BY <1>12 DEF FrameDone, At
  <2> QED BY <2>1 DEF CleanInv, Clean, OnceAsked, Going
<1>13. CASE DestroyNext
  <2> DEFINE b == toDestroy[index + 1]
  <2>1. /\ b \in Behaviours /\ main \in {"hasTime", "clearing"}
        /\ index \in Nat /\ index' = index + 1 /\ index + 1 \in DOMAIN toDestroy
        /\ UNCHANGED <<toDestroy, status, asked, outAsked>>
        /\ status[b] = "deleted" => main' = "undefined"
        /\ status[b] # "deleted" => main' = main
        /\ \A a : ~Going(a) /\ (Going(a)' <=> a = b /\ status[b] # "deleted")
    BY <1>13, DestroyNextDoes
  <2>2. DOMAIN toDestroy \subseteq Nat
    BY DEF ListsTyped
  <2>3. CASE status[b] = "deleted"
    <3>1. ~Clean(b)
      BY <2>1, <2>3 DEF CleanInv, OnceAsked
    <3> QED BY <2>1, <2>3, <3>1 DEF CleanInv, Clean
  <2>4. CASE status[b] # "deleted"
    <3>1. ASSUME NEW a \in Behaviours, Clean(a)' PROVE OnceAsked(a)'
      <4>1. OnceAsked(a)
        BY <2>1, <3>1 DEF CleanInv, Clean
      <4>2. a = b => \A i \in DOMAIN toDestroy : toDestroy[i] = a => i <= index'
        BY <2>1, <4>1 DEF OnceAsked
      <4>3. \A i \in DOMAIN toDestroy : i <= index => i <= index'
        BY <2>1, <2>2
      <4> HIDE DEF b
      <4> QED BY <2>1, <2>4, <4>1, <4>2, <4>3 DEF OnceAsked
    <3> QED BY <2>1, <2>4, <3>1 DEF CleanInv
  <2> QED BY <2>3, <2>4
<1>14. CASE HasTimeDone
  <2>1. toDestroy' = <<>> /\ main' # "undefined"
    BY <1>14 DEF HasTimeDone
  <2> QED BY <1>2, <2>1
<1>15. CASE PlayThanosTheme
  <2>1. /\ UNCHANGED <<main, index, toDestroy, asked, outAsked, status, stack>>
        /\ main # "undefined"
    BY <1>15 DEF PlayThanosTheme, InCallback
  <2> QED BY <1>1, <2>1 DEF Going
<1> QED
  BY <1>3, <1>4, <1>5, <1>6, <1>7, <1>8, <1>9, <1>10, <1>11, <1>12, <1>13, <1>14,
     <1>15 DEF Next, Engine, UserCode

(* hasTime and clear delete nothing twice, and call no deleted object,     *)
(* unless a callback asked twice for it or asked outside the main loop.    *)
THEOREM DeletedOnceUnlessAskedTwice == Spec => []DoubleDeleteNeedsTwoAsks
<1>1. Init => CleanInv
  BY DEF Init, CleanInv, OnceAsked
<1>2. LifeInv /\ CleanInv /\ [Next]_vars => CleanInv'
  BY CleanKept
<1>3. LifeInv /\ CleanInv => DoubleDeleteNeedsTwoAsks
  BY AsksAssumption
  DEF LifeInv, RestTyped, CleanInv, Clean, DoubleDeleteNeedsTwoAsks
<1> QED BY <1>1, <1>2, <1>3, LifeInvHolds, PTL DEF Spec
=============================================================================
