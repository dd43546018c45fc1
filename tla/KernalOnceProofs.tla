-------------------------- MODULE KernalOnceProofs --------------------------
(***************************************************************************)
(* Theorems about Kernal, for any tree of nodes and whatever sockets fail: *)
(* while the ids are proper, no message is used twice or where it was not  *)
(* meant to be, and a lost connection is told at most once to a node.      *)
(***************************************************************************)
EXTENDS KernalProofs

(***************************************************************************)
(* A message that could be used twice is followed by a key that it keeps   *)
(* on its way: the tag of a user's message, the id of the client that a    *)
(* notice of a loss is about.  Of a user's message for a name that is only *)
(* another message's tag nothing has to be said: nobody has that id.       *)
(***************************************************************************)
Key(m) == m.body[1]
Counts(m) == m.kind = "gone" \/ (m.kind = "user" /\ m.dest \notin Tags \ {1})
KeysOf(s) == {Key(s[i]) : i \in {j \in DOMAIN s : Counts(s[j])}}
KeyOf(m) == IF Counts(m) THEN {Key(m)} ELSE {}
Once(s) == \A i, j \in DOMAIN s :
    Counts(s[i]) /\ Counts(s[j]) /\ Key(s[i]) = Key(s[j]) => i = j

LEMMA KeysEmpty == KeysOf(<<>>) = {} /\ Once(<<>>)
BY DEF KeysOf, Once

LEMMA KeysSingle == ASSUME NEW m PROVE KeysOf(<<m>>) = KeyOf(m)
<1>1. DOMAIN <<m>> = {1} /\ <<m>>[1] = m
  OBVIOUS
<1> QED BY <1>1 DEF KeysOf, KeyOf

LEMMA KeysAppend ==
    ASSUME NEW S, NEW s \in Seq(S), NEW m \in S
    PROVE  /\ KeysOf(Append(s, m)) = KeysOf(s) \cup KeyOf(m)
           /\ Once(s) /\ KeyOf(m) \cap KeysOf(s) = {} => Once(Append(s, m))
<1> PICK t : t = Append(s, m)
  OBVIOUS
<1>1. /\ DOMAIN s = 1..Len(s) /\ DOMAIN t = 1..Len(s) + 1 /\ Len(s) \in Nat
      /\ \A i \in DOMAIN s : t[i] = s[i]
      /\ t[Len(s) + 1] = m
  OBVIOUS
<1>2. DOMAIN t = DOMAIN s \cup {Len(s) + 1} /\ Len(s) + 1 \notin DOMAIN s
  BY <1>1
<1>3. KeysOf(t) = KeysOf(s) \cup KeyOf(m)
  BY <1>1, <1>2, ZenonT(60) DEF KeysOf, KeyOf
<1>4. ASSUME Once(s), KeyOf(m) \cap KeysOf(s) = {} PROVE Once(t)
  <2> SUFFICES ASSUME NEW i \in DOMAIN t, NEW j \in DOMAIN t,
                      Counts(t[i]), Counts(t[j]), Key(t[i]) = Key(t[j])
               PROVE  i = j
    BY DEF Once
  <2>1. CASE i \in DOMAIN s /\ j \in DOMAIN s
    BY <1>1, <1>4, <2>1, Zenon DEF Once
  <2>2. \A x \in DOMAIN s : ~(Counts(s[x]) /\ Counts(m) /\ Key(s[x]) = Key(m))
    BY <1>4, Zenon DEF KeysOf, KeyOf
  <2> QED BY <1>1, <1>2, <2>1, <2>2, Zenon
<1> QED BY <1>3, <1>4

LEMMA KeysTail ==
    ASSUME NEW S, NEW s \in Seq(S), s # <<>>
    PROVE  /\ KeysOf(Tail(s)) \subseteq KeysOf(s) /\ KeyOf(Head(s)) \subseteq KeysOf(s)
           /\ Once(s) => Once(Tail(s)) /\ KeyOf(Head(s)) \cap KeysOf(Tail(s)) = {}
<1> PICK t : t = Tail(s)
  OBVIOUS
<1>1. /\ DOMAIN s = 1..Len(s) /\ DOMAIN t = 1..Len(s) - 1 /\ Len(s) \in Nat /\ Len(s) > 0
      /\ \A i \in DOMAIN t : i + 1 \in DOMAIN s /\ t[i] = s[i + 1] /\ i + 1 # 1
      /\ 1 \in DOMAIN s /\ s[1] = Head(s)
  OBVIOUS
<1>2. \A i, j \in DOMAIN t : i + 1 = j + 1 => i = j
  BY <1>1
<1>3. KeysOf(t) \subseteq KeysOf(s) /\ KeyOf(Head(s)) \subseteq KeysOf(s)
  BY <1>1, Zenon DEF KeysOf, KeyOf
<1>4. ASSUME Once(s) PROVE Once(t)
  <2> SUFFICES ASSUME NEW i \in DOMAIN t, NEW j \in DOMAIN t,
                      Counts(t[i]), Counts(t[j]), Key(t[i]) = Key(t[j])
               PROVE  i = j
    BY DEF Once
  <2>1. i + 1 = j + 1
    BY <1>1, <1>4, Zenon DEF Once
  <2> QED BY <1>2, <2>1
<1>5. Once(s) => KeyOf(Head(s)) \cap KeysOf(t) = {}
  BY <1>1, ZenonT(60) DEF Once, KeysOf, KeyOf
<1> QED BY <1>3, <1>4, <1>5

LEMMA KeysFirst ==
    ASSUME NEW S, NEW s \in Seq(S), NEW k \in 0..Len(s)
    PROVE  KeysOf(SubSeq(s, 1, k)) \subseteq KeysOf(s) /\ (Once(s) => Once(SubSeq(s, 1, k)))
<1> PICK t : t = SubSeq(s, 1, k)
  OBVIOUS
<1>1. /\ Len(t) = IF 1 <= k THEN k - 1 + 1 ELSE 0
      /\ \A i \in 1..k - 1 + 1 : t[i] = s[1 + i - 1]
      /\ t \in Seq(S)
  <2>1. \A i \in 1..k : s[i] \in S
    OBVIOUS
  <2> QED BY <2>1, SubSeqProperties
<1>2. DOMAIN t \subseteq DOMAIN s /\ \A i \in DOMAIN t : t[i] = s[i]
  BY <1>1
<1> QED BY <1>2, Zenon DEF KeysOf, Once

(***************************************************************************)
(* Where a key comes from, and what is known of a message with it.         *)
(***************************************************************************)
\* the neighbour a of b, or beyond it
Away(a, b) == Side(a, b) \ {b}

\* the node that first sent it
Origins(k) ==
    IF k \in Tags THEN {submitted[t].from : t \in DOMAIN submitted \cap {k}}
    ELSE {Parent[c] : c \in {d \in Clients : HasId(d) /\ IdOf(d) = k}}
Comes(k, a, b) == Origins(k) \cap Away(a, b) # {}

\* a message that a user asked for
Asked(m) == \E t \in DOMAIN submitted :
    m.body = <<t>> /\ m.dest = submitted[t].dest

\* a notice of a lost client: the client, then what was filed under it
Distinct(s) == \A i, j \in DOMAIN s : s[i] = s[j] => i = j
Notice(m) == \E c \in Clients :
    /\ Dead(c) /\ m.dest = 0
    /\ \E s \in Seq(Of(Within[c])) : Distinct(s) /\ m.body = <<IdOf(c)>> \o s

Explained(m) == (m.kind = "user" => Asked(m)) /\ (m.kind = "gone" => Notice(m))

\* a message from a to b, its key comes from a's side and it is for b's side
Coming(a, b) == {m \in Good :
    /\ Explained(m)
    /\ Counts(m) =>
          /\ HasId(a) /\ Comes(Key(m), a, b)
          /\ m.dest \in {0, 1} => m.src = IdOf(a)
          /\ m.dest \notin {0, 1} => /\ m.dest \in Names
                                     /\ Owners(m.dest) \cap Away(a, b) = {}}
Met(n) == UNION {Coming(a, n) : a \in Neighbours(n)}
Held(n) == {m \in Good :
    /\ Explained(m) /\ m.dest = 0
    /\ Counts(m) => Origins(Key(m)) # {} /\ n \notin Origins(Key(m))}
Going(n) == {m \in Good :
    /\ m.kind # "gone"
    /\ m.kind = "user" => Asked(m) /\ Origins(Key(m)) = {n}}

(***************************************************************************)
(* The invariant.  It speaks of the keys that a node has handled, D[n]:    *)
(* those it sent, forwarded or used.  No variable keeps them, so the       *)
(* invariant says that there is such a D.                                  *)
(***************************************************************************)
SubmittedWell == \A s \in ToSet(submitted) :
    s.dest # 0 => s.dest \in Names /\ s.from \notin Owners(s.dest)
AnnouncedWell == \A n \in Nodes : announced[n] \subseteq Names

MessagesWell ==
    /\ \A l \in Links : link[l] \in Seq(Coming(l[1], l[2]))
    /\ \A n \in Nodes : /\ msgIn[n] \in Seq(Met(n)) /\ msgOut[n] \in Seq(Going(n))
                        /\ inHand[n] \in Seq(Held(n)) /\ Len(inHand[n]) <= 1

\* a key is in one place of a queue, and in no queue of a node that handled it
Placed(D) ==
    /\ \A l \in Links : /\ Once(link[l])
                        /\ KeysOf(link[l]) \cap (KeysOf(msgIn[l[2]]) \cup D[l[2]]) = {}
    /\ \A n \in Nodes : /\ Once(msgIn[n]) /\ Once(msgOut[n])
                        /\ (KeysOf(msgIn[n]) \cup KeysOf(msgOut[n])) \cap D[n] = {}
                        /\ KeysOf(inHand[n]) \subseteq D[n]
                        /\ \A k \in D[n] : Origins(k) # {}

\* what has come to b through a was handled by a
Reached(D, l) == D[l[2]] \cup KeysOf(msgIn[l[2]]) \cup KeysOf(link[l])
Chained(D) == \A l \in Links : \A k \in Reached(D, l) :
    Comes(k, l[1], l[2]) => k \in D[l[1]]

\* a loss is handled once by the client's server, and after the cut
LossHandled(D) == \A c \in Clients : HasId(c) =>
    /\ IdOf(c) \in D[Parent[c]] =>
          ~Entering(Parent[c], c) /\ IdOf(c) \notin DOMAIN directClients[Parent[c]]
    /\ \A n \in Nodes : IdOf(c) \in D[n] => ~Linked(c)

\* the keys that a node is done with
Done(D, n) == D[n] \ KeysOf(inHand[n])
MeantFor(n, t) ==
    /\ t \in DOMAIN submitted /\ n # submitted[t].from
    /\ submitted[t].dest = 0 \/ Owners(submitted[t].dest) \subseteq {n}
UsedWellOnce(D) == \A n \in Nodes :
    /\ Distinct(used[n])
    /\ \A t \in ToSet(used[n]) : t \in Done(D, n) /\ MeantFor(n, t)

Cuts(D, n, k) == {c \in Clients : HasId(c) /\ k \in Within[c] /\ IdOf(c) \in Done(D, n)}
ToldWell(D) == \A n \in Nodes : \A k \in Clients : HasId(k) =>
    Told(n, IdOf(k)) <= Cardinality(Cuts(D, n, k)) + (IF IdOf(k) \in Done(D, n) THEN 1 ELSE 0)

Keeps(D) ==
    /\ D \in [Nodes -> SUBSET Nat]
    /\ Placed(D) /\ Chained(D) /\ LossHandled(D) /\ UsedWellOnce(D) /\ ToldWell(D)

\* the accept handler lists the ids in a notice, and enters a client once
HandlerWell == \A n \in Nodes :
    /\ accepting[n].at = "inserting" => accepting[n].msg.kind = "new"
    /\ \A c \in Clients : Entering(n, c) => IdOf(c) \notin DOMAIN directClients[n]

OnceInv == /\ SubmittedWell /\ AnnouncedWell /\ MessagesWell /\ HandlerWell
           /\ \E D : Keeps(D)

(***************************************************************************)
(* What stays: nobody's id changes, and neither does what was submitted.   *)
(***************************************************************************)
Extends ==
    /\ Grows
    /\ \A t \in DOMAIN submitted : t \in DOMAIN submitted' /\ submitted'[t] = submitted[t]

LEMMA OriginsKept ==
    ASSUME Extends, NEW k, Origins(k) # {}
    PROVE  Origins(k)' = Origins(k)
<1>1. CASE k \in Tags
  <2>1. k \in DOMAIN submitted
    BY <1>1 DEF Origins
  <2>2. k \in DOMAIN submitted' /\ submitted'[k] = submitted[k]
    BY <2>1 DEF Extends
  <2>3. Origins(k) = {submitted[k].from} /\ Origins(k)' = {submitted'[k].from}
    BY <1>1, <2>1, <2>2 DEF Origins
  <2> QED BY <2>2, <2>3
<1>2. CASE k \notin Tags
  <2>1. PICK d \in Clients : HasId(d) /\ IdOf(d) = k
    BY <1>2 DEF Origins
  <2>2. k \in Names /\ k # 0
    BY <2>1 DEF Names, HasId, Clients
  <2>3. Owners(k)' = Owners(k)
    BY <2>2, NamesKept DEF Extends
  <2>4. \A c \in Clients : HasId(c) /\ IdOf(c) = k <=> HasId(c)' /\ IdOf(c)' = k
    BY <2>2, <2>3 DEF Owners, HasId, Clients
  <2> QED BY <1>2, <2>4 DEF Origins
<1> QED BY <1>1, <1>2

LEMMA ComesKept ==
    ASSUME Extends, NEW k, Origins(k) # {}, NEW a, NEW b
    PROVE  Comes(k, a, b)' <=> Comes(k, a, b)
BY OriginsKept DEF Comes, Away

LEMMA ExplainedKept == ASSUME Extends, NEW m, Explained(m) PROVE Explained(m)'
<1>1. ASSUME Asked(m) PROVE Asked(m)'
  BY <1>1 DEF Asked, Extends
<1>2. ASSUME Notice(m) PROVE Notice(m)'
  <2>1. PICK c \in Clients :
           /\ Dead(c) /\ m.dest = 0
           /\ \E s \in Seq(Of(Within[c])) : Distinct(s) /\ m.body = <<IdOf(c)>> \o s
    BY <1>2 DEF Notice
  <2>2. PICK s \in Seq(Of(Within[c])) : Distinct(s) /\ m.body = <<IdOf(c)>> \o s
    BY <2>1
  <2>3. Dead(c)' /\ IdOf(c)' = IdOf(c)
    BY <2>1, DeadKept, IdsKept DEF Extends, Dead, Clients
  <2>4. s \in Seq(Of(Within[c])')
    BY <2>2, OfKept, SeqOver DEF Extends
  <2> QED BY <2>1, <2>2, <2>3, <2>4 DEF Notice
<1> QED BY <1>1, <1>2 DEF Explained

LEMMA ComingKept ==
    ASSUME Extends, NEW a \in Nodes, NEW b \in Nodes
    PROVE  Coming(a, b) \subseteq Coming(a, b)'
<1> SUFFICES ASSUME NEW m \in Coming(a, b) PROVE m \in Coming(a, b)'
  OBVIOUS
<1>1. m \in Good /\ Explained(m)'
  BY ExplainedKept DEF Coming
<1>2. ASSUME Counts(m)
      PROVE  /\ HasId(a)' /\ Comes(Key(m), a, b)'
             /\ m.dest \in {0, 1} => m.src = IdOf(a)'
             /\ m.dest \notin {0, 1} => /\ m.dest \in Names'
                                        /\ Owners(m.dest)' \cap Away(a, b) = {}
  <2>1. /\ HasId(a) /\ Comes(Key(m), a, b)
        /\ m.dest \in {0, 1} => m.src = IdOf(a)
        /\ m.dest \notin {0, 1} => /\ m.dest \in Names
                                   /\ Owners(m.dest) \cap Away(a, b) = {}
    BY <1>2 DEF Coming
  <2>2. HasId(a)' /\ IdOf(a)' = IdOf(a)
    BY <2>1, IdsKept DEF Extends
  <2>3. Comes(Key(m), a, b)'
    <3>1. Origins(Key(m)) # {}
      BY <2>1 DEF Comes
    <3> QED BY <2>1, <3>1, ComesKept
  <2>4. m.dest \notin {0, 1} => m.dest \in Names' /\ Owners(m.dest)' = Owners(m.dest)
    BY <2>1, NamesKept DEF Extends
  <2> QED BY <2>1, <2>2, <2>3, <2>4
<1> QED BY <1>1, <1>2 DEF Coming, Away

LEMMA MetKept == ASSUME Extends, NEW n \in Nodes PROVE Met(n) \subseteq Met(n)'
<1>1. \A a \in Neighbours(n) : Coming(a, n) \subseteq Coming(a, n)'
  BY NeighbourIs, ComingKept
<1> QED BY <1>1 DEF Met

LEMMA HeldKept == ASSUME Extends, NEW n \in Nodes PROVE Held(n) \subseteq Held(n)'
<1> SUFFICES ASSUME NEW m \in Held(n) PROVE m \in Held(n)'
  OBVIOUS
<1>1. m \in Good /\ Explained(m)' /\ m.dest = 0
  BY ExplainedKept DEF Held
<1>2. Counts(m) => Origins(Key(m)) # {} /\ n \notin Origins(Key(m))
  BY DEF Held
<1>3. Counts(m) => Origins(Key(m))' = Origins(Key(m))
  BY <1>2, OriginsKept
<1> QED BY <1>1, <1>2, <1>3 DEF Held

LEMMA GoingKept == ASSUME Extends, NEW n \in Nodes PROVE Going(n) \subseteq Going(n)'
<1> SUFFICES ASSUME NEW m \in Going(n) PROVE m \in Going(n)'
  OBVIOUS
<1>1. m \in Good /\ m.kind # "gone" /\ (m.kind = "user" => Asked(m) /\ Origins(Key(m)) = {n})
  BY DEF Going
<1>2. m.kind = "user" => Asked(m)'
  BY <1>1 DEF Asked, Extends
<1>3. m.kind = "user" => Origins(Key(m))' = Origins(Key(m))
  BY <1>1, OriginsKept
<1> QED BY <1>1, <1>2, <1>3 DEF Going

LEMMA MessagesKept ==
    ASSUME Extends,
           \A l \in Links : link'[l] \in Seq(Coming(l[1], l[2])),
           \A n \in Nodes : msgIn'[n] \in Seq(Met(n)),
           \A n \in Nodes : msgOut'[n] \in Seq(Going(n)),
           \A n \in Nodes : inHand'[n] \in Seq(Held(n)) /\ Len(inHand'[n]) <= 1
    PROVE  MessagesWell'
<1>1. \A l \in Links : Seq(Coming(l[1], l[2])) \subseteq Seq(Coming(l[1], l[2])')
  BY LinkNodes, ComingKept, SeqOver
<1>2. \A n \in Nodes : /\ Seq(Met(n)) \subseteq Seq(Met(n)')
                       /\ Seq(Going(n)) \subseteq Seq(Going(n)')
                       /\ Seq(Held(n)) \subseteq Seq(Held(n)')
  BY MetKept, GoingKept, HeldKept, SeqOver
<1> QED BY <1>1, <1>2 DEF MessagesWell

LEMMA SubmittedKept ==
    ASSUME Extends, SubmittedWell, submitted' = submitted
    PROVE  SubmittedWell'
<1> SUFFICES ASSUME NEW s \in ToSet(submitted), s.dest # 0
             PROVE  s.dest \in Names' /\ s.from \notin Owners(s.dest)'
  BY DEF SubmittedWell
<1> PICK d : d = s.dest
  OBVIOUS
<1>1. d \in Names /\ s.from \notin Owners(d)
  BY DEF SubmittedWell
<1>2. d \in Names' /\ Owners(d)' = Owners(d)
  BY <1>1, NamesKept DEF Extends
<1> QED BY <1>1, <1>2

LEMMA AnnouncedKept ==
    ASSUME Extends, AnnouncedWell, \A n \in Nodes : announced'[n] \subseteq announced[n] \cup Names'
    PROVE  AnnouncedWell'
BY NamesKept DEF Extends, AnnouncedWell

(***************************************************************************)
(* Every key in a queue has an origin: on a link and at its reader one     *)
(* beyond the link, at its sender the node itself.                         *)
(***************************************************************************)
LEMMA KeyIn ==
    ASSUME NEW S, NEW s \in Seq(S), NEW k \in KeysOf(s)
    PROVE  \E m \in S : Counts(m) /\ Key(m) = k
<1>1. PICK i \in DOMAIN s : Counts(s[i]) /\ Key(s[i]) = k
  BY DEF KeysOf
<1> QED BY <1>1

LEMMA LinkKey ==
    ASSUME MessagesWell, NEW l \in Links, NEW k \in KeysOf(link[l])
    PROVE  Comes(k, l[1], l[2])
<1>1. PICK m \in Coming(l[1], l[2]) : Counts(m) /\ Key(m) = k
  BY KeyIn DEF MessagesWell
<1> QED BY <1>1 DEF Coming

LEMMA InKey ==
    ASSUME MessagesWell, NEW n \in Nodes, NEW k \in KeysOf(msgIn[n])
    PROVE  \E a \in Neighbours(n) : Comes(k, a, n)
<1>1. PICK m \in Met(n) : Counts(m) /\ Key(m) = k
  BY KeyIn DEF MessagesWell
<1> QED BY <1>1 DEF Met, Coming

LEMMA OutKey ==
    ASSUME MessagesWell, NEW n \in Nodes, NEW k \in KeysOf(msgOut[n])
    PROVE  Origins(k) = {n}
<1>1. PICK m \in Going(n) : Counts(m) /\ Key(m) = k
  BY KeyIn DEF MessagesWell
<1> QED BY <1>1 DEF Going, Counts

LEMMA OneOrigin ==
    ASSUME RoutesInv, NEW k, NEW x \in Origins(k), NEW y \in Origins(k)
    PROVE  x = y
<1>1. CASE k \in Tags
  BY <1>1 DEF Origins
<1>2. CASE k \notin Tags
  <2>1. PICK c \in Clients : HasId(c) /\ IdOf(c) = k /\ x = Parent[c]
    BY <1>2 DEF Origins
  <2>2. PICK d \in Clients : HasId(d) /\ IdOf(d) = k /\ y = Parent[d]
    BY <1>2 DEF Origins
  <2>3. c = d
    BY <2>1, <2>2 DEF RoutesInv, IdsGiven, Clients
  <2> QED BY <2>1, <2>2, <2>3
<1> QED BY <1>1, <1>2

LEMMA ComesIs ==
    ASSUME RoutesInv, NEW k, NEW a, NEW b, Comes(k, a, b)
    PROVE  Origins(k) # {} /\ Origins(k) \subseteq Away(a, b) /\ b \notin Origins(k)
<1>1. PICK x : x \in Origins(k) /\ x \in Away(a, b)
  BY DEF Comes
<1>2. Origins(k) = {x}
  BY <1>1, OneOrigin
<1> QED BY <1>1, <1>2 DEF Away

(***************************************************************************)
(* The places of the keys after a step in which node n handles the keys in *)
(* K, which it has not handled before, and sends them on.                  *)
(***************************************************************************)
Ready(D, n, K) == \A k \in K :
    /\ Origins(k) # {} /\ k \notin D[n]
    /\ \A a \in Neighbours(n) : Comes(k, a, n) => k \in D[a]
Onward(n, b, K) == {k \in K : Comes(k, n, b)}

LEMMA LinkEnds ==
    ASSUME NEW l \in Links
    PROVE  /\ l[1] \in Nodes /\ l[2] \in Nodes /\ l[1] # l[2]
           /\ l[2] \in Neighbours(l[1]) /\ l[1] \in Neighbours(l[2])
<1>1. l[1] \in Nodes /\ l[2] \in Neighbours(l[1])
  BY LinkIs
<1>2. \A a \in Nodes : \A b \in Neighbours(a) : b \in Nodes /\ a # b /\ a \in Neighbours(b)
  BY NeighbourIs
<1> QED BY <1>1, <1>2

\* what may change on the links and at the nodes
LinkMoves(n, K) == \A l \in Links :
    /\ Once(link'[l]) /\ (l[2] = n => KeysOf(link'[l]) \cap K = {})
    /\ l[1] # n => KeysOf(link'[l]) \subseteq KeysOf(link[l])
    /\ l[1] = n => KeysOf(link'[l]) \subseteq KeysOf(link[l]) \cup Onward(n, l[2], K)
NodeMoves(E) == \A b \in Nodes :
    /\ Once(msgIn'[b]) /\ KeysOf(msgIn'[b]) \subseteq KeysOf(msgIn[b])
    /\ Once(msgOut'[b])
    /\ \A k \in KeysOf(msgOut'[b]) \ KeysOf(msgOut[b]) : Origins(k) = {} /\ Origins(k)' # {}
    /\ KeysOf(inHand'[b]) \subseteq E[b]

LEMMA SpotsMoved ==
    ASSUME Extends, MessagesWell, NEW D, Keeps(D),
           NEW n \in Nodes, NEW K \in SUBSET Nat, Ready(D, n, K),
           NEW E, E = [D EXCEPT ![n] = @ \cup K],
           LinkMoves(n, K), NodeMoves(E),
           (KeysOf(msgIn'[n]) \cup KeysOf(msgOut'[n])) \cap K = {}
    PROVE  Placed(E)' /\ Chained(E)'
<1> USE DEF LinkMoves, NodeMoves
<1>1. /\ D \in [Nodes -> SUBSET Nat]
      /\ \A b \in Nodes : /\ D[b] \subseteq E[b]
                          /\ b # n => E[b] = D[b]
                          /\ b = n => E[b] = D[b] \cup K
  BY DEF Keeps
<1>2. /\ \A l \in Links : /\ Once(link[l])
                          /\ KeysOf(link[l]) \cap (KeysOf(msgIn[l[2]]) \cup D[l[2]]) = {}
      /\ \A b \in Nodes : /\ (KeysOf(msgIn[b]) \cup KeysOf(msgOut[b])) \cap D[b] = {}
                          /\ \A k \in D[b] : Origins(k) # {}
  BY DEF Keeps, Placed
<1>3. \A l \in Links : \A k \in Reached(D, l) : Comes(k, l[1], l[2]) => k \in D[l[1]]
  BY DEF Keeps, Chained
\* a key that is sent on is new beyond the link
<1>4. ASSUME NEW l \in Links, l[1] = n, NEW k \in Onward(n, l[2], K) PROVE k \notin Reached(D, l)
  BY <1>3, <1>4 DEF Ready, Onward
<1>5. ASSUME NEW k, Origins(k) # {} PROVE Origins(k)' # {}
  BY <1>5, OriginsKept
<1>6. Placed(E)'
  <2>1. ASSUME NEW l \in Links
        PROVE  /\ Once(link'[l])
               /\ KeysOf(link'[l]) \cap (KeysOf(msgIn'[l[2]]) \cup E[l[2]]) = {}
    <3>1. l[1] \in Nodes /\ l[2] \in Nodes /\ l[1] # l[2]
      BY LinkEnds
    <3>2. KeysOf(msgIn'[l[2]]) \subseteq KeysOf(msgIn[l[2]])
      BY <3>1
    <3>3. CASE l[1] = n
      <4>1. E[l[2]] = D[l[2]]
        BY <1>1, <3>1, <3>3
      <4>2. KeysOf(link'[l]) \subseteq KeysOf(link[l]) \cup Onward(n, l[2], K)
        BY <3>3
      <4>3. \A k \in Onward(n, l[2], K) : k \notin Reached(D, l)
        BY <1>4, <3>3
      <4> QED BY <1>2, <3>2, <4>1, <4>2, <4>3 DEF Reached
    <3>4. CASE l[1] # n
      <4>1. KeysOf(link'[l]) \subseteq KeysOf(link[l])
        BY <3>4
      <4>2. E[l[2]] \subseteq D[l[2]] \cup {k \in K : l[2] = n}
        BY <1>1, <3>1
      <4> QED BY <1>2, <3>2, <4>1, <4>2
    <3> QED BY <3>3, <3>4
  <2>2. ASSUME NEW b \in Nodes
        PROVE  /\ Once(msgIn'[b]) /\ Once(msgOut'[b])
               /\ (KeysOf(msgIn'[b]) \cup KeysOf(msgOut'[b])) \cap E[b] = {}
               /\ KeysOf(inHand'[b]) \subseteq E[b]
               /\ \A k \in E[b] : Origins(k)' # {}
    <3>1. E[b] \subseteq D[b] \cup {k \in K : b = n}
      BY <1>1
    <3>2. \A k \in E[b] : Origins(k) # {}
      BY <1>2, <3>1 DEF Ready
    <3>3. (KeysOf(msgIn'[b]) \cup KeysOf(msgOut'[b])) \cap D[b] = {}
      BY <1>2
    <3> QED BY <1>5, <3>1, <3>2, <3>3
  <2> QED BY <2>1, <2>2 DEF Placed
<1>7. Chained(E)'
  <2> SUFFICES ASSUME NEW l \in Links,
                      NEW k \in E[l[2]] \cup KeysOf(msgIn'[l[2]]) \cup KeysOf(link'[l]),
                      Comes(k, l[1], l[2])'
               PROVE  k \in E[l[1]]
    BY DEF Chained, Reached
  <2>1. l[1] \in Nodes /\ l[2] \in Nodes /\ l[1] # l[2] /\ l[1] \in Neighbours(l[2])
    BY LinkEnds
  <2>2. k \in Reached(D, l) \/ (l[1] = n /\ k \in K) \/ (l[2] = n /\ k \in K)
    BY <1>1, <2>1 DEF Reached, Onward
  <2>3. Origins(k) # {}
    <3>1. k \in KeysOf(msgIn[l[2]]) => Origins(k) # {}
      BY <2>1, InKey DEF Comes
    <3>2. k \in KeysOf(link[l]) => Origins(k) # {}
      BY LinkKey DEF Comes
    <3> QED BY <1>2, <2>1, <2>2, <3>1, <3>2 DEF Reached, Ready
  <2>4. Comes(k, l[1], l[2])
    BY <2>3, ComesKept
  <2>5. k \in D[l[1]] \/ (l[1] = n /\ k \in K)
    BY <1>3, <2>1, <2>2, <2>4 DEF Ready
  <2> QED BY <1>1, <2>1, <2>5
<1> QED BY <1>6, <1>7

LEMMA SpotsKept ==
    ASSUME Extends, MessagesWell, NEW D, Keeps(D),
           NEW n \in Nodes, NEW K \in SUBSET Nat, Ready(D, n, K),
           NEW E, E = [D EXCEPT ![n] = @ \cup K],
           \A l \in Links :
               /\ Once(link'[l]) /\ (l[2] = n => KeysOf(link'[l]) \cap K = {})
               /\ l[1] # n => KeysOf(link'[l]) \subseteq KeysOf(link[l])
               /\ l[1] = n => KeysOf(link'[l]) \subseteq KeysOf(link[l]) \cup Onward(n, l[2], K),
           \A b \in Nodes :
               /\ Once(msgIn'[b]) /\ KeysOf(msgIn'[b]) \subseteq KeysOf(msgIn[b])
               /\ Once(msgOut'[b])
               /\ \A k \in KeysOf(msgOut'[b]) \ KeysOf(msgOut[b]) : Origins(k) = {} /\ Origins(k)' # {}
               /\ KeysOf(inHand'[b]) \subseteq E[b],
           (KeysOf(msgIn'[n]) \cup KeysOf(msgOut'[n])) \cap K = {}
    PROVE  Placed(E)' /\ Chained(E)'
<1>1. LinkMoves(n, K) /\ NodeMoves(E)
  BY DEF LinkMoves, NodeMoves
<1> QED BY <1>1, SpotsMoved, Zenon

(***************************************************************************)
(* The nodes on the way from a node to the root are finitely many.         *)
(***************************************************************************)
LEMMA AncestorsFinite ==
    ASSUME NEW k \in Nodes
    PROVE  IsFiniteSet({c \in Clients : k \in Within[c]})
<1> DEFINE Above(j) == {c \in Clients : j \in Within[c]}
           S == {j \in Nodes : IsFiniteSet(Above(j))}
<1>1. Root \in S
  <2>1. Above(Root) = {}
    BY WithinServer
  <2> QED BY <2>1, FS_EmptySet, TreeAssumption
<1>2. ASSUME NEW c \in Clients, Parent[c] \in S PROVE c \in S
  <2>1. Above(c) \subseteq Above(Parent[c]) \cup {c}
    BY WithinLast DEF Clients
  <2>2. IsFiniteSet(Above(Parent[c]) \cup {c})
    <3>1. IsFiniteSet(Above(Parent[c]))
      BY <1>2
    <3> HIDE DEF Above
    <3> QED BY <3>1, FS_AddElement
  <2>3. IsFiniteSet(Above(c))
    <3> HIDE DEF Above
    <3> QED BY <2>1, <2>2, FS_Subset
  <2> QED BY <2>3 DEF Clients
<1>3. S \in SUBSET Nodes
  OBVIOUS
<1>4. DownClosed(S)
  <2> HIDE DEF S
  <2> QED BY <1>2 DEF DownClosed, Clients
<1>5. S = Nodes
  <2> HIDE DEF S
  <2> QED BY <1>1, <1>3, <1>4, TreeAssumption
<1>6. k \in S
  <2> HIDE DEF S
  <2> QED BY <1>5
<1> QED BY <1>6

(***************************************************************************)
(* The losses that are handled, and the calls that are made for them.      *)
(***************************************************************************)
LEMMA HandledKeys ==
    ASSUME NEW k, Origins(k) # {}, NEW c \in Nodes, IdOf(c) = k \/ (Extends /\ ~HasId(c))
    PROVE  ~HasId(c) => IdOf(c)' # k
<1> SUFFICES ASSUME ~HasId(c), Extends PROVE IdOf(c)' # k
  <2>1. ASSUME IdOf(c) = k, ~HasId(c) PROVE FALSE
    <3>1. k = 0
      BY <2>1 DEF HasId
    <3> QED BY <3>1 DEF Origins, Tags, HasId
  <2> QED BY <2>1
<1>1. k \in Names
  <2>1. CASE k \in Tags
    BY <2>1 DEF Names
  <2>2. CASE k \notin Tags
    BY <2>2 DEF Origins, Names, HasId, Clients
  <2> QED BY <2>1, <2>2
<1> QED BY <1>1 DEF Extends, Grows

LEMMA LossKept ==
    ASSUME Extends, NEW D, Keeps(D), NEW n \in Nodes, NEW K \in SUBSET Nat, Ready(D, n, K),
           NEW E, E = [D EXCEPT ![n] = @ \cup K],
           \A c \in Clients : HasId(c) /\ IdOf(c) \in K => Dead(c),
           \A c \in Clients :
               /\ HasId(c)
               /\ \/ Parent[c] = n /\ IdOf(c) \in K
                  \/ /\ ~Entering(Parent[c], c)
                     /\ IdOf(c) \notin DOMAIN directClients[Parent[c]]
               => /\ ~Entering(Parent[c], c)'
                  /\ IdOf(c) \notin DOMAIN directClients'[Parent[c]]
    PROVE  LossHandled(E)'
<1>1. \A b \in Nodes : \A k \in E[b] : k \in D[b] \/ (b = n /\ k \in K)
  BY DEF Keeps
<1>2. \A b \in Nodes : \A k \in E[b] : Origins(k) # {}
  BY <1>1 DEF Keeps, Placed, Ready
<1> SUFFICES ASSUME NEW c \in Clients, HasId(c)'
             PROVE  /\ IdOf(c)' \in E[Parent[c]] =>
                          /\ ~Entering(Parent[c], c)'
                          /\ IdOf(c)' \notin DOMAIN directClients'[Parent[c]]
                    /\ \A b \in Nodes : IdOf(c)' \in E[b] => ~Linked(c)'
  BY DEF LossHandled
<1>3. c \in Nodes /\ Parent[c] \in Nodes
  BY WithinServer
<1>4. CASE ~HasId(c)
  <2>1. \A b \in Nodes : IdOf(c)' \notin E[b]
    BY <1>2, <1>3, <1>4, HandledKeys
  <2> QED BY <1>3, <2>1
<1>5. CASE HasId(c)
  <2>1. IdOf(c)' = IdOf(c)
    BY <1>3, <1>5, IdsKept DEF Extends
  <2>2. /\ IdOf(c) \in D[Parent[c]] => /\ ~Entering(Parent[c], c)
                                       /\ IdOf(c) \notin DOMAIN directClients[Parent[c]]
        /\ \A b \in Nodes : IdOf(c) \in D[b] => ~Linked(c)
    BY <1>5 DEF Keeps, LossHandled
  <2>3. IdOf(c) \in E[Parent[c]] => /\ ~Entering(Parent[c], c)'
                                    /\ IdOf(c) \notin DOMAIN directClients'[Parent[c]]
    BY <1>1, <1>3, <1>5, <2>2
  <2>4. ASSUME NEW b \in Nodes, IdOf(c) \in E[b] PROVE ~Linked(c)'
    <3>1. Dead(c)
      BY <1>1, <1>5, <2>2, <2>4 DEF Dead
    <3> QED BY <3>1 DEF Extends, Grows
  <2> QED BY <2>1, <2>3, <2>4
<1> QED BY <1>4, <1>5

LEMMA MeantKept ==
    ASSUME Extends, SubmittedWell, NEW n, NEW t, MeantFor(n, t)
    PROVE  MeantFor(n, t)'
<1> PICK d : d = submitted[t].dest
  OBVIOUS
<1>1. t \in DOMAIN submitted /\ t \in DOMAIN submitted' /\ submitted'[t] = submitted[t]
  BY DEF MeantFor, Extends
<1>2. n # submitted[t].from /\ (d = 0 \/ Owners(d) \subseteq {n})
  BY DEF MeantFor
<1>3. d # 0 => d \in Names
  BY <1>1 DEF SubmittedWell, ToSet
<1>4. d # 0 => Owners(d)' = Owners(d)
  BY <1>3, NamesKept DEF Extends
<1>5. d = 0 \/ Owners(d)' \subseteq {n}
  BY <1>2, <1>4
<1> QED BY <1>1, <1>2, <1>5 DEF MeantFor, Owners

LEMMA UsedKept ==
    ASSUME Extends, SubmittedWell, NEW D, Keeps(D), NEW E,
           used \in [Nodes -> Seq(1..MaxSubmit)],
           \A b \in Nodes :
               /\ Done(D, b) \subseteq Done(E, b)'
               /\ \/ used'[b] = used[b]
                  \/ \E t \in Done(E, b)' \ Done(D, b) :
                        used'[b] = Append(used[b], t) /\ MeantFor(b, t)
    PROVE  UsedWellOnce(E)'
<1> SUFFICES ASSUME NEW b \in Nodes
             PROVE  /\ Distinct(used'[b])
                    /\ \A t \in ToSet(used'[b]) : t \in Done(E, b)' /\ MeantFor(b, t)'
  BY DEF UsedWellOnce
<1>1. Distinct(used[b]) /\ \A t \in ToSet(used[b]) : t \in Done(D, b) /\ MeantFor(b, t)
  BY DEF Keeps, UsedWellOnce
<1>2. CASE used'[b] = used[b]
  BY <1>1, <1>2, MeantKept
<1>3. CASE \E t \in Done(E, b)' \ Done(D, b) : used'[b] = Append(used[b], t) /\ MeantFor(b, t)
  <2>1. PICK t \in Done(E, b)' \ Done(D, b) : used'[b] = Append(used[b], t) /\ MeantFor(b, t)
    BY <1>3
  <2> PICK u : u = used'[b]
    OBVIOUS
  <2>2. /\ DOMAIN u = DOMAIN used[b] \cup {Len(used[b]) + 1}
        /\ Len(used[b]) + 1 \notin DOMAIN used[b]
        /\ \A i \in DOMAIN used[b] : u[i] = used[b][i]
        /\ u[Len(used[b]) + 1] = t
    BY <2>1
  <2>3. ToSet(u) = ToSet(used[b]) \cup {t}
    <3>1. \A x : x \in ToSet(u) <=> \E i \in DOMAIN u : u[i] = x
      BY DEF ToSet
    <3>2. \A x : x \in ToSet(used[b]) <=> \E i \in DOMAIN used[b] : used[b][i] = x
      BY DEF ToSet
    <3>3. \A x : x \in ToSet(u) <=> x \in ToSet(used[b]) \/ x = t
      BY <2>2, <3>1, <3>2
    <3> QED BY <3>3, Zenon
  <2>4. ASSUME NEW i \in DOMAIN u, NEW j \in DOMAIN u, u[i] = u[j] PROVE i = j
    <3>1. \A x \in DOMAIN used[b] : u[x] # t
      BY <1>1, <2>1, <2>2 DEF ToSet
    <3>2. CASE i \in DOMAIN used[b] /\ j \in DOMAIN used[b]
      BY <1>1, <2>2, <2>4, <3>2 DEF Distinct
    <3> QED BY <2>2, <2>4, <3>1, <3>2
  <2>5. Distinct(u)
    BY <2>4 DEF Distinct
  <2>6. \A x \in ToSet(u) : x \in Done(E, b)' /\ MeantFor(b, x)'
    BY <1>1, <2>1, <2>3, MeantKept
  <2> QED BY <2>5, <2>6
<1> QED BY <1>2, <1>3

(***************************************************************************)
(* How often a node is told of a loss.                                     *)
(***************************************************************************)
LEMMA CutsKept ==
    ASSUME Extends, NEW D, NEW E, NEW b \in Nodes, NEW k \in Clients, HasId(k),
           Done(D, b) \subseteq Done(E, b)'
    PROVE  /\ Cuts(D, b, k) \subseteq Cuts(E, b, k)' /\ IsFiniteSet(Cuts(E, b, k)')
           /\ Cardinality(Cuts(D, b, k)) \in Nat /\ Cardinality(Cuts(E, b, k)') \in Nat
           /\ Cardinality(Cuts(D, b, k)) <= Cardinality(Cuts(E, b, k)')
<1>1. Cuts(D, b, k) \subseteq Cuts(E, b, k)'
  <2> SUFFICES ASSUME NEW c \in Cuts(D, b, k) PROVE c \in Cuts(E, b, k)'
    OBVIOUS
  <2>1. c \in Clients /\ c \in Nodes /\ HasId(c) /\ k \in Within[c] /\ IdOf(c) \in Done(D, b)
    BY DEF Cuts, Clients
  <2>2. HasId(c)' /\ IdOf(c)' = IdOf(c)
    BY <2>1, IdsKept DEF Extends
  <2>3. IdOf(c)' \in Done(E, b)'
    BY <2>1, <2>2
  <2> QED BY <2>1, <2>2, <2>3 DEF Cuts
<1>2. /\ IsFiniteSet({c \in Clients : k \in Within[c]})
      /\ Cuts(E, b, k)' \subseteq {c \in Clients : k \in Within[c]}
  <2>1. Cuts(E, b, k)' \subseteq {c \in Clients : k \in Within[c]}
    BY DEF Cuts
  <2>2. k \in Nodes
    BY DEF Clients
  <2> QED BY <2>1, <2>2, AncestorsFinite
<1>3. IsFiniteSet(Cuts(E, b, k)')
  BY <1>2, FS_Subset
<1>4. IsFiniteSet(Cuts(D, b, k)) /\ Cardinality(Cuts(D, b, k)) <= Cardinality(Cuts(E, b, k)')
  BY <1>1, <1>3, FS_Subset
<1> QED BY <1>1, <1>3, <1>4, FS_CardinalityType

LEMMA ToldKept ==
    ASSUME KernalInv, RoutesInv, Extends, NEW D, Keeps(D), NEW E, removed' = removed,
           \A b \in Nodes : Done(D, b) \subseteq Done(E, b)'
    PROVE  ToldWell(E)'
<1> SUFFICES ASSUME NEW b \in Nodes, NEW k \in Clients, HasId(k)'
             PROVE  Told(b, IdOf(k))' <= Cardinality(Cuts(E, b, k)')
                                         + (IF IdOf(k)' \in Done(E, b)' THEN 1 ELSE 0)
  BY DEF ToldWell
<1>1. k \in Nodes
  BY DEF Clients
<1>2. CASE HasId(k)
  <2>1. IdOf(k)' = IdOf(k)
    BY <1>1, <1>2, IdsKept DEF Extends
  <2>2. Told(b, IdOf(k))' = Told(b, IdOf(k))
    BY <2>1 DEF Told
  <2>3. Told(b, IdOf(k)) <= Cardinality(Cuts(D, b, k))
                            + (IF IdOf(k) \in Done(D, b) THEN 1 ELSE 0)
    BY <1>2 DEF Keeps, ToldWell
  <2>4. /\ Cardinality(Cuts(D, b, k)) \in Nat /\ Cardinality(Cuts(E, b, k)') \in Nat
        /\ Cardinality(Cuts(D, b, k)) <= Cardinality(Cuts(E, b, k)')
    BY <1>2, CutsKept
  <2>5. IdOf(k) \in Done(D, b) => IdOf(k)' \in Done(E, b)'
    BY <2>1
  <2>6. Told(b, IdOf(k)) \in Nat
    <3>1. {i \in DOMAIN removed[b] : removed[b][i] = IdOf(k)} \subseteq 1..Len(removed[b])
          /\ Len(removed[b]) \in Nat
      BY DEF KernalInv, TablesTyped
    <3>2. IsFiniteSet({i \in DOMAIN removed[b] : removed[b][i] = IdOf(k)})
      BY <3>1, FS_Interval, FS_Subset
    <3> QED BY <3>2, FS_CardinalityType DEF Told
  <2> QED BY <2>2, <2>3, <2>4, <2>5, <2>6
<1>3. CASE ~HasId(k)
  <2>1. removed[b] \in Seq(Names)
    <3>1. removed[b] \in Seq(CutIn(Nodes \ {b}))
      BY DEF RoutesInv, Removing
    <3>2. CutIn(Nodes \ {b}) \subseteq Names
      BY DEF CutIn
    <3> QED BY <3>1, <3>2, SeqOver
  <2>2. IdOf(k)' \notin Names
    BY <1>1, <1>3 DEF Extends, Grows
  <2>3. {i \in DOMAIN removed'[b] : removed'[b][i] = IdOf(k)'} = {}
    BY <2>1, <2>2
  <2>4. Told(b, IdOf(k))' = 0
    BY <2>3, FS_EmptySet DEF Told
  <2>5. Cardinality(Cuts(E, b, k)') \in Nat
    <3>1. IsFiniteSet({c \in Clients : k \in Within[c]})
      BY <1>1, AncestorsFinite
    <3>2. Cuts(E, b, k)' \subseteq {c \in Clients : k \in Within[c]}
      BY DEF Cuts
    <3>3. IsFiniteSet(Cuts(E, b, k)')
      BY <3>1, <3>2, FS_Subset
    <3> QED BY <3>3, FS_CardinalityType
  <2> QED BY <2>4, <2>5
<1> QED BY <1>2, <1>3

\* of the ids that a notice adds one is in front and the others are distinct
LEMMA NoticeReversed ==
    ASSUME NEW id \in Nat, NEW s \in Seq(Nat), NEW t, t = Reverse(<<id>> \o s),
           NEW b \in Nat, b = Len(s)
    PROVE  t \in Seq(Nat) /\ Len(t) - 1 = b /\ t[b + 1] = id
<1> PICK v : v = <<id>> \o s
  OBVIOUS
<1>1. v \in Seq(Nat) /\ Len(v) = b + 1 /\ v[1] = id
  OBVIOUS
<1>2. t = [i \in 1..b + 1 |-> v[b + 1 - i + 1]]
  BY <1>1 DEF Reverse
<1>3. t \in Seq(Nat)
  BY <1>1, ReverseTyped
<1>4. \A i \in 1..b + 1 : t[i] = v[b + 1 - i + 1]
  BY <1>2
<1>5. t[b + 1] = id
  <2>1. b + 1 \in 1..b + 1 /\ b + 1 - (b + 1) + 1 = 1
    OBVIOUS
  <2> QED BY <1>1, <1>4, <2>1
<1>6. Len(t) - 1 = b
  BY <1>2
<1> QED BY <1>3, <1>5, <1>6

LEMMA NoticeAt ==
    ASSUME NEW id \in Nat, NEW s \in Seq(Nat), NEW t, t = Reverse(<<id>> \o s),
           NEW b \in Nat, b = Len(s), NEW i \in 1..b
    PROVE  t[i] = s[b + 1 - i]
<1> PICK v : v = <<id>> \o s
  OBVIOUS
<1>1. v \in Seq(Nat) /\ Len(v) = b + 1
  OBVIOUS
<1>2. \A j \in 1..b : v[j + 1] = s[j]
  OBVIOUS
<1>3. t = [j \in 1..b + 1 |-> v[b + 1 - j + 1]]
  BY <1>1 DEF Reverse
<1>4. i \in 1..b + 1 /\ b + 1 - i \in 1..b
  OBVIOUS
<1> QED BY <1>2, <1>3, <1>4

CountsUp(r, id, s, x, u) == \E p, q : {i \in DOMAIN u : u[i] = x} \subseteq
    {i \in DOMAIN r : r[i] = x} \cup (IF x = id THEN {p} ELSE {})
        \cup (IF x \in ToSet(s) THEN {q} ELSE {})

LEMMA CountRemoved ==
    ASSUME NEW r \in Seq(Nat), NEW id \in Nat, NEW s \in Seq(Nat), NEW x, NEW u
    PROVE  Distinct(s) /\ u = r \o Reverse(<<id>> \o s) => CountsUp(r, id, s, x, u)
<1>1. SUFFICES ASSUME Distinct(s) /\ u = r \o Reverse(<<id>> \o s)
               PROVE  \E p, q : {i \in DOMAIN u : u[i] = x} \subseteq
                          {i \in DOMAIN r : r[i] = x} \cup (IF x = id THEN {p} ELSE {})
                              \cup (IF x \in ToSet(s) THEN {q} ELSE {})
  BY DEF CountsUp
<1>2. PICK t : t = Reverse(<<id>> \o s)
  OBVIOUS
<1>3. PICK a \in Nat, b \in Nat : a = Len(r) /\ b = Len(s)
  OBVIOUS
<1>4. t \in Seq(Nat) /\ Len(t) - 1 = b
  BY <1>2, <1>3, NoticeReversed
<1>5. ASSUME NEW i \in 1..b PROVE t[i] = s[b + 1 - i] /\ b + 1 - i \in DOMAIN s
  BY <1>2, <1>3, NoticeAt
<1>6. \A i, j \in 1..b : t[i] = t[j] => i = j
  <2>1. \A i, j \in 1..b : b + 1 - i = b + 1 - j => i = j
    OBVIOUS
  <2> SUFFICES ASSUME NEW i \in 1..b, NEW j \in 1..b, t[i] = t[j] PROVE i = j
    OBVIOUS
  <2>2. /\ t[i] = s[b + 1 - i] /\ b + 1 - i \in DOMAIN s
        /\ t[j] = s[b + 1 - j] /\ b + 1 - j \in DOMAIN s
    BY <1>5
  <2>3. b + 1 - i = b + 1 - j
    BY <1>1, <2>2, Zenon DEF Distinct
  <2> QED BY <2>1, <2>3
<1>7. u = r \o t
  BY <1>1, <1>2
<1>8. DOMAIN r = 1..a
  BY <1>3
<1>9. DOMAIN u = 1..a + b + 1
  <2>1. Len(u) = Len(r) + Len(t)
    BY <1>4, <1>7
  <2>2. DOMAIN u = 1..Len(u)
    BY <1>4, <1>7
  <2>3. Len(t) = b + 1
    BY <1>4
  <2>4. Len(u) = a + b + 1
    BY <1>3, <2>1, <2>3
  <2> QED BY <2>2, <2>4
<1>10. ASSUME NEW i \in 1..a PROVE u[i] = r[i]
  BY <1>3, <1>4, <1>7
<1>11. ASSUME NEW i \in 1..b + 1 PROVE u[a + i] = t[i]
  BY <1>3, <1>4, <1>7
<1>12. ASSUME NEW i \in DOMAIN u
       PROVE  i \in 1..a \/ \E j \in 1..b + 1 : i = a + j
  <2>1. CASE i <= a
    BY <1>9, <2>1
  <2>2. CASE i > a
    <3>1. i - a \in 1..b + 1 /\ i = a + (i - a)
      BY <1>9, <2>2
    <3> QED BY <3>1
  <2> QED BY <1>9, <2>1, <2>2
<1> DEFINE q == CHOOSE i \in 1..b : t[i] = x
<1>13. ASSUME NEW j \in 1..b, u[a + j] = x
       PROVE  x \in ToSet(s) /\ j = q
  <2>1. t[j] = x
    BY <1>11, <1>13
  <2>2. q \in 1..b /\ t[q] = x
    BY <2>1
  <2> HIDE DEF q
  <2>3. j = q
    BY <1>6, <2>1, <2>2, Zenon
  <2>4. t[j] = s[b + 1 - j] /\ b + 1 - j \in DOMAIN s
    BY <1>5
  <2>5. x \in ToSet(s)
    BY <2>1, <2>4 DEF ToSet
  <2> QED BY <2>3, <2>5
<1> HIDE DEF q
<1>14. ASSUME u[a + (b + 1)] = x PROVE x = id
  <2>1. t[b + 1] = id
    BY <1>2, <1>3, NoticeReversed
  <2> QED BY <1>11, <1>14, <2>1
<1>15. \A j \in 1..b + 1 : j \in 1..b \/ j = b + 1
  OBVIOUS
<1>16. {i \in DOMAIN u : u[i] = x} \subseteq
           {i \in DOMAIN r : r[i] = x} \cup (IF x = id THEN {a + (b + 1)} ELSE {})
               \cup (IF x \in ToSet(s) THEN {a + q} ELSE {})
  <2> SUFFICES ASSUME NEW i \in DOMAIN u, u[i] = x
               PROVE  \/ i \in DOMAIN r /\ r[i] = x
                      \/ x = id /\ i = a + (b + 1)
                      \/ x \in ToSet(s) /\ i = a + q
    OBVIOUS
  <2>1. CASE i \in 1..a
    BY <1>8, <1>10, <2>1
  <2>2. CASE \E j \in 1..b + 1 : i = a + j
    BY <1>13, <1>14, <1>15, <2>2, Zenon
  <2> QED BY <1>12, <2>1, <2>2
<1> QED BY <1>16

LEMMA NamesTyped ==
    ASSUME KernalInv
    PROVE  Names \subseteq Nat /\ \A n \in Nodes : IdOf(n) \in Nat
<1>1. ASSUME NEW n \in Nodes PROVE IdOf(n) \in Nat
  BY DEF IdOf, KernalInv, TablesTyped, AcceptTyped
<1>2. Tags \subseteq Nat
  BY TreeAssumption DEF Tags
<1> QED BY <1>1, <1>2 DEF Names

LEMMA OneMore ==
    ASSUME NEW S, NEW T, NEW p, IsFiniteSet(S), T \subseteq S \cup {p}
    PROVE  IsFiniteSet(T) /\ Cardinality(T) \in Nat /\ Cardinality(T) <= Cardinality(S) + 1
<1>1. /\ IsFiniteSet(S \cup {p})
      /\ Cardinality(S \cup {p}) = IF p \in S THEN Cardinality(S) ELSE Cardinality(S) + 1
  BY FS_AddElement
<1>2. /\ IsFiniteSet(T) /\ Cardinality(T) <= Cardinality(S \cup {p})
  BY <1>1, FS_Subset
<1>3. Cardinality(T) \in Nat /\ Cardinality(S) \in Nat
  BY <1>2, FS_CardinalityType
<1> QED BY <1>1, <1>2, <1>3

LEMMA CutsMore ==
    ASSUME Extends, NEW D, NEW E, NEW b \in Nodes, NEW k \in Clients, HasId(k),
           Done(D, b) \subseteq Done(E, b)',
           NEW c \in Clients, HasId(c), k \in Within[c],
           IdOf(c) \in Done(E, b)', IdOf(c) \notin Done(D, b)
    PROVE  Cardinality(Cuts(D, b, k)) + 1 <= Cardinality(Cuts(E, b, k)')
<1>1. /\ Cuts(D, b, k) \subseteq Cuts(E, b, k)' /\ IsFiniteSet(Cuts(E, b, k)')
      /\ Cardinality(Cuts(D, b, k)) \in Nat /\ Cardinality(Cuts(E, b, k)') \in Nat
  BY CutsKept
<1>2. c \in Cuts(E, b, k)' /\ c \notin Cuts(D, b, k)
  <2>1. c \notin Cuts(D, b, k)
    BY DEF Cuts
  <2>2. HasId(c)' /\ IdOf(c)' = IdOf(c)
    BY IdsKept DEF Extends, Clients
  <2> QED BY <2>1, <2>2 DEF Cuts
<1>3. Cuts(D, b, k) \cup {c} \subseteq Cuts(E, b, k)'
  BY <1>1, <1>2
<1>4. Cardinality(Cuts(D, b, k) \cup {c}) <= Cardinality(Cuts(E, b, k)')
  BY <1>1, <1>3, FS_Subset
<1>5. IsFiniteSet(Cuts(D, b, k))
  BY <1>1, FS_Subset
<1>6. Cardinality(Cuts(D, b, k) \cup {c}) = Cardinality(Cuts(D, b, k)) + 1
  BY <1>2, <1>5, FS_AddElement
<1> QED BY <1>4, <1>6

LEMMA ToldMore ==
    ASSUME KernalInv, RoutesInv, Extends, NEW D, Keeps(D), NEW E, NEW n \in Nodes,
           NEW c \in Clients, HasId(c), NEW s \in Seq(Of(Within[c])), Distinct(s),
           removed' = [removed EXCEPT ![n] = @ \o Reverse(<<IdOf(c)>> \o s)],
           \A b \in Nodes : Done(D, b) \subseteq Done(E, b)',
           IdOf(c) \in Done(E, n)', IdOf(c) \notin Done(D, n),
           \A k \in Nodes : IdOf(k)' = IdOf(k)
    PROVE  ToldWell(E)'
<1>1. /\ removed \in [Nodes -> Seq(Nat)] /\ removed[n] \in Seq(Nat)
      /\ removed'[n] = removed[n] \o Reverse(<<IdOf(c)>> \o s)
      /\ \A b \in Nodes : b # n => removed'[b] = removed[b]
  BY DEF KernalInv, TablesTyped
<1> SUFFICES ASSUME NEW b \in Nodes, NEW k \in Clients, HasId(k)'
             PROVE  Told(b, IdOf(k))' <= Cardinality(Cuts(E, b, k)')
                                         + (IF IdOf(k)' \in Done(E, b)' THEN 1 ELSE 0)
  BY DEF ToldWell
<1>2. k \in Nodes /\ HasId(k) /\ IdOf(k)' = IdOf(k)
  BY DEF Clients, HasId
<1> DEFINE Old == {i \in DOMAIN removed[b] : removed[b][i] = IdOf(k)}
           New == {i \in DOMAIN removed'[b] : removed'[b][i] = IdOf(k)}
<1>3. Told(b, IdOf(k)) = Cardinality(Old) /\ Told(b, IdOf(k))' = Cardinality(New)
  BY <1>2 DEF Told
<1>4. IsFiniteSet(Old) /\ Cardinality(Old) \in Nat
  <2> PICK p : p = 1..Len(removed[b])
    OBVIOUS
  <2>1. Old \subseteq p /\ IsFiniteSet(p)
    <3>1. removed[b] \in Seq(Nat)
      BY <1>1
    <3>2. Old \subseteq p
      BY <3>1
    <3>3. Len(removed[b]) \in Nat
      BY <3>1
    <3>4. IsFiniteSet(p)
      BY <3>3, FS_Interval
    <3> QED BY <3>2, <3>4
  <2> HIDE DEF Old
  <2>2. IsFiniteSet(Old)
    BY <2>1, FS_Subset
  <2> QED BY <2>2, FS_CardinalityType
<1>5. Cardinality(Old) <= Cardinality(Cuts(D, b, k)) + (IF IdOf(k) \in Done(D, b) THEN 1 ELSE 0)
  BY <1>2, <1>3 DEF Keeps, ToldWell
<1>6. /\ Cardinality(Cuts(D, b, k)) \in Nat /\ Cardinality(Cuts(E, b, k)') \in Nat
      /\ Cardinality(Cuts(D, b, k)) <= Cardinality(Cuts(E, b, k)')
  BY <1>2, CutsKept
<1>7. IdOf(k) \in Done(D, b) => IdOf(k)' \in Done(E, b)'
  BY <1>2
<1> HIDE DEF Old, New
<1>8. CASE b # n
  <2>1. New = Old
    BY <1>1, <1>8 DEF Old, New
  <2> QED BY <1>3, <1>4, <1>5, <1>6, <1>7, <2>1
<1>9. CASE b = n
  <2>1. s \in Seq(Nat) /\ IdOf(c) \in Nat
    <3>1. Of(Within[c]) \subseteq Nat
      BY NamesTyped DEF Of
    <3>2. IdOf(c) \in Nat
      BY NamesTyped DEF Clients
    <3> QED BY <3>1, <3>2, SeqOver
  <2>2. PICK p, q : New \subseteq Old \cup (IF IdOf(k) = IdOf(c) THEN {p} ELSE {})
                            \cup (IF IdOf(k) \in ToSet(s) THEN {q} ELSE {})
    <3> PICK r \in Seq(Nat) : r = removed[n]
      BY <1>1
    <3> PICK u : u = removed'[n]
      OBVIOUS
    <3> PICK id \in Nat : id = IdOf(c)
      BY <2>1
    <3> PICK x : x = IdOf(k)
      OBVIOUS
    <3>1. u = r \o Reverse(<<id>> \o s)
      BY <1>1
    <3>2. CountsUp(r, id, s, x, u)
      BY <2>1, <3>1, CountRemoved, Zenon
    <3>3. Old = {i \in DOMAIN r : r[i] = x} /\ New = {i \in DOMAIN u : u[i] = x}
      BY <1>9 DEF Old, New
    <3> QED BY <3>2, <3>3 DEF CountsUp
  <2>3. CASE k = c
    <3>1. New \subseteq (Old \cup {p}) \cup {q}
      BY <2>2
    <3>2. IsFiniteSet(Old \cup {p}) /\ Cardinality(Old \cup {p}) \in Nat
          /\ Cardinality(Old \cup {p}) <= Cardinality(Old) + 1
      BY <1>4, OneMore
    <3>3. Cardinality(New) \in Nat /\ Cardinality(New) <= Cardinality(Old \cup {p}) + 1
      BY <3>1, <3>2, OneMore
    <3>4. k \in Within[c]
      BY <1>2, <2>3, WithinIs
    <3>5. Cardinality(Cuts(D, b, k)) + 1 <= Cardinality(Cuts(E, b, k)')
      BY <1>2, <1>9, <3>4, CutsMore
    <3>6. IdOf(k)' \in Done(E, b)' /\ IdOf(k) \notin Done(D, b)
      BY <1>2, <1>9, <2>3
    <3> QED BY <1>3, <1>4, <1>5, <1>6, <3>2, <3>3, <3>5, <3>6
  <2>4. CASE k # c
    <3>1. IdOf(k) # IdOf(c)
      BY <1>2, <2>4 DEF RoutesInv, IdsGiven, Clients
    <3>2. CASE IdOf(k) \in ToSet(s)
      <4>1. New \subseteq Old \cup {q}
        BY <2>2, <3>1
      <4>2. Cardinality(New) \in Nat /\ Cardinality(New) <= Cardinality(Old) + 1
        BY <1>4, <4>1, OneMore
      <4>3. k \in Within[c]
        BY <1>2, <3>2 DEF ToSet, Of, Owners
      <4>4. Cardinality(Cuts(D, b, k)) + 1 <= Cardinality(Cuts(E, b, k)')
        BY <1>2, <1>9, <4>3, CutsMore
      <4> QED BY <1>3, <1>4, <1>5, <1>6, <1>7, <4>2, <4>4
    <3>3. CASE IdOf(k) \notin ToSet(s)
      <4>1. New \subseteq Old
        BY <2>2, <3>1, <3>3
      <4>2. Cardinality(New) \in Nat /\ Cardinality(New) <= Cardinality(Old)
        BY <1>4, <4>1, FS_Subset, FS_CardinalityType
      <4> QED BY <1>3, <1>4, <1>5, <1>6, <1>7, <4>2
    <3> QED BY <3>2, <3>3
  <2> QED BY <2>3, <2>4
<1> QED BY <1>8, <1>9

(***************************************************************************)
(* Where a message goes.                                                   *)
(***************************************************************************)
\* the tables lead a message for one node to that node's side, and not back
LEMMA RouteAway ==
    ASSUME KernalInv, RoutesInv, NEW n \in Nodes, NEW m, m.dest \notin {0, IdOf(n)},
           NEW k \in Route(n, m) \cap Neighbours(n)
    PROVE  Owners(m.dest) \subseteq Away(k, n) /\ Owners(m.dest) \cap Away(n, k) = {}
<1> PICK d : d = m.dest
  OBVIOUS
<1>1. Owners(d) \subseteq Nodes \ {n} /\ Within[n] \subseteq Nodes /\ n \in Within[n]
  BY WithinIs DEF Owners
<1>2. CASE d \in ToSet(idsFromServer[n])
  <2>1. n \in Clients /\ k = Parent[n] /\ k \in Neighbours(n)
    BY <1>2 DEF Route, ToServer
  <2>2. ToSet(idsFromServer[n]) \subseteq Of(Behind(n))
    BY SetOfSeq DEF RoutesInv, Tables
  <2>3. Owners(d) \subseteq Nodes \ Within[n]
    BY <1>1, <1>2, <2>2 DEF Of, Behind
  <2>4. n \in Children(k) /\ k \notin Children(n)
    <3>1. n \in Children(k)
      BY <2>1, NeighbourIs DEF Children
    <3> QED BY <2>1, <3>1, NeighbourIs
  <2>5. Away(k, n) = Nodes \ Within[n] /\ Away(n, k) \subseteq Within[n]
    BY <1>1, <2>4 DEF Away, Side, Behind
  <2> QED BY <2>3, <2>5
<1>3. CASE d \notin ToSet(idsFromServer[n])
  <2>1. PICK i \in DOMAIN directClients[n] :
           /\ directClients[n][i] = k
           /\ d \in DOMAIN clientToDirectClient[n] /\ clientToDirectClient[n][d] = i
    BY <1>3 DEF Route
  <2>2. PICK e \in Children(n) : directClients[n][i] = e /\ IdOf(e) = i /\ HasId(e)
    BY <2>1, DirectIs
  <2>3. PICK c \in Children(n) : HasId(c) /\ i = IdOf(c) /\ d \in Of(Within[c])
    BY <2>1 DEF RoutesInv, Tables, Filed
  <2>4. c = e /\ e = k
    <3>1. c \in Nodes /\ e \in Nodes
      BY ChildLinks
    <3> QED BY <2>1, <2>2, <2>3, <3>1 DEF RoutesInv, IdsGiven
  <2>5. Owners(d) \subseteq Within[k] /\ k \in Children(n) /\ n \notin Within[k] /\ n \notin Children(k)
    BY <2>3, <2>4, NeighbourIs DEF Of
  <2> QED BY <2>5 DEF Away, Side, Behind
<1> QED BY <1>2, <1>3

LEMMA AwayApart ==
    ASSUME NEW n \in Nodes, NEW a \in Neighbours(n), NEW k \in Neighbours(n), a # k
    PROVE  Away(a, n) \cap Away(k, n) = {}
<1>1. Away(a, n) \subseteq Away(n, k)
  BY SideOn DEF Away
<1>2. Away(n, k) \cap Away(k, n) = {}
  <2>1. CASE k \in Children(n)
    BY <2>1, NeighbourIs DEF Away, Side, Behind
  <2>2. CASE n \in Children(k)
    BY <2>2, NeighbourIs DEF Away, Side, Behind
  <2> QED BY <2>1, <2>2, NeighbourIs
<1> QED BY <1>1, <1>2

Passable(n, m, to) == \A k \in Neighbours(n) \cap to :
    HasId(k) /\ IdOf(k) # m.src => Marked(n, m) \in Coming(n, k)

LEMMA SentComes ==
    ASSUME KernalInv, RoutesInv, MessagesWell, NEW n \in Nodes, NEW m, Awake(n), NEW to,
           Passable(n, m, to), NEW l \in Links
    PROVE  /\ Sent(n, m, to)[l] \in Seq(Coming(l[1], l[2]))
           /\ \/ Sent(n, m, to)[l] = link[l]
              \/ /\ l[1] = n /\ Marked(n, m) \in Coming(n, l[2])
                 /\ Sent(n, m, to)[l] = Append(link[l], Marked(n, m))
<1> PICK q : q = Sent(n, m, to)[l]
  OBVIOUS
<1>1. link[l] \in Seq(Coming(l[1], l[2]))
  BY DEF MessagesWell
<1>2. CASE l[1] = n /\ l[2] \in to /\ ~Blocked(n, l[2], m) /\ {l, <<l[2], n>>} \subseteq open
  <2>1. l[2] \in Neighbours(n) /\ {<<n, l[2]>>, <<l[2], n>>} \subseteq open
    BY <1>2, LinkIs
  <2>2. HasId(l[2]) /\ Conn(n, l[2]) = [myId |-> IdOf(n), otherId |-> IdOf(l[2])]
    BY <2>1, ConnIs
  <2>3. Stamped(n, l[2], m) = Marked(n, m) /\ IdOf(l[2]) # m.src
    BY <1>2, <2>2 DEF Stamped, Marked, Blocked
  <2>4. Marked(n, m) \in Coming(n, l[2])
    BY <1>2, <2>1, <2>2, <2>3 DEF Passable
  <2>5. q = Append(link[l], Marked(n, m))
    BY <1>2, <2>3 DEF Sent
  <2> QED BY <1>1, <1>2, <2>4, <2>5
<1>3. CASE ~(l[1] = n /\ l[2] \in to /\ ~Blocked(n, l[2], m) /\ {l, <<l[2], n>>} \subseteq open)
  BY <1>1, <1>3 DEF Sent
<1> QED BY <1>2, <1>3

LEMMA SentSpots ==
    ASSUME KernalInv, RoutesInv, MessagesWell, NEW n \in Nodes, NEW m \in Good, Awake(n), NEW to,
           Passable(n, m, to), NEW l \in Links, NEW q, q = Sent(n, m, to)[l],
           NEW D, Placed(D), Chained(D), Ready(D, n, KeyOf(m))
    PROVE  /\ Once(q)
           /\ l[1] # n => KeysOf(q) \subseteq KeysOf(link[l])
           /\ l[1] = n => KeysOf(q) \subseteq KeysOf(link[l]) \cup Onward(n, l[2], KeyOf(m))
<1>1. link[l] \in Seq(Coming(l[1], l[2])) /\ Once(link[l])
  BY DEF MessagesWell, Placed
<1>2. CASE q = link[l]
  BY <1>1, <1>2
<1>3. CASE /\ l[1] = n /\ Marked(n, m) \in Coming(n, l[2])
           /\ q = Append(link[l], Marked(n, m))
  <2> PICK y : y = Marked(n, m)
    OBVIOUS
  <2>1. KeyOf(y) = KeyOf(m)
    BY MarkedGood DEF KeyOf, Key, Counts
  <2>2. \A k \in KeyOf(y) : Comes(k, n, l[2])
    BY <1>3 DEF Coming, KeyOf
  <2>3. KeyOf(y) \subseteq Onward(n, l[2], KeyOf(m))
    BY <2>1, <2>2 DEF Onward
  <2>4. KeyOf(y) \cap KeysOf(link[l]) = {}
    BY <1>3, <2>1, <2>2 DEF Ready, Chained, Reached
  <2>5. KeysOf(q) = KeysOf(link[l]) \cup KeyOf(y) /\ Once(q)
    BY <1>1, <1>3, <2>4, KeysAppend
  <2> QED BY <1>3, <2>3, <2>5
<1> QED
  <2>1. \/ q = link[l]
        \/ /\ l[1] = n /\ Marked(n, m) \in Coming(n, l[2])
           /\ q = Append(link[l], Marked(n, m))
    BY SentComes
  <2> QED BY <1>2, <1>3, <2>1

(***************************************************************************)
(* What most steps have in common: the accept handler does nothing, nobody *)
(* enters, and the messages to be used stay where they are.                *)
(***************************************************************************)
LEMMA HandlerKept ==
    ASSUME KernalInv, RoutesInv, Extends, HandlerWell, accepting' = accepting,
           \A n \in Nodes : DOMAIN directClients'[n] \subseteq DOMAIN directClients[n]
    PROVE  /\ HandlerWell'
           /\ \A c \in Clients : /\ HasId(c) /\ ~Entering(Parent[c], c)
                                 /\ IdOf(c) \notin DOMAIN directClients[Parent[c]]
                                 => /\ ~Entering(Parent[c], c)'
                                    /\ IdOf(c) \notin DOMAIN directClients'[Parent[c]]
<1>1. ASSUME NEW n \in Nodes, NEW c \in Clients, Entering(n, c)'
      PROVE  IdOf(c)' \notin DOMAIN directClients'[n]
  <2>1. Entering(n, c) /\ c = accepting[n].client
    BY <1>1 DEF Entering
  <2>2. HasId(c)
    BY <2>1, HandlerClient DEF Entering
  <2>3. IdOf(c)' = IdOf(c)
    BY <2>2, IdsKept DEF Extends, Clients
  <2> QED BY <2>1, <2>3 DEF HandlerWell
<1>2. HandlerWell'
  BY <1>1 DEF HandlerWell
<1>3. \A c \in Clients : Parent[c] \in Nodes
  BY WithinServer
<1> QED BY <1>2, <1>3 DEF Entering

LEMMA CalmKept ==
    ASSUME KernalInv, RoutesInv, Extends, SubmittedWell, AnnouncedWell,
           NEW D, Keeps(D), NEW E, Placed(E)', Chained(E)', LossHandled(E)',
           E \in [Nodes -> SUBSET Nat],
           \A b \in Nodes : Done(D, b) \subseteq Done(E, b)',
           UNCHANGED <<submitted, announced, used, removed>>
    PROVE  SubmittedWell' /\ AnnouncedWell' /\ Keeps(E)'
<1>1. SubmittedWell' /\ AnnouncedWell'
  BY SubmittedKept, AnnouncedKept
<1>2. used \in [Nodes -> Seq(1..MaxSubmit)]
  BY DEF KernalInv, TablesTyped
<1>3. UsedWellOnce(E)'
  BY <1>2, UsedKept
<1>4. ToldWell(E)'
  BY ToldKept
<1> QED BY <1>1, <1>3, <1>4 DEF Keeps

\* a step in which no message that counts is sent, used or taken in
LEMMA IdleKept ==
    ASSUME KernalInv, RoutesInv, Extends, OnceInv, HandlerWell', MessagesWell',
           \A c \in Clients : /\ HasId(c) /\ ~Entering(Parent[c], c)
                              /\ IdOf(c) \notin DOMAIN directClients[Parent[c]]
                              => /\ ~Entering(Parent[c], c)'
                                 /\ IdOf(c) \notin DOMAIN directClients'[Parent[c]],
           \A l \in Links : Once(link'[l]) /\ KeysOf(link'[l]) \subseteq KeysOf(link[l]),
           \A b \in Nodes : Once(msgOut'[b]) /\ KeysOf(msgOut'[b]) \subseteq KeysOf(msgOut[b]),
           UNCHANGED <<submitted, announced, used, removed, msgIn, inHand>>
    PROVE  OnceInv'
<1>1. PICK D : Keeps(D)
  BY DEF OnceInv
<1>2. D \in [Nodes -> SUBSET Nat]
  BY <1>1 DEF Keeps
<1>3. Root \in Nodes
  BY TreeAssumption
<1> DEFINE K == {}
<1>4. Ready(D, Root, K) /\ D = [D EXCEPT ![Root] = @ \cup K] /\ K \in SUBSET Nat
  BY <1>2 DEF Ready
<1>5. \A b \in Nodes : /\ Once(msgIn'[b]) /\ KeysOf(msgIn'[b]) \subseteq KeysOf(msgIn[b])
                       /\ KeysOf(inHand'[b]) \subseteq D[b]
  BY <1>1 DEF Keeps, Placed
<1>6. Placed(D)' /\ Chained(D)'
  <2>1. \A l \in Links : KeysOf(link'[l]) \cap K = {}
    OBVIOUS
  <2>2. (KeysOf(msgIn'[Root]) \cup KeysOf(msgOut'[Root])) \cap K = {}
    OBVIOUS
  <2> HIDE DEF K
  <2>3. MessagesWell
    BY DEF OnceInv
  <2>4. \A b \in Nodes : KeysOf(msgOut'[b]) \ KeysOf(msgOut[b]) = {}
    OBVIOUS
  <2>5. \A l \in Links : KeysOf(link'[l]) \subseteq KeysOf(link[l]) \cup Onward(Root, l[2], K)
    OBVIOUS
  <2> QED BY <1>1, <1>3, <1>4, <1>5, <2>1, <2>2, <2>3, <2>4, <2>5, SpotsKept
<1>7. LossHandled(D)'
  <2>1. \A c \in Clients : ~(HasId(c) /\ IdOf(c) \in K)
    OBVIOUS
  <2>2. \A c \in Clients : ~(Parent[c] = Root /\ IdOf(c) \in K)
    OBVIOUS
  <2> HIDE DEF K
  <2> QED BY <1>1, <1>3, <1>4, <2>1, <2>2, LossKept
<1>8. \A b \in Nodes : Done(D, b) \subseteq Done(D, b)'
  BY DEF Done
<1>9. SubmittedWell' /\ AnnouncedWell' /\ Keeps(D)'
  BY <1>1, <1>2, <1>6, <1>7, <1>8, CalmKept DEF OnceInv
<1> QED BY <1>9 DEF OnceInv

(***************************************************************************)
(* The steps in which no message that counts is handled.                   *)
(***************************************************************************)
LEMMA NoticeFits ==
    ASSUME NEW m \in Good, m.kind = "new"
    PROVE  /\ KeyOf(m) = {} /\ \A n \in Nodes : m \in Going(n)
           /\ \A a, b \in Nodes : m \in Coming(a, b)
BY DEF KeyOf, Counts, Going, Coming, Explained

\* a step that handles no message at all
LEMMA StillKept ==
    ASSUME KernalInv, RoutesInv, OnceInv, Grows, HandlerWell',
           \A c \in Clients : /\ HasId(c) /\ ~Entering(Parent[c], c)
                              /\ IdOf(c) \notin DOMAIN directClients[Parent[c]]
                              => /\ ~Entering(Parent[c], c)'
                                 /\ IdOf(c) \notin DOMAIN directClients'[Parent[c]],
           UNCHANGED <<link, queues, submitted, announced, used, removed>>
    PROVE  OnceInv'
<1> USE DEF queues
<1>1. Extends
  BY DEF Extends
<1>2. PICK D : Keeps(D)
  BY DEF OnceInv
<1>3. MessagesWell'
  BY <1>1, MessagesKept DEF OnceInv, MessagesWell
<1>4. /\ \A l \in Links : Once(link[l])
      /\ \A b \in Nodes : Once(msgOut[b])
  BY <1>2 DEF Keeps, Placed
<1> QED BY <1>1, <1>3, <1>4, IdleKept

LEMMA QuietKept ==
    ASSUME KernalInv, RoutesInv, OnceInv, Grows,
           \A n \in Nodes : DOMAIN directClients'[n] \subseteq DOMAIN directClients[n],
           UNCHANGED <<accepting, link, queues, submitted, announced, used, removed>>
    PROVE  OnceInv'
<1>1. Extends
  BY DEF Extends
<1> QED BY <1>1, HandlerKept, StillKept DEF OnceInv

LEMMA StutterOnce == ASSUME KernalInv, RoutesInv, OnceInv, UNCHANGED vars PROVE OnceInv'
<1> USE DEF vars, tables, accepted, queues, sending, wires, users
<1>1. Grows
  BY SameIdsKept DEF SameIds
<1> QED BY <1>1, QuietKept

LEMMA StartRootOnce ==
    ASSUME KernalInv, RoutesInv, OnceInv, ProperIds', StartRoot
    PROVE  OnceInv'
<1>1. /\ myId[Root] = 0 /\ Root \in Nodes
      /\ UNCHANGED <<serverId, idsFromServer, serverConn, clientToDirectClient,
                     announced, used, removed, clientConn, connected,
                     directClients, accepting, queues, sending, wires, users>>
  BY TreeAssumption DEF StartRoot
<1>2. PICK id : BuildId(Root, id) /\ myId' = [myId EXCEPT ![Root] = id]
  BY DEF StartRoot
<1>3. myId \in [Nodes -> Nat]
  BY DEF KernalInv, TablesTyped
<1> USE DEF sending, wires, users
<1>4. IdOf(Root)' = id /\ ~HasId(Root) /\ \A k \in Nodes : k # Root => IdOf(k)' = IdOf(k)
  <2>1. myId'[Root] = id
    BY <1>1, <1>2, <1>3
  <2> QED BY <1>1, <2>1 DEF IdOf, HasId
<1>5. Grows
  <2>1. \A c \in Clients : Dead(c) => ~Linked(c)'
    BY <1>1 DEF Dead, Linked
  <2> QED BY <1>1, <1>2, <1>4, <2>1, NewIdKept
<1> QED BY <1>1, <1>5, QuietKept

LEMMA DialOnce ==
    ASSUME KernalInv, RoutesInv, OnceInv, NEW c \in Clients, Dial(c)
    PROVE  OnceInv'
<1>1. UNCHANGED <<tables, drawn, clientConn, directClients, accepting, queues,
                  sending, wires, users>>
  BY DEF Dial
<1> USE DEF tables, sending, wires, users
<1>2. \A n \in Nodes : IdOf(n)' = IdOf(n)
  BY <1>1 DEF IdOf
<1>3. Grows
  BY <1>1, <1>2, GrowsIfSame
<1> QED BY <1>1, <1>3, QuietKept

LEMMA AcceptListOnce ==
    ASSUME KernalInv, RoutesInv, OnceInv, NEW n \in Nodes, AcceptList(n)
    PROVE  OnceInv'
<1> PICK c : c = accepting[n].client
  OBVIOUS
<1>1. /\ accepting[n].at = "listing"
      /\ accepting' = [accepting EXCEPT ![n] =
            [at |-> "inserting", client |-> c,
             msg |-> Added(n, clientConn[c].otherId,
                           idsFromServer[n] \o Keys(clientToDirectClient[n]))]]
      /\ UNCHANGED <<tables, drawn, clientConn, connected, directClients, queues,
                     sending, wires, users>>
  BY DEF AcceptList
<1>2. accepting \in [Nodes -> {NotAccepting} \cup Listing \cup Inserting]
  BY DEF KernalInv, AcceptTyped
<1> USE DEF tables, sending, wires, users
<1>3. /\ accepting'[n].at = "inserting" /\ accepting'[n].client = c
      /\ accepting'[n].msg.kind = "new"
      /\ \A k \in Nodes : k # n => accepting'[k] = accepting[k]
  BY <1>1, <1>2 DEF Added
<1>4. \A k, a \in Nodes : Entering(k, a)' <=> Entering(k, a)
  BY <1>1, <1>3 DEF Entering
<1>5. \A k \in Nodes : IdOf(k)' = IdOf(k)
  BY <1>1 DEF IdOf
<1>6. Grows
  BY <1>1, <1>5, GrowsIfSame
<1>7. Clients \subseteq Nodes /\ \A d \in Clients : Parent[d] \in Nodes
  BY WithinServer
<1>8. HandlerWell'
  BY <1>1, <1>3, <1>4, <1>5, <1>7 DEF OnceInv, HandlerWell
<1> QED BY <1>1, <1>4, <1>6, <1>7, <1>8, StillKept

LEMMA KeysSame ==
    ASSUME NEW S, NEW s \in Seq(S), NEW m \in S, KeyOf(m) = {}, NEW t, t = Append(s, m)
    PROVE  KeysOf(t) = KeysOf(s) /\ (Once(s) => Once(t))
<1>1. KeyOf(m) \cap KeysOf(s) = {} /\ KeysOf(s) \cup KeyOf(m) = KeysOf(s)
  OBVIOUS
<1>2. /\ KeysOf(Append(s, m)) = KeysOf(s) \cup KeyOf(m)
      /\ Once(s) /\ KeyOf(m) \cap KeysOf(s) = {} => Once(Append(s, m))
  BY KeysAppend
<1> QED BY <1>1, <1>2, Zenon

LEMMA OutNotice ==
    ASSUME KernalInv, RoutesInv, OnceInv, NEW n \in Nodes, NEW m \in Good, m.kind = "new",
           msgOut' = [msgOut EXCEPT ![n] = Append(@, m)], NEW b \in Nodes
    PROVE  /\ msgOut'[b] \in Seq(Going(b))
           /\ Once(msgOut'[b]) /\ KeysOf(msgOut'[b]) = KeysOf(msgOut[b])
<1>1. msgOut \in [Nodes -> Seq(Good)]
  BY DEF KernalInv, QueuesTyped
<1>2. msgOut[b] \in Seq(Going(b)) /\ Once(msgOut[b])
  BY DEF OnceInv, MessagesWell, Keeps, Placed
<1>3. m \in Going(b) /\ KeyOf(m) = {}
  BY NoticeFits
<1>4. CASE b = n
  <2> PICK t : t = Append(msgOut[b], m)
    OBVIOUS
  <2>1. msgOut'[b] = t
    BY <1>1, <1>4
  <2>2. t \in Seq(Going(b))
    BY <1>2, <1>3
  <2>3. KeysOf(t) = KeysOf(msgOut[b]) /\ Once(t)
    BY <1>2, <1>3, KeysSame
  <2> QED BY <2>1, <2>2, <2>3
<1>5. CASE b # n
  BY <1>1, <1>2, <1>5
<1> QED BY <1>4, <1>5

LEMMA LinkNotice ==
    ASSUME OnceInv, NEW l \in Links, NEW m \in Good, m.kind = "new"
    PROVE  /\ Append(link[l], m) \in Seq(Coming(l[1], l[2]))
           /\ Once(Append(link[l], m)) /\ KeysOf(Append(link[l], m)) = KeysOf(link[l])
<1>1. PICK S : S = Coming(l[1], l[2])
  OBVIOUS
<1>2. PICK q \in Seq(S) : q = link[l] /\ Once(q)
  BY <1>1 DEF OnceInv, MessagesWell, Keeps, Placed
<1>3. m \in S
  BY <1>1, NoticeFits, LinkIs
<1>4. KeyOf(m) = {}
  BY NoticeFits
<1>5. PICK p : p = Append(q, m)
  OBVIOUS
<1>6. p \in Seq(S)
  BY <1>3, <1>5
<1>7. KeysOf(p) = KeysOf(q) /\ (Once(q) => Once(p))
  BY <1>3, <1>4, <1>5, KeysSame
<1> QED BY <1>1, <1>2, <1>5, <1>6, <1>7

LEMMA AcceptInsertOnce ==
    ASSUME KernalInv, RoutesInv, OnceInv, NEW n \in Nodes, AcceptInsert(n)
    PROVE  OnceInv'
<1>1. accepting[n].at = "inserting"
  BY DEF AcceptInsert
<1>2. PICK c \in Children(n) :
         /\ accepting[n].client = c /\ HasId(c) /\ clientConn[c].otherId = IdOf(c)
         /\ Entering(n, c)
  BY <1>1, HandlerClient
<1>3. PICK id : id = IdOf(c)
  OBVIOUS
<1> PICK m : m = accepting[n].msg
  OBVIOUS
<1>4. /\ directClients' = [directClients EXCEPT ![n] = Insert(@, id, c)]
      /\ msgOut' = [msgOut EXCEPT ![n] = Append(@, m)]
      /\ accepting' = [accepting EXCEPT ![n] = NotAccepting]
      /\ UNCHANGED <<myId, announced, used, removed, clientConn, msgIn, inHand,
                     sending, wires, users>>
  BY <1>1, <1>2, <1>3 DEF AcceptInsert
<1> USE DEF sending, wires, users
<1>5. /\ accepting \in [Nodes -> {NotAccepting} \cup Listing \cup Inserting]
      /\ directClients \in [Nodes -> MapsTo(Clients)]
      /\ c \in Nodes /\ c \in Clients /\ Parent[c] = n
  BY ChildLinks DEF KernalInv, AcceptTyped
<1>6. m \in Good /\ m.kind = "new"
  <2>1. m \in Good
    BY <1>1, <1>5 DEF NotAccepting, Listing, Inserting
  <2> QED BY <1>1, <2>1 DEF OnceInv, HandlerWell
<1>7. /\ accepting'[n] = NotAccepting /\ \A k \in Nodes : k # n => accepting'[k] = accepting[k]
      /\ DOMAIN directClients'[n] \subseteq DOMAIN directClients[n] \cup {id}
      /\ \A k \in Nodes : k # n => directClients'[k] = directClients[k]
  BY <1>4, <1>5 DEF Insert
<1>8. \A a \in Nodes : ~Entering(n, a)' /\ \A k \in Nodes : k # n => (Entering(k, a)' <=> Entering(k, a))
  BY <1>7 DEF Entering, NotAccepting
<1>9. \A k \in Nodes : IdOf(k)' = IdOf(k)
  BY <1>4 DEF IdOf
<1>10. Grows
  BY <1>4, <1>9, GrowsIfSame
<1>11. Clients \subseteq Nodes /\ \A d \in Clients : Parent[d] \in Nodes
  BY WithinServer
<1>12. HandlerWell'
  BY <1>7, <1>8, <1>9, <1>11 DEF OnceInv, HandlerWell, NotAccepting
<1>13. ASSUME NEW d \in Clients, HasId(d), ~Entering(Parent[d], d),
              IdOf(d) \notin DOMAIN directClients[Parent[d]]
       PROVE  ~Entering(Parent[d], d)' /\ IdOf(d) \notin DOMAIN directClients'[Parent[d]]
  <2>1. d # c
    BY <1>2, <1>5, <1>13
  <2>2. IdOf(d) # id
    BY <1>3, <1>5, <1>11, <1>13, <2>1 DEF RoutesInv, IdsGiven
  <2> QED BY <1>7, <1>8, <1>11, <1>13, <2>2
<1>14. Extends
  BY <1>4, <1>10 DEF Extends
<1>15. MessagesWell'
  <2>1. \A b \in Nodes : msgOut'[b] \in Seq(Going(b))
    BY <1>4, <1>6, OutNotice
  <2> QED BY <1>4, <1>14, <2>1, MessagesKept DEF OnceInv, MessagesWell
<1>16. \A b \in Nodes : Once(msgOut'[b]) /\ KeysOf(msgOut'[b]) \subseteq KeysOf(msgOut[b])
  BY <1>4, <1>6, OutNotice
<1>17. \A l \in Links : Once(link'[l]) /\ KeysOf(link'[l]) \subseteq KeysOf(link[l])
  BY <1>4 DEF OnceInv, Keeps, Placed
<1> QED BY <1>4, <1>12, <1>13, <1>14, <1>15, <1>16, <1>17, IdleKept

LEMMA AcceptOnce ==
    ASSUME KernalInv, RoutesInv, OnceInv, ProperIds', NEW n \in Nodes, NEW c \in Children(n),
           Accept(c)
    PROVE  OnceInv'
<1>1. /\ c \in Clients /\ c \in Nodes /\ Parent[c] = n
      /\ <<n, c>> \in Links /\ <<n, c>>[1] = n /\ <<n, c>>[2] = c
  BY ChildLinks
<1>2. /\ connected[c] = "dialed"
      /\ open' = open \cup {<<n, c>>, <<c, n>>}
      /\ accepting' = [accepting EXCEPT ![n] = [at |-> "listing", client |-> c]]
      /\ UNCHANGED <<tables, directClients, msgIn, inHand, clientsToRemove,
                     notFound, lastBody, users>>
  BY <1>1 DEF Accept
<1>3. /\ myId[n] = IdOf(n) /\ ~HasId(c) /\ <<n, c>> \notin open /\ <<c, n>> \notin open
  BY <1>1, <1>2, ServerHasId, NewClient DEF Awake
<1>4. PICK id \in ToSet(Rand[n]) :
         /\ BuildId(n, id)
         /\ clientConn' = [clientConn EXCEPT ![c] = [myId |-> myId[n], otherId |-> id]]
         /\ msgOut' = [msgOut EXCEPT ![n] = Append(@, Added(n, 0, <<id>>))]
         /\ link' = [link EXCEPT ![<<n, c>>] =
                        IF id = Added(n, 1, <<id>>).src THEN @
                        ELSE Append(@, Added(n, 1, <<id>>))]
  BY <1>1 DEF Accept
<1>5. /\ link \in [Links -> Seq(Good)]
      /\ accepting \in [Nodes -> {NotAccepting} \cup Listing \cup Inserting]
      /\ clientConn \in [Nodes -> [myId : Nat, otherId : Nat \ {1}]]
      /\ myId \in [Nodes -> Nat]
  BY DEF KernalInv, WiresTyped, AcceptTyped, TablesTyped
<1> USE DEF tables, users
<1>6. IdOf(c)' = id /\ \A k \in Nodes : k # c => IdOf(k)' = IdOf(k)
  <2>1. clientConn'[c].otherId = id
    BY <1>1, <1>4, <1>5
  <2>2. \A k \in Nodes : k # c => clientConn'[k] = clientConn[k]
    BY <1>4, <1>5
  <2> QED BY <1>1, <1>2, <2>1, <2>2 DEF IdOf, Clients
<1>7. Grows /\ id \notin Names /\ id # 0 /\ id \in Nat
  <2>1. ASSUME NEW d \in Clients, d # c, Linked(d)' PROVE Linked(d)
    BY <1>2, <2>1, OtherLinks DEF Linked
  <2>2. \A d \in Clients : Dead(d) => ~Linked(d)'
    BY <1>3, <2>1 DEF Dead
  <2> QED BY <1>1, <1>3, <1>4, <1>6, <2>2, NewIdKept
<1>8. \A d \in {0, 1} : Added(n, d, <<id>>) \in Good /\ Added(n, d, <<id>>).kind = "new"
  <2>1. myId[n] \in Nat /\ <<id>> \in Seq(Nat) /\ <<id>> # <<>>
    BY <1>5, <1>7
  <2>2. ASSUME NEW d \in {0, 1} PROVE Added(n, d, <<id>>) \in Good /\ Added(n, d, <<id>>).kind = "new"
    <3>1. PICK m : m = [dest |-> d, src |-> myId[n], kind |-> "new", body |-> <<id>>]
      OBVIOUS
    <3>2. d \in Nat
      OBVIOUS
    <3>3. m \in Good /\ m.kind = "new"
      BY <2>1, <3>1, <3>2 DEF Good, Message
    <3> QED BY <3>1, <3>3 DEF Added
  <2> QED BY <2>2
<1>9. Extends
  BY <1>2, <1>7 DEF Extends
<1>10. PICK m \in Good : m = Added(n, 1, <<id>>) /\ m.kind = "new"
  BY <1>8
<1>11. ASSUME NEW l \in Links
       PROVE  /\ link'[l] \in Seq(Coming(l[1], l[2]))
              /\ Once(link'[l]) /\ KeysOf(link'[l]) \subseteq KeysOf(link[l])
  <2>1. link[l] \in Seq(Coming(l[1], l[2])) /\ Once(link[l])
    BY DEF OnceInv, MessagesWell, Keeps, Placed
  <2>2. link'[l] = link[l] \/ link'[l] = Append(link[l], m)
    BY <1>1, <1>4, <1>5, <1>10
  <2> QED BY <1>10, <2>1, <2>2, LinkNotice
<1>12. \A b \in Nodes : /\ msgOut'[b] \in Seq(Going(b))
                        /\ Once(msgOut'[b]) /\ KeysOf(msgOut'[b]) \subseteq KeysOf(msgOut[b])
  BY <1>4, <1>8, OutNotice
<1>13. MessagesWell'
  BY <1>2, <1>9, <1>11, <1>12, MessagesKept DEF OnceInv, MessagesWell
<1>14. /\ accepting'[n].at = "listing" /\ accepting'[n].client = c
       /\ \A k \in Nodes : k # n => accepting'[k] = accepting[k]
  BY <1>2, <1>5
<1>15. /\ \A a \in Nodes : Entering(n, a)' => a = c
       /\ \A k, a \in Nodes : k # n => (Entering(k, a)' <=> Entering(k, a))
  BY <1>14 DEF Entering
<1>16. Clients \subseteq Nodes /\ \A d \in Clients : Parent[d] \in Nodes
  BY WithinServer
<1>17. HandlerWell'
  <2>1. ASSUME NEW k \in Nodes, NEW d \in Clients, Entering(k, d)'
        PROVE  IdOf(d)' \notin DOMAIN directClients[k]
    <3>1. CASE k = n
      <4>1. d = c
        BY <1>15, <1>16, <2>1, <3>1
      <4>2. ASSUME id \in DOMAIN directClients[n] PROVE FALSE
        <5>1. PICK e \in Children(n) : IdOf(e) = id
          BY <4>2, DirectIs
        <5> QED BY <1>7, <5>1, ChildLinks DEF Names
      <4> QED BY <1>6, <3>1, <4>1, <4>2
    <3>2. CASE k # n
      <4>1. Entering(k, d)
        BY <1>15, <1>16, <2>1, <3>2
      <4>2. d \in Children(k)
        BY <4>1, HandlerClient DEF Entering
      <4>3. d # c
        BY <1>1, <3>2, <4>2, ChildLinks
      <4> QED BY <1>6, <1>16, <4>1, <4>3 DEF OnceInv, HandlerWell
    <3> QED BY <3>1, <3>2
  <2> QED BY <1>2, <1>14, <2>1 DEF OnceInv, HandlerWell
<1>18. ASSUME NEW d \in Clients, HasId(d), ~Entering(Parent[d], d),
              IdOf(d) \notin DOMAIN directClients[Parent[d]]
       PROVE  ~Entering(Parent[d], d)' /\ IdOf(d) \notin DOMAIN directClients'[Parent[d]]
  BY <1>2, <1>3, <1>15, <1>16, <1>18
<1> QED BY <1>2, <1>9, <1>11, <1>12, <1>13, <1>17, <1>18, IdleKept

LEMMA ClosesOnce ==
    ASSUME KernalInv, RoutesInv, OnceInv, NEW n \in Nodes, NEW k \in Nodes, Closes(n, k)
    PROVE  OnceInv'
<1>1. /\ <<n, k>> \in open /\ open' = open \ {<<n, k>>}
      /\ UNCHANGED <<tables, accepted, queues, clientsToRemove, notFound, lastBody, users>>
  BY DEF Closes
<1>2. PICK i \in 0..Len(link[<<n, k>>]) :
         link' = [link EXCEPT ![<<k, n>>] = <<>>, ![<<n, k>>] = SubSeq(@, 1, i)]
  BY DEF Closes
<1> USE DEF tables, accepted, queues, users
<1>3. /\ <<n, k>> \in Links /\ <<k, n>> \in Links /\ n # k
      /\ link \in [Links -> Seq(Good)]
  <2>1. <<n, k>> \in Links /\ link \in [Links -> Seq(Good)]
    BY <1>1 DEF KernalInv, WiresTyped
  <2>2. k \in Neighbours(n)
    BY <2>1 DEF Neighbours
  <2> QED BY <2>1, <2>2, NeighbourIs
<1>4. Grows
  BY <1>1, SameIdsKept DEF SameIds
<1>5. Extends
  BY <1>1, <1>4 DEF Extends
<1>6. /\ HandlerWell'
      /\ \A c \in Clients : /\ HasId(c) /\ ~Entering(Parent[c], c)
                            /\ IdOf(c) \notin DOMAIN directClients[Parent[c]]
                            => /\ ~Entering(Parent[c], c)'
                               /\ IdOf(c) \notin DOMAIN directClients'[Parent[c]]
  BY <1>1, <1>5, HandlerKept DEF OnceInv
<1>7. ASSUME NEW l \in Links
      PROVE  /\ link'[l] \in Seq(Coming(l[1], l[2]))
             /\ Once(link'[l]) /\ KeysOf(link'[l]) \subseteq KeysOf(link[l])
  <2>1. PICK S : S = Coming(l[1], l[2])
    OBVIOUS
  <2>2. PICK q \in Seq(S) : q = link[l] /\ Once(q)
    BY <2>1 DEF OnceInv, MessagesWell, Keeps, Placed
  <2>3. CASE l = <<n, k>>
    <3>1. link'[l] = SubSeq(q, 1, i) /\ i \in 0..Len(q)
      BY <1>2, <1>3, <2>2, <2>3
    <3>2. SubSeq(q, 1, i) \in Seq(S)
      BY <3>1, FirstPart
    <3>3. KeysOf(SubSeq(q, 1, i)) \subseteq KeysOf(q) /\ Once(SubSeq(q, 1, i))
      BY <2>2, <3>1, KeysFirst
    <3> QED BY <2>1, <2>2, <3>1, <3>2, <3>3
  <2>4. CASE l = <<k, n>>
    <3>1. link'[l] = <<>>
      BY <1>2, <1>3, <2>4
    <3> QED BY <3>1, KeysEmpty
  <2>5. CASE l # <<n, k>> /\ l # <<k, n>>
    <3>1. link'[l] = link[l]
      BY <1>2, <1>3, <2>5
    <3> QED BY <2>1, <2>2, <3>1
  <2> QED BY <2>3, <2>4, <2>5
<1>8. MessagesWell'
  BY <1>1, <1>5, <1>7, MessagesKept DEF OnceInv, MessagesWell
<1>9. \A b \in Nodes : Once(msgOut'[b]) /\ KeysOf(msgOut'[b]) \subseteq KeysOf(msgOut[b])
  BY <1>1 DEF OnceInv, Keeps, Placed
<1> QED BY <1>1, <1>5, <1>6, <1>7, <1>8, <1>9, IdleKept

LEMMA RemoveOtherOnce ==
    ASSUME KernalInv, RoutesInv, OnceInv, Kept, NEW n \in Nodes, NEW id, RemoveOther(n, id)
    PROVE  OnceInv'
<1>1. UNCHANGED <<connected, directClients, open, link>>
  BY DEF RemoveOther
<1>2. Grows
  BY <1>1, SameIdsKept DEF SameIds, Kept
<1> QED BY <1>1, <1>2, QuietKept DEF Kept

(***************************************************************************)
(* Out sends what its user, or the accept handler, queued.                 *)
(***************************************************************************)
\* what only n has sent is on no way to n
LEMMA OwnReady ==
    ASSUME RoutesInv, MessagesWell, NEW n \in Nodes, NEW D,
           NEW k, Origins(k) = {n}, k \notin D[n]
    PROVE  /\ Ready(D, n, {k}) /\ k \notin KeysOf(msgIn[n])
           /\ \A l \in Links : l[2] = n => k \notin KeysOf(link[l])
           /\ \A b \in Neighbours(n) : Comes(k, n, b)
<1>1. \A a : ~Comes(k, a, n)
  BY ComesIs
<1>2. \A b \in Neighbours(n) : Comes(k, n, b)
  <2> SUFFICES ASSUME NEW b \in Neighbours(n) PROVE Comes(k, n, b)
    OBVIOUS
  <2>1. n \in Away(n, b)
    BY SideOwn, NeighbourIs DEF Away
  <2> QED BY <2>1 DEF Comes
<1> QED BY <1>1, <1>2, LinkKey, InKey DEF Ready

LEMMA GoingPassable ==
    ASSUME KernalInv, RoutesInv, SubmittedWell, NEW n \in Nodes, Awake(n),
           NEW m \in Going(n)
    PROVE  Passable(n, m, Route(n, m))
<1> SUFFICES ASSUME NEW k \in Neighbours(n) \cap Route(n, m) PROVE Marked(n, m) \in Coming(n, k)
  BY DEF Passable
<1>1. m \in Good /\ m.kind # "gone" /\ (m.kind = "user" => Asked(m) /\ Origins(Key(m)) = {n})
  BY DEF Going
<1>2. PICK y : y = Marked(n, m)
  OBVIOUS
<1>3. /\ y \in Good /\ y.kind = m.kind /\ y.body = m.body /\ y.dest = m.dest
      /\ y.dest \in {0, 1} => y.src = IdOf(n)
  BY <1>1, <1>2, MarkedGood
<1>4. Explained(y)
  BY <1>1, <1>3 DEF Explained, Asked
<1>5. ASSUME Counts(y)
      PROVE  /\ HasId(n) /\ Comes(Key(y), n, k)
             /\ y.dest \notin {0, 1} => /\ y.dest \in Names
                                        /\ Owners(y.dest) \cap Away(n, k) = {}
  <2>1. m.kind = "user" /\ Key(y) = Key(m) /\ Origins(Key(m)) = {n} /\ m.dest \notin Tags \ {1}
    BY <1>1, <1>3, <1>5 DEF Counts, Key
  <2>2. Comes(Key(m), n, k)
    <3>1. n \in Away(n, k)
      BY SideOwn, NeighbourIs DEF Away
    <3> QED BY <2>1, <3>1 DEF Comes
  <2>3. ASSUME m.dest \notin {0, 1} PROVE m.dest \in Names /\ Owners(m.dest) \cap Away(n, k) = {}
    <3>1. PICK t \in DOMAIN submitted : m.body = <<t>> /\ m.dest = submitted[t].dest
      BY <1>1, <2>1 DEF Asked
    <3>2. Key(m) = t /\ t \in Tags
      BY <1>1, <2>1, <3>1 DEF Key, Good, Tags
    <3>3. submitted[t].from = n
      BY <2>1, <3>1, <3>2 DEF Origins
    <3>4. m.dest \in Names /\ n \notin Owners(m.dest)
      BY <2>3, <3>1, <3>3 DEF SubmittedWell, ToSet
    <3>5. m.dest \notin {0, IdOf(n)}
      BY <2>3, <3>4 DEF Owners
    <3> QED BY <3>4, <3>5, RouteAway
  <2> QED BY <1>3, <2>1, <2>2, <2>3 DEF Awake
<1> QED BY <1>2, <1>3, <1>4, <1>5 DEF Coming

\* nobody's id is a tag
LEMMA NotTags ==
    ASSUME KernalInv, RoutesInv, NEW x \in Tags
    PROVE  Owners(x) = {} /\ \A n \in Nodes : IdOf(n) # x
<1>1. Tags \subseteq Of({})
  BY TagsFree
<1> QED BY <1>1 DEF Of, Owners

LEMMA KeyTyped ==
    ASSUME KernalInv, NEW m \in Good, Explained(m)
    PROVE  /\ KeyOf(m) \in SUBSET Nat
           /\ m.kind # "new" => m.body # <<>>
           /\ m.kind = "user" => Key(m) \in Tags
<1>1. m.kind \in {"new", "gone", "user"} /\ Tags \subseteq Nat
  BY TreeAssumption DEF Good, Message, Tags
<1>2. CASE m.kind = "new"
  BY <1>2 DEF KeyOf, Counts
<1>3. CASE m.kind = "user"
  BY <1>1, <1>3 DEF KeyOf, Key, Good, Tags
<1>4. CASE m.kind = "gone"
  <2>1. PICK c \in Clients : \E s \in Seq(Of(Within[c])) : m.body = <<IdOf(c)>> \o s
    BY <1>4 DEF Explained, Notice
  <2>2. PICK s \in Seq(Of(Within[c])) : m.body = <<IdOf(c)>> \o s
    BY <2>1
  <2>3. IdOf(c) \in Nat
    BY NamesTyped DEF Clients
  <2>4. m.body[1] = IdOf(c) /\ m.body # <<>>
    BY <2>2
  <2> QED BY <1>4, <2>3, <2>4 DEF KeyOf, Key
<1> QED BY <1>1, <1>2, <1>3, <1>4

\* n sends m, and handles its key with that; E is what was handled after it
Sends(D, E, n, m, to) ==
    /\ Awake(n) /\ Passable(n, m, to) /\ KeyOf(m) \in SUBSET Nat
    /\ Ready(D, n, KeyOf(m)) /\ E = [D EXCEPT ![n] = @ \cup KeyOf(m)]
    /\ \A l \in Links : /\ link'[l] \in {Sent(n, m, to)[l], <<>>}
                        /\ l[2] = n => KeysOf(link[l]) \cap KeyOf(m) = {}
    /\ \A b \in Nodes :
          /\ Once(msgIn'[b]) /\ KeysOf(msgIn'[b]) \subseteq KeysOf(msgIn[b])
          /\ Once(msgOut'[b]) /\ KeysOf(msgOut'[b]) \subseteq KeysOf(msgOut[b])
          /\ KeysOf(inHand'[b]) \subseteq E[b]
    /\ (KeysOf(msgIn'[n]) \cup KeysOf(msgOut'[n])) \cap KeyOf(m) = {}

LEMMA SendKept ==
    ASSUME KernalInv, RoutesInv, MessagesWell, Extends, NEW D, Keeps(D), NEW E,
           NEW n \in Nodes, NEW m \in Good, NEW to, Sends(D, E, n, m, to)
    PROVE  /\ Placed(E)' /\ Chained(E)'
           /\ \A l \in Links : link'[l] \in Seq(Coming(l[1], l[2]))
<1> USE DEF Sends
<1>1. Placed(D) /\ Chained(D)
  BY DEF Keeps
<1>2. ASSUME NEW l \in Links
      PROVE  /\ link'[l] \in Seq(Coming(l[1], l[2])) /\ Once(link'[l])
             /\ l[1] # n => KeysOf(link'[l]) \subseteq KeysOf(link[l])
             /\ l[1] = n => KeysOf(link'[l]) \subseteq KeysOf(link[l]) \cup Onward(n, l[2], KeyOf(m))
  <2>1. CASE link'[l] = <<>>
    BY <2>1, KeysEmpty
  <2>2. CASE link'[l] = Sent(n, m, to)[l]
    <3>1. Sent(n, m, to)[l] \in Seq(Coming(l[1], l[2]))
      BY SentComes
    <3>2. PICK q : q = Sent(n, m, to)[l]
      OBVIOUS
    <3>3. /\ Once(q)
          /\ l[1] # n => KeysOf(q) \subseteq KeysOf(link[l])
          /\ l[1] = n => KeysOf(q) \subseteq KeysOf(link[l]) \cup Onward(n, l[2], KeyOf(m))
      <4>1. /\ Once(Sent(n, m, to)[l])
            /\ l[1] # n => KeysOf(Sent(n, m, to)[l]) \subseteq KeysOf(link[l])
            /\ l[1] = n => KeysOf(Sent(n, m, to)[l])
                              \subseteq KeysOf(link[l]) \cup Onward(n, l[2], KeyOf(m))
        BY <1>1, SentSpots
      <4> QED BY <3>2, <4>1, Zenon
    <3> QED BY <2>2, <3>1, <3>2, <3>3, Zenon
  <2> QED BY <2>1, <2>2
<1>3. \A l \in Links : l[2] = n => KeysOf(link'[l]) \cap KeyOf(m) = {}
  <2>1. \A l \in Links : l[2] = n => l[1] # n
    BY LinkEnds
  <2> QED BY <1>2, <2>1
<1>4. PICK K \in SUBSET Nat : K = KeyOf(m)
  OBVIOUS
<1>5. Ready(D, n, K) /\ E = [D EXCEPT ![n] = @ \cup K]
  BY <1>4
<1>6. \A l \in Links :
         /\ Once(link'[l]) /\ (l[2] = n => KeysOf(link'[l]) \cap K = {})
         /\ l[1] # n => KeysOf(link'[l]) \subseteq KeysOf(link[l])
         /\ l[1] = n => KeysOf(link'[l]) \subseteq KeysOf(link[l]) \cup Onward(n, l[2], K)
  BY <1>2, <1>3, <1>4
<1>7. \A b \in Nodes :
         /\ Once(msgIn'[b]) /\ KeysOf(msgIn'[b]) \subseteq KeysOf(msgIn[b])
         /\ Once(msgOut'[b])
         /\ \A k \in KeysOf(msgOut'[b]) \ KeysOf(msgOut[b]) : Origins(k) = {} /\ Origins(k)' # {}
         /\ KeysOf(inHand'[b]) \subseteq E[b]
  OBVIOUS
<1>8. (KeysOf(msgIn'[n]) \cup KeysOf(msgOut'[n])) \cap K = {}
  BY <1>4
<1>9. Placed(E)' /\ Chained(E)'
  BY <1>5, <1>6, <1>7, <1>8, SpotsKept
<1> QED BY <1>2, <1>9

LEMMA HandleOutOnce ==
    ASSUME KernalInv, RoutesInv, OnceInv, NEW n \in Nodes, HandleOut(n)
    PROVE  OnceInv'
<1>1. PICK m : m = Head(msgOut[n])
  OBVIOUS
<1>2. /\ msgOut[n] # <<>> /\ msgOut' = [msgOut EXCEPT ![n] = Tail(@)]
      /\ link' = Sent(n, m, Route(n, m))
      /\ UNCHANGED <<tables, accepted, msgIn, inHand, wires, users>>
  BY <1>1 DEF HandleOut, SendMessage
<1> USE DEF tables, accepted, wires, users
<1>3. /\ msgOut \in [Nodes -> Seq(Good)] /\ msgOut[n] \in Seq(Going(n))
  BY DEF KernalInv, QueuesTyped, OnceInv, MessagesWell
<1>4. m \in Going(n) /\ m \in Good /\ Tail(msgOut[n]) \in Seq(Going(n)) /\ Explained(m)
  <2>1. m \in Going(n) /\ Tail(msgOut[n]) \in Seq(Going(n))
    BY <1>1, <1>2, <1>3
  <2> QED BY <2>1 DEF Going, Explained
<1>5. Awake(n)
  <2>1. HasId(n)
    <3>1. m \in ToSend(n)
      BY <1>1, <1>2 DEF RoutesInv, Leaving
    <3> QED BY <3>1 DEF ToSend
  <2> QED BY <1>2, <2>1, AwakeIf, Idle
<1>6. PICK D : Keeps(D)
  BY DEF OnceInv
<1>7. PICK E : E = [D EXCEPT ![n] = @ \cup KeyOf(m)]
  OBVIOUS
<1>8. Extends
  <2>1. Grows
    BY <1>2, SameIdsKept DEF SameIds
  <2> QED BY <1>2, <2>1 DEF Extends
<1>9. /\ KeysOf(Tail(msgOut[n])) \subseteq KeysOf(msgOut[n]) /\ KeyOf(m) \subseteq KeysOf(msgOut[n])
      /\ Once(Tail(msgOut[n])) /\ KeyOf(m) \cap KeysOf(Tail(msgOut[n])) = {}
  BY <1>1, <1>2, <1>3, <1>6, KeysTail DEF Keeps, Placed
<1>10. \A k \in KeyOf(m) : Origins(k) = {n} /\ k \notin D[n] /\ k \in Tags
  <2>1. KeyOf(m) \subseteq KeysOf(msgOut[n]) /\ (KeysOf(msgIn[n]) \cup KeysOf(msgOut[n])) \cap D[n] = {}
    BY <1>6, <1>9 DEF Keeps, Placed
  <2>2. \A k \in KeyOf(m) : Origins(k) = {n}
    BY <1>4 DEF Going, KeyOf, Counts
  <2>3. \A k \in KeyOf(m) : k \in Tags
    <3>1. m.kind = "user" => Key(m) \in Tags
      BY <1>4, KeyTyped
    <3> QED BY <1>4, <3>1 DEF Going, KeyOf, Counts
  <2> QED BY <2>1, <2>2, <2>3
<1>11. MessagesWell /\ SubmittedWell
  BY DEF OnceInv
<1>12. /\ Ready(D, n, KeyOf(m)) /\ KeysOf(msgIn[n]) \cap KeyOf(m) = {}
       /\ \A l \in Links : l[2] = n => KeysOf(link[l]) \cap KeyOf(m) = {}
  <2>1. ASSUME NEW k \in KeyOf(m)
        PROVE  /\ Ready(D, n, {k}) /\ k \notin KeysOf(msgIn[n])
               /\ \A l \in Links : l[2] = n => k \notin KeysOf(link[l])
    BY <1>10, <1>11, OwnReady
  <2>2. Ready(D, n, KeyOf(m))
    BY <2>1 DEF Ready
  <2> QED BY <2>1, <2>2
<1>13. KeyOf(m) \in SUBSET Nat
  BY <1>4, KeyTyped
<1>14. \A b \in Nodes : D[b] \subseteq E[b]
  BY <1>6, <1>7 DEF Keeps
<1>15. \A b \in Nodes :
          /\ Once(msgIn'[b]) /\ KeysOf(msgIn'[b]) \subseteq KeysOf(msgIn[b])
          /\ Once(msgOut'[b]) /\ KeysOf(msgOut'[b]) \subseteq KeysOf(msgOut[b])
          /\ KeysOf(inHand'[b]) \subseteq E[b]
  <2>1. \A b \in Nodes : Once(msgIn[b]) /\ Once(msgOut[b]) /\ KeysOf(inHand[b]) \subseteq D[b]
    BY <1>6 DEF Keeps, Placed
  <2>2. msgOut'[n] = Tail(msgOut[n]) /\ \A b \in Nodes : b # n => msgOut'[b] = msgOut[b]
    BY <1>2, <1>3
  <2> QED BY <1>2, <1>9, <1>14, <2>1, <2>2
<1>16. (KeysOf(msgIn'[n]) \cup KeysOf(msgOut'[n])) \cap KeyOf(m) = {}
  BY <1>2, <1>3, <1>9, <1>12
<1>17. /\ Placed(E)' /\ Chained(E)'
       /\ \A l \in Links : link'[l] \in Seq(Coming(l[1], l[2]))
  <2>1. PICK to : to = Route(n, m)
    OBVIOUS
  <2>2. Passable(n, m, to)
    BY <1>4, <1>5, <1>11, <2>1, GoingPassable
  <2>3. \A l \in Links : link'[l] \in {Sent(n, m, to)[l], <<>>}
    BY <1>2, <2>1
  <2>4. Sends(D, E, n, m, to)
    BY <1>5, <1>7, <1>12, <1>13, <1>15, <1>16, <2>2, <2>3 DEF Sends
  <2> QED BY <1>4, <1>6, <1>8, <1>11, <2>4, SendKept, Zenon
<1>18. MessagesWell'
  <2>1. \A b \in Nodes : msgOut'[b] \in Seq(Going(b))
    BY <1>2, <1>3, <1>4 DEF OnceInv, MessagesWell
  <2> QED BY <1>2, <1>8, <1>17, <2>1, MessagesKept DEF OnceInv, MessagesWell
<1>19. /\ HandlerWell'
       /\ \A c \in Clients : /\ HasId(c) /\ ~Entering(Parent[c], c)
                             /\ IdOf(c) \notin DOMAIN directClients[Parent[c]]
                             => /\ ~Entering(Parent[c], c)'
                                /\ IdOf(c) \notin DOMAIN directClients'[Parent[c]]
  BY <1>2, <1>8, HandlerKept DEF OnceInv
<1>20. LossHandled(E)'
  <2>1. \A c \in Clients : IdOf(c) \notin KeyOf(m)
    BY <1>10, NotTags DEF Clients
  <2>2. PICK K \in SUBSET Nat : K = KeyOf(m)
    BY <1>13
  <2> QED BY <1>6, <1>7, <1>8, <1>12, <1>19, <2>1, <2>2, LossKept
<1>21. /\ E \in [Nodes -> SUBSET Nat] /\ \A b \in Nodes : Done(D, b) \subseteq Done(E, b)'
  BY <1>2, <1>6, <1>7, <1>13, <1>14 DEF Keeps, Done
<1>22. SubmittedWell' /\ AnnouncedWell' /\ Keeps(E)'
  BY <1>2, <1>6, <1>8, <1>17, <1>20, <1>21, CalmKept DEF OnceInv
<1> QED BY <1>18, <1>19, <1>22 DEF OnceInv

(***************************************************************************)
(* Rem tells of a client whose connection is closed, once.                 *)
(***************************************************************************)
LEMMA KeysDistinct ==
    ASSUME NEW V, NEW f \in MapsTo(V)
    PROVE  Distinct(Keys(f))
<1> DEFINE D == DOMAIN f
           n == Cardinality(D)
           Below(k) == Cardinality({j \in D : j < k})
<1>1. D \in SUBSET Nat /\ IsFiniteSet(D)
  BY MapIs
<1>2. n \in Nat /\ \A i \in 1..n : \E k \in D : Below(k) = i - 1
  <2> HIDE DEF D
  <2> QED BY <1>1, EveryRank
<1>3. Keys(f) = [i \in 1..n |-> CHOOSE k \in D : Below(k) = i - 1]
  BY DEF Keys
<1> HIDE DEF n, Below
<1>4. DOMAIN Keys(f) = 1..n /\ \A i \in 1..n : Below(Keys(f)[i]) = i - 1
  BY <1>2, <1>3
<1>5. \A i, j \in 1..n : i - 1 = j - 1 => i = j
  BY <1>2
<1> QED BY <1>4, <1>5 DEF Distinct

LEMMA DirectNotice ==
    ASSUME KernalInv, RoutesInv, NEW n \in Nodes, NEW c \in Children(n),
           Dead(c), Awake(n), NEW m,
           m = Closed(n, <<IdOf(c)>> \o Keys(Restrict(clientToDirectClient[n],
                   {x \in DOMAIN clientToDirectClient[n] :
                        clientToDirectClient[n][x] = IdOf(c)}))),
           NEW to
    PROVE  /\ m \in Good /\ m.kind = "gone" /\ Explained(m) /\ KeyOf(m) = {IdOf(c)}
           /\ Origins(IdOf(c)) = {n} /\ IdOf(c) \notin Tags /\ IdOf(c) \in Nat
           /\ Passable(n, m, to)
<1>1. c \in Clients /\ c \in Nodes /\ Parent[c] = n /\ HasId(c)
  BY ChildLinks DEF Dead
<1>2. PICK behind : behind = {x \in DOMAIN clientToDirectClient[n] :
                                  clientToDirectClient[n][x] = IdOf(c)}
  OBVIOUS
<1>3. PICK s : s = Keys(Restrict(clientToDirectClient[n], behind))
  OBVIOUS
<1>4. s \in Seq(Of(Within[c]))
  BY <1>1, <1>2, <1>3, CutOffKnown
<1>5. Distinct(s)
  <2>1. clientToDirectClient[n] \in MapsTo(Nat)
    BY DEF KernalInv, TablesTyped
  <2>2. behind \in SUBSET (DOMAIN clientToDirectClient[n])
    BY <1>2
  <2>3. Restrict(clientToDirectClient[n], behind) \in MapsTo(Nat)
    BY <2>1, <2>2, RestrictMap
  <2> QED BY <1>3, <2>3, KeysDistinct
<1>6. IdOf(c) \in Nat /\ s \in Seq(Nat) /\ Of(Within[c]) \subseteq Nat /\ IdOf(n) \in Nat
  <2>1. Of(Within[c]) \subseteq Nat
    BY NamesTyped DEF Of
  <2> QED BY <1>1, <1>4, <2>1, NamesTyped, SeqOver
<1>7. PICK b : b = <<IdOf(c)>> \o s
  OBVIOUS
<1>8. b \in Seq(Nat) /\ b # <<>> /\ b[1] = IdOf(c)
  BY <1>6, <1>7
<1>9. m = [dest |-> 0, src |-> IdOf(n), kind |-> "gone", body |-> b]
  BY <1>2, <1>3, <1>7 DEF Closed, Awake
<1>10. m \in Good /\ m.kind = "gone" /\ m.dest = 0 /\ m.body = b /\ m.src = IdOf(n)
  BY <1>6, <1>8, <1>9 DEF Good, Message
<1>11. Notice(m)
  BY <1>1, <1>4, <1>5, <1>7, <1>10 DEF Notice
<1>12. Explained(m)
  BY <1>10, <1>11 DEF Explained
<1>13. Counts(m) /\ Key(m) = IdOf(c)
  BY <1>8, <1>10 DEF Counts, Key
<1>14. KeyOf(m) = {IdOf(c)}
  BY <1>13 DEF KeyOf
<1>15. IdOf(c) \notin Tags
  BY <1>1, NotTags
<1>16. Origins(IdOf(c)) = {n}
  <2>1. \A d \in Clients : HasId(d) /\ IdOf(d) = IdOf(c) => d = c
    BY <1>1 DEF RoutesInv, IdsGiven, Clients
  <2> QED BY <1>1, <1>15, <2>1 DEF Origins
<1>17. Passable(n, m, to)
  <2> SUFFICES ASSUME NEW k \in Neighbours(n) PROVE Marked(n, m) \in Coming(n, k)
    BY DEF Passable
  <2>1. Marked(n, m) = m
    BY <1>9 DEF Marked
  <2>2. n \in Away(n, k)
    BY SideOwn, NeighbourIs DEF Away
  <2>3. Comes(IdOf(c), n, k)
    BY <1>16, <2>2 DEF Comes
  <2> QED BY <1>10, <1>12, <1>13, <2>1, <2>3 DEF Coming, Awake
<1> QED BY <1>6, <1>10, <1>12, <1>14, <1>15, <1>16, <1>17

LEMMA RemoveDirectOnce ==
    ASSUME KernalInv, RoutesInv, OnceInv, Kept, NEW n \in Nodes, NEW id,
           clientsToRemove[n] # <<>>, id = Head(clientsToRemove[n]),
           id \in DOMAIN directClients[n], RemoveDirect(n, id)
    PROVE  OnceInv'
<1>1. PICK c \in Children(n) : directClients[n][id] = c /\ id # 0 /\ IdOf(c) = id /\ HasId(c)
  BY DirectIs
<1>2. /\ c \in Clients /\ c \in Nodes /\ Parent[c] = n /\ c # n
      /\ <<n, c>> \in Links /\ <<c, n>> \in Links /\ <<n, c>> # <<c, n>>
  BY ChildLinks
<1>3. Awake(n)
  BY <1>1, <1>2 DEF RoutesInv, Started, ClientStarted
<1>4. Dead(c)
  <2>1. clientsToRemove[n] \in Seq(Dropped(n))
    BY DEF RoutesInv, Removing
  <2>2. id \in Dropped(n)
    BY <2>1
  <2> QED BY <1>1, <2>2 DEF Dropped, Dead
<1>5. PICK m : m = Closed(n, <<id>> \o Keys(Restrict(clientToDirectClient[n],
                   {x \in DOMAIN clientToDirectClient[n] : clientToDirectClient[n][x] = id})))
  OBVIOUS
<1>6. PICK to : to = Route(n, m) \ {c}
  OBVIOUS
<1>7. /\ directClients' = [directClients EXCEPT ![n] =
              Restrict(directClients[n], DOMAIN directClients[n] \ {id})]
      /\ open' = open \ {<<n, c>>}
      /\ link' = [Sent(n, m, to) EXCEPT ![<<c, n>>] = <<>>]
  BY <1>1, <1>5, <1>6 DEF RemoveDirect
<1> USE DEF Kept, queues
<1>8. /\ m \in Good /\ m.kind = "gone" /\ Explained(m) /\ KeyOf(m) = {id}
      /\ Origins(id) = {n} /\ id \notin Tags /\ id \in Nat
      /\ Passable(n, m, to)
  <2>1. m = Closed(n, <<IdOf(c)>> \o Keys(Restrict(clientToDirectClient[n],
                {x \in DOMAIN clientToDirectClient[n] :
                     clientToDirectClient[n][x] = IdOf(c)})))
    BY <1>1, <1>5
  <2>2. /\ m \in Good /\ m.kind = "gone" /\ Explained(m) /\ KeyOf(m) = {IdOf(c)}
        /\ Origins(IdOf(c)) = {n} /\ IdOf(c) \notin Tags /\ IdOf(c) \in Nat
        /\ Passable(n, m, to)
    BY <1>3, <1>4, <2>1, DirectNotice
  <2> QED BY <1>1, <2>2
<1>9. PICK D : Keeps(D)
  BY DEF OnceInv
<1>10. PICK E : E = [D EXCEPT ![n] = @ \cup {id}]
  OBVIOUS
<1>11. id \notin D[n]
  BY <1>1, <1>2, <1>9 DEF Keeps, LossHandled
<1>12. Extends
  <2>1. Grows
    <3>1. \A k \in Nodes : IdOf(k)' = IdOf(k)
      BY DEF IdOf
    <3> QED BY <1>7, <3>1, GrowsIfSame
  <2> QED BY <2>1 DEF Extends
<1>13. MessagesWell /\ SubmittedWell /\ AnnouncedWell /\ HandlerWell
  BY DEF OnceInv
<1>14. /\ Ready(D, n, {id}) /\ id \notin KeysOf(msgIn[n])
       /\ \A l \in Links : l[2] = n => id \notin KeysOf(link[l])
  BY <1>8, <1>11, <1>13, OwnReady
<1>15. id \notin KeysOf(msgOut[n])
  <2> SUFFICES ASSUME id \in KeysOf(msgOut[n]) PROVE FALSE
    OBVIOUS
  <2>1. PICK y \in Going(n) : Counts(y) /\ Key(y) = id
    BY <1>13, KeyIn DEF MessagesWell
  <2>2. y \in Good /\ y.kind = "user" /\ Explained(y)
    BY <2>1 DEF Going, Counts, Explained
  <2> QED BY <1>8, <2>1, <2>2, KeyTyped
<1>16. \A b \in Nodes : D[b] \subseteq E[b]
  BY <1>9, <1>10 DEF Keeps
<1>17. \A b \in Nodes : Once(msgIn[b]) /\ Once(msgOut[b]) /\ KeysOf(inHand[b]) \subseteq E[b]
  BY <1>9, <1>16 DEF Keeps, Placed
<1>18. /\ Placed(E)' /\ Chained(E)'
       /\ \A l \in Links : link'[l] \in Seq(Coming(l[1], l[2]))
  <2>1. \A l \in Links : link'[l] \in {Sent(n, m, to)[l], <<>>}
    <3>1. Sent(n, m, to) \in [Links -> Seq(Good)]
      BY <1>8, SentTyped
    <3> QED BY <1>2, <1>7, <3>1
  <2>2. /\ Ready(D, n, KeyOf(m)) /\ KeyOf(m) \in SUBSET Nat
        /\ E = [D EXCEPT ![n] = @ \cup KeyOf(m)]
        /\ \A l \in Links : l[2] = n => KeysOf(link[l]) \cap KeyOf(m) = {}
        /\ (KeysOf(msgIn'[n]) \cup KeysOf(msgOut'[n])) \cap KeyOf(m) = {}
    BY <1>8, <1>10, <1>14, <1>15
  <2>3. Sends(D, E, n, m, to)
    BY <1>3, <1>8, <1>17, <2>1, <2>2 DEF Sends
  <2> QED BY <1>8, <1>9, <1>12, <1>13, <2>3, SendKept, Zenon
<1>19. MessagesWell'
  BY <1>12, <1>13, <1>18, MessagesKept DEF MessagesWell
<1>20. /\ \A b \in Nodes : DOMAIN directClients'[b] \subseteq DOMAIN directClients[b]
       /\ id \notin DOMAIN directClients'[n]
  <2>1. directClients \in [Nodes -> MapsTo(Clients)]
    BY DEF KernalInv, AcceptTyped
  <2> QED BY <1>7, <2>1 DEF Restrict
<1>21. /\ HandlerWell'
       /\ \A d \in Clients : /\ HasId(d) /\ ~Entering(Parent[d], d)
                             /\ IdOf(d) \notin DOMAIN directClients[Parent[d]]
                             => /\ ~Entering(Parent[d], d)'
                                /\ IdOf(d) \notin DOMAIN directClients'[Parent[d]]
  BY <1>12, <1>13, <1>20, HandlerKept
<1>22. LossHandled(E)'
  <2>1. \A d \in Clients : HasId(d) /\ IdOf(d) \in {id} => d = c
    BY <1>1, <1>2 DEF RoutesInv, IdsGiven, Clients
  <2>2. ~Entering(n, c)' /\ IdOf(c) \notin DOMAIN directClients'[n]
    <3>1. ~Entering(n, c)
      BY <1>1, <1>2, <1>13 DEF HandlerWell
    <3> QED BY <1>1, <1>20, <3>1 DEF Entering
  <2>3. \A d \in Clients : HasId(d) /\ IdOf(d) \in {id} => Dead(d)
    BY <1>4, <2>1
  <2>4. \A d \in Clients :
            /\ HasId(d)
            /\ \/ Parent[d] = n /\ IdOf(d) \in {id}
               \/ /\ ~Entering(Parent[d], d)
                  /\ IdOf(d) \notin DOMAIN directClients[Parent[d]]
            => /\ ~Entering(Parent[d], d)'
               /\ IdOf(d) \notin DOMAIN directClients'[Parent[d]]
    BY <1>2, <1>21, <2>1, <2>2
  <2>5. PICK K \in SUBSET Nat : K = {id}
    BY <1>8
  <2> QED BY <1>9, <1>10, <1>12, <1>14, <2>3, <2>4, <2>5, LossKept
<1>23. /\ E \in [Nodes -> SUBSET Nat] /\ \A b \in Nodes : Done(D, b) \subseteq Done(E, b)'
  BY <1>8, <1>9, <1>10, <1>16 DEF Keeps, Done
<1>24. SubmittedWell' /\ AnnouncedWell' /\ Keeps(E)'
  BY <1>9, <1>12, <1>13, <1>18, <1>22, <1>23, CalmKept
<1> QED BY <1>19, <1>21, <1>24 DEF OnceInv

LEMMA HandleRemoveOnce ==
    ASSUME KernalInv, RoutesInv, OnceInv, NEW n \in Nodes, HandleRemoveClients(n)
    PROVE  OnceInv'
<1> DEFINE id == Head(clientsToRemove[n])
           pop == clientsToRemove' = [clientsToRemove EXCEPT ![n] = Tail(@)]
<1>1. /\ clientsToRemove[n] # <<>> /\ Kept
      /\ IF id = myId[n] THEN RemoveSelf(n) /\ pop
         ELSE IF id \in DOMAIN directClients[n] THEN RemoveDirect(n, id)
         ELSE RemoveOther(n, id) /\ pop
  BY DEF HandleRemoveClients, Kept
<1>2. id # myId[n]
  <2>1. clientsToRemove[n] \in Seq(Dropped(n))
    BY DEF RoutesInv, Removing
  <2>2. id \in Dropped(n)
    BY <1>1, <2>1
  <2>3. id # 0 /\ id # IdOf(n)
    BY <2>2 DEF Dropped, Names, Tags
  <2>4. myId[n] \in {0, IdOf(n)}
    BY DEF RoutesInv, Started, ClientStarted, IdOf, Clients
  <2> QED BY <2>3, <2>4
<1> QED BY <1>1, <1>2, RemoveDirectOnce, RemoveOtherOnce

(***************************************************************************)
(* A message arrives: its key moves from the link to the node's queue.     *)
(***************************************************************************)
LEMMA OneWay ==
    ASSUME RoutesInv, NEW n \in Nodes, NEW a \in Neighbours(n), NEW b \in Neighbours(n),
           NEW k, Comes(k, a, n), Comes(k, b, n)
    PROVE  a = b
<1> SUFFICES ASSUME a # b PROVE FALSE
  OBVIOUS
<1>1. Away(a, n) \cap Away(b, n) = {}
  BY AwayApart
<1>2. Origins(k) # {} /\ Origins(k) \subseteq Away(a, n) /\ Origins(k) \subseteq Away(b, n)
  BY ComesIs
<1> QED BY <1>1, <1>2

LEMMA ArrivesSame ==
    ASSUME KernalInv, NEW a, NEW n, NEW h \in Coming(a, n), NEW last \in Seq(Nat), NEW y,
           y = [h EXCEPT !.body = IF h.body = <<>> THEN last ELSE h.body]
    PROVE  y \in Coming(a, n) /\ KeyOf(y) = KeyOf(h) /\ y \in Good
<1>1. h \in Good /\ Explained(h)
  BY DEF Coming
<1>2. CASE h.body = <<>>
  <2>1. h.kind = "new" /\ h.dest # 1
    BY <1>1, <1>2, KeyTyped DEF Good, Message
  <2>2. y \in Good /\ y.kind = "new"
    BY <1>1, <1>2, <2>1 DEF Good, Message
  <2> QED BY <2>1, <2>2 DEF Coming, KeyOf, Counts, Explained
<1>3. CASE h.body # <<>>
  <2>1. y = h
    BY <1>1, <1>3 DEF Good, Message
  <2> QED BY <1>1, <2>1
<1> QED BY <1>2, <1>3

LEMMA DeliverOnce ==
    ASSUME KernalInv, RoutesInv, OnceInv, NEW l \in Links, Deliver(l)
    PROVE  OnceInv'
<1>1. PICK a, n : a = l[1] /\ n = l[2]
  OBVIOUS
<1>2. PICK h : h = Head(link[l])
  OBVIOUS
<1>3. PICK y : y = [h EXCEPT !.body = IF h.body = <<>> THEN lastBody[l] ELSE h.body]
  OBVIOUS
<1>4. /\ link[l] # <<>> /\ link' = [link EXCEPT ![l] = Tail(@)]
      /\ msgIn' = [msgIn EXCEPT ![n] = Append(@, y)]
      /\ UNCHANGED <<tables, accepted, msgOut, inHand, clientsToRemove, notFound, open, users>>
  BY <1>1, <1>2, <1>3 DEF Deliver
<1> USE DEF tables, accepted, users
<1>5. /\ a \in Nodes /\ n \in Nodes /\ a # n /\ a \in Neighbours(n)
      /\ \A j \in Links : j[1] \in Nodes /\ j[2] \in Nodes /\ j[1] \in Neighbours(j[2])
                          /\ (j = l <=> j[1] = a /\ j[2] = n)
  <2>1. a \in Nodes /\ n \in Nodes /\ a # n /\ a \in Neighbours(n)
    BY <1>1, LinkEnds
  <2>2. \A j \in Links : j[1] \in Nodes /\ j[2] \in Nodes /\ j[1] \in Neighbours(j[2])
    BY LinkEnds
  <2>3. \A j \in Links : j = l <=> j[1] = a /\ j[2] = n
    BY <1>1 DEF Links
  <2> QED BY <2>1, <2>2, <2>3
<1>6. /\ link \in [Links -> Seq(Good)] /\ msgIn \in [Nodes -> Seq(Good)]
      /\ lastBody[l] \in Seq(Nat)
  BY DEF KernalInv, WiresTyped, QueuesTyped
<1>7. PICK S : S = Coming(a, n)
  OBVIOUS
<1>8. PICK s \in Seq(S) : s = link[l]
  BY <1>1, <1>7 DEF OnceInv, MessagesWell
<1>9. h \in S /\ Tail(s) \in Seq(S) /\ s # <<>> /\ h = Head(s)
  BY <1>2, <1>4, <1>8
<1>10. y \in S /\ KeyOf(y) = KeyOf(h) /\ y \in Good
  BY <1>3, <1>6, <1>7, <1>9, ArrivesSame
<1>11. PICK K : K = KeyOf(h)
  OBVIOUS
<1>12. PICK D : Keeps(D)
  BY DEF OnceInv
<1>13. Placed(D) /\ Chained(D) /\ D \in [Nodes -> SUBSET Nat]
  BY <1>12 DEF Keeps
<1>14. PICK t : t = Tail(s)
  OBVIOUS
<1>15. /\ KeysOf(t) \subseteq KeysOf(s) /\ K \subseteq KeysOf(s) /\ Once(s) /\ Once(t)
       /\ K \cap KeysOf(t) = {}
  <2>1. Once(s)
    BY <1>8, <1>13 DEF Placed
  <2> QED BY <1>9, <1>11, <1>14, <2>1, KeysTail
<1>16. /\ link'[l] = t /\ \A j \in Links : j # l => link'[j] = link[j]
       /\ msgIn'[n] = Append(msgIn[n], y) /\ \A b \in Nodes : b # n => msgIn'[b] = msgIn[b]
  BY <1>4, <1>5, <1>6, <1>8, <1>14
<1>17. K \cap (KeysOf(msgIn[n]) \cup D[n]) = {} /\ Once(msgIn[n]) /\ KeysOf(msgIn[n]) \cap D[n] = {}
  BY <1>1, <1>5, <1>8, <1>13, <1>15 DEF Placed
<1>18. KeysOf(msgIn'[n]) = KeysOf(msgIn[n]) \cup K /\ Once(msgIn'[n])
  <2>1. msgIn[n] \in Seq(Good)
    BY <1>5, <1>6
  <2> QED BY <1>10, <1>11, <1>16, <1>17, <2>1, KeysAppend
<1>19. Extends
  <2>1. Grows
    BY <1>4, SameIdsKept DEF SameIds
  <2> QED BY <1>4, <2>1 DEF Extends
<1>20. MessagesWell /\ SubmittedWell /\ AnnouncedWell /\ HandlerWell
  BY DEF OnceInv
<1>21. \A k \in K : /\ Comes(k, a, n) /\ k \in D[a]
                    /\ \A b \in Neighbours(n) : Comes(k, b, n) => b = a
  <2> SUFFICES ASSUME NEW k \in K
               PROVE  /\ Comes(k, a, n) /\ k \in D[a]
                      /\ \A b \in Neighbours(n) : Comes(k, b, n) => b = a
    OBVIOUS
  <2>1. k \in KeysOf(link[l])
    BY <1>8, <1>15
  <2>2. Comes(k, a, n)
    BY <1>1, <1>20, <2>1, LinkKey
  <2>3. k \in D[a]
    BY <1>1, <1>13, <2>1, <2>2 DEF Chained, Reached
  <2> QED BY <1>5, <2>2, <2>3, OneWay
<1>22. MessagesWell'
  <2>1. Append(msgIn[n], y) \in Seq(Met(n))
    <3>1. y \in Met(n) /\ msgIn[n] \in Seq(Met(n))
      BY <1>5, <1>7, <1>10, <1>20 DEF Met, MessagesWell
    <3> QED BY <3>1
  <2>2. \A b \in Nodes : msgIn'[b] \in Seq(Met(b))
    BY <1>16, <1>20, <2>1 DEF MessagesWell
  <2>3. \A j \in Links : link'[j] \in Seq(Coming(j[1], j[2]))
    <3>1. link'[l] \in Seq(S)
      BY <1>9, <1>14, <1>16
    <3> QED BY <1>1, <1>7, <1>16, <1>20, <3>1 DEF MessagesWell
  <2> QED BY <1>4, <1>19, <1>20, <2>2, <2>3, MessagesKept DEF MessagesWell
<1>23. ASSUME NEW j \in Links
       PROVE  /\ Once(link'[j])
              /\ KeysOf(link'[j]) \cap (KeysOf(msgIn'[j[2]]) \cup D[j[2]]) = {}
  <2>1. /\ Once(link[j]) /\ KeysOf(link[j]) \cap (KeysOf(msgIn[j[2]]) \cup D[j[2]]) = {}
    BY <1>13 DEF Placed
  <2>2. CASE j = l
    <3>1. KeysOf(t) \cap (KeysOf(msgIn[n]) \cup D[n]) = {}
      BY <1>1, <1>8, <1>15, <2>1, <2>2
    <3> QED BY <1>1, <1>15, <1>16, <1>18, <2>2, <3>1
  <2>3. CASE j # l
    <3>1. j[2] = n => KeysOf(link[j]) \cap K = {}
      <4> SUFFICES ASSUME j[2] = n, NEW k \in KeysOf(link[j]), k \in K PROVE FALSE
        OBVIOUS
      <4>1. Comes(k, j[1], n) /\ j[1] \in Neighbours(n)
        BY <1>5, <1>20, LinkKey
      <4> QED BY <1>5, <1>21, <2>3, <4>1
    <3>2. link'[j] = link[j] /\ (j[2] # n => msgIn'[j[2]] = msgIn[j[2]])
      BY <1>5, <1>16, <2>3
    <3> QED BY <1>18, <2>1, <3>1, <3>2
  <2> QED BY <2>2, <2>3
<1>24. Placed(D)'
  <2>1. ASSUME NEW b \in Nodes
        PROVE  /\ Once(msgIn'[b]) /\ Once(msgOut'[b])
               /\ (KeysOf(msgIn'[b]) \cup KeysOf(msgOut'[b])) \cap D[b] = {}
               /\ KeysOf(inHand'[b]) \subseteq D[b]
               /\ \A k \in D[b] : Origins(k)' # {}
    <3>1. /\ Once(msgIn[b]) /\ Once(msgOut[b])
          /\ (KeysOf(msgIn[b]) \cup KeysOf(msgOut[b])) \cap D[b] = {}
          /\ KeysOf(inHand[b]) \subseteq D[b] /\ \A k \in D[b] : Origins(k) # {}
      BY <1>13 DEF Placed
    <3>2. \A k \in D[b] : Origins(k)' # {}
      BY <1>19, <3>1, OriginsKept
    <3>3. KeysOf(msgIn'[b]) \cap D[b] = {} /\ Once(msgIn'[b])
      BY <1>16, <1>17, <1>18, <3>1
    <3> QED BY <1>4, <3>1, <3>2, <3>3
  <2> QED BY <1>23, <2>1 DEF Placed
<1>25. Chained(D)'
  <2> SUFFICES ASSUME NEW j \in Links, NEW k \in Reached(D, j)', Comes(k, j[1], j[2])'
               PROVE  k \in D[j[1]]
    BY DEF Chained
  <2>1. k \in Reached(D, j) \/ (k \in K /\ j[2] = n)
    <3>1. KeysOf(link'[j]) \subseteq KeysOf(link[j])
      BY <1>8, <1>15, <1>16
    <3>2. j[2] # n => msgIn'[j[2]] = msgIn[j[2]]
      BY <1>5, <1>16
    <3> QED BY <1>18, <3>1, <3>2 DEF Reached
  <2>2. Origins(k) # {}
    <3>1. CASE k \in K
      BY <1>5, <1>21, <3>1, ComesIs
    <3>2. CASE k \in Reached(D, j)
      <4>1. k \in D[j[2]] => Origins(k) # {}
        BY <1>5, <1>13 DEF Placed
      <4>2. k \in KeysOf(msgIn[j[2]]) => Origins(k) # {}
        BY <1>5, <1>20, InKey, ComesIs
      <4>3. k \in KeysOf(link[j]) => Origins(k) # {}
        BY <1>20, LinkKey, ComesIs
      <4> QED BY <3>2, <4>1, <4>2, <4>3 DEF Reached
    <3> QED BY <2>1, <3>1, <3>2
  <2>3. Comes(k, j[1], j[2])
    BY <1>19, <2>2, ComesKept
  <2>4. CASE k \in Reached(D, j)
    BY <1>13, <2>3, <2>4 DEF Chained
  <2>5. CASE k \in K /\ j[2] = n
    BY <1>5, <1>21, <2>3, <2>5
  <2> QED BY <2>1, <2>4, <2>5
<1>26. /\ HandlerWell'
       /\ \A d \in Clients : /\ HasId(d) /\ ~Entering(Parent[d], d)
                             /\ IdOf(d) \notin DOMAIN directClients[Parent[d]]
                             => /\ ~Entering(Parent[d], d)'
                                /\ IdOf(d) \notin DOMAIN directClients'[Parent[d]]
  BY <1>4, <1>19, <1>20, HandlerKept
<1>27. LossHandled(D)'
  <2>1. PICK N \in SUBSET Nat : N = {}
    OBVIOUS
  <2>2. Ready(D, n, N) /\ D = [D EXCEPT ![n] = @ \cup N]
    BY <1>13, <2>1 DEF Ready
  <2> QED BY <1>5, <1>12, <1>19, <1>26, <2>1, <2>2, LossKept
<1>28. \A b \in Nodes : Done(D, b) \subseteq Done(D, b)'
  BY <1>4 DEF Done
<1>29. SubmittedWell' /\ AnnouncedWell' /\ Keeps(D)'
  BY <1>4, <1>12, <1>13, <1>19, <1>20, <1>24, <1>25, <1>27, <1>28, CalmKept
<1> QED BY <1>22, <1>26, <1>29 DEF OnceInv

(***************************************************************************)
(* A node uses a message that it has not used before: the key of the       *)
(* message is one it is done with after the step and was not before.       *)
(***************************************************************************)
Finishes(D, E, n, m) ==
    /\ \A b \in Nodes : Done(D, b) \subseteq Done(E, b)'
    /\ KeyOf(m) \subseteq Done(E, n)' \ Done(D, n)
Usable(n, m) ==
    /\ m \in Good /\ Explained(m) /\ m.body \in Seq(Names) /\ m.body # <<>>
    /\ m.kind = "user" => Counts(m) /\ MeantFor(n, Key(m))

LEMMA UseKept ==
    ASSUME KernalInv, RoutesInv, SubmittedWell, AnnouncedWell, Extends,
           \A k \in Nodes : IdOf(k)' = IdOf(k), NEW D, Keeps(D), NEW E, NEW n \in Nodes,
           NEW m, Usable(n, m), UseMessage(n, m), Finishes(D, E, n, m), submitted' = submitted
    PROVE  SubmittedWell' /\ AnnouncedWell' /\ UsedWellOnce(E)' /\ ToldWell(E)'
<1>1. SubmittedWell'
  BY SubmittedKept
<1>2. /\ used \in [Nodes -> Seq(1..MaxSubmit)] /\ removed \in [Nodes -> Seq(Nat)]
      /\ \A b \in Nodes : announced[b] \subseteq Nat
      /\ announced \in [Nodes -> SUBSET Nat]
  BY DEF KernalInv, TablesTyped
<1>3. \A b \in Nodes : Done(D, b) \subseteq Done(E, b)'
  BY DEF Finishes
<1>4. ASSUME announced' = announced PROVE AnnouncedWell'
  BY <1>4, AnnouncedKept
<1>5. ASSUME used' = used PROVE UsedWellOnce(E)'
  BY <1>2, <1>3, <1>5, UsedKept
<1>6. ASSUME removed' = removed PROVE ToldWell(E)'
  BY <1>3, <1>6, ToldKept
<1>7. CASE UNCHANGED tables
  BY <1>1, <1>4, <1>5, <1>6, <1>7 DEF tables
<1>8. CASE m.kind = "new" /\ (UseOwnId(n, m) \/ UseFromServer(n, m) \/ UseFromClient(n, m))
           /\ UNCHANGED <<used, removed>>
  <2>1. ToSet(m.body) \subseteq Names /\ m.body[Len(m.body)] \in Names
    <3>1. PICK s \in Seq(Names) : s = m.body /\ s # <<>>
      BY DEF Usable
    <3>2. ToSet(s) \subseteq Names /\ s[Len(s)] \in Names
      BY <3>1, SetOfSeq
    <3> QED BY <3>1, <3>2
  <2>2. Names \subseteq Names'
    BY NamesKept DEF Extends
  <2>3. \A b \in Nodes : announced'[b] \subseteq announced[b] \cup Names'
    <3>1. CASE UseOwnId(n, m)
      BY <1>2, <2>1, <2>2, <3>1 DEF UseOwnId
    <3>2. CASE announced' = [announced EXCEPT ![n] = @ \cup ToSet(m.body)]
      BY <1>2, <2>1, <2>2, <3>2
    <3> QED BY <1>8, <3>1, <3>2 DEF UseFromServer, UseFromClient
  <2>4. AnnouncedWell'
    BY <2>3, AnnouncedKept
  <2> QED BY <1>1, <1>5, <1>6, <1>8, <2>4
<1>9. CASE m.kind = "gone" /\ removed' = [removed EXCEPT ![n] = @ \o Reverse(m.body)]
           /\ UNCHANGED <<Ids, used>>
  <2>1. PICK c \in Clients : /\ Dead(c)
                             /\ \E s \in Seq(Of(Within[c])) : Distinct(s) /\ m.body = <<IdOf(c)>> \o s
    BY <1>9 DEF Usable, Explained, Notice
  <2>2. PICK s \in Seq(Of(Within[c])) : Distinct(s) /\ m.body = <<IdOf(c)>> \o s
    BY <2>1
  <2>3. KeyOf(m) = {IdOf(c)}
    <3>1. m.body[1] = IdOf(c)
      <4>1. IdOf(c) \in Nat
        BY NamesTyped DEF Clients
      <4> QED BY <2>2, <4>1
    <3> QED BY <1>9, <3>1 DEF KeyOf, Counts, Key
  <2>4. IdOf(c) \in Done(E, n)' /\ IdOf(c) \notin Done(D, n)
    BY <2>3 DEF Finishes
  <2>5. removed' = [removed EXCEPT ![n] = @ \o Reverse(<<IdOf(c)>> \o s)]
    BY <1>9, <2>2
  <2>6. ToldWell(E)'
    BY <1>3, <2>1, <2>2, <2>4, <2>5, ToldMore DEF Dead
  <2> QED BY <1>1, <1>4, <1>5, <1>9, <2>6 DEF Ids
<1>10. CASE m.kind = "user" /\ used' = [used EXCEPT ![n] = Append(@, m.body[1])]
            /\ UNCHANGED <<Ids, removed>>
  <2>1. PICK t : t = Key(m)
    OBVIOUS
  <2>2. MeantFor(n, t) /\ t \in Done(E, n)' \ Done(D, n)
    <3>1. Counts(m) /\ MeantFor(n, Key(m))
      BY <1>10 DEF Usable
    <3>2. Key(m) \in KeyOf(m)
      BY <3>1 DEF KeyOf
    <3> QED BY <2>1, <3>1, <3>2 DEF Finishes
  <2>3. used'[n] = Append(used[n], t) /\ \A b \in Nodes : b # n => used'[b] = used[b]
    BY <1>2, <1>10, <2>1 DEF Key
  <2>4. UsedWellOnce(E)'
    BY <1>2, <1>3, <2>2, <2>3, UsedKept
  <2> QED BY <1>1, <1>4, <1>6, <1>10, <2>4 DEF Ids
<1> QED BY <1>7, <1>8, <1>9, <1>10 DEF UseMessage

LEMMA HeardNames ==
    ASSUME NEW n \in Nodes, NEW m \in Heard(n)
    PROVE  m \in Good /\ m.body \in Seq(Names) /\ m.body # <<>> /\ HasId(n)
<1>1. PICK a : Sender(n, a) /\ m \in Fitting(a, n)
  BY DEF Heard
<1>2. m.body \in Seq(Of(Side(a, n))) /\ Of(Side(a, n)) \subseteq Names
  BY <1>1 DEF Fitting, Of
<1> QED BY <1>1, <1>2, SeqOver DEF Heard, Sender

\* what a user asked for, and who it is meant for
LEMMA AskedMeans ==
    ASSUME KernalInv, RoutesInv, SubmittedWell, NEW n \in Nodes,
           NEW m \in Good, m.kind = "user", Explained(m), n \notin Origins(Key(m)),
           m.dest = 1 \/ m.dest = 0 \/ (HasId(n) /\ m.dest = IdOf(n))
    PROVE  Counts(m) /\ MeantFor(n, Key(m))
<1>1. PICK t \in DOMAIN submitted : m.body = <<t>> /\ m.dest = submitted[t].dest
  BY DEF Explained, Asked
<1>2. Key(m) = t /\ t \in Tags
  BY <1>1 DEF Key, Good, Tags
<1>3. n # submitted[t].from
  BY <1>1, <1>2 DEF Origins
<1>4. CASE m.dest = 1
  <2>1. 1 \in Tags
    <3>1. MaxSubmit \in Nat /\ t \in 1..MaxSubmit
      BY <1>2, TreeAssumption DEF Tags
    <3> QED BY <3>1 DEF Tags
  <2>2. Owners(1) = {}
    BY <2>1, NotTags
  <2>3. Owners(submitted[t].dest) = {}
    BY <1>1, <1>4, <2>2
  <2> QED BY <1>1, <1>2, <1>3, <1>4, <2>3 DEF Counts, MeantFor
<1>5. CASE m.dest = 0
  <2>1. 0 \notin Tags
    BY TreeAssumption DEF Tags
  <2> QED BY <1>1, <1>2, <1>3, <1>5, <2>1 DEF Counts, MeantFor
<1>6. CASE HasId(n) /\ m.dest = IdOf(n)
  <2>1. IdOf(n) \notin Tags
    BY NotTags
  <2>2. PICK d : d = IdOf(n)
    OBVIOUS
  <2>3. Owners(d) \subseteq {n}
    BY <1>6, <2>2 DEF RoutesInv, IdsGiven, Owners
  <2>4. Owners(submitted[t].dest) \subseteq {n}
    BY <1>1, <1>6, <2>2, <2>3
  <2> QED BY <1>1, <1>2, <1>3, <1>6, <2>1, <2>4 DEF Counts, MeantFor
<1> QED BY <1>4, <1>5, <1>6

LEMMA UseForwardedOnce ==
    ASSUME KernalInv, RoutesInv, OnceInv, NEW n \in Nodes, UseForwarded(n)
    PROVE  OnceInv'
<1>1. PICK m : m = inHand[n][1]
  OBVIOUS
<1>2. /\ inHand[n] # <<>> /\ inHand' = [inHand EXCEPT ![n] = <<>>]
      /\ UseMessage(n, m)
      /\ UNCHANGED <<accepted, msgOut, msgIn, link, notFound, wires, users>>
  BY <1>1 DEF UseForwarded
<1>3. MessagesWell /\ SubmittedWell /\ AnnouncedWell /\ HandlerWell
  BY DEF OnceInv
<1>4. /\ inHand \in [Nodes -> Seq(Good)] /\ inHand[n] \in Seq(Held(n)) /\ Len(inHand[n]) <= 1
      /\ inHand[n] \in Seq(Heard(n))
  BY <1>3 DEF KernalInv, QueuesTyped, MessagesWell, RoutesInv, Arrived
<1>5. m \in Held(n) /\ m \in Heard(n) /\ inHand[n] = <<m>>
  BY <1>1, <1>2, <1>4
<1>6. ~(n \in Clients /\ myId[n] = 0)
  BY <1>2, Idle
<1>7. /\ Grows /\ \A k \in Nodes : IdOf(k)' = IdOf(k)
  <2>1. UsedWell(n)
    BY <1>2, <1>5, <1>6, UseIsWell DEF wires
  <2> QED BY <2>1 DEF UsedWell
<1> USE DEF accepted, wires, users
<1>8. Extends
  BY <1>2, <1>7 DEF Extends
<1>9. PICK D : Keeps(D)
  BY DEF OnceInv
<1>10. Placed(D) /\ D \in [Nodes -> SUBSET Nat]
  BY <1>9 DEF Keeps
<1>11. /\ m \in Good /\ Explained(m) /\ m.dest = 0 /\ m.body \in Seq(Names) /\ m.body # <<>>
       /\ Counts(m) => n \notin Origins(Key(m))
  BY <1>5, HeardNames DEF Held
<1>12. Usable(n, m)
  <2>1. m.kind = "user" => Counts(m)
    <3>1. 0 \notin Tags
      BY TreeAssumption DEF Tags
    <3> QED BY <1>11, <3>1 DEF Counts
  <2>2. m.kind = "user" => Counts(m) /\ MeantFor(n, Key(m))
    BY <1>3, <1>11, <2>1, AskedMeans
  <2> QED BY <1>11, <2>2 DEF Usable
<1>13. inHand'[n] = <<>> /\ \A b \in Nodes : b # n => inHand'[b] = inHand[b]
  BY <1>2, <1>4
<1>14. KeysOf(inHand[n]) = KeyOf(m) /\ KeysOf(inHand'[n]) = {}
  BY <1>5, <1>13, KeysSingle, KeysEmpty
<1>15. Finishes(D, D, n, m)
  <2>1. KeyOf(m) \subseteq D[n]
    BY <1>10, <1>14 DEF Placed
  <2> QED BY <1>13, <1>14, <2>1 DEF Finishes, Done
<1>16. SubmittedWell' /\ AnnouncedWell' /\ UsedWellOnce(D)' /\ ToldWell(D)'
  BY <1>2, <1>3, <1>7, <1>8, <1>9, <1>12, <1>15, UseKept
<1>17. MessagesWell'
  <2>1. \A b \in Nodes : inHand'[b] \in Seq(Held(b)) /\ Len(inHand'[b]) <= 1
    <3>1. \A S : <<>> \in Seq(S) /\ Len(<<>>) <= 1
      OBVIOUS
    <3>2. \A b \in Nodes : inHand[b] \in Seq(Held(b)) /\ Len(inHand[b]) <= 1
      BY <1>3 DEF MessagesWell
    <3> QED BY <1>13, <3>1, <3>2
  <2> QED BY <1>2, <1>3, <1>8, <2>1, MessagesKept DEF MessagesWell
<1>18. PICK N \in SUBSET Nat : N = {}
  OBVIOUS
<1>19. Ready(D, n, N) /\ D = [D EXCEPT ![n] = @ \cup N]
  BY <1>10, <1>18 DEF Ready
<1>20. Placed(D)' /\ Chained(D)'
  <2>1. \A b \in Nodes : /\ Once(msgIn[b]) /\ Once(msgOut[b])
                         /\ KeysOf(inHand'[b]) \subseteq D[b]
    BY <1>10, <1>13, <1>14 DEF Placed
  <2>2. \A l \in Links : Once(link[l])
    BY <1>10 DEF Placed
  <2>3. /\ \A l \in Links : KeysOf(link'[l]) \cap N = {}
        /\ (KeysOf(msgIn'[n]) \cup KeysOf(msgOut'[n])) \cap N = {}
    BY <1>18
  <2>4. \A b \in Nodes : KeysOf(msgOut'[b]) \ KeysOf(msgOut[b]) = {}
    BY <1>2
  <2> QED BY <1>2, <1>3, <1>8, <1>9, <1>18, <1>19, <2>1, <2>2, <2>3, <2>4, SpotsKept
<1>21. /\ HandlerWell'
       /\ \A d \in Clients : /\ HasId(d) /\ ~Entering(Parent[d], d)
                             /\ IdOf(d) \notin DOMAIN directClients[Parent[d]]
                             => /\ ~Entering(Parent[d], d)'
                                /\ IdOf(d) \notin DOMAIN directClients'[Parent[d]]
  BY <1>2, <1>3, <1>8, HandlerKept
<1>22. LossHandled(D)'
  BY <1>8, <1>9, <1>18, <1>19, <1>21, LossKept
<1> QED BY <1>10, <1>16, <1>17, <1>20, <1>21, <1>22 DEF OnceInv, Keeps

(***************************************************************************)
(* In takes a message out of its queue, to use it or to send it on.        *)
(***************************************************************************)
\* its key has not been handled here, but by the neighbour it came from
LEMMA CameReady ==
    ASSUME RoutesInv, MessagesWell, NEW D, Keeps(D), NEW n \in Nodes, NEW K,
           K \subseteq KeysOf(msgIn[n])
    PROVE  /\ Ready(D, n, K) /\ K \cap KeysOf(msgOut[n]) = {}
           /\ \A l \in Links : l[2] = n => KeysOf(link[l]) \cap K = {}
           /\ \A k \in K : n \notin Origins(k)
<1>1. Placed(D) /\ Chained(D)
  BY DEF Keeps
<1>2. \A k \in K : Origins(k) # {} /\ n \notin Origins(k)
  <2> SUFFICES ASSUME NEW k \in K PROVE Origins(k) # {} /\ n \notin Origins(k)
    OBVIOUS
  <2>1. PICK a \in Neighbours(n) : Comes(k, a, n)
    BY InKey
  <2> QED BY <2>1, ComesIs
<1>3. \A l \in Links : l[2] = n => KeysOf(link[l]) \cap K = {}
  BY <1>1 DEF Placed
<1>4. \A k \in K : k \notin D[n]
  BY <1>1 DEF Placed
<1>5. \A k \in K : \A a \in Neighbours(n) : Comes(k, a, n) => k \in D[a]
  <2> SUFFICES ASSUME NEW k \in K, NEW a \in Neighbours(n), Comes(k, a, n) PROVE k \in D[a]
    OBVIOUS
  <2>1. PICK l \in Links : l = <<a, n>>
    BY NeighbourIs
  <2>2. l[1] = a /\ l[2] = n
    BY <2>1
  <2>3. k \in Reached(D, l)
    BY <2>2 DEF Reached
  <2> QED BY <1>1, <2>2, <2>3 DEF Chained
<1>6. K \cap KeysOf(msgOut[n]) = {}
  BY <1>2, OutKey
<1> QED BY <1>2, <1>3, <1>4, <1>5, <1>6 DEF Ready

LEMMA ForwardPassable ==
    ASSUME KernalInv, RoutesInv, NEW n \in Nodes, Awake(n), NEW m \in Met(n), ~Mine(n, m)
    PROVE  Passable(n, m, Route(n, m))
<1>1. PICK a \in Neighbours(n) : m \in Coming(a, n)
  BY DEF Met
<1>2. /\ m \in Good /\ Explained(m)
      /\ Counts(m) =>
            /\ HasId(a) /\ Comes(Key(m), a, n)
            /\ m.dest \in {0, 1} => m.src = IdOf(a)
            /\ m.dest \notin {0, 1} => m.dest \in Names /\ Owners(m.dest) \cap Away(a, n) = {}
  BY <1>1 DEF Coming
<1>3. m.dest # 1 /\ m.dest # IdOf(n)
  BY DEF Mine, Awake
<1> SUFFICES ASSUME NEW k \in Neighbours(n) \cap Route(n, m), HasId(k), IdOf(k) # m.src
             PROVE  Marked(n, m) \in Coming(n, k)
  BY DEF Passable
<1>4. PICK y : y = Marked(n, m)
  OBVIOUS
<1>5. /\ y \in Good /\ y.kind = m.kind /\ y.body = m.body /\ y.dest = m.dest
      /\ y.dest \in {0, 1} => y.src = IdOf(n)
  BY <1>2, <1>4, MarkedGood
<1>6. Explained(y)
  BY <1>2, <1>5 DEF Explained, Asked, Notice
<1>7. ASSUME Counts(y)
      PROVE  /\ HasId(n) /\ Comes(Key(y), n, k)
             /\ y.dest \notin {0, 1} => /\ y.dest \in Names
                                        /\ Owners(y.dest) \cap Away(n, k) = {}
  <2>1. Counts(m) /\ Key(y) = Key(m)
    BY <1>5, <1>7 DEF Counts, Key
  <2>2. m.dest # 0 => /\ Owners(m.dest) \subseteq Away(k, n)
                      /\ Owners(m.dest) \cap Away(n, k) = {}
    BY <1>3, RouteAway
  <2>3. a # k
    <3>1. CASE m.dest = 0
      BY <1>2, <2>1, <3>1
    <3>2. CASE m.dest # 0
      <4>1. m.dest \in Names \ Tags
        <5>1. m.kind = "gone" => m.dest = 0
          BY <1>2 DEF Explained, Notice
        <5> QED BY <1>2, <1>3, <2>1, <3>2, <5>1 DEF Counts
      <4>2. Owners(m.dest) # {}
        BY <4>1 DEF Names, Owners
      <4> QED BY <1>2, <1>3, <2>1, <2>2, <3>2, <4>2
    <3> QED BY <3>1, <3>2
  <2>4. Comes(Key(m), n, k)
    <3>1. Away(a, n) \subseteq Away(n, k)
      BY <2>3, SideOn DEF Away
    <3> QED BY <1>2, <2>1, <3>1 DEF Comes
  <2> QED BY <1>2, <1>3, <1>5, <2>1, <2>2, <2>4 DEF Awake
<1> QED BY <1>4, <1>5, <1>6, <1>7 DEF Coming

LEMMA ReciveOnce ==
    ASSUME KernalInv, RoutesInv, OnceInv, NEW n \in Nodes, ReciveMessage(n)
    PROVE  OnceInv'
<1>1. PICK m : m = Head(msgIn[n])
  OBVIOUS
<1>2. /\ inHand[n] = <<>> /\ msgIn[n] # <<>> /\ msgIn' = [msgIn EXCEPT ![n] = Tail(@)]
      /\ UNCHANGED <<accepted, msgOut, wires, users>>
      /\ \/ /\ Mine(n, m) /\ UseMessage(n, m) /\ UNCHANGED <<link, notFound>>
            /\ inHand' = inHand
         \/ /\ ~Mine(n, m) /\ SendMessage(n, m) /\ UNCHANGED tables
            /\ inHand' = IF m.dest = 0 THEN [inHand EXCEPT ![n] = <<m>>] ELSE inHand
  BY <1>1 DEF ReciveMessage
<1> USE DEF accepted, wires, users
<1>3. MessagesWell /\ SubmittedWell /\ AnnouncedWell /\ HandlerWell
  BY DEF OnceInv
<1>4. /\ msgIn \in [Nodes -> Seq(Good)] /\ inHand \in [Nodes -> Seq(Good)]
      /\ msgIn[n] \in Seq(Met(n)) /\ msgIn[n] \in Seq(Heard(n))
  BY <1>3 DEF KernalInv, QueuesTyped, MessagesWell, RoutesInv, Arrived
<1>5. m \in Met(n) /\ m \in Heard(n) /\ Tail(msgIn[n]) \in Seq(Met(n))
  BY <1>1, <1>2, <1>4
<1>6. /\ m \in Good /\ Explained(m) /\ m.body \in Seq(Names) /\ m.body # <<>> /\ HasId(n)
  BY <1>5, HeardNames DEF Met, Coming
<1>7. n \in Clients /\ myId[n] = 0 => IsNotice(m)
  BY <1>1, <1>2 DEF RoutesInv, Waiting, ClientWaits
<1>8. ~IsNotice(m) => Awake(n)
  BY <1>6, <1>7, AwakeIf
<1>9. PICK D : Keeps(D)
  BY DEF OnceInv
<1>10. Placed(D) /\ D \in [Nodes -> SUBSET Nat]
  BY <1>9 DEF Keeps
<1>11. PICK K \in SUBSET Nat : K = KeyOf(m)
  BY <1>6, KeyTyped
<1>12. /\ KeysOf(Tail(msgIn[n])) \subseteq KeysOf(msgIn[n]) /\ K \subseteq KeysOf(msgIn[n])
       /\ Once(Tail(msgIn[n])) /\ K \cap KeysOf(Tail(msgIn[n])) = {}
  <2>1. Once(msgIn[n])
    BY <1>10 DEF Placed
  <2> QED BY <1>1, <1>2, <1>4, <1>11, <2>1, KeysTail
<1>13. /\ Ready(D, n, K) /\ K \cap KeysOf(msgOut[n]) = {}
       /\ \A l \in Links : l[2] = n => KeysOf(link[l]) \cap K = {}
       /\ \A k \in K : n \notin Origins(k)
  BY <1>3, <1>9, <1>12, CameReady
<1>14. PICK E : E = [D EXCEPT ![n] = @ \cup K]
  OBVIOUS
<1>15. /\ E \in [Nodes -> SUBSET Nat] /\ \A b \in Nodes : D[b] \subseteq E[b]
       /\ E[n] = D[n] \cup K /\ K \cap D[n] = {}
  BY <1>10, <1>13, <1>14 DEF Ready
<1>16. msgIn'[n] = Tail(msgIn[n]) /\ \A b \in Nodes : b # n => msgIn'[b] = msgIn[b]
  BY <1>2, <1>4
<1>17. /\ Grows /\ \A k \in Nodes : IdOf(k)' = IdOf(k)
  <2>1. CASE Mine(n, m) /\ UseMessage(n, m)
    <3>1. UsedWell(n)
      BY <1>2, <1>5, <1>7, <2>1, UseIsWell
    <3> QED BY <3>1 DEF UsedWell
  <2>2. CASE UNCHANGED tables
    BY <1>2, <2>2, SameIdsKept DEF SameIds, tables
  <2> QED BY <1>2, <2>1, <2>2
<1>18. Extends
  BY <1>2, <1>17 DEF Extends
<1>19. KeysOf(inHand'[n]) \subseteq K /\ \A b \in Nodes : b # n => inHand'[b] = inHand[b]
  <2>1. CASE inHand' = inHand
    BY <1>2, <2>1, KeysEmpty
  <2>2. CASE inHand' = [inHand EXCEPT ![n] = <<m>>]
    <3>1. inHand'[n] = <<m>> /\ \A b \in Nodes : b # n => inHand'[b] = inHand[b]
      BY <1>4, <2>2
    <3> QED BY <1>11, <3>1, KeysSingle
  <2> QED BY <1>2, <2>1, <2>2
<1>20. \A b \in Nodes : /\ Once(msgIn'[b]) /\ KeysOf(msgIn'[b]) \subseteq KeysOf(msgIn[b])
                        /\ Once(msgOut'[b]) /\ KeysOf(msgOut'[b]) \subseteq KeysOf(msgOut[b])
                        /\ KeysOf(inHand'[b]) \subseteq E[b]
  <2>1. \A b \in Nodes : Once(msgIn[b]) /\ Once(msgOut[b]) /\ KeysOf(inHand[b]) \subseteq D[b]
    BY <1>10 DEF Placed
  <2> QED BY <1>2, <1>12, <1>15, <1>16, <1>19, <2>1
<1>21. (KeysOf(msgIn'[n]) \cup KeysOf(msgOut'[n])) \cap K = {}
  BY <1>2, <1>12, <1>13, <1>16
<1>22. \A b \in Nodes : Done(D, b) \subseteq Done(E, b)'
  <2>1. KeysOf(inHand[n]) = {}
    BY <1>2, KeysEmpty
  <2> QED BY <1>15, <1>19, <2>1 DEF Done
<1>23. /\ HandlerWell'
       /\ \A d \in Clients : /\ HasId(d) /\ ~Entering(Parent[d], d)
                             /\ IdOf(d) \notin DOMAIN directClients[Parent[d]]
                             => /\ ~Entering(Parent[d], d)'
                                /\ IdOf(d) \notin DOMAIN directClients'[Parent[d]]
  BY <1>2, <1>3, <1>18, HandlerKept
<1>24. LossHandled(E)'
  <2>1. \A d \in Clients : HasId(d) /\ IdOf(d) \in K => Parent[d] # n
    <3> SUFFICES ASSUME NEW d \in Clients, HasId(d), IdOf(d) \in K PROVE Parent[d] # n
      OBVIOUS
    <3>1. Origins(IdOf(d)) # {} /\ n \notin Origins(IdOf(d))
      BY <1>13 DEF Ready
    <3>2. IdOf(d) \notin Tags
      BY NotTags DEF Clients
    <3> QED BY <3>1, <3>2 DEF Origins
  <2>2. ASSUME NEW d \in Clients, HasId(d), IdOf(d) \in K PROVE Dead(d)
    <3>1. IdOf(d) \notin Tags
      BY NotTags DEF Clients
    <3>2. Counts(m) /\ Key(m) = IdOf(d)
      BY <1>11, <2>2 DEF KeyOf
    <3>3. m.kind = "gone"
      BY <1>6, <3>1, <3>2, KeyTyped DEF Counts
    <3>4. PICK c \in Clients : /\ Dead(c)
                               /\ \E s \in Seq(Of(Within[c])) : m.body = <<IdOf(c)>> \o s
      BY <1>6, <3>3 DEF Explained, Notice
    <3>5. PICK s \in Seq(Of(Within[c])) : m.body = <<IdOf(c)>> \o s
      BY <3>4
    <3>6. Key(m) = IdOf(c)
      <4>1. IdOf(c) \in Nat
        BY NamesTyped DEF Clients
      <4> QED BY <3>5, <4>1 DEF Key
    <3>7. c = d
      BY <2>2, <3>2, <3>6 DEF RoutesInv, IdsGiven, Clients
    <3> QED BY <3>4, <3>7
  <2>3. \A d \in Clients : HasId(d) /\ IdOf(d) \in K => Dead(d)
    BY <2>2
  <2>4. \A d \in Clients :
            /\ HasId(d)
            /\ \/ Parent[d] = n /\ IdOf(d) \in K
               \/ /\ ~Entering(Parent[d], d)
                  /\ IdOf(d) \notin DOMAIN directClients[Parent[d]]
            => /\ ~Entering(Parent[d], d)'
               /\ IdOf(d) \notin DOMAIN directClients'[Parent[d]]
    BY <1>23, <2>1
  <2> QED BY <1>9, <1>13, <1>14, <1>18, <2>3, <2>4, LossKept
<1>25. \A b \in Nodes : msgIn'[b] \in Seq(Met(b))
  BY <1>3, <1>5, <1>16 DEF MessagesWell
<1>26. CASE Mine(n, m) /\ UseMessage(n, m) /\ link' = link /\ inHand' = inHand
  <2>1. MessagesWell'
    BY <1>2, <1>3, <1>18, <1>25, <1>26, MessagesKept DEF MessagesWell
  <2>2. Placed(E)' /\ Chained(E)'
    <3>1. \A l \in Links : Once(link[l])
      BY <1>10 DEF Placed
    <3>2. \A b \in Nodes : KeysOf(msgOut'[b]) \ KeysOf(msgOut[b]) = {}
      BY <1>2
    <3>3. LinkMoves(n, K)
      BY <1>13, <1>26, <3>1 DEF LinkMoves
    <3>4. NodeMoves(E)
      BY <1>20, <3>2 DEF NodeMoves
    <3>5. Ready(D, n, K) /\ K \in SUBSET Nat
      BY <1>13
    <3>6. Extends /\ MessagesWell
      BY <1>3, <1>18
    <3> QED BY <1>9, <1>14, <1>21, <3>3, <3>4, <3>5, <3>6, SpotsMoved, Zenon
  <2>3. Finishes(D, E, n, m)
    <3>1. KeysOf(inHand'[n]) = {}
      BY <1>2, <1>26, KeysEmpty
    <3>2. K \subseteq Done(E, n)' \ Done(D, n)
      BY <1>15, <3>1 DEF Done
    <3> QED BY <1>11, <1>22, <3>2 DEF Finishes
  <2>4. Usable(n, m)
    <3>1. ASSUME m.kind = "user" PROVE Counts(m) /\ MeantFor(n, Key(m))
      <4>1. Awake(n)
        BY <1>8, <3>1 DEF IsNotice
      <4>2. m.dest = 1 \/ (HasId(n) /\ m.dest = IdOf(n))
        BY <1>26, <4>1 DEF Mine, Awake
      <4>3. m.dest \notin Tags \ {1}
        BY <4>2, NotTags
      <4>4. Counts(m) /\ Key(m) \in K
        BY <1>11, <3>1, <4>3 DEF Counts, KeyOf
      <4> QED BY <1>3, <1>6, <1>13, <3>1, <4>2, <4>4, AskedMeans
    <3> QED BY <1>6, <3>1 DEF Usable
  <2>5. SubmittedWell' /\ AnnouncedWell' /\ UsedWellOnce(E)' /\ ToldWell(E)'
    BY <1>2, <1>3, <1>9, <1>17, <1>18, <1>26, <2>3, <2>4, UseKept
  <2> QED BY <1>15, <1>23, <1>24, <2>1, <2>2, <2>5 DEF OnceInv, Keeps
<1>27. CASE /\ ~Mine(n, m) /\ SendMessage(n, m) /\ UNCHANGED tables
            /\ inHand' = IF m.dest = 0 THEN [inHand EXCEPT ![n] = <<m>>] ELSE inHand
  <2>1. Awake(n)
    BY <1>8, <1>27 DEF IsNotice, Mine
  <2>2. PICK to : to = Route(n, m)
    OBVIOUS
  <2>3. Passable(n, m, to)
    BY <1>5, <1>27, <2>1, <2>2, ForwardPassable
  <2>4. /\ Placed(E)' /\ Chained(E)'
        /\ \A l \in Links : link'[l] \in Seq(Coming(l[1], l[2]))
    <3>1. \A l \in Links : link'[l] \in {Sent(n, m, to)[l], <<>>}
      BY <1>27, <2>2 DEF SendMessage
    <3>2. Sends(D, E, n, m, to)
      BY <1>11, <1>13, <1>14, <1>20, <1>21, <2>1, <2>3, <3>1 DEF Sends
    <3> QED BY <1>3, <1>6, <1>9, <1>18, <3>2, SendKept, Zenon
  <2>5. MessagesWell'
    <3>1. m.dest = 0 => m \in Held(n)
      <4>1. Counts(m) => Origins(Key(m)) # {} /\ n \notin Origins(Key(m))
        BY <1>11, <1>13 DEF KeyOf, Ready
      <4> QED BY <1>6, <4>1 DEF Held
    <3>2. \A b \in Nodes : inHand[b] \in Seq(Held(b)) /\ Len(inHand[b]) <= 1
      BY <1>3 DEF MessagesWell
    <3>3. \A b \in Nodes : inHand'[b] \in Seq(Held(b)) /\ Len(inHand'[b]) <= 1
      <4>1. m.dest = 0 => <<m>> \in Seq(Held(n)) /\ Len(<<m>>) <= 1
        BY <3>1
      <4>2. m.dest = 0 => inHand'[n] = <<m>>
        BY <1>4, <1>27
      <4>3. m.dest # 0 => inHand' = inHand
        BY <1>27
      <4> QED BY <1>19, <3>2, <4>1, <4>2, <4>3
    <3> QED BY <1>2, <1>3, <1>18, <1>25, <2>4, <3>3, MessagesKept DEF MessagesWell
  <2>6. SubmittedWell' /\ AnnouncedWell' /\ Keeps(E)'
    BY <1>2, <1>3, <1>9, <1>15, <1>18, <1>22, <1>24, <1>27, <2>4, CalmKept DEF tables
  <2> QED BY <1>23, <2>5, <2>6 DEF OnceInv
<1> QED BY <1>2, <1>26, <1>27

(***************************************************************************)
(* A user's message gets a tag that no message had before.                 *)
(***************************************************************************)
LEMMA SubmitOnce ==
    ASSUME KernalInv, RoutesInv, OnceInv, NEW n \in Nodes, Submit(n)
    PROVE  OnceInv'
<1>1. PICK tag \in Nat : tag = Len(submitted) + 1
  BY DEF KernalInv, RestTyped
<1>2. PICK dest \in {0} \cup (announced[n] \ {myId[n]}) :
         /\ msgOut' = [msgOut EXCEPT ![n] = Append(@,
               [dest |-> dest, src |-> IF n = Root THEN 0 ELSE myId[n],
                kind |-> "user", body |-> <<tag>>])]
         /\ submitted' = Append(submitted,
               [from |-> n, dest |-> dest, settled |-> {k \in Nodes : Settled(k)}])
  BY <1>1 DEF Submit
<1>3. PICK m : m = [dest |-> dest, src |-> IF n = Root THEN 0 ELSE myId[n],
                    kind |-> "user", body |-> <<tag>>]
  OBVIOUS
<1>4. PICK r : r = [from |-> n, dest |-> dest, settled |-> {k \in Nodes : Settled(k)}]
  OBVIOUS
<1>5. /\ Len(submitted) < MaxSubmit /\ myId[n] # 0
      /\ msgOut' = [msgOut EXCEPT ![n] = Append(@, m)] /\ submitted' = Append(submitted, r)
      /\ UNCHANGED <<tables, accepted, msgIn, inHand, sending, wires, lost>>
  BY <1>2, <1>3, <1>4 DEF Submit
<1> USE DEF tables, accepted, sending, wires
<1>6. MessagesWell /\ SubmittedWell /\ AnnouncedWell /\ HandlerWell
  BY DEF OnceInv
<1>7. /\ msgOut \in [Nodes -> Seq(Good)] /\ myId \in [Nodes -> Nat]
      /\ submitted \in Seq([from : Nodes, dest : Nat, settled : SUBSET Nodes])
      /\ used \in [Nodes -> Seq(1..MaxSubmit)] /\ MaxSubmit \in Nat
  BY TreeAssumption DEF KernalInv, QueuesTyped, RestTyped, TablesTyped
<1>8. Awake(n)
  <2>1. myId[n] = IdOf(n)
    BY <1>5 DEF RoutesInv, Started, ClientStarted, IdOf, Clients
  <2> QED BY <1>5, <2>1 DEF Awake, HasId
<1>9. dest # 0 => dest \in Names /\ dest # IdOf(n)
  BY <1>6, <1>8 DEF AnnouncedWell, Awake
<1>10. dest \in Nat
  BY <1>9, NamesTyped
<1>11. /\ tag \in Tags /\ tag \notin DOMAIN submitted
       /\ DOMAIN submitted' = DOMAIN submitted \cup {tag}
       /\ submitted'[tag] = r
       /\ \A t \in DOMAIN submitted : submitted'[t] = submitted[t]
  <2>1. tag \in Tags
    BY <1>1, <1>5, <1>7 DEF Tags
  <2>2. tag \notin DOMAIN submitted
    BY <1>1, <1>7
  <2>3. \A t \in DOMAIN submitted : submitted'[t] = submitted[t]
    <3> PICK S : S = [from : Nodes, dest : Nat, settled : SUBSET Nodes]
      OBVIOUS
    <3> PICK s : s = submitted
      OBVIOUS
    <3>1. s \in Seq(S)
      BY <1>7
    <3>2. \A t \in DOMAIN s : Append(s, r)[t] = s[t]
      BY <3>1
    <3> QED BY <1>5, <3>2
  <2>4. submitted'[tag] = r
    <3> PICK s : s = submitted
      OBVIOUS
    <3>1. s \in Seq([from : Nodes, dest : Nat, settled : SUBSET Nodes])
      BY <1>7
    <3>2. Append(s, r)[Len(s) + 1] = r
      BY <3>1
    <3> QED BY <1>1, <1>5, <3>2
  <2>5. DOMAIN submitted' = DOMAIN submitted \cup {tag}
    BY <1>1, <1>5, <1>7
  <2> QED BY <2>1, <2>2, <2>3, <2>4, <2>5
<1>12. Origins(tag) = {} /\ Origins(tag)' = {n}
  BY <1>4, <1>11 DEF Origins
<1>13. Grows /\ \A k \in Nodes : IdOf(k)' = IdOf(k)
  BY <1>5, SameIdsKept DEF SameIds
<1>14. Extends
  BY <1>11, <1>13 DEF Extends
<1>15. SubmittedWell'
  <2> SUFFICES ASSUME NEW s \in ToSet(submitted'), s.dest # 0
               PROVE  s.dest \in Names' /\ s.from \notin Owners(s.dest)'
    BY DEF SubmittedWell
  <2> PICK d : d = s.dest
    OBVIOUS
  <2>1. s = r \/ s \in ToSet(submitted)
    BY <1>11 DEF ToSet
  <2>2. d \in Names /\ s.from \notin Owners(d)
    BY <1>4, <1>6, <1>9, <2>1 DEF SubmittedWell, Owners
  <2>3. d \in Names' /\ Owners(d)' = Owners(d)
    BY <1>14, <2>2, NamesKept DEF Extends
  <2> QED BY <2>2, <2>3
<1>16. m \in Good /\ m.kind = "user" /\ m.body = <<tag>> /\ m.dest = dest
  <2>1. (IF n = Root THEN 0 ELSE myId[n]) \in Nat
    BY <1>7
  <2>2. m \in Message /\ m.kind = "user" /\ m.body = <<tag>> /\ m.dest = dest
    BY <1>3, <1>10, <2>1 DEF Message
  <2> QED BY <1>11, <2>2 DEF Good, Tags
<1>17. Key(m) = tag
  BY <1>16 DEF Key
<1>18. m \in Going(n)'
  <2>1. Asked(m)'
    BY <1>4, <1>11, <1>16 DEF Asked
  <2>2. Origins(Key(m))' = {n}
    BY <1>12, <1>17
  <2> QED BY <1>16, <2>1, <2>2 DEF Going
<1>19. /\ msgOut'[n] = Append(msgOut[n], m)
       /\ \A b \in Nodes : b # n => msgOut'[b] = msgOut[b]
  BY <1>5, <1>7
<1>20. MessagesWell'
  <2>1. \A l \in Links : Seq(Coming(l[1], l[2])) \subseteq Seq(Coming(l[1], l[2])')
    BY <1>14, LinkNodes, ComingKept, SeqOver
  <2>2. \A b \in Nodes : /\ Seq(Met(b)) \subseteq Seq(Met(b)')
                         /\ Seq(Going(b)) \subseteq Seq(Going(b)')
                         /\ Seq(Held(b)) \subseteq Seq(Held(b)')
    BY <1>14, MetKept, GoingKept, HeldKept, SeqOver
  <2>3. Append(msgOut[n], m) \in Seq(Going(n)')
    <3>1. msgOut[n] \in Seq(Going(n)')
      BY <1>6, <2>2 DEF MessagesWell
    <3> QED BY <1>18, <3>1
  <2>4. \A b \in Nodes : msgOut'[b] \in Seq(Going(b)')
    BY <1>6, <1>19, <2>2, <2>3 DEF MessagesWell
  <2> QED BY <1>5, <1>6, <2>1, <2>2, <2>4 DEF MessagesWell
<1>21. PICK D : Keeps(D)
  BY DEF OnceInv
<1>22. Placed(D) /\ D \in [Nodes -> SUBSET Nat]
  BY <1>21 DEF Keeps
<1>23. KeyOf(m) \subseteq {tag}
  BY <1>17 DEF KeyOf
<1>24. /\ KeysOf(msgOut'[n]) \subseteq KeysOf(msgOut[n]) \cup {tag} /\ Once(msgOut'[n])
       /\ \A k \in KeysOf(msgOut'[n]) \ KeysOf(msgOut[n]) : Origins(k) = {} /\ Origins(k)' # {}
  <2>1. tag \notin KeysOf(msgOut[n])
    BY <1>6, <1>12, OutKey
  <2>2. msgOut[n] \in Seq(Good) /\ Once(msgOut[n])
    BY <1>7, <1>22 DEF Placed
  <2>3. KeysOf(msgOut'[n]) = KeysOf(msgOut[n]) \cup KeyOf(m) /\ Once(msgOut'[n])
    BY <1>16, <1>19, <1>23, <2>1, <2>2, KeysAppend
  <2> QED BY <1>12, <1>23, <2>3
<1>25. PICK N \in SUBSET Nat : N = {}
  OBVIOUS
<1>26. Ready(D, n, N) /\ D = [D EXCEPT ![n] = @ \cup N]
  BY <1>22, <1>25 DEF Ready
<1>27. Placed(D)' /\ Chained(D)'
  <2>1. \A b \in Nodes :
           /\ Once(msgIn'[b]) /\ KeysOf(msgIn'[b]) \subseteq KeysOf(msgIn[b])
           /\ Once(msgOut'[b])
           /\ \A k \in KeysOf(msgOut'[b]) \ KeysOf(msgOut[b]) : Origins(k) = {} /\ Origins(k)' # {}
           /\ KeysOf(inHand'[b]) \subseteq D[b]
    BY <1>5, <1>19, <1>22, <1>24 DEF Placed
  <2>2. \A l \in Links : Once(link'[l]) /\ KeysOf(link'[l]) \subseteq KeysOf(link[l])
    BY <1>5, <1>22 DEF Placed
  <2>3. /\ \A l \in Links : KeysOf(link'[l]) \cap N = {}
        /\ (KeysOf(msgIn'[n]) \cup KeysOf(msgOut'[n])) \cap N = {}
    BY <1>25
  <2> QED BY <1>6, <1>14, <1>21, <1>25, <1>26, <2>1, <2>2, <2>3, SpotsKept
<1>28. /\ HandlerWell'
       /\ \A d \in Clients : /\ HasId(d) /\ ~Entering(Parent[d], d)
                             /\ IdOf(d) \notin DOMAIN directClients[Parent[d]]
                             => /\ ~Entering(Parent[d], d)'
                                /\ IdOf(d) \notin DOMAIN directClients'[Parent[d]]
  BY <1>5, <1>6, <1>14, HandlerKept
<1>29. LossHandled(D)'
  BY <1>14, <1>21, <1>25, <1>26, <1>28, LossKept
<1>30. \A b \in Nodes : Done(D, b) \subseteq Done(D, b)'
  BY <1>5 DEF Done
<1>31. UsedWellOnce(D)' /\ ToldWell(D)' /\ AnnouncedWell'
  <2>1. UsedWellOnce(D)'
    BY <1>5, <1>6, <1>7, <1>14, <1>21, <1>30, UsedKept
  <2>2. ToldWell(D)'
    BY <1>5, <1>14, <1>21, <1>30, ToldKept
  <2>3. AnnouncedWell'
    BY <1>5, <1>6, <1>14, AnnouncedKept
  <2> QED BY <2>1, <2>2, <2>3
<1> QED BY <1>15, <1>20, <1>22, <1>27, <1>28, <1>29, <1>31 DEF OnceInv, Keeps

(***************************************************************************)
(* The invariant holds.                                                    *)
(***************************************************************************)
LEMMA InitOnce == ASSUME Init PROVE OnceInv
<1>1. PICK D \in [Nodes -> SUBSET Nat] : \A n \in Nodes : D[n] = {}
  <2>1. [n \in Nodes |-> {}] \in [Nodes -> SUBSET Nat]
    OBVIOUS
  <2> QED BY <2>1
<1>2. /\ \A l \in Links : link[l] = <<>>
      /\ \A n \in Nodes : /\ msgIn[n] = <<>> /\ msgOut[n] = <<>> /\ inHand[n] = <<>>
                          /\ used[n] = <<>> /\ removed[n] = <<>> /\ announced[n] = {}
                          /\ accepting[n] = NotAccepting /\ directClients[n] = <<>>
  BY DEF Init
<1>3. SubmittedWell /\ AnnouncedWell
  BY <1>2 DEF Init, SubmittedWell, AnnouncedWell, ToSet
<1>4. HandlerWell
  BY <1>2 DEF HandlerWell, Entering, NotAccepting
<1>5. Len(<<>>) <= 1 /\ \A S : <<>> \in Seq(S)
  OBVIOUS
<1>6. MessagesWell
  BY <1>2, <1>5, Zenon DEF MessagesWell
<1>7. Clients \subseteq Nodes /\ \A c \in Clients : Parent[c] \in Nodes
  BY WithinServer
<1>8. Placed(D) /\ Chained(D)
  <2>1. \A l \in Links : l[1] \in Nodes /\ l[2] \in Nodes
    BY LinkNodes
  <2>2. Placed(D)
    BY <1>1, <1>2, <2>1, KeysEmpty DEF Placed
  <2>3. \A l \in Links : Reached(D, l) = {}
    BY <1>1, <1>2, <2>1, KeysEmpty DEF Reached
  <2> QED BY <2>2, <2>3 DEF Chained
<1>9. LossHandled(D)
  BY <1>1, <1>7 DEF LossHandled
<1>10. UsedWellOnce(D)
  <2>1. Distinct(<<>>) /\ ToSet(<<>>) = {}
    BY DEF Distinct, ToSet
  <2> QED BY <1>2, <2>1 DEF UsedWellOnce
<1>11. ToldWell(D)
  <2> SUFFICES ASSUME NEW n \in Nodes, NEW k \in Clients
               PROVE  Told(n, IdOf(k)) <= Cardinality(Cuts(D, n, k))
                          + (IF IdOf(k) \in Done(D, n) THEN 1 ELSE 0)
    BY DEF ToldWell
  <2>1. Cuts(D, n, k) = {} /\ IdOf(k) \notin Done(D, n)
    BY <1>1 DEF Cuts, Done
  <2>2. {i \in DOMAIN removed[n] : removed[n][i] = IdOf(k)} = {}
    BY <1>2
  <2>3. Told(n, IdOf(k)) = 0 /\ Cardinality(Cuts(D, n, k)) = 0
    BY <2>1, <2>2, FS_EmptySet DEF Told
  <2> QED BY <2>1, <2>3
<1> QED BY <1>1, <1>3, <1>4, <1>6, <1>8, <1>9, <1>10, <1>11 DEF OnceInv, Keeps

LEMMA NextOnce == KernalInv /\ RoutesInv /\ OnceInv /\ ProperIds' /\ [Next]_vars => OnceInv'
<1> SUFFICES ASSUME KernalInv, RoutesInv, OnceInv, ProperIds', Next PROVE OnceInv'
  BY StutterOnce
<1>1. CASE Joining
  BY <1>1, StartRootOnce, DialOnce DEF Joining
<1>2. ASSUME NEW n \in Nodes, Context(n) PROVE OnceInv'
  <2>1. ASSUME NEW c \in Children(n), Accept(c) PROVE OnceInv'
    BY <2>1, AcceptOnce
  <2>2. ASSUME NEW l \in Links, Deliver(l) PROVE OnceInv'
    BY <2>2, DeliverOnce
  <2>3. ASSUME NEW l \in Links, l[2] = n, NoticesPeer(n, l[1]) PROVE OnceInv'
    BY <2>3, LinkNodes, ClosesOnce DEF NoticesPeer
  <2> QED BY <1>2, <2>1, <2>2, <2>3, AcceptListOnce, AcceptInsertOnce DEF Context
<1>3. ASSUME NEW n \in Nodes, In(n) PROVE OnceInv'
  BY <1>3, ReciveOnce, UseForwardedOnce DEF In
<1>4. CASE Working
  BY <1>1, <1>2, <1>3, <1>4, HandleOutOnce, HandleRemoveOnce DEF Working
<1>5. ASSUME NEW n \in Users, Submit(n) PROVE OnceInv'
  BY <1>5, SubmitOnce, TreeAssumption
<1>6. ASSUME NEW n \in Nodes, NEW k \in Nodes, Fails(n, k) PROVE OnceInv'
  BY <1>6, ClosesOnce DEF Fails
<1> QED BY <1>4, <1>5, <1>6 DEF Next

LEMMA OnceLeads == ASSUME KernalInv, OnceInv PROVE UsedOnceWhereMeant /\ LossToldOnce
<1>1. PICK D : Keeps(D)
  BY DEF OnceInv
<1>2. UsedOnceWhereMeant
  <2> SUFFICES ASSUME NEW n \in Nodes
               PROVE  /\ Distinct(used[n])
                      /\ \A i \in DOMAIN used[n] : MeantFor(n, used[n][i])
    BY DEF UsedOnceWhereMeant, Distinct, MeantFor
  <2> QED BY <1>1 DEF Keeps, UsedWellOnce, ToSet
<1>3. LossToldOnce
  <2> SUFFICES ASSUME NEW n \in Nodes, NEW k \in Clients, IdOf(k) # 0
               PROVE  Told(n, IdOf(k)) <= Cardinality({c \in Clients : k \in Within[c] /\ ~Linked(c)})
                                          + (IF Linked(k) THEN 0 ELSE 1)
    BY DEF LossToldOnce
  <2>1. Told(n, IdOf(k)) <= Cardinality(Cuts(D, n, k)) + (IF IdOf(k) \in Done(D, n) THEN 1 ELSE 0)
    BY <1>1 DEF Keeps, ToldWell, HasId
  <2>2. \A c \in Clients : HasId(c) /\ IdOf(c) \in Done(D, n) => ~Linked(c)
    BY <1>1 DEF Keeps, LossHandled, Done
  <2> DEFINE cut == {c \in Clients : k \in Within[c] /\ ~Linked(c)}
  <2>3. Cuts(D, n, k) \subseteq cut
    BY <2>2 DEF Cuts
  <2>4. IsFiniteSet(cut)
    <3>1. IsFiniteSet({c \in Clients : k \in Within[c]})
      BY AncestorsFinite DEF Clients
    <3> QED BY <3>1, FS_Subset
  <2>5. IdOf(k) \in Done(D, n) => ~Linked(k)
    BY <2>2 DEF HasId
  <2> HIDE DEF cut
  <2>6. /\ IsFiniteSet(Cuts(D, n, k)) /\ Cardinality(Cuts(D, n, k)) <= Cardinality(cut)
        /\ Cardinality(Cuts(D, n, k)) \in Nat /\ Cardinality(cut) \in Nat
    BY <2>3, <2>4, FS_Subset, FS_CardinalityType
  <2>7. Told(n, IdOf(k)) \in Nat
    <3>1. removed[n] \in Seq(Nat)
      BY DEF KernalInv, TablesTyped
    <3>2. IsFiniteSet(DOMAIN removed[n])
      BY <3>1, FS_Interval
    <3>3. IsFiniteSet({i \in DOMAIN removed[n] : removed[n][i] = IdOf(k)})
      BY <3>2, FS_Subset
    <3> QED BY <3>3, FS_CardinalityType DEF Told
  <2>8. Told(n, IdOf(k)) <= Cardinality(cut) + (IF Linked(k) THEN 0 ELSE 1)
    BY <2>1, <2>5, <2>6, <2>7
  <2> QED BY <2>8 DEF cut
<1> QED BY <1>2, <1>3

LEMMA OnceHolds == Spec /\ []ProperIds => [](KernalInv /\ OnceInv)
<1>1. Init => KernalInv /\ RoutesInv /\ OnceInv
  BY InitTyped, RoutesInit, InitOnce
<1>2. KernalInv /\ RoutesInv /\ OnceInv /\ ProperIds' /\ [Next]_vars
      => (KernalInv /\ RoutesInv /\ OnceInv)'
  BY NextTyped, NextRoutes, NextOnce
<1> QED BY <1>1, <1>2, PTL DEF Spec

(***************************************************************************)
(* Nobody uses a message twice, its sender does not get it back and one    *)
(* for a single node is used by nobody else, in any tree and whatever      *)
(* sockets fail, while the ids are proper.                                 *)
(***************************************************************************)
THEOREM KernalUsedOnceWhereMeant == Spec /\ []ProperIds => []UsedOnceWhereMeant
BY OnceHolds, OnceLeads, PTL

(***************************************************************************)
(* However many sockets fail, and in whatever order the notices travel, no *)
(* node is told of a loss more often than once for every connection lost   *)
(* above the node that is gone, and once more for its own, while the ids   *)
(* are proper.                                                             *)
(***************************************************************************)
THEOREM KernalLossToldOnce == Spec /\ []ProperIds => []LossToldOnce
BY OnceHolds, OnceLeads, PTL

(***************************************************************************)
(* With one server, who uses what rests on no assumption about the ids, as *)
(* long as no connection is lost: whatever rand() returns.                 *)
(***************************************************************************)
THEOREM KernalOneServerUsedOnce ==
    ASSUME OneServer
    PROVE  Spec /\ []Unbroken /\ []Numbered => []UsedOnceWhereMeant
BY KernalOneServerProperIds, KernalUsedOnceWhereMeant, PTL
=============================================================================
