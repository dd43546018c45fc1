---------------------------- MODULE KernalProofs ----------------------------
(***************************************************************************)
(* Theorems about Kernal for any tree of nodes and any set of connections  *)
(* that may fail.  First its types, for any ids the generators give; then  *)
(* the routes: while the ids are proper, the tables never lead the wrong   *)
(* way, only nodes that are cut off are declared removed, and every notice *)
(* has a body to read from.  While no connection has been lost either, who *)
(* is told of an id can reach it.  Last, where proper ids come from: with  *)
(* one server buildId sees to it, whatever rand() returns.                 *)
(***************************************************************************)
EXTENDS Kernal, FiniteSetTheorems, SequenceTheorems, TLAPS

(* A finite set of numbers has an element of every rank.                   *)
LEMMA EveryRank ==
    ASSUME NEW S \in SUBSET Nat, IsFiniteSet(S)
    PROVE  /\ Cardinality(S) \in Nat
           /\ \A i \in 1..Cardinality(S) : \E k \in S : Cardinality({j \in S : j < k}) = i - 1
<1> DEFINE Less(k) == {j \in S : j < k}
           rank == [k \in S |-> Cardinality(Less(k))]
           n == Cardinality(S)
           T == 0..n - 1
<1>1. n \in Nat
  BY FS_CardinalityType
<1>2. ASSUME NEW k \in S
      PROVE  /\ IsFiniteSet(Less(k)) /\ Cardinality(Less(k)) \in Nat
             /\ Cardinality(Less(k)) <= n - 1
  <2>1. IsFiniteSet(S \ {k}) /\ Cardinality(S \ {k}) = n - 1
    BY FS_RemoveElement
  <2>2. Less(k) \in SUBSET (S \ {k})
    OBVIOUS
  <2> HIDE DEF Less, n
  <2>3. IsFiniteSet(Less(k)) /\ Cardinality(Less(k)) <= n - 1
    BY <2>1, <2>2, FS_Subset
  <2> QED BY <2>3, FS_CardinalityType
<1>3. ASSUME NEW j \in S, NEW k \in S, j < k PROVE Cardinality(Less(j)) < Cardinality(Less(k))
  <2>1. /\ IsFiniteSet(Less(j) \cup {j})
        /\ Cardinality(Less(j) \cup {j}) = Cardinality(Less(j)) + 1
    <3>1. j \notin Less(j)
      OBVIOUS
    <3> HIDE DEF Less
    <3> QED BY <1>2, <3>1, FS_AddElement
  <2>2. Less(j) \cup {j} \in SUBSET Less(k)
    <3>1. \A x \in S : x < j \/ x = j => x < k
      BY <1>3
    <3> QED BY <3>1
  <2> HIDE DEF Less, n
  <2>3. Cardinality(Less(j) \cup {j}) <= Cardinality(Less(k))
    BY <1>2, <2>2, FS_Subset
  <2> QED BY <1>2, <2>1, <2>3
<1>4. rank \in Injection(S, T)
  <2>1. rank \in [S -> T]
    <3> HIDE DEF Less, n
    <3> QED BY <1>1, <1>2
  <2>2. \A j, k \in S : rank[j] = rank[k] => j = k
    <3> SUFFICES ASSUME NEW j \in S, NEW k \in S, rank[j] = rank[k] PROVE j = k
      OBVIOUS
    <3>1. rank[j] = Cardinality(Less(j)) /\ rank[k] = Cardinality(Less(k))
      OBVIOUS
    <3> HIDE DEF Less, rank
    <3>2. Cardinality(Less(j)) = Cardinality(Less(k)) /\ Cardinality(Less(j)) \in Nat
      BY <1>2, <3>1
    <3>3. ~(j < k) /\ ~(k < j)
      BY <1>3, <3>2
    <3> QED BY <3>3
  <2> HIDE DEF rank, T
  <2> QED BY <2>1, <2>2 DEF Injection, IsInjective
<1>5. IsFiniteSet(T) /\ Cardinality(T) = n
  <2>1. n - 1 \in Int /\ 0 \in Int /\ (n = 0 \/ n >= 1)
    BY <1>1
  <2> HIDE DEF n
  <2> QED BY <1>1, <2>1, FS_Interval
<1>6. rank \in Surjection(S, T)
  <2> HIDE DEF rank, T
  <2> QED BY <1>4, <1>5, FS_Injection
<1>7. ASSUME NEW i \in 1..n PROVE \E k \in S : Cardinality(Less(k)) = i - 1
  <2>1. i - 1 \in T
    BY <1>1
  <2> HIDE DEF Less, T
  <2> QED BY <1>6, <2>1 DEF Surjection
<1> QED BY <1>1, <1>7

(* The maps of a node, and the iterator of std::map.                       *)
MapsTo(V) == UNION {[K -> V] : K \in {D \in SUBSET Nat : IsFiniteSet(D)}}

LEMMA MapIs ==
    ASSUME NEW V, NEW f
    PROVE  f \in MapsTo(V) <=> /\ f \in [DOMAIN f -> V]
                               /\ DOMAIN f \subseteq Nat /\ IsFiniteSet(DOMAIN f)
BY DEF MapsTo

LEMMA RestrictMap ==
    ASSUME NEW V, NEW f \in MapsTo(V), NEW D \in SUBSET (DOMAIN f)
    PROVE  Restrict(f, D) \in MapsTo(V)
<1>1. f \in [DOMAIN f -> V] /\ DOMAIN f \subseteq Nat /\ IsFiniteSet(DOMAIN f)
  BY MapIs
<1>2. IsFiniteSet(D) /\ D \subseteq Nat
  BY <1>1, FS_Subset
<1>3. Restrict(f, D) \in [D -> V]
  BY <1>1 DEF Restrict
<1> QED BY <1>2, <1>3 DEF MapsTo

LEMMA InsertMap ==
    ASSUME NEW V, NEW f \in MapsTo(V), NEW k \in Nat, NEW v \in V
    PROVE  Insert(f, k, v) \in MapsTo(V)
<1>1. f \in [DOMAIN f -> V] /\ DOMAIN f \subseteq Nat /\ IsFiniteSet(DOMAIN f)
  BY MapIs
<1>2. IsFiniteSet(DOMAIN f \cup {k}) /\ DOMAIN f \cup {k} \subseteq Nat
  BY <1>1, FS_AddElement
<1>3. CASE k \notin DOMAIN f
  <2>1. Insert(f, k, v) \in [DOMAIN f \cup {k} -> V]
    BY <1>1, <1>3 DEF Insert
  <2> QED BY <1>2, <2>1 DEF MapsTo
<1>4. CASE k \in DOMAIN f
  BY <1>4 DEF Insert
<1> QED BY <1>3, <1>4

LEMMA KeysTyped ==
    ASSUME NEW V, NEW f \in MapsTo(V)
    PROVE  Keys(f) \in Seq(Nat)
<1> DEFINE D == DOMAIN f
           n == Cardinality(D)
<1>1. D \in SUBSET Nat /\ IsFiniteSet(D)
  BY MapIs
<1>2. n \in Nat /\ \A i \in 1..n : \E k \in D : Cardinality({j \in D : j < k}) = i - 1
  <2> HIDE DEF D
  <2> QED BY <1>1, EveryRank
<1>3. Keys(f) = [i \in 1..n |-> CHOOSE k \in D : Cardinality({j \in D : j < k}) = i - 1]
  BY DEF Keys
<1>4. \A i \in 1..n : (CHOOSE k \in D : Cardinality({j \in D : j < k}) = i - 1) \in Nat
  BY <1>1, <1>2
<1>5. Keys(f) \in [1..n -> Nat]
  <2> HIDE DEF n, D
  <2> QED BY <1>3, <1>4
<1> HIDE DEF n
<1> QED BY <1>2, <1>5, SeqDef

(***************************************************************************)
(* The invariant: the types, and what they rest on.  The maps are finite,  *)
(* the accept handler works for a child of its node, the notice with which *)
(* a node learns its own id names it, and no client is given the id 1 that *)
(* marks that notice.                                                      *)
(***************************************************************************)
Good == {m \in Message : /\ m.kind = "new" /\ m.dest = 1 => m.body # <<>>
                         /\ m.kind = "user" => /\ m.body # <<>>
                                               /\ m.body[1] \in 1..MaxSubmit}

TablesTyped ==
    /\ myId \in [Nodes -> Nat] /\ serverId \in [Nodes -> Nat]
    /\ idsFromServer \in [Nodes -> Seq(Nat)]
    /\ serverConn \in [Nodes -> [myId : Nat, otherId : Nat]]
    /\ clientToDirectClient \in [Nodes -> MapsTo(Nat)]
    /\ announced \in [Nodes -> SUBSET Nat]
    /\ used \in [Nodes -> Seq(1..MaxSubmit)] /\ removed \in [Nodes -> Seq(Nat)]

Listing == [at : {"listing"}, client : Clients]
Inserting == [at : {"inserting"}, client : Clients, msg : Good]

AcceptTyped ==
    /\ drawn \in [Nodes -> Nat] /\ \A n \in Nodes : drawn[n] <= Len(Rand[n])
    /\ clientConn \in [Nodes -> [myId : Nat, otherId : Nat \ {1}]]
    /\ connected \in [Nodes -> {"none", "dialed", "up", "reset"}]
    /\ directClients \in [Nodes -> MapsTo(Clients)]
    /\ \A n \in Nodes : directClients[n] \in MapsTo(Children(n))
    /\ accepting \in [Nodes -> {NotAccepting} \cup Listing \cup Inserting]
    /\ \A n \in Nodes : accepting[n].at # "no" => accepting[n].client \in Children(n)

QueuesTyped ==
    /\ msgOut \in [Nodes -> Seq(Good)] /\ msgIn \in [Nodes -> Seq(Good)]
    /\ inHand \in [Nodes -> Seq(Good)]

WiresTyped ==
    /\ open \subseteq Links
    /\ link \in [Links -> Seq(Good)] /\ lastBody \in [Links -> Seq(Nat)]
    /\ \A l \in Links : link[l] # <<>> => <<l[2], l[1]>> \in open

RestTyped ==
    /\ clientsToRemove \in [Nodes -> Seq(Nat)]
    /\ notFound \subseteq Good
    /\ submitted \in Seq([from : Nodes, dest : Nat, settled : SUBSET Nodes])

KernalInv == TablesTyped /\ AcceptTyped /\ QueuesTyped /\ WiresTyped /\ RestTyped

LEMMA EmptyMap == ASSUME NEW V PROVE <<>> \in MapsTo(V)
<1>1. IsFiniteSet({}) /\ <<>> \in [{} -> V]
  BY FS_EmptySet
<1> QED BY <1>1 DEF MapsTo

LEMMA WiderMap ==
    ASSUME NEW V, NEW W, V \subseteq W, NEW f \in MapsTo(V)
    PROVE  f \in MapsTo(W)
<1>1. f \in [DOMAIN f -> V] /\ DOMAIN f \subseteq Nat /\ IsFiniteSet(DOMAIN f)
  BY MapIs
<1>2. f \in [DOMAIN f -> W]
  BY <1>1
<1> QED BY <1>1, <1>2, MapIs

LEMMA InitTyped == Init => KernalInv
<1> SUFFICES ASSUME Init PROVE KernalInv
  OBVIOUS
<1>1. TablesTyped
  BY EmptyMap DEF Init, TablesTyped, NoConn
<1>2. AcceptTyped
  BY EmptyMap, TreeAssumption DEF Init, AcceptTyped, NoConn, NotAccepting
<1>3. QueuesTyped /\ WiresTyped
  BY DEF Init, QueuesTyped, WiresTyped
<1>4. RestTyped
  BY DEF Init, RestTyped
<1> QED BY <1>1, <1>2, <1>3, <1>4 DEF KernalInv

LEMMA InvTypes == KernalInv => TypeOK
<1> SUFFICES ASSUME KernalInv PROVE TypeOK
  OBVIOUS
<1>1. Good \subseteq Message
  BY DEF Good
<1> HIDE DEF Good
<1>2. \A S \in {Good} : Seq(S) \subseteq Seq(Message)
  BY <1>1
<1>3. \A n \in Nodes : /\ IsMap(clientToDirectClient[n], Nat)
                       /\ IsMap(directClients[n], Children(n))
  BY MapIs DEF KernalInv, TablesTyped, AcceptTyped, IsMap
<1>4. \A n \in Nodes : drawn[n] \in 0..Len(Rand[n])
  BY TreeAssumption DEF KernalInv, AcceptTyped
<1>5. \A n \in Nodes : accepting[n].at \in {"no", "listing", "inserting"}
  BY DEF KernalInv, AcceptTyped, Listing, Inserting, NotAccepting
<1>6. /\ msgOut \in [Nodes -> Seq(Message)] /\ msgIn \in [Nodes -> Seq(Message)]
      /\ inHand \in [Nodes -> Seq(Message)] /\ link \in [Links -> Seq(Message)]
      /\ notFound \subseteq Message
  BY <1>1, <1>2 DEF KernalInv, QueuesTyped, WiresTyped, RestTyped
<1>7. clientConn \in [Nodes -> [myId : Nat, otherId : Nat]]
  BY DEF KernalInv, AcceptTyped
<1>8. /\ open \subseteq Links
      /\ \A l \in Links : link[l] # <<>> => <<l[2], l[1]>> \in open
      /\ lastBody \in [Links -> Seq(Nat)]
  BY DEF KernalInv, WiresTyped
<1>9. /\ connected \in [Nodes -> {"none", "dialed", "up", "reset"}]
      /\ clientsToRemove \in [Nodes -> Seq(Nat)]
  BY DEF KernalInv, AcceptTyped, RestTyped
<1> QED BY <1>3, <1>4, <1>5, <1>6, <1>7, <1>8, <1>9 DEF TypeOK, KernalInv, TablesTyped

(***************************************************************************)
(* Sending.                                                                *)
(***************************************************************************)
LEMMA StampedGood ==
    ASSUME KernalInv, NEW n \in Nodes, NEW k \in Nodes, NEW m \in Good
    PROVE  Stamped(n, k, m) \in Good
<1>1. Conn(n, k).myId \in Nat
  BY DEF Conn, KernalInv, TablesTyped, AcceptTyped
<1> QED BY <1>1 DEF Stamped, Good, Message

LEMMA LinkNodes == \A l \in Links : l[1] \in Nodes /\ l[2] \in Nodes
BY DEF Links

LEMMA SentTyped ==
    ASSUME KernalInv, NEW n \in Nodes, NEW m \in Good, NEW to
    PROVE  /\ Sent(n, m, to) \in [Links -> Seq(Good)]
           /\ \A l \in Links : Sent(n, m, to)[l] # <<>> => <<l[2], l[1]>> \in open
<1>1. \A l \in Links : l[1] = n => Stamped(n, l[2], m) \in Good
  BY StampedGood, LinkNodes
<1>2. link \in [Links -> Seq(Good)]
  BY DEF KernalInv, WiresTyped
<1>3. ASSUME NEW l \in Links, l[1] = n PROVE Append(link[l], Stamped(n, l[2], m)) \in Seq(Good)
  BY <1>1, <1>2, <1>3
<1>4. \A l \in Links : link[l] # <<>> => <<l[2], l[1]>> \in open
  BY DEF KernalInv, WiresTyped
<1>5. Sent(n, m, to) \in [Links -> Seq(Good)]
  BY <1>2, <1>3 DEF Sent
<1>6. \A l \in Links : Sent(n, m, to)[l] # <<>> => <<l[2], l[1]>> \in open
  BY <1>4 DEF Sent
<1> QED BY <1>5, <1>6

LEMMA UnsentTyped ==
    ASSUME KernalInv, NEW n \in Nodes, NEW m \in Good, NEW to
    PROVE  Unsent(n, m, to) \in Seq(Nat)
<1> DEFINE dead == {k \in to : ~Blocked(n, k, m) /\ <<n, k>> \notin open}
           direct == directClients[n]
           ids == {id \in DOMAIN direct : direct[id] \in dead}
<1>1. Restrict(direct, ids) \in MapsTo(Clients)
  <2>1. direct \in MapsTo(Clients)
    BY DEF KernalInv, AcceptTyped
  <2>2. ids \in SUBSET DOMAIN direct
    OBVIOUS
  <2> HIDE DEF direct, ids
  <2> QED BY <2>1, <2>2, RestrictMap
<1>2. Keys(Restrict(direct, ids)) \in Seq(Nat)
  <2> HIDE DEF direct, ids
  <2> QED BY <1>1, KeysTyped
<1>3. serverConn[n].otherId \in Nat
  BY DEF KernalInv, TablesTyped
<1>4. Unsent(n, m, to) =
         (IF ToServer(n) /\ Parent[n] \in dead THEN <<serverConn[n].otherId>> ELSE <<>>)
         \o Keys(Restrict(direct, ids))
  BY DEF Unsent
<1> HIDE DEF dead, direct, ids
<1> QED BY <1>2, <1>3, <1>4

LEMMA SendTyped ==
    ASSUME KernalInv, NEW n \in Nodes, NEW m \in Good, SendMessage(n, m)
    PROVE  /\ link' \in [Links -> Seq(Good)]
           /\ \A l \in Links : link'[l] # <<>> => <<l[2], l[1]>> \in open
           /\ clientsToRemove' \in [Nodes -> Seq(Nat)]
           /\ notFound' \subseteq Good
<1>1. \A to : /\ Unsent(n, m, to) \in Seq(Nat)
              /\ Sent(n, m, to) \in [Links -> Seq(Good)]
              /\ \A l \in Links : Sent(n, m, to)[l] # <<>> => <<l[2], l[1]>> \in open
  BY UnsentTyped, SentTyped
<1>2. clientsToRemove \in [Nodes -> Seq(Nat)] /\ notFound \subseteq Good
  BY DEF KernalInv, RestTyped
<1>3. clientsToRemove' \in [Nodes -> Seq(Nat)]
  BY <1>1, <1>2 DEF SendMessage
<1> QED BY <1>1, <1>2, <1>3 DEF SendMessage

(***************************************************************************)
(* Using a message.                                                        *)
(***************************************************************************)
LEMMA SetOfSeq ==
    ASSUME NEW S, NEW s \in Seq(S)
    PROVE  ToSet(s) \subseteq S /\ IsFiniteSet(ToSet(s))
<1>1. ToSet(s) \subseteq S
  BY DEF ToSet
<1>2. IsFiniteSet(1..Len(s))
  BY FS_Interval
<1>3. s \in Surjection(1..Len(s), ToSet(s))
  <2>1. s \in [1..Len(s) -> ToSet(s)]
    BY DEF ToSet
  <2>2. \A x \in ToSet(s) : \E i \in 1..Len(s) : s[i] = x
    BY DEF ToSet
  <2> QED BY <2>1, <2>2 DEF Surjection
<1> QED BY <1>1, <1>2, <1>3, FS_Surjection

LEMMA ReverseTyped ==
    ASSUME NEW S, NEW s \in Seq(S)
    PROVE  Reverse(s) \in Seq(S)
<1>1. \A i \in 1..Len(s) : s[(Len(s) - i) + 1] \in S
  OBVIOUS
<1>2. Reverse(s) \in [1..Len(s) -> S] /\ Len(s) \in Nat
  BY <1>1 DEF Reverse
<1> QED BY <1>2, SeqDef

LEMMA FromClientTyped ==
    ASSUME KernalInv, NEW n \in Nodes, NEW m \in Good, UseFromClient(n, m),
           UNCHANGED <<used, removed>>
    PROVE  TablesTyped'
<1> DEFINE old == clientToDirectClient[n]
           D == DOMAIN old \cup ToSet(m.body)
           new == [x \in D |-> IF x \in DOMAIN old THEN old[x] ELSE m.src]
<1>1. m.body \in Seq(Nat) /\ m.src \in Nat
  BY DEF Good, Message
<1>2. ToSet(m.body) \subseteq Nat /\ IsFiniteSet(ToSet(m.body))
  BY <1>1, SetOfSeq
<1>3. old \in [DOMAIN old -> Nat] /\ DOMAIN old \subseteq Nat /\ IsFiniteSet(DOMAIN old)
  <2>1. old \in MapsTo(Nat)
    BY DEF KernalInv, TablesTyped
  <2> HIDE DEF old
  <2> QED BY <2>1, MapIs
<1>4. new \in MapsTo(Nat)
  <2>1. D \in SUBSET Nat /\ IsFiniteSet(D)
    <3> HIDE DEF old
    <3> QED BY <1>2, <1>3, FS_Union
  <2>2. new \in [D -> Nat]
    <3> HIDE DEF old
    <3> QED BY <1>1, <1>3
  <2> HIDE DEF new, D
  <2> QED BY <2>1, <2>2 DEF MapsTo
<1>5. clientToDirectClient' = [clientToDirectClient EXCEPT ![n] = new]
  BY DEF UseFromClient
<1> HIDE DEF new, old
<1> QED BY <1>2, <1>4, <1>5 DEF UseFromClient, KernalInv, TablesTyped

LEMMA FromServerTyped ==
    ASSUME KernalInv, NEW n \in Nodes, NEW m \in Good, UseFromServer(n, m),
           UNCHANGED <<used, removed>>
    PROVE  TablesTyped'
<1>1. m.body \in Seq(Nat)
  BY DEF Good, Message
<1>2. ToSet(m.body) \subseteq Nat /\ Reverse(m.body) \in Seq(Nat)
  BY <1>1, SetOfSeq, ReverseTyped
<1> QED BY <1>2 DEF UseFromServer, KernalInv, TablesTyped

LEMMA OwnIdTyped ==
    ASSUME KernalInv, NEW n \in Nodes, NEW m \in Good, m.kind = "new", m.dest = 1,
           UseOwnId(n, m), UNCHANGED <<used, removed>>
    PROVE  TablesTyped'
<1>1. m.body \in Seq(Nat) /\ m.body # <<>> /\ m.src \in Nat
  BY DEF Good, Message
<1> DEFINE id == m.body[Len(m.body)]
<1>2. id \in Nat
  BY <1>1
<1>3. /\ myId' = [myId EXCEPT ![n] = id]
      /\ idsFromServer' = [idsFromServer EXCEPT ![n] = Append(@, m.src)]
      /\ serverConn' = [serverConn EXCEPT ![n] = [myId |-> id, otherId |-> m.src]]
      /\ serverId' = [serverId EXCEPT ![n] = m.src]
      /\ announced' = [announced EXCEPT ![n] = @ \cup {id}]
      /\ UNCHANGED clientToDirectClient
  BY DEF UseOwnId
<1> HIDE DEF id
<1>4. myId' \in [Nodes -> Nat] /\ serverId' \in [Nodes -> Nat]
  BY <1>1, <1>2, <1>3 DEF KernalInv, TablesTyped
<1>5. idsFromServer' \in [Nodes -> Seq(Nat)]
  BY <1>1, <1>3 DEF KernalInv, TablesTyped
<1>6. serverConn' \in [Nodes -> [myId : Nat, otherId : Nat]]
  BY <1>1, <1>2, <1>3 DEF KernalInv, TablesTyped
<1>7. announced' \in [Nodes -> SUBSET Nat]
  BY <1>2, <1>3 DEF KernalInv, TablesTyped
<1> QED BY <1>3, <1>4, <1>5, <1>6, <1>7 DEF KernalInv, TablesTyped

LEMMA UseTyped ==
    ASSUME KernalInv, NEW n \in Nodes, NEW m \in Good, UseMessage(n, m)
    PROVE  TablesTyped' /\ clientsToRemove' \in [Nodes -> Seq(Nat)]
<1>1. clientsToRemove \in [Nodes -> Seq(Nat)] /\ TablesTyped
  BY DEF KernalInv, RestTyped
<1>2. CASE UNCHANGED <<tables, clientsToRemove>>
  BY <1>1, <1>2 DEF tables, TablesTyped
<1>3. CASE /\ m.kind = "new"
           /\ \/ m.dest = 1 /\ UseOwnId(n, m)
              \/ m.dest # 1 /\ m.src = serverId[n] /\ UseFromServer(n, m)
              \/ m.dest # 1 /\ m.src # serverId[n] /\ UseFromClient(n, m)
           /\ UNCHANGED <<used, removed, clientsToRemove>>
  BY <1>1, <1>3, OwnIdTyped, FromServerTyped, FromClientTyped
<1>4. CASE /\ m.kind = "gone"
           /\ clientsToRemove' = [clientsToRemove EXCEPT ![n] = @ \o Reverse(m.body)]
           /\ removed' = [removed EXCEPT ![n] = @ \o Reverse(m.body)]
           /\ UNCHANGED <<Ids, used>>
  <2>1. Reverse(m.body) \in Seq(Nat)
    BY ReverseTyped DEF Good, Message
  <2> QED BY <1>1, <1>4, <2>1 DEF Ids, TablesTyped
<1>5. CASE /\ m.kind = "user"
           /\ used' = [used EXCEPT ![n] = Append(@, m.body[1])]
           /\ UNCHANGED <<Ids, removed, clientsToRemove>>
  <2>1. m.body[1] \in 1..MaxSubmit
    BY <1>5 DEF Good
  <2> QED BY <1>1, <1>5, <2>1 DEF Ids, TablesTyped
<1> QED BY <1>2, <1>3, <1>4, <1>5 DEF UseMessage

(***************************************************************************)
(* Starting, and the accept handler.                                       *)
(***************************************************************************)
LEMMA BuildIdTyped ==
    ASSUME KernalInv, NEW n \in Nodes, NEW id, BuildId(n, id)
    PROVE  /\ id \in Nat \ {0, 1}
           /\ drawn' \in [Nodes -> Nat] /\ \A k \in Nodes : drawn'[k] <= Len(Rand[k])
<1>1. drawn \in [Nodes -> Nat] /\ \A k \in Nodes : drawn[k] <= Len(Rand[k])
  BY DEF KernalInv, AcceptTyped
<1>2. Rand[n] \in Seq(Nat)
  BY TreeAssumption
<1>3. PICK k \in DOMAIN Rand[n] : /\ Fresh(n, Rand[n][k])
                                  /\ id = Rand[n][k]
                                  /\ drawn' = [drawn EXCEPT ![n] = k]
  BY DEF BuildId
<1>4. k \in Nat /\ k <= Len(Rand[n]) /\ id \in Nat
  BY <1>2, <1>3
<1>5. id \notin {0, 1}
  BY <1>3 DEF Fresh
<1> QED BY <1>1, <1>3, <1>4, <1>5

LEMMA StartRootTyped == KernalInv /\ StartRoot => KernalInv'
<1> SUFFICES ASSUME KernalInv, StartRoot PROVE KernalInv'
  OBVIOUS
<1>1. PICK id \in ToSet(Rand[Root]) : BuildId(Root, id) /\ myId' = [myId EXCEPT ![Root] = id]
  BY DEF StartRoot
<1>2. Root \in Nodes
  BY TreeAssumption
<1>3. /\ id \in Nat
      /\ drawn' \in [Nodes -> Nat] /\ \A k \in Nodes : drawn'[k] <= Len(Rand[k])
  BY <1>1, <1>2, BuildIdTyped
<1>4. TablesTyped'
  BY <1>1, <1>3 DEF StartRoot, KernalInv, TablesTyped
<1>5. AcceptTyped'
  BY <1>3 DEF StartRoot, KernalInv, AcceptTyped
<1>6. QueuesTyped' /\ WiresTyped' /\ RestTyped'
  BY DEF StartRoot, KernalInv, QueuesTyped, WiresTyped, RestTyped,
         queues, wires, sending, users
<1> QED BY <1>4, <1>5, <1>6 DEF KernalInv

LEMMA DialTyped == ASSUME KernalInv, NEW c \in Clients, Dial(c) PROVE KernalInv'
<1>1. c \in Nodes
  BY DEF Clients
<1>2. AcceptTyped'
  BY <1>1 DEF Dial, KernalInv, AcceptTyped
<1>3. TablesTyped' /\ QueuesTyped' /\ WiresTyped' /\ RestTyped'
  BY DEF Dial, KernalInv, TablesTyped, QueuesTyped, WiresTyped, RestTyped,
         tables, queues, wires, sending, users
<1> QED BY <1>2, <1>3 DEF KernalInv

\* if a node were its own server, the others would be all the tree
LEMMA NotOwnServer == \A c \in Clients : Parent[c] # c
<1> SUFFICES ASSUME NEW c \in Clients, Parent[c] = c PROVE FALSE
  OBVIOUS
<1>1. Root \in Nodes \ {c} /\ c \in Nodes
  BY TreeAssumption DEF Clients
<1>2. DownClosed(Nodes \ {c})
  BY DEF DownClosed
<1> QED BY <1>1, <1>2, TreeAssumption

LEMMA ChildLinks ==
    ASSUME NEW n \in Nodes, NEW c \in Children(n)
    PROVE  /\ c \in Clients /\ c \in Nodes /\ Parent[c] = n /\ c # n
           /\ <<n, c>> \in Links /\ <<c, n>> \in Links /\ <<n, c>> # <<c, n>>
BY NotOwnServer, TreeAssumption DEF Children, Clients, Links

LEMMA AcceptClientTyped ==
    ASSUME KernalInv, NEW n \in Nodes, NEW c \in Children(n), Accept(c)
    PROVE  KernalInv'
<1>1. /\ c \in Clients /\ c \in Nodes /\ Parent[c] = n
      /\ <<n, c>> \in Links /\ <<c, n>> \in Links
  BY ChildLinks
<1> DEFINE direct(id) == Added(n, 1, <<id>>)
<1>2. PICK id \in ToSet(Rand[n]) :
         /\ BuildId(n, id)
         /\ clientConn' = [clientConn EXCEPT ![c] = [myId |-> myId[n], otherId |-> id]]
         /\ msgOut' = [msgOut EXCEPT ![n] = Append(@, Added(n, 0, <<id>>))]
         /\ link' = [link EXCEPT ![<<n, c>>] =
                        IF id = direct(id).src THEN @ ELSE Append(@, direct(id))]
  BY <1>1 DEF Accept
<1>3. /\ id \in Nat \ {0, 1}
      /\ drawn' \in [Nodes -> Nat] /\ \A k \in Nodes : drawn'[k] <= Len(Rand[k])
  BY <1>2, BuildIdTyped
<1>4. myId[n] \in Nat
  BY DEF KernalInv, TablesTyped
<1>5. Added(n, 0, <<id>>) \in Good /\ direct(id) \in Good
  <2>1. <<id>> \in Seq(Nat) /\ <<id>> # <<>>
    BY <1>3
  <2>2. \A d \in {0, 1} : Added(n, d, <<id>>) \in Good
    BY <1>4, <2>1 DEF Added, Good, Message
  <2> QED BY <2>2
<1>6. /\ open' = open \cup {<<n, c>>, <<c, n>>}
      /\ accepting' = [accepting EXCEPT ![n] = [at |-> "listing", client |-> c]]
      /\ connected' = [connected EXCEPT ![c] = "up"]
      /\ UNCHANGED <<tables, directClients, msgIn, inHand, clientsToRemove,
                     notFound, lastBody, users>>
  BY <1>1 DEF Accept
<1>7. TablesTyped'
  BY <1>6 DEF KernalInv, TablesTyped, tables
<1>8. AcceptTyped'
  <2>1. clientConn' \in [Nodes -> [myId : Nat, otherId : Nat \ {1}]]
    BY <1>1, <1>2, <1>3, <1>4 DEF KernalInv, AcceptTyped
  <2>2. [at |-> "listing", client |-> c] \in Listing
    BY <1>1 DEF Listing
  <2>3. accepting' \in [Nodes -> {NotAccepting} \cup Listing \cup Inserting]
    BY <1>6, <2>2 DEF KernalInv, AcceptTyped
  <2>4. \A k \in Nodes : accepting'[k].at # "no" => accepting'[k].client \in Children(k)
    BY <1>6 DEF KernalInv, AcceptTyped
  <2> QED BY <1>1, <1>3, <1>6, <2>1, <2>3, <2>4 DEF KernalInv, AcceptTyped
<1>9. QueuesTyped'
  BY <1>2, <1>5, <1>6 DEF KernalInv, QueuesTyped
<1>10. WiresTyped'
  <2> HIDE DEF direct
  <2>1. /\ link \in [Links -> Seq(Good)] /\ lastBody \in [Links -> Seq(Nat)]
        /\ open \subseteq Links
        /\ \A l \in Links : link[l] # <<>> => <<l[2], l[1]>> \in open
    BY DEF KernalInv, WiresTyped
  <2>2. link' \in [Links -> Seq(Good)]
    BY <1>1, <1>2, <1>5, <2>1
  <2>3. \A l \in Links : l # <<n, c>> => link'[l] = link[l]
    BY <1>1, <1>2, <2>1
  <2>4. \A l \in Links : link'[l] # <<>> => <<l[2], l[1]>> \in open'
    BY <1>6, <2>1, <2>3
  <2> QED BY <1>1, <1>6, <2>1, <2>2, <2>4 DEF WiresTyped
<1>11. RestTyped'
  BY <1>6 DEF KernalInv, RestTyped, users
<1> QED BY <1>7, <1>8, <1>9, <1>10, <1>11 DEF KernalInv

LEMMA AcceptListTyped ==
    ASSUME KernalInv, NEW n \in Nodes, AcceptList(n)
    PROVE  KernalInv'
<1> DEFINE c == accepting[n].client
           list == idsFromServer[n] \o Keys(clientToDirectClient[n])
           now == [at |-> "inserting", client |-> c,
                   msg |-> Added(n, clientConn[c].otherId, list)]
<1>1. c \in Children(n) /\ c \in Clients /\ c \in Nodes
  <2>1. c \in Children(n)
    BY DEF AcceptList, KernalInv, AcceptTyped
  <2> HIDE DEF c
  <2> QED BY <2>1, ChildLinks
<1>2. list \in Seq(Nat)
  <2>1. clientToDirectClient[n] \in MapsTo(Nat) /\ idsFromServer[n] \in Seq(Nat)
    BY DEF KernalInv, TablesTyped
  <2>2. Keys(clientToDirectClient[n]) \in Seq(Nat)
    BY <2>1, KeysTyped
  <2> QED BY <2>1, <2>2
<1>3. clientConn[c].otherId \in Nat \ {1} /\ myId[n] \in Nat
  <2> HIDE DEF c
  <2> QED BY <1>1 DEF KernalInv, AcceptTyped, TablesTyped
<1>4. accepting' = [accepting EXCEPT ![n] = now]
  BY DEF AcceptList
<1> HIDE DEF c, list
<1>5. now \in Inserting
  BY <1>1, <1>2, <1>3 DEF Inserting, Added, Good, Message
<1>6. now.at # "no" /\ now.client = c
  OBVIOUS
<1> HIDE DEF now
<1>7. AcceptTyped'
  <2>1. accepting' \in [Nodes -> {NotAccepting} \cup Listing \cup Inserting]
    BY <1>4, <1>5 DEF KernalInv, AcceptTyped
  <2>2. \A k \in Nodes : accepting'[k].at # "no" => accepting'[k].client \in Children(k)
    BY <1>1, <1>4, <1>6 DEF KernalInv, AcceptTyped
  <2> QED BY <2>1, <2>2 DEF AcceptList, KernalInv, AcceptTyped
<1>8. TablesTyped' /\ QueuesTyped' /\ WiresTyped' /\ RestTyped'
  BY DEF AcceptList, KernalInv, TablesTyped, QueuesTyped, WiresTyped, RestTyped,
         tables, queues, wires, sending, users
<1> QED BY <1>7, <1>8 DEF KernalInv

LEMMA AcceptInsertTyped ==
    ASSUME KernalInv, NEW n \in Nodes, AcceptInsert(n)
    PROVE  KernalInv'
<1> DEFINE c == accepting[n].client
           id == clientConn[c].otherId
<1>1. c \in Children(n) /\ c \in Clients /\ c \in Nodes
  <2>1. c \in Children(n)
    BY DEF AcceptInsert, KernalInv, AcceptTyped
  <2> HIDE DEF c
  <2> QED BY <2>1, ChildLinks
<1>2. accepting[n].msg \in Good
  <2>1. accepting[n].at = "inserting"
    BY DEF AcceptInsert
  <2>2. accepting[n] \in {NotAccepting} \cup Listing \cup Inserting
    BY DEF KernalInv, AcceptTyped
  <2>3. accepting[n] \in Inserting
    BY <2>1, <2>2 DEF Listing, Inserting, NotAccepting
  <2> HIDE DEF c, id
  <2> QED BY <2>3 DEF Inserting
<1>3. id \in Nat
  <2> HIDE DEF c
  <2> QED BY <1>1 DEF KernalInv, AcceptTyped
<1>4. /\ directClients' = [directClients EXCEPT ![n] = Insert(@, id, c)]
      /\ clientToDirectClient' = [clientToDirectClient EXCEPT ![n] = Insert(@, id, id)]
      /\ msgOut' = [msgOut EXCEPT ![n] = Append(@, accepting[n].msg)]
      /\ accepting' = [accepting EXCEPT ![n] = NotAccepting]
      /\ UNCHANGED <<myId, serverId, idsFromServer, serverConn, announced, used,
                     removed, drawn, clientConn, connected, msgIn, inHand,
                     sending, wires, users>>
  BY DEF AcceptInsert
<1> HIDE DEF c, id
<1>5. /\ Insert(directClients[n], id, c) \in MapsTo(Children(n))
      /\ Insert(directClients[n], id, c) \in MapsTo(Clients)
      /\ Insert(clientToDirectClient[n], id, id) \in MapsTo(Nat)
  <2>1. /\ directClients[n] \in MapsTo(Children(n)) /\ directClients[n] \in MapsTo(Clients)
        /\ clientToDirectClient[n] \in MapsTo(Nat)
    BY DEF KernalInv, AcceptTyped, TablesTyped
  <2> QED BY <1>1, <1>3, <2>1, InsertMap
<1>6. TablesTyped'
  BY <1>4, <1>5 DEF KernalInv, TablesTyped
<1>7. AcceptTyped'
  <2>1. accepting' \in [Nodes -> {NotAccepting} \cup Listing \cup Inserting]
    BY <1>4 DEF KernalInv, AcceptTyped
  <2>2. \A k \in Nodes : accepting'[k].at # "no" => accepting'[k].client \in Children(k)
    BY <1>4 DEF KernalInv, AcceptTyped, NotAccepting
  <2>3. /\ directClients' \in [Nodes -> MapsTo(Clients)]
        /\ \A k \in Nodes : directClients'[k] \in MapsTo(Children(k))
    BY <1>4, <1>5 DEF KernalInv, AcceptTyped
  <2> QED BY <1>4, <2>1, <2>2, <2>3 DEF KernalInv, AcceptTyped
<1>8. QueuesTyped'
  BY <1>2, <1>4 DEF KernalInv, QueuesTyped
<1>9. WiresTyped' /\ RestTyped'
  BY <1>4 DEF KernalInv, WiresTyped, RestTyped, wires, sending, users
<1> QED BY <1>6, <1>7, <1>8, <1>9 DEF KernalInv

(***************************************************************************)
(* What arrives, and a socket that closes.                                 *)
(***************************************************************************)
LEMMA DeliverTyped ==
    ASSUME KernalInv, NEW l \in Links, Deliver(l)
    PROVE  KernalInv'
<1> DEFINE m == Head(link[l])
           body == IF m.body = <<>> THEN lastBody[l] ELSE m.body
<1>1. /\ link[l] \in Seq(Good) /\ link[l] # <<>> /\ lastBody[l] \in Seq(Nat)
      /\ l[1] \in Nodes /\ l[2] \in Nodes
  BY LinkNodes DEF Deliver, KernalInv, WiresTyped
<1>2. m \in Good /\ Tail(link[l]) \in Seq(Good)
  BY <1>1
<1>3. /\ msgIn' = [msgIn EXCEPT ![l[2]] = Append(@, [m EXCEPT !.body = body])]
      /\ lastBody' = [lastBody EXCEPT ![l] = body]
      /\ link' = [link EXCEPT ![l] = Tail(@)]
      /\ UNCHANGED <<tables, accepted, msgOut, inHand, clientsToRemove, notFound,
                     open, users>>
  BY DEF Deliver
<1> HIDE DEF m
<1>4. body \in Seq(Nat) /\ [m EXCEPT !.body = body] \in Good
  BY <1>1, <1>2 DEF Good, Message
<1> HIDE DEF body
<1>5. QueuesTyped'
  BY <1>1, <1>3, <1>4 DEF KernalInv, QueuesTyped
<1>6. WiresTyped'
  BY <1>1, <1>2, <1>3, <1>4 DEF KernalInv, WiresTyped
<1>7. TablesTyped' /\ AcceptTyped' /\ RestTyped'
  BY <1>3 DEF KernalInv, TablesTyped, AcceptTyped, RestTyped, tables, accepted, users
<1> QED BY <1>5, <1>6, <1>7 DEF KernalInv

LEMMA ClosesTyped ==
    ASSUME KernalInv, NEW n \in Nodes, NEW k \in Nodes, Closes(n, k)
    PROVE  KernalInv'
<1>1. /\ open \subseteq Links /\ link \in [Links -> Seq(Good)]
      /\ lastBody \in [Links -> Seq(Nat)]
      /\ \A l \in Links : link[l] # <<>> => <<l[2], l[1]>> \in open
  BY DEF KernalInv, WiresTyped
<1>2. /\ <<n, k>> \in Links /\ <<k, n>> \in Links /\ n # k
  <2>1. <<n, k>> \in Links
    BY <1>1 DEF Closes
  <2>2. k \in Children(n) \/ n \in Children(k)
    BY <2>1 DEF Links
  <2> QED BY <2>2, ChildLinks
<1>3. PICK i \in 0..Len(link[<<n, k>>]) :
         link' = [link EXCEPT ![<<k, n>>] = <<>>, ![<<n, k>>] = SubSeq(@, 1, i)]
  BY DEF Closes
<1>4. SubSeq(link[<<n, k>>], 1, i) \in Seq(Good)
  BY <1>1, <1>2, <1>3, SubSeqProperties
<1>5. /\ link' \in [Links -> Seq(Good)]
      /\ link'[<<k, n>>] = <<>>
      /\ link[<<n, k>>] = <<>> => link'[<<n, k>>] = <<>>
      /\ \A l \in Links \ {<<n, k>>, <<k, n>>} : link'[l] = link[l]
  <2>1. link[<<n, k>>] = <<>> => SubSeq(link[<<n, k>>], 1, i) = <<>>
    BY <1>3, SubSeqEmpty
  <2>2. link' = [link EXCEPT ![<<k, n>>] = <<>>,
                             ![<<n, k>>] = SubSeq(link[<<n, k>>], 1, i)]
    BY <1>1, <1>2, <1>3
  <2> DEFINE rest == SubSeq(link[<<n, k>>], 1, i)
  <2> HIDE DEF rest
  <2>3. /\ link'[<<n, k>>] = rest /\ link'[<<k, n>>] = <<>>
        /\ \A l \in Links \ {<<n, k>>, <<k, n>>} : link'[l] = link[l]
        /\ link' \in [Links -> Seq(Good)]
    <3>1. rest \in Seq(Good)
      BY <1>4 DEF rest
    <3>2. link' = [link EXCEPT ![<<k, n>>] = <<>>, ![<<n, k>>] = rest]
      BY <2>2 DEF rest
    <3>3. <<n, k>> # <<k, n>>
      BY <1>2
    <3> DEFINE a == <<n, k>>
               b == <<k, n>>
    <3>4. a \in Links /\ b \in Links /\ a # b /\ link' = [link EXCEPT ![b] = <<>>, ![a] = rest]
      BY <1>2, <3>2, <3>3
    <3> HIDE DEF a, b
    <3>5. /\ link'[a] = rest /\ link'[b] = <<>>
          /\ \A l \in Links \ {a, b} : link'[l] = link[l]
          /\ link' \in [Links -> Seq(Good)]
      <4> DEFINE mid == [link EXCEPT ![b] = <<>>]
      <4>1. /\ mid \in [Links -> Seq(Good)] /\ mid[b] = <<>>
            /\ \A l \in Links \ {b} : mid[l] = link[l]
        BY <1>1, <3>4
      <4>2. link' = [mid EXCEPT ![a] = rest]
        BY <3>4
      <4> HIDE DEF mid
      <4> QED BY <3>1, <3>4, <4>1, <4>2
    <3> QED BY <3>5 DEF a, b
  <2> QED BY <2>1, <2>3 DEF rest
<1>6. \A l \in Links : link'[l] # <<>> => link[l] # <<>> /\ l # <<k, n>>
  BY <1>5
<1>7. open' = open \ {<<n, k>>}
  BY DEF Closes
<1>8. WiresTyped'
  <2>1. ASSUME NEW l \in Links, link'[l] # <<>> PROVE <<l[2], l[1]>> \in open'
    BY <1>1, <1>6, <1>7, <2>1 DEF Links
  <2> QED BY <1>1, <1>5, <1>7, <2>1 DEF WiresTyped, Closes
<1>9. TablesTyped' /\ AcceptTyped' /\ QueuesTyped' /\ RestTyped'
  BY DEF Closes, KernalInv, TablesTyped, AcceptTyped, QueuesTyped, RestTyped,
         tables, accepted, queues, users
<1> QED BY <1>8, <1>9 DEF KernalInv

(***************************************************************************)
(* Out and In.                                                             *)
(***************************************************************************)
LEMMA HandleOutTyped ==
    ASSUME KernalInv, NEW n \in Nodes, HandleOut(n)
    PROVE  KernalInv'
<1> DEFINE m == Head(msgOut[n])
<1>1. msgOut[n] \in Seq(Good) /\ msgOut[n] # <<>>
  BY DEF HandleOut, KernalInv, QueuesTyped
<1>2. m \in Good /\ Tail(msgOut[n]) \in Seq(Good)
  BY <1>1
<1>3. SendMessage(n, m)
  BY DEF HandleOut
<1> HIDE DEF m
<1>4. /\ link' \in [Links -> Seq(Good)]
      /\ \A l \in Links : link'[l] # <<>> => <<l[2], l[1]>> \in open
      /\ clientsToRemove' \in [Nodes -> Seq(Nat)] /\ notFound' \subseteq Good
  BY <1>2, <1>3, SendTyped
<1>5. TablesTyped' /\ AcceptTyped'
  BY DEF HandleOut, KernalInv, TablesTyped, AcceptTyped, tables, accepted
<1>6. QueuesTyped'
  BY <1>2 DEF HandleOut, KernalInv, QueuesTyped
<1>7. WiresTyped' /\ RestTyped'
  BY <1>4 DEF HandleOut, KernalInv, WiresTyped, RestTyped, wires, users
<1> QED BY <1>5, <1>6, <1>7 DEF KernalInv

LEMMA ReciveTyped ==
    ASSUME KernalInv, NEW n \in Nodes, ReciveMessage(n)
    PROVE  KernalInv'
<1> DEFINE m == Head(msgIn[n])
<1>1. msgIn[n] \in Seq(Good) /\ msgIn[n] # <<>>
  BY DEF ReciveMessage, KernalInv, QueuesTyped
<1>2. m \in Good /\ Tail(msgIn[n]) \in Seq(Good)
  BY <1>1
<1>3. /\ msgIn' = [msgIn EXCEPT ![n] = Tail(@)]
      /\ \/ UseMessage(n, m) /\ UNCHANGED <<link, notFound>>
         \/ SendMessage(n, m) /\ UNCHANGED tables
      /\ inHand' = [inHand EXCEPT ![n] = <<m>>] \/ inHand' = inHand
      /\ UNCHANGED <<accepted, msgOut, wires, users>>
  BY DEF ReciveMessage
<1> HIDE DEF m
<1>4. TablesTyped' /\ clientsToRemove' \in [Nodes -> Seq(Nat)]
      /\ link' \in [Links -> Seq(Good)] /\ notFound' \subseteq Good
      /\ \A l \in Links : link'[l] # <<>> => <<l[2], l[1]>> \in open
  <2>1. CASE UseMessage(n, m) /\ UNCHANGED <<link, notFound>>
    BY <1>2, <2>1, UseTyped DEF KernalInv, WiresTyped, RestTyped
  <2>2. CASE SendMessage(n, m) /\ UNCHANGED tables
    <3>1. TablesTyped'
      BY <2>2 DEF KernalInv, TablesTyped, tables
    <3> QED BY <1>2, <2>2, <3>1, SendTyped
  <2> QED BY <1>3, <2>1, <2>2
<1>5. AcceptTyped'
  BY <1>3 DEF KernalInv, AcceptTyped, accepted
<1>6. QueuesTyped'
  <2>1. msgIn' \in [Nodes -> Seq(Good)] /\ msgOut' \in [Nodes -> Seq(Good)]
    BY <1>2, <1>3 DEF KernalInv, QueuesTyped
  <2>2. <<m>> \in Seq(Good) /\ inHand \in [Nodes -> Seq(Good)]
    BY <1>2 DEF KernalInv, QueuesTyped
  <2>3. inHand' \in [Nodes -> Seq(Good)]
    BY <1>3, <2>2
  <2> QED BY <2>1, <2>3 DEF QueuesTyped
<1>7. WiresTyped' /\ RestTyped'
  BY <1>3, <1>4 DEF KernalInv, WiresTyped, RestTyped, wires, users
<1> QED BY <1>4, <1>5, <1>6, <1>7 DEF KernalInv

LEMMA UseForwardedTyped ==
    ASSUME KernalInv, NEW n \in Nodes, UseForwarded(n)
    PROVE  KernalInv'
<1>1. inHand[n][1] \in Good
  BY DEF UseForwarded, KernalInv, QueuesTyped
<1>2. TablesTyped' /\ clientsToRemove' \in [Nodes -> Seq(Nat)]
  BY <1>1, UseTyped DEF UseForwarded
<1>3. QueuesTyped'
  BY DEF UseForwarded, KernalInv, QueuesTyped
<1>4. AcceptTyped' /\ WiresTyped'
  BY DEF UseForwarded, KernalInv, AcceptTyped, WiresTyped, accepted, wires
<1>5. RestTyped'
  BY <1>2 DEF UseForwarded, KernalInv, RestTyped, users
<1> QED BY <1>2, <1>3, <1>4, <1>5 DEF KernalInv

(***************************************************************************)
(* Rem.                                                                    *)
(***************************************************************************)
Kept == UNCHANGED <<myId, serverId, serverConn, announced, used, removed, drawn,
                    clientConn, accepting, queues, notFound, lastBody, submitted>>

\* what is left to show of a step of Rem
RemTyped ==
    /\ idsFromServer' \in [Nodes -> Seq(Nat)]
    /\ clientToDirectClient' \in [Nodes -> MapsTo(Nat)]
    /\ connected' \in [Nodes -> {"none", "dialed", "up", "reset"}]
    /\ directClients' \in [Nodes -> MapsTo(Clients)]
    /\ \A n \in Nodes : directClients'[n] \in MapsTo(Children(n))
    /\ open' \subseteq Links
    /\ link' \in [Links -> Seq(Good)]
    /\ \A l \in Links : link'[l] # <<>> => <<l[2], l[1]>> \in open'
    /\ clientsToRemove' \in [Nodes -> Seq(Nat)]

LEMMA RemTypedSuffices ==
    ASSUME KernalInv, RemTyped, Kept
    PROVE  KernalInv'
<1>1. TablesTyped'
  BY DEF RemTyped, Kept, KernalInv, TablesTyped
<1>2. AcceptTyped'
  BY DEF RemTyped, Kept, KernalInv, AcceptTyped
<1>3. QueuesTyped' /\ WiresTyped' /\ RestTyped'
  BY DEF RemTyped, Kept, KernalInv, QueuesTyped, WiresTyped, RestTyped, queues
<1> QED BY <1>1, <1>2, <1>3 DEF KernalInv

LEMMA PopTyped ==
    ASSUME KernalInv, NEW n \in Nodes, clientsToRemove[n] # <<>>
    PROVE  /\ Head(clientsToRemove[n]) \in Nat /\ Tail(clientsToRemove[n]) \in Seq(Nat)
           /\ clientsToRemove \in [Nodes -> Seq(Nat)]
BY DEF KernalInv, RestTyped

LEMMA RemoveSelfTyped ==
    ASSUME KernalInv, NEW n \in Nodes, RemoveSelf(n), clientsToRemove[n] # <<>>,
           clientsToRemove' = [clientsToRemove EXCEPT ![n] = Tail(@)]
    PROVE  RemTyped
<1>1. clientsToRemove' \in [Nodes -> Seq(Nat)]
  BY PopTyped
<1>2. /\ \A k \in Nodes : <<>> \in MapsTo(Children(k))
      /\ <<>> \in MapsTo(Nat) /\ <<>> \in MapsTo(Clients)
  BY EmptyMap
<1>3. /\ connected' \in [Nodes -> {"none", "dialed", "up", "reset"}]
      /\ idsFromServer' \in [Nodes -> Seq(Nat)]
      /\ clientToDirectClient' \in [Nodes -> MapsTo(Nat)]
  BY <1>2 DEF RemoveSelf, KernalInv, TablesTyped, AcceptTyped
<1>4. /\ directClients' \in [Nodes -> MapsTo(Clients)]
      /\ \A k \in Nodes : directClients'[k] \in MapsTo(Children(k))
  BY <1>2 DEF RemoveSelf, KernalInv, AcceptTyped
<1>5. /\ open \subseteq Links /\ link \in [Links -> Seq(Good)]
      /\ \A l \in Links : link[l] # <<>> => <<l[2], l[1]>> \in open
  BY DEF KernalInv, WiresTyped
<1>6. /\ open' = {l \in open : l[1] # n}
      /\ link' = [l \in Links |-> IF l[2] = n THEN <<>> ELSE link[l]]
  BY DEF RemoveSelf
<1>7. open' \subseteq Links /\ link' \in [Links -> Seq(Good)]
  BY <1>5, <1>6
<1>8. ASSUME NEW l \in Links, link'[l] # <<>> PROVE <<l[2], l[1]>> \in open'
  <2>1. l[2] # n /\ link[l] # <<>>
    BY <1>6, <1>8
  <2>2. <<l[2], l[1]>> \in open /\ <<l[2], l[1]>>[1] = l[2]
    BY <1>5, <2>1
  <2> QED BY <1>6, <2>1, <2>2
<1> QED BY <1>1, <1>3, <1>4, <1>7, <1>8 DEF RemTyped

LEMMA RemoveDirectTyped ==
    ASSUME KernalInv, NEW n \in Nodes, clientsToRemove[n] # <<>>, NEW id,
           id \in Nat, id \in DOMAIN directClients[n], RemoveDirect(n, id)
    PROVE  RemTyped
<1> DEFINE c == directClients[n][id]
           direct == clientToDirectClient[n]
           behind == {x \in DOMAIN direct : direct[x] = id}
           msg == Closed(n, <<id>> \o Keys(Restrict(direct, behind)))
           to == Route(n, msg) \ {c}
<1>1. direct \in MapsTo(Nat) /\ directClients[n] \in MapsTo(Children(n))
  BY DEF KernalInv, TablesTyped, AcceptTyped
<1>2. c \in Children(n) /\ <<c, n>> \in Links /\ <<n, c>> \in Links
  <2>1. c \in Children(n)
    <3> DEFINE f == directClients[n]
    <3>1. f \in [DOMAIN f -> Children(n)]
      BY <1>1, MapIs
    <3> QED BY <3>1
  <2> HIDE DEF c
  <2> QED BY <2>1, ChildLinks
<1>3. msg \in Good
  <2>1. behind \in SUBSET DOMAIN direct
    OBVIOUS
  <2> HIDE DEF behind, direct
  <2>2. Keys(Restrict(direct, behind)) \in Seq(Nat)
    BY <1>1, <2>1, RestrictMap, KeysTyped
  <2>3. <<id>> \o Keys(Restrict(direct, behind)) \in Seq(Nat)
    BY <2>2
  <2>4. myId[n] \in Nat
    BY DEF KernalInv, TablesTyped
  <2> QED BY <2>3, <2>4 DEF Closed, Good, Message
<1>4. /\ clientToDirectClient' = [clientToDirectClient EXCEPT ![n] =
              Restrict(direct, DOMAIN direct \ behind)]
      /\ directClients' = [directClients EXCEPT ![n] =
              Restrict(directClients[n], DOMAIN directClients[n] \ {id})]
      /\ open' = open \ {<<n, c>>}
      /\ link' = [Sent(n, msg, to) EXCEPT ![<<c, n>>] = <<>>]
      /\ clientsToRemove' = [clientsToRemove EXCEPT ![n] = Tail(@) \o Unsent(n, msg, to)]
      /\ UNCHANGED <<connected, idsFromServer>>
  BY DEF RemoveDirect
<1>5. Restrict(direct, DOMAIN direct \ behind) \in MapsTo(Nat)
  <2> HIDE DEF behind, direct
  <2> QED BY <1>1, RestrictMap
<1>6. /\ Restrict(directClients[n], DOMAIN directClients[n] \ {id}) \in MapsTo(Children(n))
      /\ Restrict(directClients[n], DOMAIN directClients[n] \ {id}) \in MapsTo(Clients)
  <2>1. Children(n) \subseteq Clients
    BY DEF Children
  <2> QED BY <1>1, <2>1, RestrictMap, WiderMap
<1> HIDE DEF c, direct, behind, msg, to
<1>7. /\ idsFromServer' \in [Nodes -> Seq(Nat)]
      /\ clientToDirectClient' \in [Nodes -> MapsTo(Nat)]
      /\ connected' \in [Nodes -> {"none", "dialed", "up", "reset"}]
  BY <1>4, <1>5 DEF KernalInv, TablesTyped, AcceptTyped
<1>8. /\ directClients' \in [Nodes -> MapsTo(Clients)]
      /\ \A k \in Nodes : directClients'[k] \in MapsTo(Children(k))
  BY <1>4, <1>6 DEF KernalInv, AcceptTyped
<1>9. /\ Sent(n, msg, to) \in [Links -> Seq(Good)]
      /\ \A l \in Links : Sent(n, msg, to)[l] # <<>> => <<l[2], l[1]>> \in open
      /\ open \subseteq Links
  BY <1>3, SentTyped DEF KernalInv, WiresTyped
<1>10. link' \in [Links -> Seq(Good)] /\ open' \subseteq Links
  <2>1. link' = [Sent(n, msg, to) EXCEPT ![<<c, n>>] = <<>>] /\ open' = open \ {<<n, c>>}
    BY <1>4
  <2>2. <<>> \in Seq(Good)
    OBVIOUS
  <2> HIDE DEF Good
  <2> QED BY <1>9, <2>1, <2>2
<1>11. ASSUME NEW l \in Links, link'[l] # <<>> PROVE <<l[2], l[1]>> \in open'
  <2>1. l # <<c, n>> /\ Sent(n, msg, to)[l] # <<>>
    BY <1>2, <1>4, <1>9, <1>11
  <2>2. <<l[2], l[1]>> \in open /\ <<l[2], l[1]>> # <<n, c>>
    BY <1>9, <2>1 DEF Links
  <2> QED BY <1>4, <2>2
<1>12. clientsToRemove' \in [Nodes -> Seq(Nat)]
  <2>1. Unsent(n, msg, to) \in Seq(Nat)
    BY <1>3, UnsentTyped
  <2>2. Tail(clientsToRemove[n]) \o Unsent(n, msg, to) \in Seq(Nat)
    BY <2>1, PopTyped
  <2> QED BY <1>4, <2>2, PopTyped
<1> QED BY <1>7, <1>8, <1>10, <1>11, <1>12 DEF RemTyped

LEMMA RemoveOtherTyped ==
    ASSUME KernalInv, NEW n \in Nodes, NEW id, RemoveOther(n, id),
           clientsToRemove[n] # <<>>,
           clientsToRemove' = [clientsToRemove EXCEPT ![n] = Tail(@)]
    PROVE  RemTyped
<1>1. clientsToRemove' \in [Nodes -> Seq(Nat)]
  BY PopTyped
<1>2. /\ idsFromServer \in [Nodes -> Seq(Nat)]
      /\ clientToDirectClient \in [Nodes -> MapsTo(Nat)]
  BY DEF KernalInv, TablesTyped
<1>3. /\ idsFromServer' \in [Nodes -> Seq(Nat)]
      /\ clientToDirectClient' \in [Nodes -> MapsTo(Nat)]
  <2>1. CASE id \in ToSet(idsFromServer[n])
    <3>1. PICK i \in DOMAIN idsFromServer[n] :
             idsFromServer' = [idsFromServer EXCEPT ![n] = RemoveAt(@, i)]
      BY <2>1 DEF RemoveOther
    <3>2. RemoveAt(idsFromServer[n], i) \in Seq(Nat)
      <4> DEFINE s == idsFromServer[n]
      <4>1. s \in Seq(Nat) /\ i \in 1..Len(s)
        BY <1>2
      <4> HIDE DEF s
      <4>2. SubSeq(s, 1, i - 1) \in Seq(Nat) /\ SubSeq(s, i + 1, Len(s)) \in Seq(Nat)
        BY <4>1, SubSeqProperties
      <4>3. RemoveAt(s, i) \in Seq(Nat)
        BY <4>2 DEF RemoveAt
      <4> QED BY <4>3 DEF s
    <3> QED BY <1>2, <2>1, <3>1, <3>2 DEF RemoveOther
  <2>2. CASE id \notin ToSet(idsFromServer[n])
    <3>1. Restrict(clientToDirectClient[n], DOMAIN clientToDirectClient[n] \ {id})
             \in MapsTo(Nat)
      BY <1>2, RestrictMap
    <3> QED BY <1>2, <2>2, <3>1 DEF RemoveOther
  <2> QED BY <2>1, <2>2
<1> QED BY <1>1, <1>3 DEF RemTyped, RemoveOther, KernalInv, AcceptTyped, WiresTyped

LEMMA HandleRemoveTyped ==
    ASSUME KernalInv, NEW n \in Nodes, HandleRemoveClients(n)
    PROVE  KernalInv'
<1> DEFINE id == Head(clientsToRemove[n])
<1>1. clientsToRemove[n] # <<>> /\ id \in Nat
  BY PopTyped DEF HandleRemoveClients
<1>2. \/ /\ RemoveSelf(n) \/ RemoveOther(n, id)
         /\ clientsToRemove' = [clientsToRemove EXCEPT ![n] = Tail(@)]
      \/ id \in DOMAIN directClients[n] /\ RemoveDirect(n, id)
  BY DEF HandleRemoveClients
<1>3. Kept
  BY DEF HandleRemoveClients, Kept
<1> HIDE DEF id
<1>4. RemTyped
  BY <1>1, <1>2, RemoveSelfTyped, RemoveOtherTyped, RemoveDirectTyped
<1> QED BY <1>3, <1>4, RemTypedSuffices

(***************************************************************************)
(* The user.                                                               *)
(***************************************************************************)
LEMMA SubmitTyped ==
    ASSUME KernalInv, NEW n \in Nodes, Submit(n)
    PROVE  KernalInv'
<1> DEFINE tag == Len(submitted) + 1
           src == IF n = Root THEN 0 ELSE myId[n]
           joined == {k \in Nodes : Settled(k)}
<1>1. PICK dest \in {0} \cup (announced[n] \ {myId[n]}) :
         /\ msgOut' = [msgOut EXCEPT ![n] = Append(@,
                [dest |-> dest, src |-> src, kind |-> "user", body |-> <<tag>>])]
         /\ submitted' = Append(submitted,
                [from |-> n, dest |-> dest, settled |-> joined])
  BY DEF Submit
<1>2. dest \in Nat /\ src \in Nat
  BY <1>1 DEF KernalInv, TablesTyped
<1>3. tag \in 1..MaxSubmit /\ <<tag>> # <<>> /\ <<tag>> \in Seq(Nat) /\ <<tag>>[1] = tag
  BY TreeAssumption DEF Submit, KernalInv, RestTyped
<1>4. joined \in SUBSET Nodes
  OBVIOUS
<1> HIDE DEF tag, src, joined
<1>5. [dest |-> dest, src |-> src, kind |-> "user", body |-> <<tag>>] \in Good
  BY <1>2, <1>3 DEF Good, Message
<1>6. QueuesTyped'
  BY <1>1, <1>5 DEF Submit, KernalInv, QueuesTyped
<1>7. RestTyped'
  BY <1>1, <1>2, <1>4 DEF Submit, KernalInv, RestTyped, sending
<1>8. TablesTyped' /\ AcceptTyped' /\ WiresTyped'
  BY DEF Submit, KernalInv, TablesTyped, AcceptTyped, WiresTyped,
         tables, accepted, sending, wires
<1> QED BY <1>6, <1>7, <1>8 DEF KernalInv

LEMMA StutterTyped == KernalInv /\ UNCHANGED vars => KernalInv'
BY DEF KernalInv, TablesTyped, AcceptTyped, QueuesTyped, WiresTyped, RestTyped,
       vars, tables, accepted, queues, sending, wires, users

LEMMA NextTyped == KernalInv /\ [Next]_vars => KernalInv'
<1> SUFFICES ASSUME KernalInv, Next PROVE KernalInv'
  BY StutterTyped
<1>1. CASE Joining
  BY <1>1, StartRootTyped, DialTyped DEF Joining
<1>2. ASSUME NEW n \in Nodes, Context(n) PROVE KernalInv'
  <2>1. ASSUME NEW c \in Children(n), Accept(c) PROVE KernalInv'
    BY <2>1, AcceptClientTyped
  <2>2. ASSUME NEW l \in Links, l[2] = n, NoticesPeer(n, l[1]) PROVE KernalInv'
    BY <2>2, LinkNodes, ClosesTyped DEF NoticesPeer
  <2> QED BY <1>2, <2>1, <2>2, AcceptListTyped, AcceptInsertTyped, DeliverTyped DEF Context
<1>3. ASSUME NEW n \in Nodes, In(n) PROVE KernalInv'
  BY <1>3, ReciveTyped, UseForwardedTyped DEF In
<1>4. CASE Working
  BY <1>1, <1>2, <1>3, <1>4, HandleOutTyped, HandleRemoveTyped DEF Working
<1>5. ASSUME NEW n \in Users, Submit(n) PROVE KernalInv'
  BY <1>5, SubmitTyped, TreeAssumption
<1>6. ASSUME NEW n \in Nodes, NEW k \in Nodes, Fails(n, k) PROVE KernalInv'
  BY <1>6, ClosesTyped DEF Fails
<1> QED BY <1>4, <1>5, <1>6 DEF Next

(***************************************************************************)
(* The variables keep their types in every tree, whatever sockets fail: no *)
(* map gets a value that is not a child's connection, the body from which  *)
(* a node takes its own id is never empty, and nothing is on its way to a  *)
(* socket that is closed.                                                  *)
(***************************************************************************)
THEOREM KernalTypes == Spec => []TypeOK
<1>1. Spec => []KernalInv
  BY InitTyped, NextTyped, PTL DEF Spec
<1> QED BY <1>1, InvTypes, PTL

(***************************************************************************)
(* The tree: what is below a node.                                         *)
(***************************************************************************)
LEMMA WithinIs ==
    ASSUME NEW n \in Nodes
    PROVE  /\ Within[n] \subseteq Nodes /\ n \in Within[n]
           /\ \A c \in Clients : Parent[c] \in Within[n] => c \in Within[n]
           /\ \A S \in SUBSET Nodes : n \in S /\ DownClosed(S) => Within[n] \subseteq S
<1>1. Within[n] = {k \in Nodes : \A S \in SUBSET Nodes : n \in S /\ DownClosed(S) => k \in S}
  BY DEF Within
<1>2. Clients = Nodes \ {Root}
  BY DEF Clients
<1>3. ASSUME NEW c \in Clients, Parent[c] \in Within[n] PROVE c \in Within[n]
  BY <1>1, <1>2, <1>3 DEF DownClosed
<1>4. Within[n] \subseteq Nodes /\ n \in Within[n]
  BY <1>1
<1>5. ASSUME NEW S \in SUBSET Nodes, n \in S, DownClosed(S) PROVE Within[n] \subseteq S
  BY <1>1, <1>5
<1> QED BY <1>3, <1>4, <1>5

\* a node below n is n or has its server below n
LEMMA WithinLast ==
    ASSUME NEW n \in Nodes, NEW k \in Within[n]
    PROVE  k = n \/ (k \in Clients /\ Parent[k] \in Within[n])
<1> DEFINE S == {j \in Within[n] : j = n \/ (j \in Clients /\ Parent[j] \in Within[n])}
<1>1. S \in SUBSET Nodes /\ n \in S
  BY WithinIs
<1>2. DownClosed(S)
  BY WithinIs DEF DownClosed, Clients
<1>3. Within[n] \subseteq S
  <2> HIDE DEF S
  <2> QED BY <1>1, <1>2, WithinIs
<1> QED BY <1>3

LEMMA WithinServer ==
    ASSUME NEW n \in Clients
    PROVE  n \in Nodes /\ Root \notin Within[n] /\ Parent[n] \in Nodes /\ Parent[n] \notin Within[n]
<1>1. n \in Nodes /\ n # Root /\ Parent[n] \in Nodes
  BY TreeAssumption DEF Clients
<1>2. Root \notin Within[n]
  BY <1>1, WithinLast DEF Clients
<1>3. ASSUME Parent[n] \in Within[n] PROVE FALSE
  <2> DEFINE S == Nodes \ Within[n]
  <2>1. Root \in S
    BY <1>2, TreeAssumption
  <2>2. DownClosed(S)
    <3> SUFFICES ASSUME NEW c \in Clients, Parent[c] \notin Within[n], c \in Within[n] PROVE FALSE
      BY DEF DownClosed, Clients
    <3> QED BY <1>1, <1>3, WithinLast
  <2>3. S = Nodes
    <3>1. S \in SUBSET Nodes
      OBVIOUS
    <3> HIDE DEF S
    <3> QED BY <2>1, <2>2, <3>1, TreeAssumption
  <2>4. n \in Within[n]
    BY <1>1, WithinIs
  <2> QED BY <1>1, <2>3, <2>4
<1> QED BY <1>1, <1>2, <1>3

LEMMA WithinBelow ==
    ASSUME NEW n \in Nodes, NEW k \in Within[n]
    PROVE  k \in Nodes /\ Within[k] \subseteq Within[n]
<1>1. k \in Nodes /\ Within[n] \in SUBSET Nodes
  BY WithinIs
<1>2. DownClosed(Within[n])
  BY WithinIs DEF DownClosed, Clients
<1> QED BY <1>1, <1>2, WithinIs

LEMMA ChildWithin ==
    ASSUME NEW n \in Nodes, NEW c \in Children(n)
    PROVE  c \in Within[n] /\ Within[c] \subseteq Within[n]
<1>1. c \in Clients /\ Parent[c] = n
  BY ChildLinks
<1>2. c \in Within[n]
  BY <1>1, WithinIs
<1> QED BY <1>2, WithinBelow

LEMMA WithinSiblings ==
    ASSUME NEW n \in Nodes, NEW c \in Children(n), NEW d \in Children(n), c # d
    PROVE  Within[c] \cap Within[d] = {}
<1>1. /\ c \in Clients /\ c \in Nodes /\ Parent[c] = n
      /\ d \in Clients /\ d \in Nodes /\ Parent[d] = n
  BY ChildLinks
<1>2. n \notin Within[c] /\ n \notin Within[d]
  BY <1>1, WithinServer
<1> DEFINE S == Within[c] \ Within[d]
<1>3. S \in SUBSET Nodes /\ c \in S
  BY <1>1, <1>2, WithinIs, WithinLast
<1>4. DownClosed(S)
  <2> SUFFICES ASSUME NEW x \in Clients, Parent[x] \in Within[c], Parent[x] \notin Within[d]
               PROVE  x \in Within[c] /\ x \notin Within[d]
    BY DEF DownClosed, Clients
  <2>1. x \in Within[c]
    BY <1>1, WithinIs
  <2>2. ASSUME x \in Within[d] PROVE FALSE
    BY <1>1, <1>2, <2>2, WithinLast
  <2> QED BY <2>1, <2>2
<1>5. Within[c] \subseteq S
  <2> HIDE DEF S
  <2> QED BY <1>1, <1>3, <1>4, WithinIs
<1> QED BY <1>5

(***************************************************************************)
(* What a node may hear from a neighbour.  Side(a, b) is where a node can  *)
(* be that b hears of through a: below a, or anywhere but below b.         *)
(***************************************************************************)
Behind(n) == (Nodes \ Within[n]) \cup {n}
Side(a, b) == IF a \in Children(b) THEN Within[a] ELSE Behind(b)
Neighbours(n) == {k \in Nodes : <<n, k>> \in Links}

LEMMA NeighbourIs ==
    ASSUME NEW n \in Nodes, NEW k \in Neighbours(n)
    PROVE  /\ k \in Nodes /\ k # n /\ n \in Neighbours(k)
           /\ <<n, k>> \in Links /\ <<k, n>> \in Links
           /\ \/ k \in Children(n) /\ n \notin Children(k) /\ n \notin Within[k]
              \/ n \in Children(k) /\ k \notin Children(n) /\ k = Parent[n]
<1>1. k \in Nodes /\ <<n, k>> \in Links /\ (k \in Children(n) \/ n \in Children(k))
  BY DEF Neighbours, Links
<1>2. CASE k \in Children(n)
  <2>1. n \notin Within[k] /\ k # n /\ <<k, n>> \in Links
    BY <1>1, <1>2, ChildLinks, WithinServer
  <2>2. n \notin Children(k)
    BY <1>1, <2>1, WithinIs DEF Children
  <2> QED BY <1>1, <1>2, <2>1, <2>2 DEF Neighbours
<1>3. CASE n \in Children(k)
  <2>1. k = Parent[n] /\ k \notin Within[n] /\ k # n /\ <<k, n>> \in Links /\ n \in Clients
    BY <1>1, <1>3, ChildLinks, WithinServer
  <2>2. k \notin Children(n)
    BY <1>1, <2>1, WithinIs DEF Children
  <2> QED BY <1>1, <1>3, <2>1, <2>2 DEF Neighbours
<1> QED BY <1>1, <1>2, <1>3

\* what n hears from a it may tell every other neighbour
LEMMA SideOn ==
    ASSUME NEW n \in Nodes, NEW a \in Neighbours(n), NEW k \in Neighbours(n), a # k
    PROVE  /\ Side(a, n) \subseteq Side(n, k)
           /\ Side(a, n) \ {n} \subseteq Side(n, k) \ {k}
<1>1. Within[n] \subseteq Nodes /\ n \in Within[n] /\ a \in Nodes /\ k \in Nodes
  BY NeighbourIs, WithinIs
<1>2. CASE a \in Children(n)
  <2>1. Within[a] \subseteq Within[n] /\ a \in Clients
    BY <1>2, ChildWithin, ChildLinks
  <2>2. CASE k \in Children(n)
    <3>1. Within[a] \cap Within[k] = {} /\ k \in Within[k]
      BY <1>2, <2>2, NeighbourIs, WithinSiblings, WithinIs
    <3> QED BY <1>1, <1>2, <2>1, <2>2, <3>1, NeighbourIs DEF Side, Behind
  <2>3. CASE n \in Children(k)
    <3>1. k \notin Within[n]
      BY <2>3, NeighbourIs
    <3> QED BY <1>1, <1>2, <2>1, <2>3, <3>1 DEF Side
  <2> QED BY <2>2, <2>3, NeighbourIs
<1>3. CASE a \notin Children(n)
  <2>1. a = Parent[n]
    BY <1>3, NeighbourIs
  <2>2. k \in Children(n) /\ n \notin Within[k]
    BY <1>3, <2>1, NeighbourIs
  <2>3. Within[k] \subseteq Within[n] /\ k \in Within[n]
    BY <2>2, ChildWithin
  <2>4. n \notin Children(k) /\ k # n
    BY <2>2, NeighbourIs
  <2>5. Side(a, n) = Behind(n) /\ Side(n, k) = Behind(k)
    BY <1>3, <2>4 DEF Side
  <2>6. Behind(n) \subseteq Behind(k) /\ Behind(n) \ {n} \subseteq Behind(k) \ {k}
    BY <1>1, <2>2, <2>3, <2>4 DEF Behind
  <2> QED BY <2>5, <2>6
<1> QED BY <1>2, <1>3

\* of itself and of its clients a node may tell everybody
LEMMA SideOwn ==
    ASSUME NEW n \in Nodes, NEW k \in Neighbours(n)
    PROVE  /\ n \in Side(n, k)
           /\ \A c \in Children(n) : /\ c \in Side(n, k)
                                     /\ c # k => Within[c] \subseteq Side(n, k) \ {k}
<1>1. Within[n] \subseteq Nodes /\ n \in Within[n] /\ k \in Nodes
  BY NeighbourIs, WithinIs
<1>2. n \in Side(n, k)
  BY <1>1, NeighbourIs DEF Side, Behind
<1>3. ASSUME NEW c \in Children(n) PROVE c \in Side(n, k)
  <2>1. c \in Within[n] /\ c \in Nodes /\ c \in Clients
    BY ChildLinks, ChildWithin
  <2>2. k \in Children(n) /\ c # k => c \notin Within[k]
    BY <2>1, NeighbourIs, WithinSiblings, WithinIs
  <2> QED BY <1>1, <2>1, <2>2, NeighbourIs DEF Side, Behind
<1>4. ASSUME NEW c \in Children(n), c # k PROVE Within[c] \subseteq Side(n, k) \ {k}
  <2>1. c \in Neighbours(n)
    BY ChildLinks DEF Neighbours
  <2>2. Side(c, n) = Within[c] /\ n \notin Within[c]
    BY <2>1, NeighbourIs DEF Side
  <2> QED BY <1>4, <2>1, <2>2, SideOn
<1> QED BY <1>2, <1>3, <1>4

(***************************************************************************)
(* The invariant behind the routes.  First the ids: what a message may     *)
(* name, and of whom.                                                      *)
(***************************************************************************)
Tags == 1..MaxSubmit
HasId(n) == IdOf(n) # 0
Names == ({IdOf(n) : n \in Nodes} \ {0}) \cup Tags

\* names of nodes in S alone
Of(S) == {x \in Names : Owners(x) \subseteq S}

\* a connection that was there and is not any more
Dead(c) == HasId(c) /\ ~Linked(c)

\* names of nodes cut off from the nodes outside S
CutIn(S) == {x \in Names : \E c \in Clients : /\ Dead(c) /\ Within[c] \subseteq S
                                              /\ Owners(x) \subseteq Within[c]}

IdsGiven ==
    /\ \A n, k \in Nodes : HasId(n) /\ IdOf(n) = IdOf(k) => n = k
    /\ \A n \in Nodes : IdOf(n) \notin Tags

\* a node that knows its id
Awake(n) == HasId(n) /\ myId[n] = IdOf(n)

ClientStarted(c) ==
    /\ connected[c] # "reset" /\ (HasId(c) <=> connected[c] = "up")
    /\ HasId(c) => Awake(Parent[c]) /\ clientConn[c].myId = IdOf(Parent[c])
    /\ ~HasId(c) => <<Parent[c], c>> \notin open /\ <<c, Parent[c]>> \notin open
    /\ myId[c] \in {0, IdOf(c)}
    /\ serverConn[c] = IF myId[c] = 0 THEN NoConn
                       ELSE [myId |-> IdOf(c), otherId |-> IdOf(Parent[c])]
    /\ serverId[c] = serverConn[c].otherId
Started == serverId[Root] = 0 /\ \A c \in Clients : ClientStarted(c)

(***************************************************************************)
(* A client that does not know its id yet has nothing to do, and the next  *)
(* thing it will handle tells it.                                          *)
(***************************************************************************)
IsNotice(m) == m.kind = "new" /\ m.dest = 1
ClientWaits(c) ==
    /\ msgOut[c] = <<>> /\ inHand[c] = <<>> /\ clientsToRemove[c] = <<>>
    /\ msgIn[c] # <<>> => IsNotice(Head(msgIn[c]))
    /\ msgIn[c] = <<>> /\ link[<<Parent[c], c>>] # <<>> => IsNotice(Head(link[<<Parent[c], c>>]))
    /\ msgIn[c] = <<>> /\ link[<<Parent[c], c>>] = <<>> => ~Linked(c)
Waiting == \A c \in Clients : myId[c] = 0 => ClientWaits(c)

(***************************************************************************)
(* What a may send to its neighbour b.                                     *)
(***************************************************************************)
Fitting(a, b) == {m \in Good :
    /\ m.body \in Seq(Of(Side(a, b)))
    /\ m.kind = "user" => m.body \in Seq(Tags)
    /\ m.kind = "gone" => /\ m.dest = 0 /\ m.src = IdOf(a) /\ m.body # <<>>
                          /\ m.body \in Seq(CutIn(Side(a, b) \ {b}))
    /\ m.kind = "new" =>
          /\ m.src = IdOf(a)
          /\ \/ m.dest = 0 /\ m.body # <<>>
             \/ b \in Children(a) /\ m.dest = 1 /\ m.body = <<IdOf(b)>>
             \/ b \in Children(a) /\ m.dest = IdOf(b)}

LinksFit == \A l \in Links :
    /\ link[l] \in Seq(Fitting(l[1], l[2]))
    /\ lastBody[l] \in Seq(Of(Side(l[1], l[2])))
    /\ link[l] # <<>> \/ lastBody[l] # <<>> => HasId(l[1]) /\ HasId(l[2])

\* the first message comes with a body
LinksFull == \A l \in Links :
    lastBody[l] = <<>> =>
        /\ link[l] # <<>> => Head(link[l]).body # <<>>
        /\ link[l] = <<>> /\ {l, <<l[2], l[1]>>} \subseteq open => l[2] \notin Children(l[1])

(***************************************************************************)
(* What a node has been sent, what it is going to send, and its tables.    *)
(* While the accept handler works for a client, nothing of that client has *)
(* been taken in.                                                          *)
(***************************************************************************)
Entering(n, a) == accepting[n].at # "no" /\ accepting[n].client = a
Sender(n, a) == a \in Neighbours(n) /\ HasId(a) /\ HasId(n) /\ ~Entering(n, a)
Heard(n) == {m \in Good : m.body # <<>> /\ \E a \in Nodes : Sender(n, a) /\ m \in Fitting(a, n)}
Arrived == \A n \in Nodes : msgIn[n] \in Seq(Heard(n)) /\ inHand[n] \in Seq(Heard(n))

ToSend(n) == {m \in Good :
    /\ HasId(n) /\ m.kind # "gone"
    /\ m.kind = "user" => m.body \in Seq(Tags)
    /\ m.kind = "new" =>
          /\ m.src = IdOf(n)
          /\ \E c \in Children(n) : /\ HasId(c)
                                    /\ \/ m.dest = 0 /\ m.body = <<IdOf(c)>>
                                       \/ m.dest = IdOf(c) /\ m.body \in Seq(Of(Side(n, c)))}
Leaving == \A n \in Nodes :
    /\ msgOut[n] \in Seq(ToSend(n))
    /\ accepting[n].at # "no" => HasId(accepting[n].client)
    /\ accepting[n].at = "inserting" => accepting[n].msg \in ToSend(n)

\* x is filed under a client that it is of
Filed(n, x) == \E c \in Children(n) : /\ HasId(c) /\ clientToDirectClient[n][x] = IdOf(c)
                                      /\ ~Entering(n, c) /\ x \in Of(Within[c])
Tables == \A n \in Nodes :
    /\ \A x \in DOMAIN clientToDirectClient[n] : Filed(n, x)
    /\ idsFromServer[n] \in Seq(Of(Behind(n)))
    /\ \A i \in DOMAIN directClients[n] : i # 0 /\ IdOf(directClients[n][i]) = i

\* what Rem may be asked to remove: never the node itself or a working client
Dropped(n) == {x \in Names : x # IdOf(n) /\ \A c \in Children(n) : IdOf(c) = x => ~Linked(c)}
Removing == \A n \in Nodes : /\ clientsToRemove[n] \in Seq(Dropped(n))
                             /\ removed[n] \in Seq(CutIn(Nodes \ {n}))

RoutesInv == /\ IdsGiven /\ Started /\ Waiting /\ LinksFit /\ LinksFull
             /\ Arrived /\ Leaving /\ Tables /\ Removing

LEMMA RoutesInvLead == RoutesInv => RoutesLead /\ RemovedAreCut /\ NoticesHaveBodies
<1> SUFFICES ASSUME RoutesInv PROVE RoutesLead /\ RemovedAreCut /\ NoticesHaveBodies
  OBVIOUS
<1>1. RoutesLead
  <2> SUFFICES ASSUME NEW n \in Nodes
               PROVE  /\ \A x \in DOMAIN clientToDirectClient[n] :
                            \E c \in Children(n) : /\ IdOf(c) = clientToDirectClient[n][x]
                                                   /\ Owners(x) \subseteq Within[c]
                      /\ \A x \in ToSet(idsFromServer[n]) :
                            Owners(x) \cap (Within[n] \ {n}) = {}
    BY DEF RoutesLead
  <2>1. \A x \in DOMAIN clientToDirectClient[n] : Filed(n, x)
    BY DEF RoutesInv, Tables
  <2>2. ToSet(idsFromServer[n]) \subseteq Of(Behind(n))
    BY SetOfSeq DEF RoutesInv, Tables
  <2>3. Within[n] \subseteq Nodes
    BY WithinIs
  <2> QED BY <2>1, <2>2, <2>3 DEF Filed, Of, Behind
<1>2. RemovedAreCut
  <2> SUFFICES ASSUME NEW n \in Nodes, NEW x \in ToSet(removed[n])
               PROVE  \E c \in Clients : /\ ~Linked(c) /\ n \notin Within[c]
                                         /\ Owners(x) \subseteq Within[c]
    BY DEF RemovedAreCut
  <2>1. x \in CutIn(Nodes \ {n})
    BY SetOfSeq DEF RoutesInv, Removing
  <2> QED BY <2>1 DEF CutIn, Dead
<1>3. NoticesHaveBodies
  <2> SUFFICES ASSUME NEW n \in Nodes, NEW i \in DOMAIN msgIn[n] PROVE msgIn[n][i].body # <<>>
    BY DEF NoticesHaveBodies
  <2>1. msgIn[n] \in Seq(Heard(n))
    BY DEF RoutesInv, Arrived
  <2>2. msgIn[n][i] \in Heard(n)
    BY <2>1
  <2> QED BY <2>2 DEF Heard
<1> QED BY <1>1, <1>2, <1>3

LEMMA RoutesInit == Init => RoutesInv
<1> SUFFICES ASSUME Init PROVE RoutesInv
  OBVIOUS
<1>1. Root \in Nodes /\ \A n \in Nodes : IdOf(n) = 0 /\ ~HasId(n)
  BY TreeAssumption DEF Init, IdOf, HasId, NoConn, Clients
<1>2. \A c \in Clients : c \in Nodes /\ Parent[c] \in Nodes
  BY WithinServer
<1>3. IdsGiven /\ Started
  BY <1>1, <1>2 DEF Init, IdsGiven, Tags, Started, ClientStarted, NoConn
<1>4. \A c \in Clients : <<Parent[c], c>> \in Links
  BY <1>2, ChildLinks DEF Children
<1>5. Waiting
  BY <1>2, <1>4 DEF Init, Waiting, ClientWaits, Linked
<1>6. LinksFit /\ LinksFull
  BY DEF Init, LinksFit, LinksFull
<1>7. Arrived /\ Leaving
  BY DEF Init, Arrived, Leaving, NotAccepting
<1>8. Tables /\ Removing
  BY DEF Init, Tables, Removing
<1> QED BY <1>3, <1>5, <1>6, <1>7, <1>8 DEF RoutesInv

(***************************************************************************)
(* The ids only grow: what was true of the names that were there stays     *)
(* true, and a connection that has ended stays so.                         *)
(***************************************************************************)
Grows ==
    /\ \A n \in Nodes : HasId(n) => IdOf(n)' = IdOf(n)
    /\ \A n \in Nodes : ~HasId(n) => IdOf(n)' \notin Names
    /\ \A c \in Clients : Dead(c) => ~Linked(c)'

LEMMA GrowsIfSame ==
    ASSUME \A n \in Nodes : IdOf(n)' = IdOf(n), open' \subseteq open
    PROVE  Grows
<1>1. 0 \notin Names
  BY DEF Names, Tags
<1>2. \A c \in Clients : Dead(c) => ~Linked(c)'
  BY DEF Dead, Linked
<1> QED BY <1>1, <1>2 DEF Grows, HasId

LEMMA IdsKept ==
    ASSUME Grows, NEW n \in Nodes, HasId(n)
    PROVE  HasId(n)' /\ IdOf(n)' = IdOf(n)
BY DEF Grows, HasId

LEMMA NamesKept ==
    ASSUME Grows
    PROVE  Names \subseteq Names' /\ \A x \in Names : Owners(x)' = Owners(x)
<1>1. ASSUME NEW x \in Names PROVE x \in Names'
  <2>1. CASE x \in Tags
    BY <2>1 DEF Names, Tags
  <2>2. CASE x \notin Tags
    <3>1. PICK n \in Nodes : IdOf(n) = x /\ HasId(n)
      BY <2>2 DEF Names, HasId
    <3>2. IdOf(n)' = x /\ x # 0
      BY <3>1, IdsKept DEF HasId
    <3> QED BY <3>2 DEF Names
  <2> QED BY <2>1, <2>2
<1>2. ASSUME NEW x \in Names, NEW n \in Nodes PROVE IdOf(n)' = x <=> IdOf(n) = x
  <2>1. x # 0
    BY DEF Names, Tags
  <2>2. CASE HasId(n)
    BY <2>2, IdsKept
  <2>3. CASE ~HasId(n)
    BY <2>1, <2>3 DEF Grows, HasId
  <2> QED BY <2>2, <2>3
<1> QED BY <1>1, <1>2 DEF Owners

LEMMA OfKept == ASSUME Grows, NEW S PROVE Of(S) \subseteq Of(S)'
BY NamesKept DEF Of

LEMMA DeadKept == ASSUME Grows, NEW c \in Clients, Dead(c) PROVE Dead(c)'
<1>1. c \in Nodes
  BY DEF Clients
<1> QED BY <1>1, IdsKept DEF Grows, Dead

LEMMA CutInKept == ASSUME Grows, NEW S PROVE CutIn(S) \subseteq CutIn(S)'
<1> SUFFICES ASSUME NEW x \in CutIn(S) PROVE x \in CutIn(S)'
  OBVIOUS
<1>1. PICK c \in Clients : Dead(c) /\ Within[c] \subseteq S /\ Owners(x) \subseteq Within[c]
  BY DEF CutIn
<1>2. x \in Names' /\ Owners(x)' = Owners(x)
  BY NamesKept DEF CutIn
<1>3. Dead(c)'
  BY <1>1, DeadKept
<1> QED BY <1>1, <1>2, <1>3 DEF CutIn

\* a sequence over a set is one over a larger set
LEMMA SeqOver == ASSUME NEW S, NEW T, S \subseteq T PROVE Seq(S) \subseteq Seq(T)
BY SeqMonotonic

LEMMA FittingKept ==
    ASSUME Grows, NEW a \in Nodes, NEW b \in Nodes, HasId(a), HasId(b)
    PROVE  Fitting(a, b) \subseteq Fitting(a, b)'
<1> SUFFICES ASSUME NEW m \in Fitting(a, b) PROVE m \in Fitting(a, b)'
  OBVIOUS
<1>1. IdOf(a)' = IdOf(a) /\ IdOf(b)' = IdOf(b)
  BY IdsKept
<1>2. /\ Seq(Of(Side(a, b))) \subseteq Seq(Of(Side(a, b))')
      /\ Seq(CutIn(Side(a, b) \ {b})) \subseteq Seq(CutIn(Side(a, b) \ {b})')
  BY OfKept, CutInKept, SeqOver
<1> QED BY <1>1, <1>2 DEF Fitting

LEMMA HeardKept ==
    ASSUME Grows, NEW n \in Nodes,
           \A a \in Nodes : Sender(n, a) => ~Entering(n, a)'
    PROVE  Heard(n) \subseteq Heard(n)'
<1> SUFFICES ASSUME NEW m \in Heard(n) PROVE m \in Heard(n)'
  OBVIOUS
<1>1. PICK a \in Nodes : Sender(n, a) /\ m \in Fitting(a, n)
  BY DEF Heard
<1>2. Sender(n, a)'
  BY <1>1, IdsKept DEF Sender
<1>3. m \in Fitting(a, n)'
  BY <1>1, FittingKept DEF Sender
<1> QED BY <1>2, <1>3 DEF Heard

LEMMA ToSendKept ==
    ASSUME Grows, NEW n \in Nodes
    PROVE  ToSend(n) \subseteq ToSend(n)'
<1> SUFFICES ASSUME NEW m \in ToSend(n) PROVE m \in ToSend(n)'
  OBVIOUS
<1>1. HasId(n)' /\ IdOf(n)' = IdOf(n)
  BY IdsKept DEF ToSend
<1>2. ASSUME NEW c \in Children(n), HasId(c)
      PROVE  /\ HasId(c)' /\ IdOf(c)' = IdOf(c)
             /\ Seq(Of(Side(n, c))) \subseteq Seq(Of(Side(n, c))')
  BY <1>2, ChildLinks, IdsKept, OfKept, SeqOver
<1>3. CASE m.kind = "new"
  <2>1. PICK c \in Children(n) :
           /\ HasId(c)
           /\ \/ m.dest = 0 /\ m.body = <<IdOf(c)>>
              \/ m.dest = IdOf(c) /\ m.body \in Seq(Of(Side(n, c)))
    BY <1>3 DEF ToSend
  <2>2. /\ HasId(c)'
        /\ \/ m.dest = 0 /\ m.body = <<IdOf(c)'>>
           \/ m.dest = IdOf(c)' /\ m.body \in Seq(Of(Side(n, c))')
    BY <1>2, <2>1
  <2> QED BY <1>1, <2>2, <1>3 DEF ToSend
<1>4. CASE m.kind # "new"
  BY <1>1, <1>4 DEF ToSend
<1> QED BY <1>3, <1>4

LEMMA DroppedKept ==
    ASSUME Grows, NEW n \in Nodes
    PROVE  Dropped(n) \subseteq Dropped(n)'
<1> SUFFICES ASSUME NEW x \in Dropped(n) PROVE x \in Dropped(n)'
  OBVIOUS
<1>1. x \in Names' /\ Owners(x)' = Owners(x)
  BY NamesKept DEF Dropped
<1>2. x # IdOf(n)'
  BY <1>1 DEF Dropped, Owners
<1>3. ASSUME NEW c \in Children(n), IdOf(c)' = x PROVE ~Linked(c)'
  <2>1. c \in Clients /\ c \in Nodes /\ IdOf(c) = x
    BY <1>1, <1>3, ChildLinks DEF Owners
  <2>2. x # 0
    BY DEF Dropped, Names, Tags
  <2> QED BY <2>1, <2>2 DEF Dropped, Grows, Dead, HasId
<1> QED BY <1>1, <1>2, <1>3 DEF Dropped

(***************************************************************************)
(* A part of the invariant stays when what it is about does not change.    *)
(***************************************************************************)
LEMMA LinksFitKept ==
    ASSUME RoutesInv, Grows, UNCHANGED <<link, lastBody>>
    PROVE  LinksFit'
<1> SUFFICES ASSUME NEW l \in Links
             PROVE  /\ link'[l] \in Seq(Fitting(l[1], l[2])')
                    /\ lastBody'[l] \in Seq(Of(Side(l[1], l[2]))')
                    /\ link'[l] # <<>> \/ lastBody'[l] # <<>> => HasId(l[1])' /\ HasId(l[2])'
  BY DEF LinksFit
<1>1. l[1] \in Nodes /\ l[2] \in Nodes
  BY LinkNodes
<1>2. /\ link[l] \in Seq(Fitting(l[1], l[2]))
      /\ lastBody[l] \in Seq(Of(Side(l[1], l[2])))
      /\ link[l] # <<>> \/ lastBody[l] # <<>> => HasId(l[1]) /\ HasId(l[2])
  BY DEF RoutesInv, LinksFit
<1>3. link[l] # <<>> => Fitting(l[1], l[2]) \subseteq Fitting(l[1], l[2])'
  BY <1>1, <1>2, FittingKept
<1>4. link[l] \in Seq(Fitting(l[1], l[2])')
  <2>1. CASE link[l] = <<>>
    BY <2>1
  <2>2. CASE link[l] # <<>>
    BY <1>2, <1>3, <2>2, SeqOver
  <2> QED BY <2>1, <2>2
<1>5. lastBody[l] \in Seq(Of(Side(l[1], l[2]))')
  BY <1>2, OfKept, SeqOver
<1> QED BY <1>1, <1>2, <1>4, <1>5, IdsKept

LEMMA ArrivedKept ==
    ASSUME Grows, \A n, a \in Nodes : Sender(n, a) => ~Entering(n, a)',
           \A n \in Nodes : msgIn'[n] \in Seq(Heard(n)) /\ inHand'[n] \in Seq(Heard(n))
    PROVE  Arrived'
<1> SUFFICES ASSUME NEW n \in Nodes
             PROVE  msgIn'[n] \in Seq(Heard(n)') /\ inHand'[n] \in Seq(Heard(n)')
  BY DEF Arrived
<1>1. Seq(Heard(n)) \subseteq Seq(Heard(n)')
  BY HeardKept, SeqOver
<1> QED BY <1>1

LEMMA LeavingKept ==
    ASSUME KernalInv, RoutesInv, Grows, UNCHANGED accepting,
           \A n \in Nodes : msgOut'[n] \in Seq(ToSend(n))
    PROVE  Leaving'
<1> SUFFICES ASSUME NEW n \in Nodes
             PROVE  /\ msgOut'[n] \in Seq(ToSend(n)')
                    /\ accepting[n].at # "no" => HasId(accepting[n].client)'
                    /\ accepting[n].at = "inserting" => accepting[n].msg \in ToSend(n)'
  BY DEF Leaving
<1>1. ToSend(n) \subseteq ToSend(n)' /\ Seq(ToSend(n)) \subseteq Seq(ToSend(n)')
  BY ToSendKept, SeqOver
<1>2. accepting[n].at # "no" => accepting[n].client \in Nodes
  BY ChildLinks DEF KernalInv, AcceptTyped
<1> QED BY <1>1, <1>2, IdsKept DEF RoutesInv, Leaving

LEMMA FiledKept ==
    ASSUME Grows, NEW n \in Nodes, NEW x, Filed(n, x),
           clientToDirectClient'[n][x] = clientToDirectClient[n][x],
           \A c \in Children(n) : HasId(c) /\ ~Entering(n, c) => ~Entering(n, c)'
    PROVE  Filed(n, x)'
<1>1. PICK c \in Children(n) : /\ HasId(c) /\ clientToDirectClient[n][x] = IdOf(c)
                               /\ ~Entering(n, c) /\ x \in Of(Within[c])
  BY DEF Filed
<1>2. c \in Nodes
  BY ChildLinks
<1>3. x \in Of(Within[c])'
  BY <1>1, OfKept
<1> QED BY <1>1, <1>2, <1>3, IdsKept DEF Filed

LEMMA DirectKept ==
    ASSUME KernalInv, RoutesInv, Grows, NEW n \in Nodes, NEW i \in DOMAIN directClients[n]
    PROVE  \E c \in Children(n) : /\ directClients[n][i] = c /\ i # 0
                                  /\ IdOf(c) = i /\ IdOf(c)' = i
<1> DEFINE f == directClients[n]
<1>1. f \in [DOMAIN f -> Children(n)]
  <2>1. f \in MapsTo(Children(n))
    BY DEF KernalInv, AcceptTyped
  <2> HIDE DEF f
  <2> QED BY <2>1, MapIs
<1>2. PICK c \in Children(n) : f[i] = c
  BY <1>1
<1>3. i # 0 /\ IdOf(c) = i /\ c \in Nodes
  BY <1>2, ChildLinks DEF RoutesInv, Tables
<1>4. IdOf(c)' = i
  BY <1>3, IdsKept DEF HasId
<1> QED BY <1>2, <1>3, <1>4

LEMMA TablesKept ==
    ASSUME KernalInv, RoutesInv, Grows,
           UNCHANGED <<clientToDirectClient, idsFromServer, directClients>>,
           \A n \in Nodes : \A c \in Children(n) :
               HasId(c) /\ ~Entering(n, c) => ~Entering(n, c)'
    PROVE  Tables'
<1> SUFFICES ASSUME NEW n \in Nodes
             PROVE  /\ \A x \in DOMAIN clientToDirectClient[n] : Filed(n, x)'
                    /\ idsFromServer[n] \in Seq(Of(Behind(n))')
                    /\ \A i \in DOMAIN directClients[n] : i # 0 /\ IdOf(directClients[n][i])' = i
  BY DEF Tables
<1>1. \A x \in DOMAIN clientToDirectClient[n] : Filed(n, x)'
  BY FiledKept DEF RoutesInv, Tables
<1>2. Seq(Of(Behind(n))) \subseteq Seq(Of(Behind(n))')
  BY OfKept, SeqOver
<1>3. \A i \in DOMAIN directClients[n] : i # 0 /\ IdOf(directClients[n][i])' = i
  BY DirectKept
<1> QED BY <1>1, <1>2, <1>3 DEF RoutesInv, Tables

LEMMA RemovingKept ==
    ASSUME Grows,
           \A n \in Nodes : /\ clientsToRemove'[n] \in Seq(Dropped(n))
                            /\ removed'[n] \in Seq(CutIn(Nodes \ {n}))
    PROVE  Removing'
<1> SUFFICES ASSUME NEW n \in Nodes
             PROVE  /\ clientsToRemove'[n] \in Seq(Dropped(n)')
                    /\ removed'[n] \in Seq(CutIn(Nodes \ {n})')
  BY DEF Removing
<1>1. /\ Seq(Dropped(n)) \subseteq Seq(Dropped(n)')
      /\ Seq(CutIn(Nodes \ {n})) \subseteq Seq(CutIn(Nodes \ {n})')
  BY DroppedKept, CutInKept, SeqOver
<1> QED BY <1>1

LEMMA StartedKept ==
    ASSUME RoutesInv, Grows, UNCHANGED <<myId, clientConn, connected, serverConn, serverId>>,
           open' \subseteq open, \A n \in Nodes : IdOf(n)' = IdOf(n)
    PROVE  Started' /\ IdsGiven'
<1>1. \A c \in Clients : c \in Nodes /\ Parent[c] \in Nodes
  BY WithinServer
<1>2. \A n \in Nodes : (HasId(n)' <=> HasId(n)) /\ (Awake(n)' <=> Awake(n))
  BY DEF HasId, Awake
<1>3. ASSUME NEW c \in Clients PROVE ClientStarted(c)'
  <2>1. ClientStarted(c)
    BY DEF RoutesInv, Started
  <2> QED BY <1>1, <1>2, <2>1 DEF ClientStarted
<1>4. IdsGiven'
  BY <1>2 DEF RoutesInv, IdsGiven, Tags
<1> QED BY <1>3, <1>4 DEF RoutesInv, Started

(***************************************************************************)
(* Sending: what a node that knows its id puts on its links.               *)
(***************************************************************************)
LEMMA ConnIs ==
    ASSUME KernalInv, RoutesInv, NEW n \in Nodes, NEW k \in Neighbours(n), Awake(n),
           {<<n, k>>, <<k, n>>} \subseteq open
    PROVE  HasId(k) /\ Conn(n, k) = [myId |-> IdOf(n), otherId |-> IdOf(k)]
<1>1. CASE k \in Children(n)
  <2>1. k \in Clients /\ k \in Nodes /\ Parent[k] = n
    BY <1>1, ChildLinks
  <2>2. HasId(k) /\ clientConn[k].myId = IdOf(n)
    BY <2>1 DEF RoutesInv, Started, ClientStarted
  <2>3. IdOf(k) = clientConn[k].otherId
    BY <2>1 DEF IdOf, Clients
  <2>4. clientConn[k] \in [myId : Nat, otherId : Nat \ {1}]
    BY <2>1 DEF KernalInv, AcceptTyped
  <2> QED BY <1>1, <2>2, <2>3, <2>4 DEF Conn
<1>2. CASE k \notin Children(n)
  <2>1. n \in Clients /\ k = Parent[n]
    BY <1>2, NeighbourIs DEF Children
  <2>2. ClientStarted(n)
    BY <2>1 DEF RoutesInv, Started
  <2>3. HasId(k) /\ serverConn[n] = [myId |-> IdOf(n), otherId |-> IdOf(k)]
    BY <2>1, <2>2 DEF ClientStarted, Awake, HasId
  <2> QED BY <1>2, <2>3 DEF Conn
<1> QED BY <1>1, <1>2

Marked(n, m) == IF m.dest \in {0, 1} THEN [m EXCEPT !.src = IdOf(n)] ELSE m
Allowed(n, m, to) == \A k \in Neighbours(n) \cap to :
    HasId(k) /\ IdOf(k) # m.src => Marked(n, m) \in Fitting(n, k)

\* what may become of the messages on a link when its reader does nothing: one
\* more is sent, or an end is closed and only the first of them remain
Lengthened(l, q) ==
    \/ q = link[l]
    \/ /\ HasId(l[1]) /\ HasId(l[2]) /\ {l, <<l[2], l[1]>>} \subseteq open
       /\ \E y \in Fitting(l[1], l[2]) : q = Append(link[l], y)
Moved(l) ==
    \/ Lengthened(l, link'[l])
    \/ /\ ~({l, <<l[2], l[1]>>} \subseteq open')
       /\ \E k \in 0..Len(link[l]) : link'[l] = SubSeq(link[l], 1, k)

LEMMA LinkIs ==
    ASSUME NEW l \in Links
    PROVE  /\ l[1] \in Nodes /\ l[2] \in Nodes /\ l = <<l[1], l[2]>>
           /\ l[2] \in Neighbours(l[1])
BY DEF Links, Neighbours

LEMMA SentMoves ==
    ASSUME KernalInv, RoutesInv, NEW n \in Nodes, NEW m, Awake(n), NEW to,
           Allowed(n, m, to), NEW l \in Links
    PROVE  Lengthened(l, Sent(n, m, to)[l])
<1>1. CASE l[1] = n /\ l[2] \in to /\ ~Blocked(n, l[2], m) /\ {l, <<l[2], n>>} \subseteq open
  <2>1. l[2] \in Neighbours(n) /\ {<<n, l[2]>>, <<l[2], n>>} \subseteq open
    BY <1>1, LinkIs
  <2>2. HasId(l[2]) /\ Conn(n, l[2]) = [myId |-> IdOf(n), otherId |-> IdOf(l[2])]
    BY <2>1, ConnIs
  <2>3. Stamped(n, l[2], m) = Marked(n, m) /\ IdOf(l[2]) # m.src
    BY <1>1, <2>2 DEF Stamped, Marked, Blocked
  <2>4. Marked(n, m) \in Fitting(n, l[2])
    BY <1>1, <2>1, <2>2, <2>3 DEF Allowed
  <2>5. Sent(n, m, to)[l] = Append(link[l], Marked(n, m))
    BY <1>1, <2>3 DEF Sent
  <2> QED BY <1>1, <2>2, <2>4, <2>5 DEF Awake, Lengthened
<1>2. CASE ~(l[1] = n /\ l[2] \in to /\ ~Blocked(n, l[2], m) /\ {l, <<l[2], n>>} \subseteq open)
  BY <1>2 DEF Sent, Lengthened
<1> QED BY <1>1, <1>2

LEMMA OfWider == ASSUME NEW S, NEW T, S \subseteq T PROVE Of(S) \subseteq Of(T) /\ CutIn(S) \subseteq CutIn(T)
BY DEF Of, CutIn

\* no node has an id that a user's message could carry
LEMMA TagsFree ==
    ASSUME RoutesInv, NEW S
    PROVE  Tags \subseteq Of(S)
BY DEF Of, Names, Owners, RoutesInv, IdsGiven

LEMMA MarkedGood ==
    ASSUME KernalInv, NEW n \in Nodes, NEW m \in Good
    PROVE  /\ Marked(n, m) \in Good /\ Marked(n, m).kind = m.kind
           /\ Marked(n, m).body = m.body /\ Marked(n, m).dest = m.dest
           /\ m.dest \in {0, 1} => Marked(n, m).src = IdOf(n)
           /\ m.dest \notin {0, 1} => Marked(n, m) = m
<1>1. IdOf(n) \in Nat
  BY DEF IdOf, KernalInv, TablesTyped, AcceptTyped
<1> QED BY <1>1 DEF Marked, Good, Message

\* a user's message may go anywhere
LEMMA UserFits ==
    ASSUME KernalInv, RoutesInv, NEW n \in Nodes, NEW k,
           NEW m \in Good, m.kind = "user", m.body \in Seq(Tags)
    PROVE  Marked(n, m) \in Fitting(n, k)
<1>1. m.body \in Seq(Of(Side(n, k)))
  BY TagsFree, SeqOver
<1> QED BY <1>1, MarkedGood DEF Fitting

LEMMA ForwardAllowed ==
    ASSUME KernalInv, RoutesInv, NEW n \in Nodes, NEW m \in Heard(n),
           ~Mine(n, m), Awake(n), NEW to
    PROVE  Allowed(n, m, to)
<1> SUFFICES ASSUME NEW k \in Neighbours(n), IdOf(k) # m.src, HasId(k)
             PROVE  Marked(n, m) \in Fitting(n, k)
  BY DEF Allowed
<1>1. PICK a \in Neighbours(n) : m \in Fitting(a, n)
  BY DEF Heard, Sender
<1>2. m \in Good
  BY DEF Heard
<1>3. CASE m.kind = "user"
  BY <1>1, <1>2, <1>3, UserFits DEF Fitting
<1>4. CASE m.kind # "user"
  <2>1. m.src = IdOf(a) /\ m.dest = 0 /\ m.body # <<>>
    <3>1. m.dest # 1 /\ m.dest # IdOf(n)
      BY DEF Mine, Awake
    <3> QED BY <1>1, <1>4, <3>1 DEF Fitting, Good, Message
  <2>2. a # k
    BY <2>1
  <2>3. /\ Seq(Of(Side(a, n))) \subseteq Seq(Of(Side(n, k)))
        /\ Seq(CutIn(Side(a, n) \ {n})) \subseteq Seq(CutIn(Side(n, k) \ {k}))
    <3>1. /\ Side(a, n) \subseteq Side(n, k)
          /\ Side(a, n) \ {n} \subseteq Side(n, k) \ {k}
      BY <1>1, <2>2, SideOn
    <3>2. /\ Of(Side(a, n)) \subseteq Of(Side(n, k))
          /\ CutIn(Side(a, n) \ {n}) \subseteq CutIn(Side(n, k) \ {k})
      BY <3>1, OfWider
    <3> QED BY <3>2, SeqOver
  <2>4. m.body \in Seq(Of(Side(n, k)))
    BY <1>1, <2>3 DEF Fitting
  <2>5. m.kind = "gone" => m.body \in Seq(CutIn(Side(n, k) \ {k}))
    BY <1>1, <2>3 DEF Fitting
  <2> QED BY <1>2, <1>4, <2>1, <2>4, <2>5, MarkedGood DEF Fitting
<1> QED BY <1>3, <1>4

LEMMA ChildId ==
    ASSUME KernalInv, RoutesInv, NEW n \in Nodes, NEW c \in Children(n), HasId(c)
    PROVE  IdOf(c) \in Names /\ Owners(IdOf(c)) = {c} /\ IdOf(c) \notin {0, 1}
<1>1. c \in Nodes /\ c \in Clients
  BY ChildLinks
<1>2. IdOf(c) = clientConn[c].otherId /\ clientConn[c].otherId # 1
  BY <1>1 DEF IdOf, Clients, KernalInv, AcceptTyped
<1> QED BY <1>1, <1>2 DEF Names, Owners, HasId, RoutesInv, IdsGiven

\* the tables lead a message for a client to that client
LEMMA RouteToClient ==
    ASSUME KernalInv, RoutesInv, NEW n \in Nodes, NEW c \in Children(n), HasId(c),
           NEW m, m.dest = IdOf(c)
    PROVE  Route(n, m) \subseteq {c}
<1>1. Owners(m.dest) = {c} /\ m.dest # 0 /\ c \in Within[n] /\ c # n /\ c \in Nodes
  BY ChildId, ChildWithin, ChildLinks
<1>2. m.dest \notin ToSet(idsFromServer[n])
  <2>1. ToSet(idsFromServer[n]) \subseteq Of(Behind(n))
    BY SetOfSeq DEF RoutesInv, Tables
  <2> QED BY <1>1, <2>1 DEF Of, Behind
<1> DEFINE direct == clientToDirectClient[n]
<1>3. Route(n, m) = {directClients[n][i] : i \in
                        {direct[d] : d \in DOMAIN direct \cap {m.dest}} \cap DOMAIN directClients[n]}
  BY <1>1, <1>2 DEF Route
<1>4. ASSUME m.dest \in DOMAIN direct, direct[m.dest] \in DOMAIN directClients[n]
      PROVE  directClients[n][direct[m.dest]] = c
  <2>1. Filed(n, m.dest)
    BY <1>4 DEF RoutesInv, Tables
  <2>2. PICK d \in Children(n) : /\ HasId(d) /\ direct[m.dest] = IdOf(d)
                                 /\ m.dest \in Of(Within[d])
    BY <2>1 DEF Filed
  <2>3. c \in Within[d] /\ c \in Within[c]
    BY <1>1, <2>2, WithinIs DEF Of
  <2>4. d = c
    BY <2>2, <2>3, WithinSiblings
  <2>5. PICK e \in Children(n) : directClients[n][direct[m.dest]] = e /\ IdOf(e) = direct[m.dest]
    <3>1. ASSUME NEW i \in DOMAIN directClients[n]
          PROVE  directClients[n][i] \in Children(n) /\ IdOf(directClients[n][i]) = i
      <4> DEFINE f == directClients[n]
      <4>1. f \in MapsTo(Children(n))
        BY DEF KernalInv, AcceptTyped
      <4>2. f \in [DOMAIN f -> Children(n)]
        <5> HIDE DEF f
        <5> QED BY <4>1, MapIs
      <4>3. f[i] \in Children(n)
        BY <4>2
      <4> QED BY <4>3 DEF RoutesInv, Tables
    <3> QED BY <1>4, <3>1
  <2>6. e \in Owners(m.dest)
    BY <2>2, <2>4, <2>5, ChildLinks DEF Owners
  <2> QED BY <1>1, <2>5, <2>6
<1> QED BY <1>3, <1>4

LEMMA OutAllowed ==
    ASSUME KernalInv, RoutesInv, NEW n \in Nodes, NEW m \in ToSend(n), Awake(n)
    PROVE  Allowed(n, m, Route(n, m))
<1> SUFFICES ASSUME NEW k \in Neighbours(n), k \in Route(n, m)
             PROVE  Marked(n, m) \in Fitting(n, k)
  BY DEF Allowed
<1>1. m \in Good /\ m.kind \in {"user", "new"}
  BY DEF ToSend, Good, Message
<1>2. CASE m.kind = "user"
  BY <1>1, <1>2, UserFits DEF ToSend
<1>3. CASE m.kind = "new"
  <2>1. PICK c \in Children(n) :
           /\ HasId(c)
           /\ \/ m.dest = 0 /\ m.body = <<IdOf(c)>>
              \/ m.dest = IdOf(c) /\ m.body \in Seq(Of(Side(n, c)))
    BY <1>3 DEF ToSend
  <2>2. CASE m.dest = 0 /\ m.body = <<IdOf(c)>>
    <3>1. IdOf(c) \in Of(Side(n, k))
      BY <2>1, ChildId, SideOwn DEF Of
    <3>2. m.body \in Seq(Of(Side(n, k))) /\ m.body # <<>>
      BY <2>2, <3>1
    <3> QED BY <1>1, <1>3, <2>2, <3>2, MarkedGood DEF Fitting
  <2>3. CASE m.dest = IdOf(c) /\ m.body \in Seq(Of(Side(n, c)))
    <3>1. k = c /\ m.dest \notin {0, 1}
      BY <2>1, <2>3, RouteToClient, ChildId
    <3>2. Marked(n, m) = m /\ m.src = IdOf(n)
      BY <1>1, <1>3, <3>1, MarkedGood DEF ToSend
    <3> QED BY <1>1, <1>3, <2>3, <3>1, <3>2 DEF Fitting
  <2> QED BY <2>1, <2>2, <2>3
<1> QED BY <1>1, <1>2, <1>3

(***************************************************************************)
(* Sockets that turn out to be closed, and the links after a step.         *)
(***************************************************************************)
LEMMA KeysIn ==
    ASSUME NEW V, NEW f \in MapsTo(V)
    PROVE  Keys(f) \in Seq(DOMAIN f)
<1> DEFINE D == DOMAIN f
           n == Cardinality(D)
<1>1. D \in SUBSET Nat /\ IsFiniteSet(D)
  BY MapIs
<1>2. n \in Nat /\ \A i \in 1..n : \E k \in D : Cardinality({j \in D : j < k}) = i - 1
  <2> HIDE DEF D
  <2> QED BY <1>1, EveryRank
<1>3. Keys(f) = [i \in 1..n |-> CHOOSE k \in D : Cardinality({j \in D : j < k}) = i - 1]
  BY DEF Keys
<1>4. \A i \in 1..n : (CHOOSE k \in D : Cardinality({j \in D : j < k}) = i - 1) \in D
  BY <1>2
<1>5. Keys(f) \in [1..n -> D]
  <2> HIDE DEF n, D
  <2> QED BY <1>3, <1>4
<1> HIDE DEF n
<1> QED BY <1>2, <1>5, SeqDef

LEMMA DirectIs ==
    ASSUME KernalInv, RoutesInv, NEW n \in Nodes, NEW i \in DOMAIN directClients[n]
    PROVE  \E c \in Children(n) : /\ directClients[n][i] = c /\ i # 0
                                  /\ IdOf(c) = i /\ HasId(c)
<1> DEFINE f == directClients[n]
<1>1. f \in [DOMAIN f -> Children(n)]
  <2>1. f \in MapsTo(Children(n))
    BY DEF KernalInv, AcceptTyped
  <2> HIDE DEF f
  <2> QED BY <2>1, MapIs
<1>2. PICK c \in Children(n) : f[i] = c
  BY <1>1
<1>3. i # 0 /\ IdOf(c) = i
  BY <1>2 DEF RoutesInv, Tables
<1> QED BY <1>2, <1>3 DEF HasId

LEMMA UnsentDropped ==
    ASSUME KernalInv, RoutesInv, NEW n \in Nodes, Awake(n), NEW m, NEW to
    PROVE  Unsent(n, m, to) \in Seq(Dropped(n))
<1> DEFINE dead == {k \in to : ~Blocked(n, k, m) /\ <<n, k>> \notin open}
           direct == directClients[n]
           ids == {id \in DOMAIN direct : direct[id] \in dead}
           server == IF ToServer(n) /\ Parent[n] \in dead THEN <<serverConn[n].otherId>> ELSE <<>>
<1>1. Unsent(n, m, to) = server \o Keys(Restrict(direct, ids))
  BY DEF Unsent
<1>2. server \in Seq(Dropped(n))
  <2>1. ASSUME ToServer(n) PROVE serverConn[n].otherId \in Dropped(n)
    <3>1. n \in Clients /\ n \in Nodes /\ Parent[n] \in Nodes /\ n \in Children(Parent[n])
      BY <2>1, WithinServer DEF ToServer, Children
    <3>2. ClientStarted(n)
      BY <3>1 DEF RoutesInv, Started
    <3>3. serverConn[n].otherId = IdOf(Parent[n]) /\ HasId(Parent[n])
      BY <2>1, <3>2 DEF ClientStarted, Awake, HasId, ToServer
    <3>4. Parent[n] # n /\ Parent[n] \notin Children(n)
      <4>1. Parent[n] \in Neighbours(n)
        BY <3>1, ChildLinks DEF Neighbours
      <4> QED BY <3>1, <4>1, NeighbourIs
    <3>5. \A k \in Nodes : IdOf(k) = IdOf(Parent[n]) => k = Parent[n]
      BY <3>1, <3>3 DEF RoutesInv, IdsGiven
    <3>6. \A k \in Children(n) : k \in Nodes
      BY ChildLinks
    <3> QED BY <3>1, <3>3, <3>4, <3>5, <3>6 DEF Dropped, Names, HasId
  <2> HIDE DEF dead
  <2> QED BY <2>1
<1>3. ids \subseteq Dropped(n)
  <2> SUFFICES ASSUME NEW i \in ids PROVE i \in Dropped(n)
    OBVIOUS
  <2>1. i \in DOMAIN direct /\ direct[i] \in dead
    OBVIOUS
  <2>2. PICK c \in Children(n) : direct[i] = c /\ i # 0 /\ IdOf(c) = i /\ HasId(c)
    BY <2>1, DirectIs
  <2>3. c \in Nodes /\ Parent[c] = n /\ c # n /\ <<n, c>> \notin open
    BY <2>1, <2>2, ChildLinks
  <2>4. \A k \in Nodes : IdOf(k) = i => k = c
    BY <2>2, <2>3 DEF RoutesInv, IdsGiven
  <2>5. \A k \in Children(n) : k \in Nodes
    BY ChildLinks
  <2> HIDE DEF ids
  <2> QED BY <2>2, <2>3, <2>4, <2>5 DEF Dropped, Names, Linked
<1>4. Keys(Restrict(direct, ids)) \in Seq(ids)
  <2>1. direct \in MapsTo(Clients) /\ ids \in SUBSET DOMAIN direct
    BY DEF KernalInv, AcceptTyped
  <2>2. DOMAIN Restrict(direct, ids) = ids
    BY DEF Restrict
  <2> HIDE DEF direct, ids
  <2>3. Restrict(direct, ids) \in MapsTo(Clients)
    BY <2>1, RestrictMap
  <2> QED BY <2>2, <2>3, KeysIn
<1> HIDE DEF server, direct, ids
<1>5. Keys(Restrict(direct, ids)) \in Seq(Dropped(n))
  BY <1>3, <1>4, SeqOver
<1> QED BY <1>1, <1>2, <1>5

LEMMA SendMoves ==
    ASSUME KernalInv, RoutesInv, NEW n \in Nodes, NEW m, Awake(n),
           Allowed(n, m, Route(n, m)), SendMessage(n, m)
    PROVE  /\ \A l \in Links : Moved(l)
           /\ \A k \in Nodes : clientsToRemove'[k] \in Seq(Dropped(k))
           /\ \A k \in Nodes : k # n => clientsToRemove'[k] = clientsToRemove[k]
<1>1. ASSUME NEW l \in Links PROVE Moved(l)
  BY SentMoves DEF Moved, SendMessage
<1>2. Unsent(n, m, Route(n, m)) \in Seq(Dropped(n))
  BY UnsentDropped
<1>3. \A k \in Nodes : clientsToRemove[k] \in Seq(Dropped(k))
  BY DEF RoutesInv, Removing
<1>4. clientsToRemove \in [Nodes -> Seq(Nat)]
  BY DEF KernalInv, RestTyped
<1>5. clientsToRemove' = [clientsToRemove EXCEPT ![n] = @ \o Unsent(n, m, Route(n, m))]
  BY DEF SendMessage
<1>6. clientsToRemove[n] \o Unsent(n, m, Route(n, m)) \in Seq(Dropped(n))
  BY <1>2, <1>3
<1> QED BY <1>1, <1>3, <1>4, <1>5, <1>6

\* a first part of a sequence
LEMMA FirstPart ==
    ASSUME NEW S, NEW s \in Seq(S), NEW k \in 0..Len(s)
    PROVE  /\ SubSeq(s, 1, k) \in Seq(S)
           /\ SubSeq(s, 1, k) # <<>> => s # <<>> /\ Head(SubSeq(s, 1, k)) = Head(s)
<1>1. /\ SubSeq(s, 1, k) \in Seq(S)
      /\ Len(SubSeq(s, 1, k)) = IF 1 <= k THEN k - 1 + 1 ELSE 0
      /\ \A i \in 1..k - 1 + 1 : SubSeq(s, 1, k)[i] = s[1 + i - 1]
  <2>1. \A i \in 1..k : s[i] \in S
    OBVIOUS
  <2> QED BY <2>1, SubSeqProperties
<1>2. SubSeq(s, 1, k) # <<>> => k >= 1
  BY <1>1, SubSeqEmpty
<1>3. k >= 1 => SubSeq(s, 1, k)[1] = s[1] /\ s # <<>>
  BY <1>1
<1> QED BY <1>1, <1>2, <1>3

LEMMA LinksMoved ==
    ASSUME RoutesInv, Grows, \A l \in Links : Moved(l), lastBody' = lastBody, open' \subseteq open
    PROVE  LinksFit' /\ LinksFull'
<1> USE DEF RoutesInv
<1>1. ASSUME NEW l \in Links
      PROVE  /\ link'[l] \in Seq(Fitting(l[1], l[2])')
             /\ lastBody'[l] \in Seq(Of(Side(l[1], l[2]))')
             /\ link'[l] # <<>> \/ lastBody'[l] # <<>> => HasId(l[1])' /\ HasId(l[2])'
  <2>1. /\ link[l] \in Seq(Fitting(l[1], l[2]))
        /\ lastBody[l] \in Seq(Of(Side(l[1], l[2])))
        /\ link[l] # <<>> \/ lastBody[l] # <<>> => HasId(l[1]) /\ HasId(l[2])
    BY DEF LinksFit
  <2>2. /\ link'[l] \in Seq(Fitting(l[1], l[2]))
        /\ link'[l] # <<>> => HasId(l[1]) /\ HasId(l[2])
    <3>1. CASE link'[l] = link[l]
      BY <2>1, <3>1
    <3>2. CASE /\ HasId(l[1]) /\ HasId(l[2])
               /\ \E y \in Fitting(l[1], l[2]) : link'[l] = Append(link[l], y)
      BY <2>1, <3>2
    <3>3. CASE \E k \in 0..Len(link[l]) : link'[l] = SubSeq(link[l], 1, k)
      BY <2>1, <3>3, FirstPart
    <3> QED BY <3>1, <3>2, <3>3 DEF Moved, Lengthened
  <2>3. link'[l] \in Seq(Fitting(l[1], l[2])')
    <3>1. CASE link'[l] = <<>>
      BY <3>1
    <3>2. CASE link'[l] # <<>>
      <4>1. Fitting(l[1], l[2]) \subseteq Fitting(l[1], l[2])'
        BY <2>2, <3>2, LinkIs, FittingKept
      <4> QED BY <2>2, <4>1, SeqOver
    <3> QED BY <3>1, <3>2
  <2>4. lastBody[l] \in Seq(Of(Side(l[1], l[2]))')
    BY <2>1, OfKept, SeqOver
  <2> QED BY <2>1, <2>2, <2>3, <2>4, LinkIs, IdsKept
<1>2. ASSUME NEW l \in Links, lastBody[l] = <<>>
      PROVE  /\ link'[l] # <<>> => Head(link'[l]).body # <<>>
             /\ link'[l] = <<>> /\ {l, <<l[2], l[1]>>} \subseteq open' => l[2] \notin Children(l[1])
  <2>1. /\ link[l] # <<>> => Head(link[l]).body # <<>>
        /\ link[l] = <<>> /\ {l, <<l[2], l[1]>>} \subseteq open => l[2] \notin Children(l[1])
    BY <1>2 DEF LinksFull
  <2>2. link[l] \in Seq(Fitting(l[1], l[2]))
    BY DEF LinksFit
  <2>3. CASE link'[l] = link[l]
    BY <2>1, <2>3
  <2>4. CASE /\ {l, <<l[2], l[1]>>} \subseteq open
             /\ \E y \in Fitting(l[1], l[2]) : link'[l] = Append(link[l], y)
    <3>1. PICK y \in Fitting(l[1], l[2]) : link'[l] = Append(link[l], y)
      BY <2>4
    <3>2. link'[l] # <<>> /\ Head(link'[l]) = IF link[l] = <<>> THEN y ELSE Head(link[l])
      BY <2>2, <3>1
    <3>3. l[2] \notin Children(l[1]) => y.body # <<>>
      BY DEF Fitting, Good, Message
    <3> QED BY <2>1, <2>4, <3>2, <3>3
  <2>5. CASE /\ ~({l, <<l[2], l[1]>>} \subseteq open')
             /\ \E k \in 0..Len(link[l]) : link'[l] = SubSeq(link[l], 1, k)
    BY <2>1, <2>2, <2>5, FirstPart
  <2> QED BY <2>3, <2>4, <2>5 DEF Moved, Lengthened
<1> QED BY <1>1, <1>2 DEF LinksFit, LinksFull

LEMMA WaitsMoved ==
    ASSUME RoutesInv, \A l \in Links : Moved(l), open' \subseteq open, NEW c \in Clients,
           myId[c] = 0, msgOut'[c] = <<>>, inHand'[c] = <<>>, clientsToRemove'[c] = <<>>,
           msgIn'[c] = msgIn[c]
    PROVE  ClientWaits(c)'
<1> DEFINE l == <<Parent[c], c>>
<1>1. l \in Links /\ l[1] = Parent[c] /\ l[2] = c
  BY WithinServer, ChildLinks DEF Children
<1>2. ClientWaits(c)
  BY DEF RoutesInv, Waiting
<1>3. link[l] \in Seq(Fitting(l[1], l[2])) /\ Moved(l)
  BY <1>1 DEF RoutesInv, LinksFit
<1>4. Linked(c) <=> {l, <<c, Parent[c]>>} \subseteq open
  BY DEF Linked
<1>5. Linked(c)' <=> {l, <<c, Parent[c]>>} \subseteq open'
  BY DEF Linked
<1>6. /\ msgIn[c] = <<>> /\ link[l] # <<>> => IsNotice(Head(link[l]))
      /\ msgIn[c] = <<>> /\ link[l] = <<>> => ~Linked(c)
  BY <1>2 DEF ClientWaits
<1> HIDE DEF l
<1>7. ASSUME msgIn[c] = <<>>
      PROVE  /\ link'[l] # <<>> => IsNotice(Head(link'[l]))
             /\ link'[l] = <<>> => ~Linked(c)'
  <2>1. CASE link'[l] = link[l]
    BY <1>4, <1>5, <1>6, <1>7, <2>1
  <2>2. CASE /\ {l, <<l[2], l[1]>>} \subseteq open
             /\ \E y \in Fitting(l[1], l[2]) : link'[l] = Append(link[l], y)
    <3>1. link[l] # <<>>
      BY <1>1, <1>4, <1>6, <1>7, <2>2
    <3>2. link'[l] # <<>> /\ Head(link'[l]) = Head(link[l])
      BY <1>3, <2>2, <3>1
    <3> QED BY <1>6, <1>7, <3>1, <3>2
  <2>3. CASE /\ ~({l, <<l[2], l[1]>>} \subseteq open')
             /\ \E k \in 0..Len(link[l]) : link'[l] = SubSeq(link[l], 1, k)
    BY <1>1, <1>3, <1>5, <1>6, <1>7, <2>3, FirstPart
  <2> QED BY <1>3, <2>1, <2>2, <2>3 DEF Moved, Lengthened
<1> QED BY <1>2, <1>7 DEF ClientWaits, l

(***************************************************************************)
(* The steps.  Most of them leave the ids and the accept handler alone.    *)
(***************************************************************************)
SameIds == UNCHANGED <<myId, serverConn, serverId, clientConn, connected, drawn>>

LEMMA SameIdsKept ==
    ASSUME RoutesInv, SameIds, open' \subseteq open
    PROVE  /\ Grows /\ Started' /\ IdsGiven'
           /\ \A n \in Nodes : IdOf(n)' = IdOf(n)
<1>1. \A n \in Nodes : IdOf(n)' = IdOf(n)
  BY DEF SameIds, IdOf
<1>2. Grows
  BY <1>1, GrowsIfSame
<1>3. Started' /\ IdsGiven'
  BY <1>1, <1>2, StartedKept DEF SameIds
<1> QED BY <1>1, <1>2, <1>3

LEMMA EnteringSame ==
    ASSUME accepting' = accepting
    PROVE  /\ \A n, a \in Nodes : Sender(n, a) => ~Entering(n, a)'
           /\ \A n \in Nodes : \A c \in Children(n) :
                 HasId(c) /\ ~Entering(n, c) => ~Entering(n, c)'
BY DEF Entering, Sender

\* who does not wait for its id knows it
LEMMA AwakeIf ==
    ASSUME KernalInv, RoutesInv, NEW n \in Nodes, HasId(n),
           n \in Clients => myId[n] # 0
    PROVE  Awake(n)
<1>1. CASE n \in Clients
  BY <1>1 DEF RoutesInv, Started, ClientStarted, Awake
<1>2. CASE n \notin Clients
  BY <1>2 DEF Clients, Awake, IdOf
<1> QED BY <1>1, <1>2

LEMMA Idle ==
    ASSUME RoutesInv, NEW n \in Nodes,
           msgOut[n] # <<>> \/ inHand[n] # <<>> \/ clientsToRemove[n] # <<>>
    PROVE  n \in Clients => myId[n] # 0
BY DEF RoutesInv, Waiting, ClientWaits

LEMMA DialRoutes ==
    ASSUME KernalInv, RoutesInv, NEW c \in Clients, Dial(c)
    PROVE  RoutesInv'
<1>1. /\ connected[c] = "none" /\ connected' = [connected EXCEPT ![c] = "dialed"]
      /\ UNCHANGED <<tables, drawn, clientConn, directClients, accepting, queues,
                     sending, wires, users>>
  BY DEF Dial
<1> USE DEF tables, queues, sending, wires
<1>2. \A n \in Nodes : IdOf(n)' = IdOf(n)
  BY <1>1 DEF IdOf
<1>3. Grows
  BY <1>1, <1>2, GrowsIfSame
<1>4. \A n \in Nodes : (HasId(n)' <=> HasId(n)) /\ (Awake(n)' <=> Awake(n))
  BY <1>1, <1>2 DEF HasId, Awake
<1>6. Started'
  <2> SUFFICES ASSUME NEW d \in Clients PROVE ClientStarted(d)'
    BY <1>1 DEF RoutesInv, Started
  <2>1. ClientStarted(d) /\ ClientStarted(c)
    BY DEF RoutesInv, Started
  <2>2. d \in Nodes /\ Parent[d] \in Nodes /\ c \in Nodes
    BY WithinServer
  <2>3. /\ connected'[c] = "dialed" /\ connected[c] = "none"
        /\ d # c => connected'[d] = connected[d]
    BY <1>1, <2>2 DEF KernalInv, AcceptTyped
  <2> QED BY <1>1, <1>2, <1>4, <2>1, <2>2, <2>3 DEF ClientStarted
<1>7. IdsGiven'
  BY <1>1, <1>2, <1>4 DEF RoutesInv, IdsGiven, Tags
<1>8. Waiting' /\ LinksFull'
  BY <1>1 DEF RoutesInv, Waiting, ClientWaits, Linked, LinksFull
<1>9. LinksFit'
  BY <1>1, <1>3, LinksFitKept
<1>10. Arrived' /\ Leaving' /\ Removing'
  <2>1. Arrived'
    BY <1>1, <1>3, EnteringSame, ArrivedKept DEF RoutesInv, Arrived
  <2>2. Leaving'
    BY <1>1, <1>3, LeavingKept DEF RoutesInv, Leaving
  <2>3. Removing'
    BY <1>1, <1>3, RemovingKept DEF RoutesInv, Removing
  <2> QED BY <2>1, <2>2, <2>3
<1>11. Tables'
  BY <1>1, <1>3, EnteringSame, TablesKept
<1> QED BY <1>6, <1>7, <1>8, <1>9, <1>10, <1>11 DEF RoutesInv

LEMMA HandleOutRoutes ==
    ASSUME KernalInv, RoutesInv, NEW n \in Nodes, HandleOut(n)
    PROVE  RoutesInv'
<1> DEFINE m == Head(msgOut[n])
<1>1. /\ msgOut[n] # <<>> /\ msgOut' = [msgOut EXCEPT ![n] = Tail(@)]
      /\ SendMessage(n, m)
      /\ UNCHANGED <<tables, accepted, msgIn, inHand, wires, users>>
  BY DEF HandleOut
<1>2. m \in ToSend(n) /\ Tail(msgOut[n]) \in Seq(ToSend(n))
  BY <1>1 DEF RoutesInv, Leaving
<1> HIDE DEF m
<1>3. Awake(n)
  BY <1>1, <1>2, AwakeIf, Idle DEF ToSend
<1>4. Allowed(n, m, Route(n, m))
  BY <1>2, <1>3, OutAllowed
<1>5. /\ \A l \in Links : Moved(l)
      /\ \A k \in Nodes : clientsToRemove'[k] \in Seq(Dropped(k))
      /\ \A k \in Nodes : k # n => clientsToRemove'[k] = clientsToRemove[k]
  BY <1>1, <1>3, <1>4, SendMoves
<1> USE DEF tables, accepted, wires
<1>6. Grows /\ Started' /\ IdsGiven'
  BY <1>1, SameIdsKept DEF SameIds
<1>7. LinksFit' /\ LinksFull'
  BY <1>1, <1>5, <1>6, LinksMoved
<1>8. msgOut \in [Nodes -> Seq(Good)]
  BY DEF KernalInv, QueuesTyped
<1>9. Waiting'
  <2> SUFFICES ASSUME NEW c \in Clients, myId[c] = 0 PROVE ClientWaits(c)'
    BY <1>1 DEF Waiting
  <2>1. ClientWaits(c) /\ c \in Nodes
    BY WithinServer DEF RoutesInv, Waiting
  <2>2. c # n
    BY <1>1, <2>1 DEF ClientWaits
  <2>3. msgOut'[c] = <<>> /\ inHand'[c] = <<>> /\ clientsToRemove'[c] = <<>>
    BY <1>1, <1>5, <1>8, <2>1, <2>2 DEF ClientWaits
  <2> QED BY <1>1, <1>5, <2>3, WaitsMoved
<1>10. Arrived'
  BY <1>1, <1>6, EnteringSame, ArrivedKept DEF RoutesInv, Arrived
<1>11. Leaving'
  <2>1. \A k \in Nodes : msgOut'[k] \in Seq(ToSend(k))
    BY <1>1, <1>2, <1>8 DEF RoutesInv, Leaving
  <2> QED BY <1>1, <1>6, <2>1, LeavingKept
<1>12. Tables'
  BY <1>1, <1>6, EnteringSame, TablesKept
<1>13. Removing'
  BY <1>1, <1>5, <1>6, RemovingKept DEF RoutesInv, Removing
<1> QED BY <1>6, <1>7, <1>9, <1>10, <1>11, <1>12, <1>13 DEF RoutesInv

LEMMA SubmitRoutes ==
    ASSUME KernalInv, RoutesInv, NEW n \in Nodes, Submit(n)
    PROVE  RoutesInv'
<1> DEFINE tag == Len(submitted) + 1
           src == IF n = Root THEN 0 ELSE myId[n]
<1>1. /\ myId[n] # 0 /\ Len(submitted) < MaxSubmit
      /\ UNCHANGED <<tables, accepted, msgIn, inHand, sending, wires, lost>>
      /\ \E dest \in {0} \cup (announced[n] \ {myId[n]}) :
            msgOut' = [msgOut EXCEPT ![n] = Append(@,
                [dest |-> dest, src |-> src, kind |-> "user", body |-> <<tag>>])]
  BY DEF Submit
<1>2. PICK dest \in {0} \cup (announced[n] \ {myId[n]}) :
         msgOut' = [msgOut EXCEPT ![n] = Append(@,
             [dest |-> dest, src |-> src, kind |-> "user", body |-> <<tag>>])]
  BY <1>1
<1>3. dest \in Nat /\ src \in Nat
  BY <1>2 DEF KernalInv, TablesTyped
<1>4. tag \in Tags /\ tag \in Nat
  BY <1>1, TreeAssumption DEF Tags, KernalInv, RestTyped
<1> USE DEF tables, accepted, sending, wires
<1>5. HasId(n)
  <2>1. CASE n \in Clients
    BY <1>1, <2>1 DEF RoutesInv, Started, ClientStarted, HasId
  <2>2. CASE n \notin Clients
    BY <1>1, <2>2 DEF Clients, HasId, IdOf
  <2> QED BY <2>1, <2>2
<1> DEFINE m == [dest |-> dest, src |-> src, kind |-> "user", body |-> <<tag>>]
<1> HIDE DEF tag, src
<1>6. m \in ToSend(n)
  <2>1. <<tag>> \in Seq(Nat) /\ <<tag>> \in Seq(Tags) /\ <<tag>> # <<>> /\ <<tag>>[1] = tag
    BY <1>4
  <2>2. m \in Good
    BY <1>3, <1>4, <2>1 DEF Good, Message, Tags
  <2> QED BY <1>5, <2>1, <2>2 DEF ToSend
<1> HIDE DEF m
<1>7. msgOut' = [msgOut EXCEPT ![n] = Append(@, m)]
  BY <1>2 DEF m
<1>8. Grows /\ Started' /\ IdsGiven'
  BY <1>1, SameIdsKept DEF SameIds
<1>9. msgOut \in [Nodes -> Seq(Good)]
  BY DEF KernalInv, QueuesTyped
<1>10. Waiting'
  <2> SUFFICES ASSUME NEW c \in Clients, myId[c] = 0 PROVE ClientWaits(c)'
    BY <1>1 DEF Waiting
  <2>1. ClientWaits(c) /\ c \in Nodes /\ c # n
    BY <1>1, WithinServer DEF RoutesInv, Waiting
  <2>2. msgOut'[c] = msgOut[c]
    BY <1>7, <1>9, <2>1
  <2> QED BY <1>1, <2>1, <2>2 DEF ClientWaits, Linked
<1>11. LinksFit' /\ LinksFull'
  BY <1>1, <1>8, LinksFitKept DEF RoutesInv, LinksFull
<1>12. Arrived'
  BY <1>1, <1>8, EnteringSame, ArrivedKept DEF RoutesInv, Arrived
<1>13. Leaving'
  <2>1. \A k \in Nodes : msgOut[k] \in Seq(ToSend(k))
    BY DEF RoutesInv, Leaving
  <2>2. Append(msgOut[n], m) \in Seq(ToSend(n))
    BY <1>6, <2>1
  <2>3. \A k \in Nodes : msgOut'[k] \in Seq(ToSend(k))
    BY <1>7, <1>9, <2>1, <2>2
  <2> QED BY <1>1, <1>8, <2>3, LeavingKept
<1>14. Tables' /\ Removing'
  <2>1. Tables'
    BY <1>1, <1>8, EnteringSame, TablesKept
  <2>2. Removing'
    BY <1>1, <1>8, RemovingKept DEF RoutesInv, Removing
  <2> QED BY <2>1, <2>2
<1> QED BY <1>8, <1>10, <1>11, <1>12, <1>13, <1>14 DEF RoutesInv

LEMMA ClosesRoutes ==
    ASSUME KernalInv, RoutesInv, NEW n \in Nodes, NEW k \in Nodes, Closes(n, k)
    PROVE  RoutesInv'
<1>1. /\ <<n, k>> \in open /\ open' = open \ {<<n, k>>}
      /\ UNCHANGED <<tables, accepted, queues, clientsToRemove, notFound, lastBody, users>>
  BY DEF Closes
<1>2. PICK i \in 0..Len(link[<<n, k>>]) :
         link' = [link EXCEPT ![<<k, n>>] = <<>>, ![<<n, k>>] = SubSeq(@, 1, i)]
  BY DEF Closes
<1> USE DEF tables, accepted, queues
<1>3. /\ <<n, k>> \in Links /\ <<k, n>> \in Links /\ n # k
      /\ link \in [Links -> Seq(Good)]
  <2>1. <<n, k>> \in Links /\ link \in [Links -> Seq(Good)]
    BY <1>1 DEF KernalInv, WiresTyped
  <2>2. k \in Neighbours(n)
    BY <2>1 DEF Neighbours
  <2> QED BY <2>1, <2>2, NeighbourIs
<1>4. ASSUME NEW l \in Links PROVE Moved(l)
  <2>1. CASE l = <<k, n>>
    <3>1. link'[l] = <<>> /\ ~({l, <<l[2], l[1]>>} \subseteq open')
      BY <1>1, <1>2, <1>3, <2>1
    <3>2. link[l] \in Seq(Good) /\ 0 \in 0..Len(link[l]) /\ SubSeq(link[l], 1, 0) = <<>>
      BY <1>3, SubSeqEmpty
    <3> QED BY <3>1, <3>2 DEF Moved
  <2>2. CASE l = <<n, k>>
    <3>1. link'[l] = SubSeq(link[l], 1, i) /\ ~({l, <<l[2], l[1]>>} \subseteq open')
      BY <1>1, <1>2, <1>3, <2>2
    <3> QED BY <1>2, <2>2, <3>1 DEF Moved
  <2>3. CASE l # <<k, n>> /\ l # <<n, k>>
    BY <1>2, <1>3, <2>3 DEF Moved, Lengthened
  <2> QED BY <2>1, <2>2, <2>3
<1>5. Grows /\ Started' /\ IdsGiven'
  BY <1>1, SameIdsKept DEF SameIds
<1>6. LinksFit' /\ LinksFull'
  BY <1>1, <1>4, <1>5, LinksMoved
<1>7. Waiting'
  <2> SUFFICES ASSUME NEW c \in Clients, myId[c] = 0 PROVE ClientWaits(c)'
    BY <1>1 DEF Waiting
  <2>1. ClientWaits(c)
    BY DEF RoutesInv, Waiting
  <2> QED BY <1>1, <1>4, <2>1, WaitsMoved DEF ClientWaits
<1>8. Arrived'
  BY <1>1, <1>5, EnteringSame, ArrivedKept DEF RoutesInv, Arrived
<1>9. Leaving'
  BY <1>1, <1>5, LeavingKept DEF RoutesInv, Leaving
<1>10. Tables' /\ Removing'
  <2>1. Tables'
    BY <1>1, <1>5, EnteringSame, TablesKept
  <2>2. Removing'
    BY <1>1, <1>5, RemovingKept DEF RoutesInv, Removing
  <2> QED BY <2>1, <2>2
<1> QED BY <1>5, <1>6, <1>7, <1>8, <1>9, <1>10 DEF RoutesInv

(***************************************************************************)
(* The accept handler.                                                     *)
(***************************************************************************)
\* the client the handler works for
LEMMA HandlerClient ==
    ASSUME KernalInv, RoutesInv, NEW n \in Nodes, accepting[n].at # "no"
    PROVE  LET c == accepting[n].client
           IN /\ c \in Children(n) /\ HasId(c) /\ clientConn[c].otherId = IdOf(c)
              /\ Awake(n) /\ Entering(n, c)
<1> DEFINE c == accepting[n].client
<1>1. c \in Children(n) /\ HasId(c) /\ Entering(n, c)
  BY DEF KernalInv, AcceptTyped, RoutesInv, Leaving, Entering
<1> HIDE DEF c
<1>2. c \in Clients /\ Parent[c] = n /\ clientConn[c].otherId = IdOf(c)
  BY <1>1, ChildLinks DEF IdOf, Clients
<1>3. Awake(n)
  BY <1>1, <1>2 DEF RoutesInv, Started, ClientStarted
<1> QED BY <1>1, <1>2, <1>3 DEF c

\* the list for a new client names nobody at or below it
LEMMA ListFits ==
    ASSUME KernalInv, RoutesInv, NEW n \in Nodes, NEW c \in Children(n), Entering(n, c)
    PROVE  idsFromServer[n] \o Keys(clientToDirectClient[n]) \in Seq(Of(Side(n, c)))
<1> DEFINE f == clientToDirectClient[n]
<1>1. c \in Neighbours(n) /\ n \notin Children(c) /\ Side(n, c) = Behind(c)
  <2>1. c \in Neighbours(n)
    BY ChildLinks DEF Neighbours
  <2> QED BY <2>1, NeighbourIs DEF Side
<1>2. Behind(n) \subseteq Side(n, c)
  <2>1. Within[c] \subseteq Within[n] /\ n \notin Within[c] /\ n \in Nodes
    BY ChildWithin, <1>1, NeighbourIs
  <2> QED BY <1>1, <2>1 DEF Behind
<1>3. idsFromServer[n] \in Seq(Of(Side(n, c)))
  <2>1. Of(Behind(n)) \subseteq Of(Side(n, c))
    BY <1>2, OfWider
  <2> QED BY <2>1, SeqOver DEF RoutesInv, Tables
<1>4. DOMAIN f \subseteq Of(Side(n, c))
  <2> SUFFICES ASSUME NEW x \in DOMAIN f PROVE x \in Of(Side(n, c))
    OBVIOUS
  <2>1. Filed(n, x)
    BY DEF RoutesInv, Tables
  <2>2. PICK d \in Children(n) : ~Entering(n, d) /\ x \in Of(Within[d])
    BY <2>1 DEF Filed
  <2>3. Within[d] \subseteq Side(n, c)
    BY <1>1, <2>2, SideOwn
  <2> HIDE DEF f
  <2> QED BY <2>2, <2>3, OfWider
<1>5. Keys(f) \in Seq(DOMAIN f)
  <2>1. f \in MapsTo(Nat)
    BY DEF KernalInv, TablesTyped
  <2> HIDE DEF f
  <2> QED BY <2>1, KeysIn
<1> HIDE DEF f
<1>6. Keys(f) \in Seq(Of(Side(n, c)))
  BY <1>4, <1>5, SeqOver
<1> QED BY <1>3, <1>6 DEF f

LEMMA AcceptListRoutes ==
    ASSUME KernalInv, RoutesInv, NEW n \in Nodes, AcceptList(n)
    PROVE  RoutesInv'
<1> DEFINE c == accepting[n].client
           list == idsFromServer[n] \o Keys(clientToDirectClient[n])
           now == [at |-> "inserting", client |-> c,
                   msg |-> Added(n, clientConn[c].otherId, list)]
<1>1. /\ accepting[n].at = "listing" /\ accepting' = [accepting EXCEPT ![n] = now]
      /\ UNCHANGED <<tables, drawn, clientConn, connected, directClients, queues,
                     sending, wires, users>>
  BY DEF AcceptList
<1>2. /\ c \in Children(n) /\ HasId(c) /\ clientConn[c].otherId = IdOf(c)
      /\ Awake(n) /\ Entering(n, c)
  BY <1>1, HandlerClient
<1>3. now.msg \in ToSend(n)
  <2> HIDE DEF c, list
  <2>1. now.msg = [dest |-> IdOf(c), src |-> IdOf(n), kind |-> "new", body |-> list]
    BY <1>2 DEF Added, Awake
  <2>2. list \in Seq(Of(Side(n, c)))
    BY <1>2, ListFits DEF list
  <2>3. now.msg \in Good
    <3>1. list \in Seq(Nat)
      <4>1. Of(Side(n, c)) \subseteq Nat
        <5>1. \A k \in Nodes : IdOf(k) \in Nat
          BY DEF IdOf, KernalInv, TablesTyped, AcceptTyped
        <5> QED BY <5>1 DEF Of, Names, Tags
      <4> QED BY <2>2, <4>1, SeqOver
    <3>2. IdOf(c) \in Nat /\ IdOf(n) \in Nat /\ c \in Nodes
      BY <1>2, ChildLinks DEF IdOf, KernalInv, TablesTyped, AcceptTyped
    <3>3. IdOf(c) # 1
      BY <1>2, ChildId
    <3> QED BY <2>1, <3>1, <3>2, <3>3 DEF Good, Message
  <2> HIDE DEF now
  <2> QED BY <1>2, <2>1, <2>2, <2>3 DEF ToSend, Awake
<1>4. now.at = "inserting" /\ now.client = c
  OBVIOUS
<1>5. accepting \in [Nodes -> {NotAccepting} \cup Listing \cup Inserting]
  BY DEF KernalInv, AcceptTyped
<1> HIDE DEF now, list, c
<1>6. /\ accepting'[n] = now
      /\ \A k \in Nodes : k # n => accepting'[k] = accepting[k]
  BY <1>1, <1>5
<1>7. \A k, a \in Nodes : Entering(k, a)' <=> Entering(k, a)
  <2>1. accepting[n].at # "no" /\ accepting[n].client = c
    BY <1>1 DEF c
  <2>2. \A a \in Nodes : Entering(n, a)' <=> Entering(n, a)
    BY <1>4, <1>6, <2>1 DEF Entering
  <2>3. \A k, a \in Nodes : k # n => (Entering(k, a)' <=> Entering(k, a))
    BY <1>6 DEF Entering
  <2> QED BY <2>2, <2>3
<1> USE DEF tables, queues, sending, wires
<1>8. Grows /\ Started' /\ IdsGiven'
  BY <1>1, SameIdsKept DEF SameIds
<1>9. Waiting' /\ LinksFull'
  BY <1>1 DEF RoutesInv, Waiting, ClientWaits, Linked, LinksFull
<1>10. LinksFit'
  BY <1>1, <1>8, LinksFitKept
<1>11. Arrived'
  <2>1. \A k, a \in Nodes : Sender(k, a) => ~Entering(k, a)'
    BY <1>7 DEF Sender
  <2>2. \A k \in Nodes : msgIn'[k] \in Seq(Heard(k)) /\ inHand'[k] \in Seq(Heard(k))
    BY <1>1 DEF RoutesInv, Arrived
  <2> QED BY <1>8, <2>1, <2>2, ArrivedKept
<1>12. Leaving'
  <2>1. ASSUME NEW k \in Nodes
        PROVE  /\ msgOut[k] \in Seq(ToSend(k)') /\ ToSend(k) \subseteq ToSend(k)'
               /\ accepting[k].at = "inserting" => accepting[k].msg \in ToSend(k)'
    <3>1. ToSend(k) \subseteq ToSend(k)' /\ Seq(ToSend(k)) \subseteq Seq(ToSend(k)')
      BY <1>8, ToSendKept, SeqOver
    <3> QED BY <3>1 DEF RoutesInv, Leaving
  <2>2. ASSUME NEW k \in Nodes, accepting'[k].at # "no"
        PROVE  \E d \in Nodes : accepting'[k].client = d /\ HasId(d)'
    <3>1. accepting[k].at # "no" /\ accepting'[k].client = accepting[k].client
      BY <1>1, <1>4, <1>6, <2>2 DEF c
    <3>2. PICK d \in Nodes : accepting[k].client = d /\ HasId(d)
      BY <3>1, ChildLinks DEF KernalInv, AcceptTyped, RoutesInv, Leaving
    <3> QED BY <1>8, <3>1, <3>2, IdsKept
  <2>3. ASSUME NEW k \in Nodes, accepting'[k].at = "inserting"
        PROVE  accepting'[k].msg \in ToSend(k)'
    BY <1>3, <1>6, <2>1, <2>3
  <2>4. \A k \in Nodes : accepting'[k].at # "no" => HasId(accepting[k].client)'
    BY <2>2
  <2>5. \A k \in Nodes : msgOut'[k] \in Seq(ToSend(k)')
    BY <1>1, <2>1
  <2> QED BY <2>3, <2>4, <2>5 DEF Leaving
<1>13. Tables'
  <2>1. \A k \in Nodes : \A d \in Children(k) : HasId(d) /\ ~Entering(k, d) => ~Entering(k, d)'
    BY <1>7, ChildLinks
  <2> QED BY <1>1, <1>8, <2>1, TablesKept
<1>14. Removing'
  BY <1>1, <1>8, RemovingKept DEF RoutesInv, Removing
<1> QED BY <1>8, <1>9, <1>10, <1>11, <1>12, <1>13, <1>14 DEF RoutesInv

LEMMA AcceptInsertRoutes ==
    ASSUME KernalInv, RoutesInv, NEW n \in Nodes, AcceptInsert(n)
    PROVE  RoutesInv'
<1>1. accepting[n].at = "inserting"
  BY DEF AcceptInsert
<1>2. PICK c \in Children(n) :
         /\ accepting[n].client = c /\ HasId(c) /\ clientConn[c].otherId = IdOf(c)
         /\ Awake(n) /\ Entering(n, c)
  BY <1>1, HandlerClient
<1>3. PICK id : id = IdOf(c) /\ id # 0
  BY <1>2 DEF HasId
<1>4. /\ directClients' = [directClients EXCEPT ![n] = Insert(@, id, c)]
      /\ clientToDirectClient' = [clientToDirectClient EXCEPT ![n] = Insert(@, id, id)]
      /\ msgOut' = [msgOut EXCEPT ![n] = Append(@, accepting[n].msg)]
      /\ accepting' = [accepting EXCEPT ![n] = NotAccepting]
      /\ UNCHANGED <<myId, serverId, idsFromServer, serverConn, announced, used,
                     removed, drawn, clientConn, connected, msgIn, inHand,
                     sending, wires, users>>
      /\ accepting[n].msg \in ToSend(n)
  BY <1>1, <1>2, <1>3 DEF AcceptInsert, RoutesInv, Leaving
<1>5. /\ accepting \in [Nodes -> {NotAccepting} \cup Listing \cup Inserting]
      /\ msgOut \in [Nodes -> Seq(Good)]
      /\ clientToDirectClient \in [Nodes -> MapsTo(Nat)]
      /\ directClients \in [Nodes -> MapsTo(Clients)]
      /\ c \in Nodes
  BY ChildLinks DEF KernalInv, AcceptTyped, QueuesTyped, TablesTyped
<1>6. \A k, a \in Nodes : Entering(k, a)' => Entering(k, a)
  <2>1. accepting'[n].at = "no" /\ \A k \in Nodes : k # n => accepting'[k] = accepting[k]
    BY <1>4, <1>5 DEF NotAccepting
  <2> QED BY <2>1 DEF Entering
<1> USE DEF sending, wires
<1>7. Grows /\ Started' /\ IdsGiven'
  BY <1>4, SameIdsKept DEF SameIds
<1>8. Waiting'
  <2> SUFFICES ASSUME NEW d \in Clients, myId[d] = 0 PROVE ClientWaits(d)'
    BY <1>4 DEF Waiting
  <2>1. ClientWaits(d) /\ d \in Nodes /\ d # n
    BY <1>2, WithinServer DEF RoutesInv, Waiting, Awake, HasId
  <2>2. msgOut'[d] = msgOut[d]
    BY <1>4, <1>5, <2>1
  <2> QED BY <1>4, <2>1, <2>2 DEF ClientWaits, Linked
<1>9. LinksFit' /\ LinksFull'
  BY <1>4, <1>7, LinksFitKept DEF RoutesInv, LinksFull
<1>10. Arrived'
  <2>1. \A k, a \in Nodes : Sender(k, a) => ~Entering(k, a)'
    BY <1>6 DEF Sender
  <2>2. \A k \in Nodes : msgIn'[k] \in Seq(Heard(k)) /\ inHand'[k] \in Seq(Heard(k))
    BY <1>4 DEF RoutesInv, Arrived
  <2> QED BY <1>7, <2>1, <2>2, ArrivedKept
<1>11. Leaving'
  <2>1. ASSUME NEW k \in Nodes
        PROVE  /\ msgOut'[k] \in Seq(ToSend(k)')
               /\ accepting'[k].at = "inserting" => accepting'[k].msg \in ToSend(k)'
               /\ accepting'[k].at # "no" => \E d \in Nodes : accepting'[k].client = d /\ HasId(d)'
    <3>1. ToSend(k) \subseteq ToSend(k)' /\ Seq(ToSend(k)) \subseteq Seq(ToSend(k)')
      BY <1>7, ToSendKept, SeqOver
    <3>2. msgOut'[k] \in Seq(ToSend(k))
      BY <1>4, <1>5 DEF RoutesInv, Leaving
    <3>3. accepting'[k].at = "no" \/ accepting'[k] = accepting[k]
      BY <1>4, <1>5 DEF NotAccepting
    <3>4. accepting[k].at # "no" => \E d \in Nodes : accepting[k].client = d /\ HasId(d)
      BY ChildLinks DEF KernalInv, AcceptTyped, RoutesInv, Leaving
    <3>5. accepting[k].at = "inserting" => accepting[k].msg \in ToSend(k)
      BY DEF RoutesInv, Leaving
    <3> QED BY <1>7, <3>1, <3>2, <3>3, <3>4, <3>5, IdsKept
  <2>2. \A k \in Nodes : accepting'[k].at # "no" => HasId(accepting[k].client)'
    BY <2>1
  <2> QED BY <2>1, <2>2 DEF Leaving
<1>12. \A k \in Nodes : \A x \in DOMAIN clientToDirectClient'[k] : Filed(k, x)'
  <2> SUFFICES ASSUME NEW k \in Nodes, NEW x \in DOMAIN clientToDirectClient'[k]
               PROVE  Filed(k, x)'
    OBVIOUS
  <2>1. \A d \in Children(k) : HasId(d) /\ ~Entering(k, d) => ~Entering(k, d)'
    BY <1>6, ChildLinks
  <2>2. ASSUME x \in DOMAIN clientToDirectClient[k],
               clientToDirectClient'[k][x] = clientToDirectClient[k][x]
        PROVE  Filed(k, x)'
    BY <1>7, <2>1, <2>2, FiledKept DEF RoutesInv, Tables
  <2>3. CASE k # n
    BY <1>4, <1>5, <2>2, <2>3
  <2>4. clientToDirectClient'[n] = Insert(clientToDirectClient[n], id, id)
    BY <1>4, <1>5
  <2>5. CASE k = n /\ x \in DOMAIN clientToDirectClient[n]
    BY <2>2, <2>4, <2>5 DEF Insert
  <2>6. CASE k = n /\ x \notin DOMAIN clientToDirectClient[n]
    <3>1. x = id /\ clientToDirectClient'[n][x] = id
      BY <2>4, <2>6 DEF Insert
    <3>2. HasId(c)' /\ IdOf(c)' = id
      BY <1>2, <1>3, <1>5, <1>7, IdsKept
    <3>3. ~Entering(n, c)'
      BY <1>4, <1>5 DEF Entering, NotAccepting
    <3>4. id \in Of(Within[c])
      BY <1>2, <1>3, <1>5, ChildId, WithinIs DEF Of
    <3>5. id \in Of(Within[c])'
      BY <1>7, <3>4, OfKept
    <3> QED BY <2>6, <3>1, <3>2, <3>3, <3>5 DEF Filed
  <2> QED BY <2>3, <2>5, <2>6
<1>13. Tables'
  <2>1. ASSUME NEW k \in Nodes PROVE idsFromServer'[k] \in Seq(Of(Behind(k))')
    BY <1>4, <1>7, OfKept, SeqOver DEF RoutesInv, Tables
  <2>2. ASSUME NEW k \in Nodes, NEW i \in DOMAIN directClients'[k]
        PROVE  \E d \in Nodes : directClients'[k][i] = d /\ i # 0 /\ IdOf(d)' = i
    <3>1. ASSUME i \in DOMAIN directClients[k], directClients'[k][i] = directClients[k][i]
          PROVE  \E d \in Nodes : directClients'[k][i] = d /\ i # 0 /\ IdOf(d)' = i
      <4>1. PICK d \in Children(k) : directClients[k][i] = d /\ i # 0 /\ IdOf(d)' = i
        BY <1>7, <3>1, DirectKept
      <4>2. d \in Nodes /\ directClients'[k][i] = d
        BY <3>1, <4>1, ChildLinks
      <4> QED BY <4>1, <4>2
    <3>2. CASE k # n
      BY <1>4, <1>5, <3>1, <3>2
    <3>3. directClients'[n] = Insert(directClients[n], id, c)
      BY <1>4, <1>5
    <3>4. CASE k = n /\ i \in DOMAIN directClients[n]
      BY <3>1, <3>3, <3>4 DEF Insert
    <3>5. CASE k = n /\ i \notin DOMAIN directClients[n]
      <4>1. i = id /\ directClients'[n][i] = c
        BY <3>3, <3>5 DEF Insert
      <4>2. IdOf(c)' = id
        BY <1>2, <1>3, <1>5, <1>7, IdsKept
      <4> QED BY <1>3, <1>5, <3>5, <4>1, <4>2
    <3> QED BY <3>2, <3>4, <3>5
  <2>3. \A k \in Nodes : \A i \in DOMAIN directClients'[k] :
           i # 0 /\ IdOf(directClients[k][i])' = i
    BY <2>2
  <2> QED BY <1>12, <2>1, <2>3 DEF Tables
<1>14. Removing'
  BY <1>4, <1>7, RemovingKept DEF RoutesInv, Removing
<1> QED BY <1>7, <1>8, <1>9, <1>10, <1>11, <1>13, <1>14 DEF RoutesInv

(***************************************************************************)
(* Messages that arrive.  Nothing comes from a client the accept handler   *)
(* still works for.                                                        *)
(***************************************************************************)
LEMMA DeliverRoutes ==
    ASSUME KernalInv, RoutesInv, NEW l \in Links, Deliver(l),
           accepting[l[2]] = NotAccepting
    PROVE  RoutesInv'
<1> DEFINE m == Head(link[l])
           body == IF m.body = <<>> THEN lastBody[l] ELSE m.body
           y == [m EXCEPT !.body = body]
<1>1. PICK a \in Nodes, b \in Nodes :
         /\ a = l[1] /\ b = l[2] /\ l = <<a, b>> /\ b \in Neighbours(a) /\ a \in Neighbours(b)
  <2>1. l[1] \in Nodes /\ l[2] \in Nodes /\ l = <<l[1], l[2]>> /\ l[2] \in Neighbours(l[1])
    BY LinkIs
  <2>2. \A a, b \in Nodes : b \in Neighbours(a) => a \in Neighbours(b)
    BY NeighbourIs
  <2> QED BY <2>1, <2>2
<1>2. /\ link[l] # <<>>
      /\ msgIn' = [msgIn EXCEPT ![b] = Append(@, y)]
      /\ lastBody' = [lastBody EXCEPT ![l] = body]
      /\ link' = [link EXCEPT ![l] = Tail(@)]
      /\ UNCHANGED <<tables, accepted, msgOut, inHand, clientsToRemove, notFound,
                     open, users>>
  BY <1>1 DEF Deliver
<1>3. /\ link \in [Links -> Seq(Good)] /\ lastBody \in [Links -> Seq(Nat)]
      /\ msgIn \in [Nodes -> Seq(Good)]
  BY DEF KernalInv, WiresTyped, QueuesTyped
<1>4. /\ link[l] \in Seq(Fitting(a, b)) /\ lastBody[l] \in Seq(Of(Side(a, b)))
      /\ HasId(a) /\ HasId(b)
  BY <1>1, <1>2 DEF RoutesInv, LinksFit
<1>5. m \in Fitting(a, b) /\ Tail(link[l]) \in Seq(Fitting(a, b))
  BY <1>2, <1>4
<1>6. lastBody[l] = <<>> => m.body # <<>>
  BY <1>2 DEF RoutesInv, LinksFull
<1>7. Sender(b, a)
  BY <1>1, <1>4 DEF Sender, Entering, NotAccepting
<1> HIDE DEF m
<1>8. body # <<>> /\ body \in Seq(Of(Side(a, b))) /\ body \in Seq(Nat)
  <2>1. m.body \in Seq(Of(Side(a, b))) /\ m.body \in Seq(Nat)
    BY <1>5 DEF Fitting, Good, Message
  <2> QED BY <1>3, <1>4, <1>6, <2>1
<1>9. m.body = <<>> => m.kind = "new" /\ b \in Children(a) /\ m.dest = IdOf(b)
  BY <1>5 DEF Fitting, Good, Message
<1> HIDE DEF body
<1>10. y \in Fitting(a, b) /\ y.body # <<>> /\ y.kind = m.kind /\ y.dest = m.dest
  <2>1. m \in Good /\ m \in Message
    BY <1>5 DEF Fitting, Good
  <2>2. y = [dest |-> m.dest, src |-> m.src, kind |-> m.kind, body |-> body]
    BY <2>1 DEF Message
  <2>3. CASE m.body # <<>>
    <3>1. y = m
      BY <2>1, <2>2, <2>3 DEF body, Message
    <3> QED BY <1>5, <2>3, <3>1
  <2>4. CASE m.body = <<>>
    <3>1. m.kind = "new" /\ b \in Children(a) /\ m.dest = IdOf(b) /\ m.src = IdOf(a)
      BY <1>5, <1>9, <2>4 DEF Fitting
    <3>2. y \in Good
      BY <1>8, <2>1, <2>2, <3>1 DEF Good, Message
    <3> HIDE DEF y
    <3> QED BY <1>8, <2>2, <3>1, <3>2 DEF Fitting
  <2> QED BY <2>3, <2>4
<1> HIDE DEF y
<1>11. y \in Heard(b)
  <2>1. y \in Good
    BY <1>10 DEF Fitting
  <2> QED BY <1>7, <1>10, <2>1 DEF Heard
<1> USE DEF tables, accepted
<1>12. Grows /\ Started' /\ IdsGiven'
  BY <1>2, SameIdsKept DEF SameIds
<1>13. LinksFit'
  <2> SUFFICES ASSUME NEW k \in Links
               PROVE  /\ link'[k] \in Seq(Fitting(k[1], k[2])')
                      /\ lastBody'[k] \in Seq(Of(Side(k[1], k[2]))')
                      /\ link'[k] # <<>> \/ lastBody'[k] # <<>> => HasId(k[1])' /\ HasId(k[2])'
    BY DEF LinksFit
  <2>1. /\ link'[k] \in Seq(Fitting(k[1], k[2]))
        /\ lastBody'[k] \in Seq(Of(Side(k[1], k[2])))
        /\ link'[k] # <<>> \/ lastBody'[k] # <<>> => HasId(k[1]) /\ HasId(k[2])
    <3>1. CASE k = l
      BY <1>1, <1>2, <1>3, <1>4, <1>5, <1>8, <3>1
    <3>2. CASE k # l
      BY <1>2, <1>3, <3>2 DEF RoutesInv, LinksFit
    <3> QED BY <3>1, <3>2
  <2>2. link'[k] \in Seq(Fitting(k[1], k[2])')
    <3>1. CASE link'[k] = <<>>
      BY <3>1
    <3>2. CASE link'[k] # <<>>
      <4>1. Fitting(k[1], k[2]) \subseteq Fitting(k[1], k[2])'
        BY <1>12, <2>1, <3>2, LinkIs, FittingKept
      <4> QED BY <2>1, <4>1, SeqOver
    <3> QED BY <3>1, <3>2
  <2>3. Seq(Of(Side(k[1], k[2]))) \subseteq Seq(Of(Side(k[1], k[2]))')
    BY <1>12, OfKept, SeqOver
  <2> QED BY <1>12, <2>1, <2>2, <2>3, LinkIs, IdsKept
<1>14. LinksFull'
  <2>1. lastBody'[l] # <<>>
    BY <1>2, <1>3, <1>8
  <2>2. \A k \in Links : k # l => link'[k] = link[k] /\ lastBody'[k] = lastBody[k]
    BY <1>2, <1>3
  <2> QED BY <1>2, <2>1, <2>2 DEF RoutesInv, LinksFull
<1>15. Waiting'
  <2> SUFFICES ASSUME NEW c \in Clients, myId[c] = 0 PROVE ClientWaits(c)'
    BY <1>2 DEF Waiting
  <2>1. ClientWaits(c) /\ c \in Nodes /\ <<Parent[c], c>> \in Links
    BY WithinServer, ChildLinks DEF RoutesInv, Waiting, Children
  <2>2. CASE b # c
    <3>1. msgIn'[c] = msgIn[c] /\ link'[<<Parent[c], c>>] = link[<<Parent[c], c>>]
      BY <1>1, <1>2, <1>3, <2>1, <2>2
    <3> QED BY <1>2, <2>1, <3>1 DEF ClientWaits, Linked
  <2>3. CASE b = c
    <3>1. a \notin Children(c)
      <4>1. ASSUME a \in Children(c) PROVE FALSE
        <5>1. a \in Clients /\ Parent[a] = c
          BY <2>1, <4>1, ChildLinks
        <5>2. Awake(c)
          BY <1>4, <5>1 DEF RoutesInv, Started, ClientStarted
        <5> QED BY <1>4, <2>3, <5>2 DEF Awake, HasId
      <4> QED BY <4>1
    <3>2. l = <<Parent[c], c>>
      BY <1>1, <2>1, <2>3, <3>1, NeighbourIs
    <3>3. msgIn'[c] # <<>> /\ IsNotice(Head(msgIn'[c]))
      <4>1. msgIn[c] \in Seq(Good) /\ msgIn'[c] = Append(msgIn[c], y)
        BY <1>2, <1>3, <2>1, <2>3
      <4>2. CASE msgIn[c] = <<>>
        <5>1. IsNotice(m)
          BY <1>2, <2>1, <3>2, <4>2 DEF ClientWaits, m
        <5>2. Head(msgIn'[c]) = y /\ msgIn'[c] # <<>>
          BY <4>1, <4>2
        <5> QED BY <1>10, <5>1, <5>2 DEF IsNotice
      <4>3. CASE msgIn[c] # <<>>
        <5>1. Head(msgIn'[c]) = Head(msgIn[c]) /\ msgIn'[c] # <<>>
          BY <4>1, <4>3
        <5> QED BY <2>1, <4>3, <5>1 DEF ClientWaits
      <4> QED BY <4>2, <4>3
    <3> QED BY <1>2, <2>1, <3>3 DEF ClientWaits
  <2> QED BY <2>2, <2>3
<1>16. Arrived'
  <2>1. \A k \in Nodes : msgIn[k] \in Seq(Heard(k)) /\ inHand'[k] \in Seq(Heard(k))
    BY <1>2 DEF RoutesInv, Arrived
  <2>2. Append(msgIn[b], y) \in Seq(Heard(b))
    BY <1>11, <2>1
  <2>3. \A k \in Nodes : msgIn'[k] \in Seq(Heard(k))
    BY <1>2, <1>3, <2>1, <2>2
  <2> QED BY <1>2, <1>12, <2>1, <2>3, EnteringSame, ArrivedKept
<1>17. Leaving'
  BY <1>2, <1>12, LeavingKept DEF RoutesInv, Leaving
<1>18. Tables' /\ Removing'
  <2>1. Tables'
    BY <1>2, <1>12, EnteringSame, TablesKept
  <2>2. Removing'
    BY <1>2, <1>12, RemovingKept DEF RoutesInv, Removing
  <2> QED BY <2>1, <2>2
<1> QED BY <1>12, <1>13, <1>14, <1>15, <1>16, <1>17, <1>18 DEF RoutesInv

(***************************************************************************)
(* Using a message: what a step of In does to the tables.                  *)
(***************************************************************************)
UsedWell(n) ==
    /\ \A k \in Nodes : IdOf(k)' = IdOf(k)
    /\ Grows /\ Started' /\ Tables' /\ Removing'
    /\ \A c \in Clients : myId'[c] = 0 => c # n /\ myId[c] = 0
    /\ \A k \in Nodes : k # n => clientsToRemove'[k] = clientsToRemove[k]

LEMMA OwnIdRoutes ==
    ASSUME KernalInv, RoutesInv, NEW n \in Nodes, NEW m \in Heard(n),
           m.kind = "new", m.dest = 1, UseOwnId(n, m),
           UNCHANGED <<accepted, open, removed, clientsToRemove>>
    PROVE  UsedWell(n)
<1>1. PICK a \in Nodes : Sender(n, a) /\ m \in Fitting(a, n)
  BY DEF Heard
<1>2. a \in Neighbours(n) /\ HasId(a) /\ HasId(n) /\ m.src = IdOf(a)
  BY <1>1 DEF Sender, Fitting
<1>3. n \in Children(a) /\ m.body = <<IdOf(n)>>
  <2>1. n \in Children(a) /\ (m.body = <<IdOf(n)>> \/ m.dest = IdOf(n))
    BY <1>1 DEF Fitting
  <2>2. IdOf(n) # 1
    BY <1>2, <2>1, ChildId
  <2> QED BY <2>1, <2>2
<1>4. n \in Clients /\ Parent[n] = a /\ a \notin Within[n] /\ a # n
  <2>1. n \in Clients /\ Parent[n] = a /\ n # a
    BY <1>1, <1>3, ChildLinks
  <2>2. Parent[n] \notin Within[n]
    BY <2>1, WithinServer
  <2> QED BY <2>1, <2>2
<1>5. PICK id : id = IdOf(n)
  OBVIOUS
<1>6. PICK s : s = IdOf(a)
  OBVIOUS
<1>7. /\ myId' = [myId EXCEPT ![n] = id]
      /\ idsFromServer' = [idsFromServer EXCEPT ![n] = Append(@, s)]
      /\ serverConn' = [serverConn EXCEPT ![n] = [myId |-> id, otherId |-> s]]
      /\ serverId' = [serverId EXCEPT ![n] = s]
      /\ UNCHANGED clientToDirectClient
  <2>1. m.body[Len(m.body)] = id
    BY <1>3, <1>5
  <2> QED BY <1>2, <1>6, <2>1 DEF UseOwnId
<1>8. /\ myId \in [Nodes -> Nat] /\ serverId \in [Nodes -> Nat]
      /\ idsFromServer \in [Nodes -> Seq(Nat)]
      /\ serverConn \in [Nodes -> [myId : Nat, otherId : Nat]]
  BY DEF KernalInv, TablesTyped
<1> USE DEF accepted
<1>9. \A k \in Nodes : IdOf(k)' = IdOf(k)
  <2>1. myId'[Root] = myId[Root]
    BY <1>4, <1>7, <1>8, TreeAssumption DEF Clients
  <2> QED BY <2>1 DEF IdOf
<1>10. Grows
  BY <1>9, GrowsIfSame
<1>11. \A k \in Nodes : (HasId(k)' <=> HasId(k)) /\ (Awake(k) => Awake(k)')
  <2>1. \A k \in Nodes : HasId(k)' <=> HasId(k)
    BY <1>9 DEF HasId
  <2>2. ASSUME NEW k \in Nodes, Awake(k) PROVE myId'[k] = IdOf(k)
    BY <1>5, <1>7, <1>8, <2>2 DEF Awake
  <2> QED BY <1>9, <2>1, <2>2 DEF Awake
<1>12. Started'
  <2>1. serverId'[Root] = serverId[Root]
    BY <1>4, <1>7, <1>8, TreeAssumption DEF Clients
  <2>2. ASSUME NEW c \in Clients PROVE ClientStarted(c)'
    <3>1. ClientStarted(c) /\ c \in Nodes /\ Parent[c] \in Nodes
      BY WithinServer DEF RoutesInv, Started
    <3>2. CASE c # n
      <4>1. /\ myId'[c] = myId[c] /\ serverConn'[c] = serverConn[c]
            /\ serverId'[c] = serverId[c]
        BY <1>7, <1>8, <3>1, <3>2
      <4> QED BY <1>9, <1>11, <3>1, <4>1 DEF ClientStarted
    <3>3. CASE c = n
      <4>1. /\ myId'[c] = IdOf(c) /\ serverConn'[c] = [myId |-> IdOf(c), otherId |-> IdOf(Parent[c])]
            /\ serverId'[c] = IdOf(Parent[c]) /\ IdOf(c) # 0
        BY <1>2, <1>4, <1>5, <1>6, <1>7, <1>8, <3>3 DEF HasId
      <4>2. serverId'[c] = serverConn'[c].otherId
        BY <4>1
      <4> QED BY <1>9, <1>11, <3>1, <4>1, <4>2 DEF ClientStarted
    <3> QED BY <3>2, <3>3
  <2> QED BY <2>1, <2>2 DEF RoutesInv, Started
<1>13. Tables'
  <2>1. s \in Of(Behind(n))
    <3>1. s \in Names /\ Owners(s) \subseteq {a}
      BY <1>2, <1>6 DEF Names, Owners, HasId, RoutesInv, IdsGiven
    <3> QED BY <1>4, <3>1 DEF Of, Behind
  <2>2. ASSUME NEW k \in Nodes PROVE idsFromServer'[k] \in Seq(Of(Behind(k)))
    <3>1. idsFromServer[k] \in Seq(Of(Behind(k)))
      BY DEF RoutesInv, Tables
    <3> QED BY <1>7, <1>8, <2>1, <3>1
  <2>3. ASSUME NEW k \in Nodes
        PROVE  /\ \A x \in DOMAIN clientToDirectClient[k] : Filed(k, x)'
               /\ idsFromServer'[k] \in Seq(Of(Behind(k))')
               /\ \A i \in DOMAIN directClients[k] : i # 0 /\ IdOf(directClients[k][i])' = i
    <3>1. \A c \in Children(k) : HasId(c) /\ ~Entering(k, c) => ~Entering(k, c)'
      BY EnteringSame
    <3>2. \A x \in DOMAIN clientToDirectClient[k] : Filed(k, x)'
      BY <1>7, <1>10, <3>1, FiledKept DEF RoutesInv, Tables
    <3>3. idsFromServer'[k] \in Seq(Of(Behind(k))')
      BY <1>10, <2>2, OfKept, SeqOver
    <3>4. \A i \in DOMAIN directClients[k] : i # 0 /\ IdOf(directClients[k][i])' = i
      BY <1>10, DirectKept
    <3> QED BY <3>2, <3>3, <3>4
  <2> QED BY <1>7, <2>3 DEF Tables
<1>14. Removing'
  BY <1>10, RemovingKept DEF RoutesInv, Removing
<1>15. \A c \in Clients : myId'[c] = 0 => c # n /\ myId[c] = 0
  BY <1>2, <1>5, <1>7, <1>8 DEF HasId, Clients
<1> QED BY <1>9, <1>10, <1>12, <1>13, <1>14, <1>15 DEF UsedWell

\* a message from a client comes from the client's side, one from the server from the rest
LEMMA HeardFrom ==
    ASSUME KernalInv, RoutesInv, NEW n \in Nodes, Awake(n), NEW m \in Heard(n),
           m.kind = "new", NEW a \in Nodes, Sender(n, a), m \in Fitting(a, n)
    PROVE  /\ m.src = serverId[n] => Side(a, n) = Behind(n)
           /\ m.src # serverId[n] => a \in Children(n) /\ Side(a, n) = Within[a]
<1>1. a \in Neighbours(n) /\ HasId(a) /\ HasId(n) /\ m.src = IdOf(a)
  BY DEF Sender, Fitting
<1>2. n \in Clients => serverId[n] = IdOf(Parent[n])
  <2>1. n \in Clients => ClientStarted(n)
    BY DEF RoutesInv, Started
  <2> QED BY <2>1 DEF ClientStarted, Awake, HasId
<1>3. CASE a \in Children(n)
  <2>1. m.src # serverId[n]
    <3>1. CASE n = Root
      BY <1>1, <3>1 DEF RoutesInv, Started, HasId
    <3>2. CASE n # Root
      <4>1. n \in Clients /\ Parent[n] \in Nodes /\ Parent[n] \notin Within[n]
        BY <3>2, WithinServer DEF Clients
      <4>2. a \in Within[n]
        BY <1>3, ChildWithin
      <4> QED BY <1>1, <1>2, <4>1, <4>2 DEF RoutesInv, IdsGiven
    <3> QED BY <3>1, <3>2
  <2> QED BY <1>3, <2>1 DEF Side
<1>4. CASE a \notin Children(n)
  <2>1. n \in Clients /\ a = Parent[n]
    <3>1. n \in Children(a)
      BY <1>1, <1>4, NeighbourIs
    <3> QED BY <3>1, ChildLinks
  <2> QED BY <1>1, <1>2, <1>4, <2>1 DEF Side
<1> QED BY <1>3, <1>4

LEMMA FromServerRoutes ==
    ASSUME KernalInv, RoutesInv, NEW n \in Nodes, Awake(n), NEW m \in Heard(n),
           m.kind = "new", m.src = serverId[n], UseFromServer(n, m),
           UNCHANGED <<accepted, open, removed, clientsToRemove>>
    PROVE  UsedWell(n)
<1>1. PICK a \in Nodes : Sender(n, a) /\ m \in Fitting(a, n)
  BY DEF Heard
<1>2. m.body \in Seq(Of(Behind(n)))
  <2>1. Side(a, n) = Behind(n)
    BY <1>1, HeardFrom
  <2> QED BY <1>1, <2>1 DEF Fitting
<1>3. /\ idsFromServer' = [idsFromServer EXCEPT ![n] = @ \o Reverse(m.body)]
      /\ UNCHANGED <<myId, serverId, serverConn, clientToDirectClient>>
  BY DEF UseFromServer
<1>4. Grows /\ Started' /\ IdsGiven' /\ \A k \in Nodes : IdOf(k)' = IdOf(k)
  BY <1>3, SameIdsKept DEF SameIds, accepted
<1>5. idsFromServer \in [Nodes -> Seq(Nat)]
  BY DEF KernalInv, TablesTyped
<1>6. ASSUME NEW k \in Nodes PROVE idsFromServer'[k] \in Seq(Of(Behind(k)))
  <2>1. \A j \in Nodes : idsFromServer[j] \in Seq(Of(Behind(j)))
    BY DEF RoutesInv, Tables
  <2>2. idsFromServer[n] \o Reverse(m.body) \in Seq(Of(Behind(n)))
    BY <1>2, <2>1, ReverseTyped
  <2> QED BY <1>3, <1>5, <2>1, <2>2
<1>7. Tables'
  <2> SUFFICES ASSUME NEW k \in Nodes
               PROVE  /\ \A x \in DOMAIN clientToDirectClient[k] : Filed(k, x)'
                      /\ idsFromServer'[k] \in Seq(Of(Behind(k))')
                      /\ \A i \in DOMAIN directClients[k] : i # 0 /\ IdOf(directClients[k][i])' = i
    BY <1>3 DEF Tables, accepted
  <2>1. \A c \in Children(k) : HasId(c) /\ ~Entering(k, c) => ~Entering(k, c)'
    BY EnteringSame DEF accepted
  <2>2. \A x \in DOMAIN clientToDirectClient[k] : Filed(k, x)'
    BY <1>3, <1>4, <2>1, FiledKept DEF RoutesInv, Tables
  <2>3. idsFromServer'[k] \in Seq(Of(Behind(k))')
    BY <1>4, <1>6, OfKept, SeqOver
  <2>4. \A i \in DOMAIN directClients[k] : i # 0 /\ IdOf(directClients[k][i])' = i
    BY <1>4, DirectKept DEF accepted
  <2> QED BY <2>2, <2>3, <2>4
<1>8. Removing'
  BY <1>4, RemovingKept DEF RoutesInv, Removing
<1>9. \A c \in Clients : myId'[c] = 0 => c # n /\ myId[c] = 0
  BY <1>3 DEF Awake, HasId
<1> QED BY <1>4, <1>7, <1>8, <1>9 DEF UsedWell

LEMMA FromClientRoutes ==
    ASSUME KernalInv, RoutesInv, NEW n \in Nodes, Awake(n), NEW m \in Heard(n),
           m.kind = "new", m.src # serverId[n], UseFromClient(n, m),
           UNCHANGED <<accepted, open, removed, clientsToRemove>>
    PROVE  UsedWell(n)
<1>1. PICK a \in Nodes : Sender(n, a) /\ m \in Fitting(a, n)
  BY DEF Heard
<1>2. /\ a \in Children(n) /\ HasId(a) /\ ~Entering(n, a) /\ m.src = IdOf(a)
      /\ m.body \in Seq(Of(Within[a]))
  <2>1. a \in Children(n) /\ Side(a, n) = Within[a]
    BY <1>1, HeardFrom
  <2> QED BY <1>1, <2>1 DEF Fitting, Sender
<1>3. PICK s : s = m.src
  OBVIOUS
<1>4. PICK B : B = ToSet(m.body)
  OBVIOUS
<1> DEFINE old == clientToDirectClient[n]
           new == [x \in DOMAIN old \cup B |-> IF x \in DOMAIN old THEN old[x] ELSE s]
<1>5. /\ clientToDirectClient' = [clientToDirectClient EXCEPT ![n] = new]
      /\ UNCHANGED <<myId, serverId, idsFromServer, serverConn>>
  BY <1>3, <1>4 DEF UseFromClient
<1>6. Grows /\ Started' /\ IdsGiven' /\ \A k \in Nodes : IdOf(k)' = IdOf(k)
  BY <1>5, SameIdsKept DEF SameIds, accepted
<1>7. B \subseteq Of(Within[a])
  BY <1>2, <1>4, SetOfSeq
<1>8. \A k \in Nodes : \A c \in Children(k) : HasId(c) /\ ~Entering(k, c) => ~Entering(k, c)'
  BY EnteringSame DEF accepted
<1>9. clientToDirectClient \in [Nodes -> MapsTo(Nat)]
  BY DEF KernalInv, TablesTyped
<1>10. ASSUME NEW k \in Nodes, NEW x \in DOMAIN clientToDirectClient'[k] PROVE Filed(k, x)'
  <2>1. ASSUME x \in DOMAIN clientToDirectClient[k],
               clientToDirectClient'[k][x] = clientToDirectClient[k][x]
        PROVE  Filed(k, x)'
    BY <1>6, <1>8, <2>1, FiledKept DEF RoutesInv, Tables
  <2>2. CASE k # n
    BY <1>5, <1>9, <2>1, <2>2
  <2>3. clientToDirectClient'[n] = new
    BY <1>5, <1>9
  <2>4. CASE k = n /\ x \in DOMAIN old
    <3>1. new[x] = old[x]
      BY <2>4
    <3> QED BY <2>1, <2>3, <2>4, <3>1
  <2>5. CASE k = n /\ x \notin DOMAIN old
    <3>1. x \in B /\ clientToDirectClient'[n][x] = s
      BY <1>10, <2>3, <2>5
    <3>2. HasId(a)' /\ IdOf(a)' = s
      BY <1>1, <1>2, <1>3, <1>6, IdsKept
    <3>3. ~Entering(n, a)'
      BY <1>2, <1>8
    <3>4. x \in Of(Within[a])'
      BY <1>6, <1>7, <3>1, OfKept
    <3> QED BY <1>2, <2>5, <3>1, <3>2, <3>3, <3>4 DEF Filed
  <2> QED BY <2>2, <2>4, <2>5
<1>11. Tables'
  <2> SUFFICES ASSUME NEW k \in Nodes
               PROVE  /\ \A x \in DOMAIN clientToDirectClient'[k] : Filed(k, x)'
                      /\ idsFromServer[k] \in Seq(Of(Behind(k))')
                      /\ \A i \in DOMAIN directClients[k] : i # 0 /\ IdOf(directClients[k][i])' = i
    BY <1>5 DEF Tables, accepted
  <2>1. idsFromServer[k] \in Seq(Of(Behind(k))')
    BY <1>6, OfKept, SeqOver DEF RoutesInv, Tables
  <2>2. \A i \in DOMAIN directClients[k] : i # 0 /\ IdOf(directClients[k][i])' = i
    BY <1>6, DirectKept DEF accepted
  <2> QED BY <1>10, <2>1, <2>2
<1>12. Removing'
  BY <1>6, RemovingKept DEF RoutesInv, Removing
<1>13. \A c \in Clients : myId'[c] = 0 => c # n /\ myId[c] = 0
  BY <1>5 DEF Awake, HasId
<1> QED BY <1>6, <1>11, <1>12, <1>13 DEF UsedWell

LEMMA GoneRoutes ==
    ASSUME KernalInv, RoutesInv, NEW n \in Nodes, Awake(n), NEW m \in Heard(n),
           m.kind = "gone",
           clientsToRemove' = [clientsToRemove EXCEPT ![n] = @ \o Reverse(m.body)],
           removed' = [removed EXCEPT ![n] = @ \o Reverse(m.body)],
           UNCHANGED <<accepted, open, Ids>>
    PROVE  UsedWell(n)
<1>1. PICK a \in Nodes : Sender(n, a) /\ m \in Fitting(a, n)
  BY DEF Heard
<1>2. PICK S : S = Side(a, n) \ {n}
  OBVIOUS
<1>3. m.body \in Seq(CutIn(S))
  BY <1>1, <1>2 DEF Fitting
<1>4. S \subseteq Nodes \ {n}
  BY <1>1, <1>2, WithinIs DEF Side, Behind
<1>5. CutIn(S) \subseteq CutIn(Nodes \ {n})
  BY <1>4, OfWider
<1>6. CutIn(S) \subseteq Dropped(n)
  <2> SUFFICES ASSUME NEW x \in CutIn(S) PROVE x \in Dropped(n)
    OBVIOUS
  <2>1. PICK c \in Clients : Dead(c) /\ Within[c] \subseteq S /\ Owners(x) \subseteq Within[c]
    BY DEF CutIn
  <2>2. n \notin Within[c] /\ c \in Nodes /\ x \in Names
    BY <1>4, <2>1, WithinServer DEF CutIn
  <2>3. x # IdOf(n)
    BY <2>1, <2>2 DEF Owners
  <2>4. ASSUME NEW d \in Children(n), IdOf(d) = x PROVE ~Linked(d)
    <3>1. d \in Nodes /\ Parent[d] = n
      BY ChildLinks
    <3>2. d \in Within[c]
      BY <2>1, <2>4, <3>1 DEF Owners
    <3>3. d = c
      BY <2>2, <3>1, <3>2, WithinLast
    <3> QED BY <2>1, <3>3 DEF Dead
  <2> QED BY <2>2, <2>3, <2>4 DEF Dropped
<1>7. /\ Grows /\ Started' /\ IdsGiven' /\ \A k \in Nodes : IdOf(k)' = IdOf(k)
      /\ UNCHANGED <<clientToDirectClient, idsFromServer, directClients, accepting>>
  BY SameIdsKept DEF SameIds, accepted, Ids
<1>8. Tables'
  BY <1>7, EnteringSame, TablesKept
<1>9. clientsToRemove \in [Nodes -> Seq(Nat)] /\ removed \in [Nodes -> Seq(Nat)]
  BY DEF KernalInv, RestTyped, TablesTyped
<1>10. ASSUME NEW k \in Nodes
       PROVE  /\ clientsToRemove'[k] \in Seq(Dropped(k))
              /\ removed'[k] \in Seq(CutIn(Nodes \ {k}))
  <2>1. \A j \in Nodes : /\ clientsToRemove[j] \in Seq(Dropped(j))
                         /\ removed[j] \in Seq(CutIn(Nodes \ {j}))
    BY DEF RoutesInv, Removing
  <2>2. Reverse(m.body) \in Seq(CutIn(S))
    BY <1>3, ReverseTyped
  <2>3. Reverse(m.body) \in Seq(Dropped(n)) /\ Reverse(m.body) \in Seq(CutIn(Nodes \ {n}))
    <3>1. /\ Seq(CutIn(S)) \subseteq Seq(Dropped(n))
          /\ Seq(CutIn(S)) \subseteq Seq(CutIn(Nodes \ {n}))
      BY <1>5, <1>6, SeqOver
    <3> QED BY <2>2, <3>1
  <2>4. /\ clientsToRemove[n] \o Reverse(m.body) \in Seq(Dropped(n))
        /\ removed[n] \o Reverse(m.body) \in Seq(CutIn(Nodes \ {n}))
    <3>1. \A T : \A s, t \in Seq(T) : s \o t \in Seq(T)
      BY ConcatProperties
    <3>2. clientsToRemove[n] \in Seq(Dropped(n)) /\ removed[n] \in Seq(CutIn(Nodes \ {n}))
      BY <2>1
    <3> QED BY <2>3, <3>1, <3>2
  <2> QED BY <1>9, <2>1, <2>4
<1>11. Removing'
  BY <1>7, <1>10, RemovingKept
<1>12. \A c \in Clients : myId'[c] = 0 => c # n /\ myId[c] = 0
  BY DEF Awake, HasId, Ids
<1>13. \A k \in Nodes : k # n => clientsToRemove'[k] = clientsToRemove[k]
  BY <1>9
<1> QED BY <1>7, <1>8, <1>11, <1>12, <1>13 DEF UsedWell

LEMMA NothingUsed ==
    ASSUME KernalInv, RoutesInv, NEW n \in Nodes, Awake(n),
           UNCHANGED <<accepted, open, Ids, removed, clientsToRemove>>
    PROVE  UsedWell(n)
<1>1. /\ Grows /\ Started' /\ IdsGiven' /\ \A k \in Nodes : IdOf(k)' = IdOf(k)
      /\ UNCHANGED <<clientToDirectClient, idsFromServer, directClients, accepting>>
  BY SameIdsKept DEF SameIds, accepted, Ids
<1>2. Tables'
  BY <1>1, EnteringSame, TablesKept
<1>3. Removing'
  BY <1>1, RemovingKept DEF RoutesInv, Removing
<1>4. \A c \in Clients : myId'[c] = 0 => c # n /\ myId[c] = 0
  BY DEF Awake, HasId, Ids
<1> QED BY <1>1, <1>2, <1>3, <1>4 DEF UsedWell

\* a node that does not know its id handles nothing but the notice of it
LEMMA UseIsWell ==
    ASSUME KernalInv, RoutesInv, NEW n \in Nodes, NEW m \in Heard(n), UseMessage(n, m),
           n \in Clients /\ myId[n] = 0 => IsNotice(m), UNCHANGED <<accepted, open>>
    PROVE  UsedWell(n)
<1>1. PICK a \in Nodes : Sender(n, a) /\ m \in Fitting(a, n)
  BY DEF Heard
<1>2. HasId(n) /\ HasId(a) /\ (m.kind = "new" => m.src = IdOf(a))
  BY <1>1 DEF Sender, Fitting
<1>3. Awake(n) \/ (IsNotice(m) /\ myId[n] = 0)
  BY <1>2, AwakeIf
<1>4. m.src = myId[n] => Awake(n)
  BY <1>2, <1>3 DEF IsNotice, HasId
<1>5. CASE m.src = myId[n] /\ UNCHANGED <<tables, clientsToRemove>>
  BY <1>4, <1>5, NothingUsed DEF tables, Ids
<1>6. CASE /\ m.kind = "new"
           /\ \/ m.dest = 1 /\ UseOwnId(n, m)
              \/ m.dest # 1 /\ m.src = serverId[n] /\ UseFromServer(n, m)
              \/ m.dest # 1 /\ m.src # serverId[n] /\ UseFromClient(n, m)
           /\ UNCHANGED <<used, removed, clientsToRemove>>
  <2>1. CASE m.dest = 1 /\ UseOwnId(n, m)
    BY <1>6, <2>1, OwnIdRoutes
  <2>2. m.dest # 1 => Awake(n)
    BY <1>3 DEF IsNotice
  <2>3. CASE m.dest # 1 /\ m.src = serverId[n] /\ UseFromServer(n, m)
    BY <1>6, <2>2, <2>3, FromServerRoutes
  <2>4. CASE m.dest # 1 /\ m.src # serverId[n] /\ UseFromClient(n, m)
    BY <1>6, <2>2, <2>4, FromClientRoutes
  <2> QED BY <1>6, <2>1, <2>3, <2>4
<1>7. CASE /\ m.kind = "gone"
           /\ clientsToRemove' = [clientsToRemove EXCEPT ![n] = @ \o Reverse(m.body)]
           /\ removed' = [removed EXCEPT ![n] = @ \o Reverse(m.body)]
           /\ UNCHANGED <<Ids, used>>
  <2>1. Awake(n)
    BY <1>3, <1>7 DEF IsNotice
  <2> QED BY <1>7, <2>1, GoneRoutes
<1>8. CASE /\ m.kind = "user"
           /\ UNCHANGED <<Ids, removed, clientsToRemove>>
  <2>1. Awake(n)
    BY <1>3, <1>8 DEF IsNotice
  <2> QED BY <1>8, <2>1, NothingUsed
<1> QED BY <1>5, <1>6, <1>7, <1>8 DEF UseMessage

LEMMA UseRoutes ==
    ASSUME KernalInv, RoutesInv, NEW n \in Nodes, NEW m \in Heard(n), UseMessage(n, m),
           n \in Clients /\ myId[n] = 0 => IsNotice(m),
           UNCHANGED <<accepted, msgOut, link, wires>>,
           \A k \in Nodes : /\ msgIn'[k] \in Seq(Heard(k)) /\ inHand'[k] \in Seq(Heard(k))
                            /\ k # n => msgIn'[k] = msgIn[k] /\ inHand'[k] = inHand[k]
    PROVE  RoutesInv'
<1> USE DEF wires
<1>1. UsedWell(n)
  BY UseIsWell
<1>2. Grows /\ Started' /\ Tables' /\ Removing'
  BY <1>1 DEF UsedWell
<1>3. UNCHANGED <<drawn, clientConn, connected, directClients, accepting>>
  BY DEF accepted
<1>4. IdsGiven'
  <2>1. \A k \in Nodes : IdOf(k)' = IdOf(k) /\ (HasId(k)' <=> HasId(k))
    BY <1>1 DEF UsedWell, HasId
  <2> QED BY <2>1 DEF RoutesInv, IdsGiven, Tags
<1>5. LinksFit' /\ LinksFull'
  BY <1>2, LinksFitKept DEF RoutesInv, LinksFull
<1>6. Waiting'
  <2> SUFFICES ASSUME NEW c \in Clients, myId'[c] = 0 PROVE ClientWaits(c)'
    BY DEF Waiting
  <2>1. c # n /\ myId[c] = 0 /\ c \in Nodes
    BY <1>1, WithinServer DEF UsedWell
  <2>2. ClientWaits(c)
    BY <2>1 DEF RoutesInv, Waiting
  <2>3. msgIn'[c] = msgIn[c] /\ inHand'[c] = inHand[c] /\ clientsToRemove'[c] = clientsToRemove[c]
    BY <1>1, <2>1 DEF UsedWell
  <2> QED BY <2>2, <2>3 DEF ClientWaits, Linked
<1>7. Arrived'
  BY <1>2, <1>3, EnteringSame, ArrivedKept
<1>8. Leaving'
  BY <1>2, <1>3, LeavingKept DEF RoutesInv, Leaving
<1> QED BY <1>2, <1>4, <1>5, <1>6, <1>7, <1>8 DEF RoutesInv

LEMMA ReciveRoutes ==
    ASSUME KernalInv, RoutesInv, NEW n \in Nodes, ReciveMessage(n)
    PROVE  RoutesInv'
<1> DEFINE m == Head(msgIn[n])
<1>1. /\ inHand[n] = <<>> /\ msgIn[n] # <<>> /\ msgIn' = [msgIn EXCEPT ![n] = Tail(@)]
      /\ UNCHANGED <<accepted, msgOut, wires, users>>
      /\ \/ /\ Mine(n, m) /\ UseMessage(n, m) /\ UNCHANGED <<link, notFound>>
            /\ inHand' = inHand
         \/ /\ ~Mine(n, m) /\ SendMessage(n, m) /\ UNCHANGED tables
            /\ inHand' = [inHand EXCEPT ![n] = <<m>>] \/ inHand' = inHand
  BY DEF ReciveMessage
<1>2. /\ \A k \in Nodes : msgIn[k] \in Seq(Heard(k)) /\ inHand[k] \in Seq(Heard(k))
      /\ msgIn \in [Nodes -> Seq(Good)] /\ inHand \in [Nodes -> Seq(Good)]
  BY DEF RoutesInv, Arrived, KernalInv, QueuesTyped
<1>3. m \in Heard(n) /\ Tail(msgIn[n]) \in Seq(Heard(n))
  BY <1>1, <1>2
<1>4. n \in Clients /\ myId[n] = 0 => IsNotice(m)
  BY <1>1 DEF RoutesInv, Waiting, ClientWaits
<1> HIDE DEF m
<1>5. \A k \in Nodes : /\ msgIn'[k] \in Seq(Heard(k))
                       /\ k # n => msgIn'[k] = msgIn[k]
  BY <1>1, <1>2, <1>3
<1>6. CASE Mine(n, m) /\ UseMessage(n, m) /\ link' = link /\ inHand' = inHand
  BY <1>1, <1>2, <1>3, <1>4, <1>5, <1>6, UseRoutes
<1>7. CASE /\ ~Mine(n, m) /\ SendMessage(n, m) /\ UNCHANGED tables
           /\ inHand' = [inHand EXCEPT ![n] = <<m>>] \/ inHand' = inHand
  <2>1. HasId(n)
    BY <1>3 DEF Heard, Sender
  <2>2. Awake(n)
    BY <1>4, <1>7, <2>1, AwakeIf DEF Mine, IsNotice
  <2>3. Allowed(n, m, Route(n, m))
    BY <1>3, <1>7, <2>2, ForwardAllowed
  <2>4. /\ \A l \in Links : Moved(l)
        /\ \A k \in Nodes : clientsToRemove'[k] \in Seq(Dropped(k))
        /\ \A k \in Nodes : k # n => clientsToRemove'[k] = clientsToRemove[k]
    BY <1>7, <2>2, <2>3, SendMoves
  <2> USE DEF tables, accepted, wires
  <2>5. Grows /\ Started' /\ IdsGiven'
    BY <1>1, <1>7, SameIdsKept DEF SameIds
  <2>6. LinksFit' /\ LinksFull'
    BY <1>1, <2>4, <2>5, LinksMoved
  <2>7. \A k \in Nodes : inHand'[k] \in Seq(Heard(k)) /\ (k # n => inHand'[k] = inHand[k])
    <3>1. <<m>> \in Seq(Heard(n))
      BY <1>3
    <3> QED BY <1>2, <1>7, <3>1
  <2>8. Waiting'
    <3> SUFFICES ASSUME NEW c \in Clients, myId[c] = 0 PROVE ClientWaits(c)'
      BY <1>7 DEF Waiting
    <3>1. ClientWaits(c) /\ c \in Nodes /\ c # n
      BY <2>2, WithinServer DEF RoutesInv, Waiting, Awake, HasId
    <3>2. msgIn'[c] = msgIn[c] /\ inHand'[c] = <<>> /\ clientsToRemove'[c] = <<>> /\ msgOut'[c] = <<>>
      BY <1>1, <1>5, <2>4, <2>7, <3>1 DEF ClientWaits
    <3> QED BY <1>1, <2>4, <3>2, WaitsMoved
  <2>9. Arrived'
    BY <1>1, <1>5, <2>5, <2>7, EnteringSame, ArrivedKept
  <2>10. Leaving'
    BY <1>1, <2>5, LeavingKept DEF RoutesInv, Leaving
  <2>11. Tables'
    BY <1>1, <1>7, <2>5, EnteringSame, TablesKept
  <2>12. Removing'
    BY <1>7, <2>4, <2>5, RemovingKept DEF RoutesInv, Removing
  <2> QED BY <2>5, <2>6, <2>8, <2>9, <2>10, <2>11, <2>12 DEF RoutesInv
<1> QED BY <1>1, <1>6, <1>7

LEMMA UseForwardedRoutes ==
    ASSUME KernalInv, RoutesInv, NEW n \in Nodes, UseForwarded(n)
    PROVE  RoutesInv'
<1>1. /\ inHand[n] # <<>> /\ inHand' = [inHand EXCEPT ![n] = <<>>]
      /\ UseMessage(n, inHand[n][1])
      /\ UNCHANGED <<accepted, msgOut, msgIn, link, notFound, wires, users>>
  BY DEF UseForwarded
<1>2. /\ \A k \in Nodes : msgIn[k] \in Seq(Heard(k)) /\ inHand[k] \in Seq(Heard(k))
      /\ msgIn \in [Nodes -> Seq(Good)] /\ inHand \in [Nodes -> Seq(Good)]
  BY DEF RoutesInv, Arrived, KernalInv, QueuesTyped
<1>3. inHand[n][1] \in Heard(n)
  BY <1>1, <1>2
<1>4. ~(n \in Clients /\ myId[n] = 0)
  BY <1>1, Idle
<1>5. \A k \in Nodes : /\ msgIn'[k] \in Seq(Heard(k)) /\ inHand'[k] \in Seq(Heard(k))
                       /\ k # n => msgIn'[k] = msgIn[k] /\ inHand'[k] = inHand[k]
  BY <1>1, <1>2
<1> QED BY <1>1, <1>3, <1>4, <1>5, UseRoutes

(***************************************************************************)
(* A node is given an id: a proper one, says ProperIds'.                   *)
(***************************************************************************)
LEMMA BuiltId ==
    ASSUME NEW n \in Nodes, NEW id, BuildId(n, id)
    PROVE  id \in Nat /\ id # 0
BY TreeAssumption DEF BuildId, Fresh

LEMMA NewIdKept ==
    ASSUME RoutesInv, ProperIds', NEW r \in Nodes, NEW n \in Nodes,
           NEW id, BuildId(n, id), ~HasId(r), IdOf(r)' = id,
           \A k \in Nodes : k # r => IdOf(k)' = IdOf(k),
           \A c \in Clients : Dead(c) => ~Linked(c)'
    PROVE  Grows /\ IdsGiven' /\ id \notin Names /\ id # 0 /\ id \in Nat
<1>1. id \in Nat /\ id # 0
  BY BuiltId
<1>2. IdsGiven'
  BY DEF ProperIds, IdsGiven, HasId, Tags
<1>3. id \notin Names
  <2>1. id \notin Tags
    BY <1>2 DEF IdsGiven, Tags
  <2>2. ASSUME NEW k \in Nodes, HasId(k), IdOf(k) = id PROVE FALSE
    <3>1. k # r /\ IdOf(k)' = id /\ IdOf(r)' = id /\ HasId(k)'
      BY <2>2 DEF HasId
    <3> QED BY <1>2, <3>1 DEF IdsGiven
  <2> QED BY <2>1, <2>2 DEF Names, HasId
<1>4. 0 \notin Names
  BY DEF Names, Tags
<1>5. Grows
  BY <1>1, <1>3, <1>4 DEF Grows, HasId
<1> QED BY <1>1, <1>2, <1>3, <1>5

LEMMA ClientStartedKept ==
    ASSUME RoutesInv, Grows, NEW c \in Clients, IdOf(c)' = IdOf(c),
           myId'[c] = myId[c], connected'[c] = connected[c], clientConn'[c] = clientConn[c],
           serverConn'[c] = serverConn[c], serverId'[c] = serverId[c],
           Awake(Parent[c]) => Awake(Parent[c])',
           \A l \in {<<Parent[c], c>>, <<c, Parent[c]>>} : l \in open' => l \in open
    PROVE  ClientStarted(c)'
<1>1. ClientStarted(c) /\ c \in Nodes /\ Parent[c] \in Nodes
  BY WithinServer DEF RoutesInv, Started
<1>2. HasId(c)' <=> HasId(c)
  BY DEF HasId
<1>3. HasId(c) => IdOf(Parent[c])' = IdOf(Parent[c])
  BY <1>1, IdsKept DEF ClientStarted, Awake
<1>4. myId[c] # 0 => HasId(c)
  BY <1>1 DEF ClientStarted, HasId
<1> QED BY <1>1, <1>2, <1>3, <1>4 DEF ClientStarted

LEMMA StartRootRoutes ==
    ASSUME KernalInv, RoutesInv, ProperIds', StartRoot
    PROVE  RoutesInv'
<1>1. /\ myId[Root] = 0 /\ Root \in Nodes
      /\ UNCHANGED <<serverId, idsFromServer, serverConn, clientToDirectClient,
                     announced, used, removed, clientConn, connected,
                     directClients, accepting, queues, sending, wires, users>>
  BY TreeAssumption DEF StartRoot
<1>2. PICK id : BuildId(Root, id) /\ myId' = [myId EXCEPT ![Root] = id]
  BY DEF StartRoot
<1>3. myId \in [Nodes -> Nat]
  BY DEF KernalInv, TablesTyped
<1> USE DEF queues, sending, wires
<1>4. IdOf(Root)' = id /\ ~HasId(Root) /\ \A k \in Nodes : k # Root => IdOf(k)' = IdOf(k)
  <2>1. myId'[Root] = id
    BY <1>1, <1>2, <1>3
  <2> QED BY <1>1, <2>1 DEF IdOf, HasId
<1>5. Grows /\ IdsGiven'
  <2>1. \A c \in Clients : Dead(c) => ~Linked(c)'
    BY <1>1 DEF Dead, Linked
  <2> QED BY <1>1, <1>2, <1>4, <2>1, NewIdKept
<1>6. \A c \in Clients : myId'[c] = myId[c] /\ c # Root /\ c \in Nodes
  BY <1>1, <1>2, <1>3 DEF Clients
<1>7. Started'
  <2>1. ASSUME NEW c \in Clients PROVE ClientStarted(c)'
    <3>1. Awake(Parent[c]) => Awake(Parent[c])'
      <4>1. Parent[c] \in Nodes
        BY WithinServer
      <4>2. CASE Parent[c] = Root
        BY <1>4, <4>2 DEF Awake
      <4>3. CASE Parent[c] # Root
        <5>1. myId'[Parent[c]] = myId[Parent[c]] /\ IdOf(Parent[c])' = IdOf(Parent[c])
          BY <1>2, <1>3, <1>4, <4>1, <4>3
        <5> QED BY <5>1 DEF Awake, HasId
      <4> QED BY <4>2, <4>3
    <3> QED BY <1>1, <1>4, <1>5, <1>6, <3>1, ClientStartedKept
  <2> QED BY <1>1, <2>1 DEF RoutesInv, Started
<1>8. Waiting' /\ LinksFull'
  BY <1>1, <1>6 DEF RoutesInv, Waiting, ClientWaits, Linked, LinksFull
<1>9. LinksFit'
  BY <1>1, <1>5, LinksFitKept
<1>10. Arrived' /\ Leaving' /\ Removing'
  <2>1. Arrived'
    BY <1>1, <1>5, EnteringSame, ArrivedKept DEF RoutesInv, Arrived
  <2>2. Leaving'
    BY <1>1, <1>5, LeavingKept DEF RoutesInv, Leaving
  <2>3. Removing'
    BY <1>1, <1>5, RemovingKept DEF RoutesInv, Removing
  <2> QED BY <2>1, <2>2, <2>3
<1>11. Tables'
  BY <1>1, <1>5, EnteringSame, TablesKept
<1> QED BY <1>5, <1>7, <1>8, <1>9, <1>10, <1>11 DEF RoutesInv

\* what a client that gets its id had before: nothing
LEMMA NewClient ==
    ASSUME KernalInv, RoutesInv, NEW n \in Nodes, NEW c \in Children(n), connected[c] = "dialed",
           myId[n] # 0
    PROVE  /\ Awake(n) /\ ~HasId(c) /\ myId[c] = 0 /\ serverConn[c] = NoConn
           /\ <<n, c>> \notin open /\ <<c, n>> \notin open
           /\ link[<<n, c>>] = <<>> /\ lastBody[<<n, c>>] = <<>>
           /\ link[<<c, n>>] = <<>> /\ lastBody[<<c, n>>] = <<>>
<1>1. c \in Clients /\ Parent[c] = n /\ <<n, c>> \in Links /\ <<c, n>> \in Links
  BY ChildLinks
<1>2. ClientStarted(c)
  BY <1>1 DEF RoutesInv, Started
<1>3. ~HasId(c) /\ <<n, c>> \notin open /\ <<c, n>> \notin open
  BY <1>1, <1>2 DEF ClientStarted
<1>4. myId[c] = 0 /\ serverConn[c] = NoConn
  BY <1>2, <1>3 DEF ClientStarted, HasId
<1>5. Awake(n)
  <2>1. HasId(n)
    BY DEF RoutesInv, Started, ClientStarted, Clients, HasId, IdOf
  <2> QED BY <2>1, AwakeIf
<1> QED BY <1>1, <1>3, <1>4, <1>5 DEF RoutesInv, LinksFit

\* the connections of other clients are others
LEMMA OtherLinks ==
    ASSUME NEW n \in Nodes, NEW c \in Children(n), NEW d \in Clients, d # c
    PROVE  /\ <<Parent[d], d>> \notin {<<n, c>>, <<c, n>>}
           /\ <<d, Parent[d]>> \notin {<<n, c>>, <<c, n>>}
<1>1. c \in Neighbours(n) /\ n \notin Children(c)
  <2>1. c \in Neighbours(n)
    BY ChildLinks DEF Neighbours
  <2> QED BY <2>1, NeighbourIs
<1> QED BY <1>1 DEF Children

\* a server that accepts has an id
LEMMA ServerHasId ==
    ASSUME KernalInv, ProperIds', NEW n \in Nodes, NEW c \in Children(n), Accept(c)
    PROVE  myId[n] # 0
<1>1. c \in Clients /\ c \in Nodes /\ Parent[c] = n
  BY ChildLinks
<1>2. PICK id : /\ BuildId(n, id)
                /\ clientConn' = [clientConn EXCEPT ![c] = [myId |-> myId[n], otherId |-> id]]
  BY <1>1 DEF Accept
<1>3. clientConn'[c] = [myId |-> myId[n], otherId |-> id]
  BY <1>1, <1>2 DEF KernalInv, AcceptTyped
<1>4. IdOf(c)' # 0
  BY <1>1, <1>2, <1>3, BuiltId DEF IdOf, Clients
<1> QED BY <1>1, <1>3, <1>4 DEF ProperIds

LEMMA AcceptRoutes ==
    ASSUME KernalInv, RoutesInv, ProperIds', NEW n \in Nodes, NEW c \in Children(n), Accept(c)
    PROVE  RoutesInv'
<1>1. /\ c \in Clients /\ c \in Nodes /\ Parent[c] = n /\ c # n /\ n \notin Children(c)
      /\ <<n, c>> \in Links /\ <<c, n>> \in Links /\ <<n, c>> # <<c, n>> /\ c \in Neighbours(n)
  <2>1. c \in Neighbours(n)
    BY ChildLinks DEF Neighbours
  <2> QED BY <2>1, ChildLinks, NeighbourIs
<1>2. /\ connected[c] = "dialed" /\ accepting[n] = NotAccepting
      /\ open' = open \cup {<<n, c>>, <<c, n>>}
      /\ accepting' = [accepting EXCEPT ![n] = [at |-> "listing", client |-> c]]
      /\ connected' = [connected EXCEPT ![c] = "up"]
      /\ UNCHANGED <<tables, directClients, msgIn, inHand, clientsToRemove,
                     notFound, lastBody, users>>
  BY <1>1 DEF Accept
<1>3. /\ Awake(n) /\ HasId(n) /\ myId[n] = IdOf(n) /\ ~HasId(c) /\ myId[c] = 0
      /\ serverConn[c] = NoConn /\ <<n, c>> \notin open /\ <<c, n>> \notin open
      /\ link[<<n, c>>] = <<>> /\ lastBody[<<n, c>>] = <<>>
      /\ link[<<c, n>>] = <<>> /\ lastBody[<<c, n>>] = <<>>
  BY <1>1, <1>2, ServerHasId, NewClient DEF Awake
<1>4. PICK id \in ToSet(Rand[n]) :
         /\ BuildId(n, id)
         /\ clientConn' = [clientConn EXCEPT ![c] = [myId |-> myId[n], otherId |-> id]]
         /\ msgOut' = [msgOut EXCEPT ![n] = Append(@, Added(n, 0, <<id>>))]
         /\ link' = [link EXCEPT ![<<n, c>>] =
                        IF id = Added(n, 1, <<id>>).src THEN @
                        ELSE Append(@, Added(n, 1, <<id>>))]
  BY <1>1 DEF Accept
<1>5. /\ link \in [Links -> Seq(Good)] /\ msgOut \in [Nodes -> Seq(Good)]
      /\ accepting \in [Nodes -> {NotAccepting} \cup Listing \cup Inserting]
      /\ clientConn \in [Nodes -> [myId : Nat, otherId : Nat \ {1}]]
      /\ connected \in [Nodes -> {"none", "dialed", "up", "reset"}]
      /\ myId \in [Nodes -> Nat]
  BY DEF KernalInv, WiresTyped, QueuesTyped, AcceptTyped, TablesTyped
<1> USE DEF tables
<1>6. IdOf(c)' = id /\ \A k \in Nodes : k # c => IdOf(k)' = IdOf(k)
  <2>1. clientConn'[c] = [myId |-> myId[n], otherId |-> id]
    BY <1>1, <1>4, <1>5
  <2>2. \A k \in Nodes : k # c => clientConn'[k] = clientConn[k]
    BY <1>4, <1>5
  <2> QED BY <1>1, <1>2, <2>1, <2>2 DEF IdOf, Clients
<1>7. ASSUME NEW d \in Clients, d # c PROVE /\ Linked(d)' => Linked(d)
                                            /\ <<Parent[d], d>> \in open' => <<Parent[d], d>> \in open
                                            /\ <<d, Parent[d]>> \in open' => <<d, Parent[d]>> \in open
  BY <1>2, <1>7, OtherLinks DEF Linked
<1>8. Grows /\ IdsGiven' /\ id \notin Names /\ id # 0 /\ id \in Nat
  <2>1. \A d \in Clients : Dead(d) => ~Linked(d)'
    BY <1>3, <1>7 DEF Dead
  <2> QED BY <1>1, <1>3, <1>4, <1>6, <2>1, NewIdKept
<1>9. PICK direct : direct = [dest |-> 1, src |-> IdOf(n), kind |-> "new", body |-> <<id>>]
  OBVIOUS
<1>10. PICK all : all = [dest |-> 0, src |-> IdOf(n), kind |-> "new", body |-> <<id>>]
  OBVIOUS
<1>11. direct \in Good /\ all \in Good
  <2>1. IdOf(n) \in Nat /\ <<id>> \in Seq(Nat) /\ <<id>> # <<>>
    BY <1>3, <1>5, <1>8
  <2> QED BY <1>9, <1>10, <2>1 DEF Good, Message
<1>12. msgOut' = [msgOut EXCEPT ![n] = Append(@, all)]
  BY <1>3, <1>4, <1>10 DEF Added
<1>13. link'[<<n, c>>] = <<direct>> /\ \A l \in Links : l # <<n, c>> => link'[l] = link[l]
  <2>1. id # IdOf(n)
    BY <1>3, <1>8 DEF Names, HasId
  <2>2. Added(n, 1, <<id>>) = direct /\ direct.src = IdOf(n)
    BY <1>3, <1>9 DEF Added
  <2>3. link' = [link EXCEPT ![<<n, c>>] = Append(@, direct)]
    BY <1>4, <2>1, <2>2
  <2> QED BY <1>1, <1>3, <1>5, <2>3
<1>14. IdOf(n)' = IdOf(n) /\ HasId(n)' /\ HasId(c)' /\ Awake(n)'
  <2>1. IdOf(n)' = IdOf(n) /\ myId'[n] = myId[n]
    BY <1>1, <1>2, <1>6
  <2>2. HasId(n)' /\ HasId(c)'
    BY <1>3, <1>6, <1>8, <2>1 DEF HasId
  <2> QED BY <1>3, <2>1, <2>2 DEF Awake
<1>15. Started'
  <2>1. ASSUME NEW d \in Clients PROVE ClientStarted(d)'
    <3>1. d \in Nodes /\ Parent[d] \in Nodes
      BY WithinServer
    <3>2. CASE d = c
      <4>1. /\ connected'[c] = "up" /\ clientConn'[c].myId = IdOf(n)
            /\ myId'[c] = 0 /\ serverConn'[c] = NoConn /\ serverId'[c] = serverConn'[c].otherId
        <5>1. serverId[c] = serverConn[c].otherId
          BY <1>1 DEF RoutesInv, Started, ClientStarted
        <5>2. clientConn'[c] = [myId |-> IdOf(n), otherId |-> id] /\ connected'[c] = "up"
          BY <1>1, <1>2, <1>3, <1>4, <1>5
        <5> QED BY <1>2, <1>3, <5>1, <5>2
      <4> QED BY <1>1, <1>14, <3>2, <4>1 DEF ClientStarted
    <3>3. CASE d # c
      <4>1. Awake(Parent[d]) => Awake(Parent[d])'
        <5>1. CASE Parent[d] = c
          BY <1>3, <5>1 DEF Awake
        <5>2. CASE Parent[d] # c
          BY <1>2, <1>6, <3>1, <5>2 DEF Awake, HasId
        <5> QED BY <5>1, <5>2
      <4>2. \A l \in {<<Parent[d], d>>, <<d, Parent[d]>>} : l \in open' => l \in open
        BY <1>7, <3>3
      <4>3. connected'[d] = connected[d] /\ clientConn'[d] = clientConn[d]
        BY <1>2, <1>4, <1>5, <3>1, <3>3
      <4> QED BY <1>2, <1>6, <1>8, <3>1, <3>3, <4>1, <4>2, <4>3, ClientStartedKept
    <3> QED BY <3>2, <3>3
  <2> QED BY <1>2, <2>1 DEF RoutesInv, Started
<1>16. direct \in Fitting(n, c)'
  <2>1. id \in Of(Side(n, c))'
    <3>1. id \in Names' /\ Owners(id)' = {c}
      BY <1>1, <1>6, <1>8 DEF Names, Owners, IdsGiven, HasId
    <3>2. c \in Side(n, c)
      BY <1>1 DEF Side, Behind
    <3> QED BY <3>1, <3>2 DEF Of
  <2>2. <<id>> \in Seq(Of(Side(n, c))')
    BY <2>1
  <2> QED BY <1>9, <1>11, <1>6, <1>14, <2>2 DEF Fitting
<1>17. LinksFit'
  <2> SUFFICES ASSUME NEW l \in Links
               PROVE  /\ link'[l] \in Seq(Fitting(l[1], l[2])')
                      /\ lastBody[l] \in Seq(Of(Side(l[1], l[2]))')
                      /\ link'[l] # <<>> \/ lastBody[l] # <<>> => HasId(l[1])' /\ HasId(l[2])'
    BY <1>2 DEF LinksFit
  <2>1. lastBody[l] \in Seq(Of(Side(l[1], l[2]))')
    BY <1>8, OfKept, SeqOver DEF RoutesInv, LinksFit
  <2>2. CASE l = <<n, c>>
    <3>1. <<direct>> \in Seq(Fitting(n, c)')
      BY <1>16
    <3> QED BY <1>13, <1>14, <2>1, <2>2, <3>1
  <2>3. CASE l # <<n, c>>
    <3>1. /\ link'[l] = link[l] /\ link[l] \in Seq(Fitting(l[1], l[2]))
          /\ link[l] # <<>> \/ lastBody[l] # <<>> => HasId(l[1]) /\ HasId(l[2])
      BY <1>13, <2>3 DEF RoutesInv, LinksFit
    <3>2. link[l] # <<>> => Fitting(l[1], l[2]) \subseteq Fitting(l[1], l[2])'
      BY <1>8, <3>1, LinkIs, FittingKept
    <3>3. link[l] \in Seq(Fitting(l[1], l[2])')
      <4>1. CASE link[l] = <<>>
        BY <4>1
      <4>2. CASE link[l] # <<>>
        BY <3>1, <3>2, <4>2, SeqOver
      <4> QED BY <4>1, <4>2
    <3> QED BY <1>8, <2>1, <3>1, <3>3, LinkIs, IdsKept
  <2> QED BY <2>2, <2>3
<1>18. LinksFull'
  <2> SUFFICES ASSUME NEW l \in Links, lastBody[l] = <<>>
               PROVE  /\ link'[l] # <<>> => Head(link'[l]).body # <<>>
                      /\ link'[l] = <<>> /\ {l, <<l[2], l[1]>>} \subseteq open' => l[2] \notin Children(l[1])
    BY <1>2 DEF LinksFull
  <2>1. CASE l = <<n, c>>
    BY <1>9, <1>13, <2>1
  <2>2. CASE l = <<c, n>>
    BY <1>1, <1>3, <1>13, <2>2
  <2>3. CASE l # <<n, c>> /\ l # <<c, n>>
    <3>1. l \in open' => l \in open
      BY <1>2, <2>3
    <3>2. <<l[2], l[1]>> \in open' => <<l[2], l[1]>> \in open
      BY <1>2, <2>3, LinkIs
    <3> QED BY <1>13, <2>3, <3>1, <3>2 DEF RoutesInv, LinksFull
  <2> QED BY <2>1, <2>2, <2>3
<1>19. Waiting'
  <2> SUFFICES ASSUME NEW d \in Clients, myId[d] = 0 PROVE ClientWaits(d)'
    BY <1>2 DEF Waiting
  <2>1. ClientWaits(d) /\ d \in Nodes /\ d # n /\ <<Parent[d], d>> \in Links
    BY <1>3, WithinServer, ChildLinks DEF RoutesInv, Waiting, HasId, Children
  <2>2. msgOut'[d] = msgOut[d]
    BY <1>5, <1>12, <2>1
  <2>3. CASE d = c
    <3>1. link'[<<Parent[d], d>>] # <<>> /\ IsNotice(Head(link'[<<Parent[d], d>>]))
      BY <1>1, <1>9, <1>13, <2>3 DEF IsNotice
    <3> QED BY <1>2, <2>1, <2>2, <3>1 DEF ClientWaits
  <2>4. CASE d # c
    <3>1. link'[<<Parent[d], d>>] = link[<<Parent[d], d>>]
      BY <1>13, <2>1, <2>4, OtherLinks
    <3> QED BY <1>2, <1>7, <2>1, <2>2, <2>4, <3>1 DEF ClientWaits
  <2> QED BY <2>3, <2>4
<1>20. /\ accepting'[n] = [at |-> "listing", client |-> c]
       /\ \A k \in Nodes : k # n => accepting'[k] = accepting[k]
  BY <1>2, <1>5
<1>21. \A k, a \in Nodes : HasId(a) /\ ~Entering(k, a) => ~Entering(k, a)'
  BY <1>3, <1>20 DEF Entering
<1>22. Arrived'
  <2>1. \A k, a \in Nodes : Sender(k, a) => ~Entering(k, a)'
    BY <1>21 DEF Sender
  <2> QED BY <1>2, <1>8, <2>1, ArrivedKept DEF RoutesInv, Arrived
<1>23. Leaving'
  <2>1. all \in ToSend(n)'
    BY <1>10, <1>11, <1>6, <1>14 DEF ToSend
  <2>2. ASSUME NEW k \in Nodes
        PROVE  /\ msgOut'[k] \in Seq(ToSend(k)')
               /\ accepting'[k].at = "inserting" => accepting'[k].msg \in ToSend(k)'
               /\ accepting'[k].at # "no" => \E d \in Nodes : accepting'[k].client = d /\ HasId(d)'
    <3>1. ToSend(k) \subseteq ToSend(k)' /\ Seq(ToSend(k)) \subseteq Seq(ToSend(k)')
      BY <1>8, ToSendKept, SeqOver
    <3>2. /\ msgOut[k] \in Seq(ToSend(k)')
          /\ accepting[k].at = "inserting" => accepting[k].msg \in ToSend(k)'
          /\ accepting[k].at # "no" => HasId(accepting[k].client) /\ accepting[k].client \in Nodes
      BY <3>1, ChildLinks DEF RoutesInv, Leaving, KernalInv, AcceptTyped
    <3>3. CASE k = n
      <4>1. msgOut'[n] = Append(msgOut[n], all)
        BY <1>5, <1>12
      <4>2. accepting'[n].at = "listing" /\ accepting'[n].client = c
        BY <1>20
      <4> QED BY <1>1, <1>14, <2>1, <3>2, <3>3, <4>1, <4>2
    <3>4. CASE k # n
      <4>1. msgOut'[k] = msgOut[k] /\ accepting'[k] = accepting[k]
        BY <1>5, <1>12, <1>20, <3>4
      <4>2. ASSUME accepting[k].at # "no"
            PROVE  \E d \in Nodes : accepting'[k].client = d /\ HasId(d)'
        <5>1. PICK d \in Nodes : accepting[k].client = d /\ HasId(d)
          BY <3>2, <4>2
        <5> QED BY <1>8, <4>1, <5>1, IdsKept
      <4> QED BY <3>2, <4>1, <4>2
    <3> QED BY <3>3, <3>4
  <2>3. \A k \in Nodes : accepting'[k].at # "no" => HasId(accepting[k].client)'
    BY <2>2
  <2> QED BY <2>2, <2>3 DEF Leaving
<1>24. Tables'
  <2>1. \A k \in Nodes : \A d \in Children(k) : HasId(d) /\ ~Entering(k, d) => ~Entering(k, d)'
    BY <1>21, ChildLinks
  <2> QED BY <1>2, <1>8, <2>1, TablesKept
<1>25. Removing'
  BY <1>2, <1>8, RemovingKept DEF RoutesInv, Removing
<1> QED BY <1>8, <1>15, <1>17, <1>18, <1>19, <1>22, <1>23, <1>24, <1>25 DEF RoutesInv

(***************************************************************************)
(* Rem: what is removed was dropped, so a node never removes itself.       *)
(***************************************************************************)
LEMMA RemRoutes ==
    ASSUME KernalInv, RoutesInv, Kept, connected' = connected, open' \subseteq open,
           NEW n \in Nodes, n \in Clients => myId[n] # 0,
           \A l \in Links : Moved(l),
           \A k \in Nodes : /\ clientsToRemove'[k] \in Seq(Dropped(k))
                            /\ k # n => clientsToRemove'[k] = clientsToRemove[k],
           \A k \in Nodes : idsFromServer'[k] \in Seq(Of(Behind(k))),
           \A k \in Nodes : \A x \in DOMAIN clientToDirectClient'[k] :
               /\ x \in DOMAIN clientToDirectClient[k]
               /\ clientToDirectClient'[k][x] = clientToDirectClient[k][x],
           \A k \in Nodes : \A i \in DOMAIN directClients'[k] :
               i \in DOMAIN directClients[k] /\ directClients'[k][i] = directClients[k][i]
    PROVE  RoutesInv'
<1> USE DEF Kept, queues
<1>1. Grows /\ Started' /\ IdsGiven'
  BY SameIdsKept DEF SameIds
<1>2. LinksFit' /\ LinksFull'
  BY <1>1, LinksMoved
<1>3. Waiting'
  <2> SUFFICES ASSUME NEW c \in Clients, myId[c] = 0 PROVE ClientWaits(c)'
    BY DEF Waiting
  <2>1. ClientWaits(c) /\ c \in Nodes /\ c # n
    BY WithinServer DEF RoutesInv, Waiting
  <2> QED BY <2>1, WaitsMoved DEF ClientWaits
<1>4. Arrived'
  BY <1>1, EnteringSame, ArrivedKept DEF RoutesInv, Arrived
<1>5. Leaving'
  BY <1>1, LeavingKept DEF RoutesInv, Leaving
<1>6. Tables'
  <2>1. ASSUME NEW k \in Nodes PROVE idsFromServer'[k] \in Seq(Of(Behind(k))')
    BY <1>1, OfKept, SeqOver
  <2>2. ASSUME NEW k \in Nodes, NEW x \in DOMAIN clientToDirectClient'[k] PROVE Filed(k, x)'
    <3>1. \A d \in Children(k) : HasId(d) /\ ~Entering(k, d) => ~Entering(k, d)'
      BY EnteringSame
    <3> QED BY <1>1, <3>1, FiledKept DEF RoutesInv, Tables
  <2>3. ASSUME NEW k \in Nodes, NEW i \in DOMAIN directClients'[k]
        PROVE  \E d \in Nodes : directClients'[k][i] = d /\ i # 0 /\ IdOf(d)' = i
    <3>1. i \in DOMAIN directClients[k] /\ directClients'[k][i] = directClients[k][i]
      BY <2>3
    <3>2. PICK d \in Children(k) : directClients[k][i] = d /\ i # 0 /\ IdOf(d)' = i
      BY <1>1, <3>1, DirectKept
    <3> QED BY <3>1, <3>2, ChildLinks
  <2>4. \A k \in Nodes : \A i \in DOMAIN directClients'[k] :
           i # 0 /\ IdOf(directClients[k][i])' = i
    BY <2>3
  <2> QED BY <2>1, <2>2, <2>4 DEF Tables
<1>7. Removing'
  BY <1>1, RemovingKept DEF RoutesInv, Removing
<1> QED BY <1>1, <1>2, <1>3, <1>4, <1>5, <1>6, <1>7 DEF RoutesInv

LEMMA RemoveOtherRoutes ==
    ASSUME KernalInv, RoutesInv, Kept, NEW n \in Nodes, NEW id, RemoveOther(n, id),
           clientsToRemove[n] # <<>>,
           clientsToRemove' = [clientsToRemove EXCEPT ![n] = Tail(@)]
    PROVE  RoutesInv'
<1>1. n \in Clients => myId[n] # 0
  BY Idle
<1>2. \A l \in Links : Moved(l)
  BY DEF RemoveOther, Moved, Lengthened
<1>3. /\ clientsToRemove \in [Nodes -> Seq(Nat)]
      /\ idsFromServer \in [Nodes -> Seq(Nat)]
      /\ clientToDirectClient \in [Nodes -> MapsTo(Nat)]
  BY DEF KernalInv, RestTyped, TablesTyped
<1>4. ASSUME NEW k \in Nodes
      PROVE  /\ clientsToRemove'[k] \in Seq(Dropped(k))
             /\ k # n => clientsToRemove'[k] = clientsToRemove[k]
  <2>1. \A j \in Nodes : clientsToRemove[j] \in Seq(Dropped(j))
    BY DEF RoutesInv, Removing
  <2>2. Tail(clientsToRemove[n]) \in Seq(Dropped(n))
    BY <2>1
  <2> QED BY <1>3, <2>1, <2>2
<1>5. \A k \in Nodes : idsFromServer[k] \in Seq(Of(Behind(k)))
  BY DEF RoutesInv, Tables
<1>6. /\ \A k \in Nodes : idsFromServer'[k] \in Seq(Of(Behind(k)))
      /\ \A k \in Nodes : \A x \in DOMAIN clientToDirectClient'[k] :
            /\ x \in DOMAIN clientToDirectClient[k]
            /\ clientToDirectClient'[k][x] = clientToDirectClient[k][x]
  <2>1. CASE id \in ToSet(idsFromServer[n])
    <3>1. PICK i \in DOMAIN idsFromServer[n] :
             idsFromServer' = [idsFromServer EXCEPT ![n] = RemoveAt(@, i)]
      BY <2>1 DEF RemoveOther
    <3>2. RemoveAt(idsFromServer[n], i) \in Seq(Of(Behind(n)))
      <4> DEFINE s == idsFromServer[n]
      <4>1. s \in Seq(Of(Behind(n))) /\ i \in 1..Len(s)
        BY <1>5
      <4> HIDE DEF s
      <4>2. /\ SubSeq(s, 1, i - 1) \in Seq(Of(Behind(n)))
            /\ SubSeq(s, i + 1, Len(s)) \in Seq(Of(Behind(n)))
        <5>1. \A j \in 1..i - 1 : s[j] \in Of(Behind(n))
          BY <4>1
        <5>2. \A j \in i + 1..Len(s) : s[j] \in Of(Behind(n))
          BY <4>1
        <5> QED BY <4>1, <5>1, <5>2, SubSeqProperties
      <4>3. RemoveAt(s, i) = SubSeq(s, 1, i - 1) \o SubSeq(s, i + 1, Len(s))
        BY DEF RemoveAt
      <4>4. RemoveAt(s, i) \in Seq(Of(Behind(n)))
        BY <4>2, <4>3, ConcatProperties
      <4> QED BY <4>4 DEF s
    <3>3. UNCHANGED clientToDirectClient
      BY <2>1 DEF RemoveOther
    <3> QED BY <1>3, <1>5, <3>1, <3>2, <3>3
  <2>2. CASE id \notin ToSet(idsFromServer[n])
    <3> DEFINE f == clientToDirectClient[n]
    <3>1. clientToDirectClient' = [clientToDirectClient EXCEPT ![n] = Restrict(f, DOMAIN f \ {id})]
          /\ UNCHANGED idsFromServer
      BY <2>2 DEF RemoveOther
    <3>2. \A x \in DOMAIN Restrict(f, DOMAIN f \ {id}) :
             x \in DOMAIN f /\ Restrict(f, DOMAIN f \ {id})[x] = f[x]
      BY DEF Restrict
    <3> QED BY <1>3, <1>5, <3>1, <3>2
  <2> QED BY <2>1, <2>2
<1>7. UNCHANGED <<connected, directClients, open>>
  BY DEF RemoveOther
<1> QED BY <1>1, <1>2, <1>4, <1>6, <1>7, RemRoutes

\* the ids in the notice of a lost client are of nodes at or below it
LEMMA CutOffKnown ==
    ASSUME KernalInv, RoutesInv, NEW n \in Nodes, NEW c \in Children(n), HasId(c)
    PROVE  LET behind == {x \in DOMAIN clientToDirectClient[n] :
                             clientToDirectClient[n][x] = IdOf(c)}
           IN Keys(Restrict(clientToDirectClient[n], behind)) \in Seq(Of(Within[c]))
<1> DEFINE f == clientToDirectClient[n]
           behind == {x \in DOMAIN f : f[x] = IdOf(c)}
<1>1. f \in MapsTo(Nat) /\ behind \in SUBSET DOMAIN f
  BY DEF KernalInv, TablesTyped
<1>2. behind \subseteq Of(Within[c])
  <2> SUFFICES ASSUME NEW x \in DOMAIN f, f[x] = IdOf(c) PROVE x \in Of(Within[c])
    OBVIOUS
  <2>1. Filed(n, x)
    BY DEF RoutesInv, Tables
  <2>2. PICK d \in Children(n) : HasId(d) /\ f[x] = IdOf(d) /\ x \in Of(Within[d])
    BY <2>1 DEF Filed
  <2>3. d = c
    <3>1. d \in Nodes /\ c \in Nodes
      BY ChildLinks
    <3> QED BY <2>2, <3>1 DEF RoutesInv, IdsGiven
  <2> QED BY <2>2, <2>3
<1>3. DOMAIN Restrict(f, behind) = behind
  BY DEF Restrict
<1> HIDE DEF f, behind
<1>4. Keys(Restrict(f, behind)) \in Seq(behind)
  <2>1. Restrict(f, behind) \in MapsTo(Nat)
    BY <1>1, RestrictMap
  <2> QED BY <1>3, <2>1, KeysIn
<1>5. Keys(Restrict(f, behind)) \in Seq(Of(Within[c]))
  BY <1>2, <1>4, SeqOver
<1> QED BY <1>5 DEF f, behind

LEMMA RemoveDirectRoutes ==
    ASSUME KernalInv, RoutesInv, Kept, NEW n \in Nodes, NEW id, clientsToRemove[n] # <<>>,
           id = Head(clientsToRemove[n]), id \in DOMAIN directClients[n], RemoveDirect(n, id)
    PROVE  RoutesInv'
<1>1. PICK c \in Children(n) : directClients[n][id] = c /\ id # 0 /\ IdOf(c) = id /\ HasId(c)
  BY DirectIs
<1>2. /\ c \in Clients /\ c \in Nodes /\ Parent[c] = n /\ c # n
      /\ <<n, c>> \in Links /\ <<c, n>> \in Links /\ <<n, c>> # <<c, n>>
  BY ChildLinks
<1>3. Awake(n)
  BY <1>1, <1>2 DEF RoutesInv, Started, ClientStarted
<1>4. Dead(c)
  <2>1. clientsToRemove[n] \in Seq(Dropped(n))
    BY DEF RoutesInv, Removing
  <2>2. id \in Dropped(n)
    BY <2>1
  <2> QED BY <1>1, <2>2 DEF Dropped, Dead
<1> DEFINE direct == clientToDirectClient[n]
           behind == {x \in DOMAIN direct : direct[x] = id}
           ids == <<id>> \o Keys(Restrict(direct, behind))
<1>5. PICK msg : msg = Closed(n, ids)
  OBVIOUS
<1>6. PICK to : to = Route(n, msg) \ {c}
  OBVIOUS
<1>7. /\ clientToDirectClient' = [clientToDirectClient EXCEPT ![n] =
              Restrict(direct, DOMAIN direct \ behind)]
      /\ directClients' = [directClients EXCEPT ![n] =
              Restrict(directClients[n], DOMAIN directClients[n] \ {id})]
      /\ open' = open \ {<<n, c>>}
      /\ link' = [Sent(n, msg, to) EXCEPT ![<<c, n>>] = <<>>]
      /\ clientsToRemove' = [clientsToRemove EXCEPT ![n] = Tail(@) \o Unsent(n, msg, to)]
      /\ UNCHANGED <<connected, idsFromServer>>
  BY <1>1, <1>5, <1>6 DEF RemoveDirect
<1>8. ids \in Seq(Of(Within[c])) /\ ids # <<>>
  <2>1. Keys(Restrict(direct, behind)) \in Seq(Of(Within[c]))
    BY <1>1, CutOffKnown
  <2>2. id \in Of(Within[c])
    BY <1>1, <1>2, ChildId, WithinIs DEF Of
  <2>3. <<id>> \in Seq(Of(Within[c])) /\ <<id>> # <<>>
    BY <2>2
  <2> HIDE DEF direct, behind
  <2>4. ids \in Seq(Of(Within[c]))
    BY <2>1, <2>3, ConcatProperties
  <2>5. ids # <<>>
    BY <2>1, <2>3
  <2> QED BY <2>4, <2>5
<1>9. DOMAIN Restrict(direct, DOMAIN direct \ behind) \subseteq DOMAIN direct
      /\ \A x \in DOMAIN Restrict(direct, DOMAIN direct \ behind) :
            Restrict(direct, DOMAIN direct \ behind)[x] = direct[x]
  BY DEF Restrict
<1>10. \A i \in DOMAIN Restrict(directClients[n], DOMAIN directClients[n] \ {id}) :
          /\ i \in DOMAIN directClients[n]
          /\ Restrict(directClients[n], DOMAIN directClients[n] \ {id})[i] = directClients[n][i]
  BY DEF Restrict
<1> HIDE DEF ids
<1>11. msg = [dest |-> 0, src |-> IdOf(n), kind |-> "gone", body |-> ids]
  BY <1>3, <1>5 DEF Closed, Awake
<1>12. msg \in Good
  <2>1. \A k \in Nodes : IdOf(k) \in Nat
    BY DEF IdOf, KernalInv, TablesTyped, AcceptTyped
  <2>2. Of(Within[c]) \subseteq Nat
    BY <2>1 DEF Of, Names, Tags
  <2>3. ids \in Seq(Nat)
    BY <1>8, <2>2, SeqOver
  <2> QED BY <1>11, <2>1, <2>3 DEF Good, Message
<1>13. Allowed(n, msg, to)
  <2> SUFFICES ASSUME NEW k \in Neighbours(n), k \in to PROVE Marked(n, msg) \in Fitting(n, k)
    BY DEF Allowed
  <2>1. k # c
    BY <1>6
  <2>2. Within[c] \subseteq Side(n, k) \ {k}
    BY <2>1, SideOwn
  <2>3. Of(Within[c]) \subseteq Of(Side(n, k)) /\ Of(Within[c]) \subseteq CutIn(Side(n, k) \ {k})
    <3>1. Of(Within[c]) \subseteq Of(Side(n, k))
      BY <2>2, OfWider
    <3>2. Of(Within[c]) \subseteq CutIn(Side(n, k) \ {k})
      BY <1>2, <1>4, <2>2 DEF Of, CutIn
    <3> QED BY <3>1, <3>2
  <2>4. ids \in Seq(Of(Side(n, k))) /\ ids \in Seq(CutIn(Side(n, k) \ {k}))
    <3>1. /\ Seq(Of(Within[c])) \subseteq Seq(Of(Side(n, k)))
          /\ Seq(Of(Within[c])) \subseteq Seq(CutIn(Side(n, k) \ {k}))
      BY <2>3, SeqOver
    <3> QED BY <1>8, <3>1
  <2>5. Marked(n, msg) = msg
    BY <1>11 DEF Marked
  <2> QED BY <1>8, <1>11, <1>12, <2>4, <2>5 DEF Fitting
<1>14. ASSUME NEW l \in Links PROVE Moved(l)
  <2>1. Sent(n, msg, to) \in [Links -> Seq(Good)] /\ link \in [Links -> Seq(Good)]
    BY <1>12, SentTyped DEF KernalInv, WiresTyped
  <2>2. CASE l = <<c, n>>
    <3>1. link'[l] = <<>> /\ ~({l, <<l[2], l[1]>>} \subseteq open')
      BY <1>2, <1>7, <2>1, <2>2
    <3>2. 0 \in 0..Len(link[l]) /\ SubSeq(link[l], 1, 0) = <<>>
      BY <2>1, SubSeqEmpty
    <3> QED BY <3>1, <3>2 DEF Moved
  <2>3. CASE l # <<c, n>>
    <3>1. link'[l] = Sent(n, msg, to)[l]
      BY <1>7, <2>1, <2>3
    <3>2. Lengthened(l, Sent(n, msg, to)[l])
      BY <1>3, <1>13, SentMoves
    <3> QED BY <3>1, <3>2 DEF Moved
  <2> QED BY <2>2, <2>3
<1>15. /\ clientsToRemove \in [Nodes -> Seq(Nat)] /\ idsFromServer \in [Nodes -> Seq(Nat)]
       /\ clientToDirectClient \in [Nodes -> MapsTo(Nat)]
       /\ directClients \in [Nodes -> MapsTo(Clients)]
  BY DEF KernalInv, RestTyped, TablesTyped, AcceptTyped
<1>16. ASSUME NEW k \in Nodes
       PROVE  /\ clientsToRemove'[k] \in Seq(Dropped(k))
              /\ k # n => clientsToRemove'[k] = clientsToRemove[k]
  <2>1. \A j \in Nodes : clientsToRemove[j] \in Seq(Dropped(j))
    BY DEF RoutesInv, Removing
  <2>2. Tail(clientsToRemove[n]) \in Seq(Dropped(n))
    BY <2>1
  <2>3. Unsent(n, msg, to) \in Seq(Dropped(n))
    BY <1>3, UnsentDropped
  <2>4. Tail(clientsToRemove[n]) \o Unsent(n, msg, to) \in Seq(Dropped(n))
    BY <2>2, <2>3, ConcatProperties
  <2> QED BY <1>7, <1>15, <2>1, <2>4
<1>17. \A k \in Nodes : idsFromServer'[k] \in Seq(Of(Behind(k)))
  BY <1>7 DEF RoutesInv, Tables
<1> HIDE DEF behind
<1>18. /\ \A k \in Nodes : \A x \in DOMAIN clientToDirectClient'[k] :
             /\ x \in DOMAIN clientToDirectClient[k]
             /\ clientToDirectClient'[k][x] = clientToDirectClient[k][x]
       /\ \A k \in Nodes : \A i \in DOMAIN directClients'[k] :
             i \in DOMAIN directClients[k] /\ directClients'[k][i] = directClients[k][i]
  BY <1>7, <1>9, <1>10, <1>15
<1>19. n \in Clients => myId[n] # 0
  BY Idle
<1> QED BY <1>7, <1>14, <1>16, <1>17, <1>18, <1>19, RemRoutes

LEMMA NotItself ==
    ASSUME RoutesInv, NEW n \in Nodes, clientsToRemove[n] # <<>>
    PROVE  Head(clientsToRemove[n]) # myId[n]
<1>1. Head(clientsToRemove[n]) \in Dropped(n)
  <2>1. clientsToRemove[n] \in Seq(Dropped(n))
    BY DEF RoutesInv, Removing
  <2> QED BY <2>1
<1>2. Head(clientsToRemove[n]) \notin {0, IdOf(n)}
  BY <1>1 DEF Dropped, Names, Tags
<1>3. myId[n] \in {0, IdOf(n)}
  BY DEF RoutesInv, Started, ClientStarted, IdOf, Clients
<1> QED BY <1>2, <1>3

LEMMA HandleRemoveRoutes ==
    ASSUME KernalInv, RoutesInv, NEW n \in Nodes, HandleRemoveClients(n)
    PROVE  RoutesInv'
<1> DEFINE id == Head(clientsToRemove[n])
           pop == clientsToRemove' = [clientsToRemove EXCEPT ![n] = Tail(@)]
<1>1. /\ clientsToRemove[n] # <<>> /\ Kept
      /\ IF id = myId[n] THEN RemoveSelf(n) /\ pop
         ELSE IF id \in DOMAIN directClients[n] THEN RemoveDirect(n, id)
         ELSE RemoveOther(n, id) /\ pop
  BY DEF HandleRemoveClients, Kept
<1>2. id # myId[n]
  BY <1>1, NotItself
<1> QED BY <1>1, <1>2, RemoveDirectRoutes, RemoveOtherRoutes

LEMMA StutterRoutes == ASSUME KernalInv, RoutesInv, UNCHANGED vars PROVE RoutesInv'
<1>1. Started' /\ IdsGiven' /\ Grows
  BY SameIdsKept DEF SameIds, vars, tables, accepted, wires
<1>2. LinksFit' /\ LinksFull'
  BY <1>1, LinksFitKept DEF RoutesInv, LinksFull, vars, sending, wires
<1>3. Waiting'
  BY DEF RoutesInv, Waiting, ClientWaits, Linked, vars, tables, queues, sending, wires
<1>4. Arrived'
  BY <1>1, EnteringSame, ArrivedKept DEF RoutesInv, Arrived, vars, accepted, queues
<1>5. Leaving'
  BY <1>1, LeavingKept DEF RoutesInv, Leaving, vars, accepted, queues
<1>6. Tables'
  BY <1>1, EnteringSame, TablesKept DEF vars, tables, accepted
<1>7. Removing'
  BY <1>1, RemovingKept DEF RoutesInv, Removing, vars, tables, sending
<1> QED BY <1>1, <1>2, <1>3, <1>4, <1>5, <1>6, <1>7 DEF RoutesInv

LEMMA NextRoutes == KernalInv /\ RoutesInv /\ ProperIds' /\ [Next]_vars => RoutesInv'
<1> SUFFICES ASSUME KernalInv, RoutesInv, ProperIds', Next PROVE RoutesInv'
  BY StutterRoutes
<1>1. CASE Joining
  BY <1>1, StartRootRoutes, DialRoutes DEF Joining
<1>2. ASSUME NEW n \in Nodes, Context(n) PROVE RoutesInv'
  <2>1. ASSUME NEW c \in Children(n), Accept(c) PROVE RoutesInv'
    BY <2>1, AcceptRoutes
  <2>2. ASSUME accepting[n] = NotAccepting, NEW l \in Links, l[2] = n, Deliver(l)
        PROVE  RoutesInv'
    BY <2>2, DeliverRoutes
  <2>3. ASSUME NEW l \in Links, l[2] = n, NoticesPeer(n, l[1]) PROVE RoutesInv'
    BY <2>3, LinkNodes, ClosesRoutes DEF NoticesPeer
  <2> QED BY <1>2, <2>1, <2>2, <2>3, AcceptListRoutes, AcceptInsertRoutes DEF Context
<1>3. ASSUME NEW n \in Nodes, In(n) PROVE RoutesInv'
  BY <1>3, ReciveRoutes, UseForwardedRoutes DEF In
<1>4. CASE Working
  BY <1>1, <1>2, <1>3, <1>4, HandleOutRoutes, HandleRemoveRoutes DEF Working
<1>5. ASSUME NEW n \in Users, Submit(n) PROVE RoutesInv'
  BY <1>5, SubmitRoutes, TreeAssumption
<1>6. ASSUME NEW n \in Nodes, NEW k \in Nodes, Fails(n, k) PROVE RoutesInv'
  BY <1>6, ClosesRoutes DEF Fails
<1> QED BY <1>4, <1>5, <1>6 DEF Next

LEMMA RoutesHold == Spec /\ []ProperIds => [](KernalInv /\ RoutesInv)
<1>1. Init => KernalInv /\ RoutesInv
  BY InitTyped, RoutesInit
<1>2. KernalInv /\ RoutesInv /\ ProperIds' /\ [Next]_vars => (KernalInv /\ RoutesInv)'
  BY NextTyped, NextRoutes
<1> QED BY <1>1, <1>2, PTL DEF Spec

(***************************************************************************)
(* The tables never lead the wrong way while the nodes have proper ids, in *)
(* any tree, whatever the processes draw, whoever is started when and      *)
(* whatever sockets fail.  (What gives proper ids is asked below.)         *)
(***************************************************************************)
THEOREM KernalRoutesLead == Spec /\ []ProperIds => []RoutesLead
BY RoutesHold, RoutesInvLead, PTL

(***************************************************************************)
(* onConnectionRemoved is called only for a node that is cut off, and no   *)
(* node is asked to remove itself, while the nodes have proper ids.        *)
(***************************************************************************)
THEOREM KernalRemovedAreCut == Spec /\ []ProperIds => []RemovedAreCut
BY RoutesHold, RoutesInvLead, PTL

(***************************************************************************)
(* A notice that a node takes in always has a body to read from, although  *)
(* the list for a first client is sent without one: what the connection    *)
(* received before stands in for it.  This, too, while the ids are proper: *)
(* the notice that comes first is not sent to a client whose id is that of *)
(* its server.                                                             *)
(***************************************************************************)
THEOREM KernalNoticesHaveBodies == Spec /\ []ProperIds => []NoticesHaveBodies
BY RoutesHold, RoutesInvLead, PTL

(***************************************************************************)
(* Who is told of an id can reach it.                                      *)
(*                                                                         *)
(* An id is announced before the maps are changed: by the accept handler,  *)
(* whose notice other threads send on, and by every node that forwards a   *)
(* notice before it uses it.  What keeps a message for such an id from     *)
(* arriving where the maps do not have it yet is said in three steps.      *)
(* Tabled(n) is what n could send to now, Landing(n) what it can send to   *)
(* when it looks at the next message, Soon(n) when its accept handler is   *)
(* done.  A node sends news only of what is in its own Soon, files ids     *)
(* only where they are in the Soon of the next node, and a message for an  *)
(* id is on its way only to nodes that have it in their Soon.              *)
(***************************************************************************)
\* ids as nodes have them: not 0 and not what a user's message carries
Foreign(S) == S \ (Tags \cup {0})
News(n) == IF inHand[n] # <<>> /\ inHand[n][1].kind = "new" THEN ToSet(inHand[n][1].body) ELSE {}
Tabled(n) == Foreign(Knows(n) \cup {IdOf(n)})
Landing(n) == Tabled(n) \cup Foreign(News(n))
Soon(n) == Landing(n) \cup Foreign({IdOf(c) : c \in {d \in Clients : Entering(n, d)}})

\* who sent a notice will have the ids in it
Vouched(m) == \E a \in Nodes : HasId(a) /\ m.src = IdOf(a) /\ Foreign(ToSet(m.body)) \subseteq Soon(a)
LedOn(l) == {m \in Good : /\ m.kind # "gone" /\ Foreign(ToSet(m.body)) \subseteq Soon(l[1])
                          /\ m.kind = "user" => Foreign({m.dest}) \subseteq Soon(l[2])}
LedIn(n) == {m \in Good : /\ m.kind # "gone"
                          /\ m.kind = "new" => Vouched(m)
                          /\ m.kind = "user" => Foreign({m.dest}) \subseteq Landing(n)}
LedOut(n) == {m \in Good : /\ m.kind # "gone" /\ Foreign(ToSet(m.body)) \subseteq Soon(n)
                           /\ m.kind = "user" =>
                                 HasId(n) /\ Foreign({m.dest}) \subseteq Tabled(n) \ {IdOf(n)}}

\* a client with an id is connected, and is in the map or about to be
Attached == \A c \in Clients : HasId(c) =>
    Linked(c) /\ (Entering(Parent[c], c) \/ IdOf(c) \in DOMAIN directClients[Parent[c]])
NothingRemoved == \A n \in Nodes : clientsToRemove[n] = <<>> /\ Len(inHand[n]) <= 1
\* what is filed is known where it is filed under
FiledUp == \A c \in Clients : \A x \in ToSet(idsFromServer[c]) : Foreign({x}) \subseteq Soon(Parent[c])
FiledDown == \A n \in Nodes : \A c \in Children(n) : \A x \in DOMAIN clientToDirectClient[n] :
    HasId(c) /\ clientToDirectClient[n][x] = IdOf(c) => Foreign({x}) \subseteq Soon(c)
FiledAhead == FiledUp /\ FiledDown
LinksLed == \A l \in Links : /\ link[l] \in Seq(LedOn(l))
                             /\ Foreign(ToSet(lastBody[l])) \subseteq Soon(l[1])
InLed == \A n \in Nodes : msgIn[n] \in Seq(LedIn(n)) /\ inHand[n] \in Seq(LedIn(n))
OutLed == \A n \in Nodes : /\ msgOut[n] \in Seq(LedOut(n))
                           /\ accepting[n].at = "inserting" => accepting[n].msg \in LedOut(n)
ToldLed == \A n \in Nodes : Foreign(announced[n]) \subseteq Tabled(n)
FoundLed == \A m \in notFound : m.kind = "user" => m.dest \in Tags

FindInv == /\ Attached /\ NothingRemoved /\ FiledAhead /\ LinksLed
           /\ InLed /\ OutLed /\ ToldLed /\ FoundLed

LEMMA FindInit == ASSUME Init PROVE FindInv
<1>1. \A n \in Nodes : IdOf(n) = 0
  BY TreeAssumption DEF Init, IdOf, NoConn
<1>2. Attached /\ NothingRemoved /\ FoundLed
  BY <1>1 DEF Init, Attached, NothingRemoved, FoundLed, HasId, Clients
<1>3. \A S : ToSet(<<>>) \subseteq S
  BY DEF ToSet
<1>4. FiledAhead
  BY <1>3 DEF Init, FiledAhead, FiledUp, FiledDown, Foreign, Clients
<1>5. LinksLed
  BY <1>3 DEF Init, LinksLed, Foreign
<1>6. InLed /\ OutLed /\ ToldLed
  BY DEF Init, InLed, OutLed, ToldLed, NotAccepting, Foreign
<1> QED BY <1>2, <1>4, <1>5, <1>6 DEF FindInv

\* what can be sent to stays so
Learns == /\ Grows
          /\ \A n \in Nodes : /\ Tabled(n) \subseteq Tabled(n)'
                              /\ Landing(n) \subseteq Landing(n)'
                              /\ Soon(n) \subseteq Soon(n)'

LEMMA LearnsIf ==
    ASSUME Grows,
           \A n \in Nodes : Knows(n) \subseteq Knows(n)',
           \A n \in Nodes : Foreign(News(n)) \subseteq Landing(n)',
           \A n \in Nodes : \A c \in Clients : Entering(n, c) =>
               HasId(c) /\ (Entering(n, c)' \/ IdOf(c) \in Knows(n)')
    PROVE  Learns
<1>1. ASSUME NEW n \in Nodes
      PROVE  Tabled(n) \subseteq Tabled(n)' /\ Landing(n) \subseteq Landing(n)'
  <2>1. IdOf(n)' = IdOf(n) \/ IdOf(n) = 0
    BY DEF Grows, HasId
  <2>2. Tabled(n) \subseteq Tabled(n)'
    BY <2>1 DEF Tabled, Foreign
  <2>3. Tabled(n)' \subseteq Landing(n)' /\ Landing(n) = Tabled(n) \cup Foreign(News(n))
    BY DEF Landing
  <2> QED BY <2>2, <2>3
<1>2. ASSUME NEW n \in Nodes PROVE Soon(n) \subseteq Soon(n)'
  <2>1. ASSUME NEW c \in Clients, Entering(n, c), NEW x \in Foreign({IdOf(c)}) PROVE x \in Soon(n)'
    <3>1. c \in Nodes /\ HasId(c) /\ x = IdOf(c) /\ x \notin Tags \cup {0}
      BY <2>1 DEF Clients, Foreign
    <3>2. IdOf(c)' = x
      BY <3>1, IdsKept
    <3>3. CASE Entering(n, c)'
      BY <3>1, <3>2, <3>3 DEF Soon, Foreign
    <3>4. CASE x \in Knows(n)'
      BY <3>1, <3>4 DEF Soon, Landing, Tabled, Foreign
    <3> QED BY <2>1, <3>1, <3>3, <3>4
  <2>2. Landing(n)' \subseteq Soon(n)'
    BY DEF Soon
  <2>3. \A x \in Soon(n) : x \in Landing(n) \/ \E c \in Clients : Entering(n, c) /\ x \in Foreign({IdOf(c)})
    BY DEF Soon, Foreign
  <2> QED BY <1>1, <2>1, <2>2, <2>3
<1> QED BY <1>1, <1>2 DEF Learns

LEMMA LedKept ==
    ASSUME Learns
    PROVE  /\ \A l \in Links : LedOn(l) \subseteq LedOn(l)' /\ Seq(LedOn(l)) \subseteq Seq(LedOn(l)')
           /\ \A n \in Nodes : LedIn(n) \subseteq LedIn(n)' /\ Seq(LedIn(n)) \subseteq Seq(LedIn(n)')
           /\ \A n \in Nodes : LedOut(n) \subseteq LedOut(n)' /\ Seq(LedOut(n)) \subseteq Seq(LedOut(n)')
<1>1. Grows /\ \A n \in Nodes : /\ Tabled(n) \subseteq Tabled(n)'
                                /\ Landing(n) \subseteq Landing(n)'
                                /\ Soon(n) \subseteq Soon(n)'
  BY DEF Learns
<1>2. ASSUME NEW l \in Links PROVE LedOn(l) \subseteq LedOn(l)'
  BY <1>1, LinkNodes DEF LedOn
<1>3. ASSUME NEW m, Vouched(m) PROVE Vouched(m)'
  <2>1. PICK a \in Nodes : HasId(a) /\ m.src = IdOf(a) /\ Foreign(ToSet(m.body)) \subseteq Soon(a)
    BY <1>3 DEF Vouched
  <2>2. HasId(a)' /\ m.src = IdOf(a)' /\ Foreign(ToSet(m.body)) \subseteq Soon(a)'
    BY <1>1, <2>1, IdsKept
  <2> QED BY <2>2 DEF Vouched
<1>4. ASSUME NEW n \in Nodes PROVE LedIn(n) \subseteq LedIn(n)'
  BY <1>1, <1>3 DEF LedIn
<1>5. ASSUME NEW n \in Nodes PROVE LedOut(n) \subseteq LedOut(n)'
  BY <1>1, IdsKept DEF LedOut
<1> QED BY <1>2, <1>4, <1>5, SeqOver

(***************************************************************************)
(* A part of the invariant stays when what it is about does not change.    *)
(***************************************************************************)
LEMMA AttachedKept ==
    ASSUME FindInv, UNCHANGED <<open, accepting, directClients>>,
           \A n \in Nodes : IdOf(n)' = IdOf(n)
    PROVE  Attached'
<1>1. \A c \in Clients : c \in Nodes
  BY DEF Clients
<1> QED BY <1>1 DEF FindInv, Attached, HasId, Linked, Entering

LEMMA FiledAheadIf ==
    ASSUME FindInv, Learns,
           \A c \in Clients : \A x \in ToSet(idsFromServer'[c]) :
               x \in ToSet(idsFromServer[c]) \/ Foreign({x}) \subseteq Soon(Parent[c])',
           \A n \in Nodes : \A c \in Children(n) : \A x \in DOMAIN clientToDirectClient'[n] :
               HasId(c)' /\ clientToDirectClient'[n][x] = IdOf(c)' =>
                   \/ /\ HasId(c) /\ x \in DOMAIN clientToDirectClient[n]
                      /\ clientToDirectClient[n][x] = IdOf(c)
                   \/ Foreign({x}) \subseteq Soon(c)'
    PROVE  FiledAhead'
<1>1. \A n \in Nodes : Soon(n) \subseteq Soon(n)'
  BY DEF Learns
<1>2. FiledUp'
  <2>1. \A c \in Clients : Parent[c] \in Nodes
    BY WithinServer
  <2> QED BY <1>1, <2>1 DEF FindInv, FiledAhead, FiledUp
<1>3. FiledDown'
  <2>1. \A n \in Nodes : \A c \in Children(n) : c \in Nodes
    BY ChildLinks
  <2> QED BY <1>1, <2>1 DEF FindInv, FiledAhead, FiledDown
<1> QED BY <1>2, <1>3 DEF FiledAhead

LEMMA FiledAheadKept ==
    ASSUME FindInv, Learns, UNCHANGED <<idsFromServer, clientToDirectClient>>,
           \A n \in Nodes : IdOf(n)' = IdOf(n)
    PROVE  FiledAhead'
<1>1. \A n \in Nodes : \A c \in Children(n) : c \in Nodes
  BY ChildLinks
<1> QED BY <1>1, FiledAheadIf DEF HasId

LEMMA LinksLedKept ==
    ASSUME FindInv, Learns, UNCHANGED <<link, lastBody>>
    PROVE  LinksLed'
<1>1. \A l \in Links : l[1] \in Nodes
  BY LinkNodes
<1> QED BY <1>1, LedKept DEF FindInv, LinksLed, Learns

LEMMA InLedKept ==
    ASSUME FindInv, Learns, UNCHANGED <<msgIn, inHand>>
    PROVE  InLed'
BY LedKept DEF FindInv, InLed

LEMMA OutLedKept ==
    ASSUME FindInv, Learns, UNCHANGED <<msgOut, accepting>>
    PROVE  OutLed'
BY LedKept DEF FindInv, OutLed

LEMMA ToldLedKept ==
    ASSUME FindInv, Learns, announced' = announced
    PROVE  ToldLed'
BY DEF FindInv, ToldLed, Learns

LEMMA ToldLedIf ==
    ASSUME FindInv, Learns,
           \A n \in Nodes : \A x \in announced'[n] :
               x \in announced[n] \/ Foreign({x}) \subseteq Tabled(n)'
    PROVE  ToldLed'
<1>1. ASSUME NEW n \in Nodes, NEW x \in Foreign(announced'[n]) PROVE x \in Tabled(n)'
  <2>1. x \in announced'[n] /\ x \in Foreign({x})
    BY <1>1 DEF Foreign
  <2>2. CASE x \in announced[n]
    <3>1. x \in Foreign(announced[n])
      BY <1>1, <2>2 DEF Foreign
    <3> QED BY <3>1 DEF FindInv, ToldLed, Learns
  <2> QED BY <2>1, <2>2
<1> QED BY <1>1 DEF ToldLed

(***************************************************************************)
(* Sending: a message goes on to who has its destination, and nothing is   *)
(* asked of Rem.                                                           *)
(***************************************************************************)
\* the connections a node picks are open
LEMMA RouteOpen ==
    ASSUME KernalInv, RoutesInv, FindInv, NEW n \in Nodes, NEW m, NEW k \in Route(n, m)
    PROVE  <<n, k>> \in open
<1>1. k \in (IF ToServer(n) THEN {Parent[n]} ELSE {})
          \cup {directClients[n][i] : i \in DOMAIN directClients[n]}
  BY DEF Route
<1>2. CASE ToServer(n) /\ k = Parent[n]
  <2>1. n \in Clients /\ HasId(n)
    BY <1>2 DEF ToServer, RoutesInv, Started, ClientStarted
  <2> QED BY <1>2, <2>1 DEF FindInv, Attached, Linked
<1>3. CASE \E i \in DOMAIN directClients[n] : k = directClients[n][i]
  <2>1. PICK i \in DOMAIN directClients[n] : k = directClients[n][i]
    BY <1>3
  <2>2. PICK c \in Children(n) : directClients[n][i] = c /\ HasId(c)
    BY <2>1, DirectIs
  <2>3. c \in Clients /\ Parent[c] = n
    BY <2>2, ChildLinks
  <2> QED BY <2>1, <2>2, <2>3 DEF FindInv, Attached, Linked
<1> QED BY <1>1, <1>2, <1>3

LEMMA NothingUnsent ==
    ASSUME KernalInv, RoutesInv, FindInv, NEW n \in Nodes, NEW m
    PROVE  Unsent(n, m, Route(n, m)) = <<>>
<1> DEFINE dead == {k \in Route(n, m) : ~Blocked(n, k, m) /\ <<n, k>> \notin open}
           direct == directClients[n]
           ids == {id \in DOMAIN direct : direct[id] \in dead}
           server == IF ToServer(n) /\ Parent[n] \in dead THEN <<serverConn[n].otherId>> ELSE <<>>
<1>1. Unsent(n, m, Route(n, m)) = server \o Keys(Restrict(direct, ids))
  BY DEF Unsent
<1>2. dead = {}
  BY RouteOpen
<1>3. server = <<>> /\ ids = {}
  <2> HIDE DEF dead
  <2> QED BY <1>2
<1>4. Keys(Restrict(direct, {})) = <<>>
  <2>1. DOMAIN Restrict(direct, {}) = {}
    BY DEF Restrict
  <2> HIDE DEF direct
  <2> QED BY <2>1, FS_EmptySet DEF Keys
<1> HIDE DEF server, ids, direct
<1> QED BY <1>1, <1>3, <1>4

\* a message for a known id is sent somewhere, and only to who has the id
LEMMA RouteAhead ==
    ASSUME KernalInv, RoutesInv, FindInv, NEW n \in Nodes, NEW m,
           m.dest \in Knows(n), m.dest \in Foreign({m.dest})
    PROVE  Found(n, m) /\ \A k \in Route(n, m) : m.dest \in Soon(k)
<1>1. m.dest # 0
  BY DEF Foreign
<1>2. CASE m.dest \in ToSet(idsFromServer[n])
  <2>1. \A k \in Route(n, m) : n \in Clients /\ k = Parent[n]
    BY <1>1, <1>2 DEF Route, ToServer
  <2>2. n \in Clients => m.dest \in Soon(Parent[n])
    BY <1>2 DEF FindInv, FiledAhead, FiledUp, Foreign
  <2> QED BY <1>2, <2>1, <2>2 DEF Found
<1>3. CASE m.dest \notin ToSet(idsFromServer[n])
  <2> DEFINE direct == clientToDirectClient[n]
  <2>1. m.dest \in DOMAIN direct
    BY <1>3 DEF Knows
  <2>2. PICK c \in Children(n) : HasId(c) /\ direct[m.dest] = IdOf(c) /\ ~Entering(n, c)
    BY <2>1 DEF RoutesInv, Tables, Filed
  <2>3. IdOf(c) \in DOMAIN directClients[n]
    <3>1. c \in Clients /\ Parent[c] = n
      BY ChildLinks
    <3>2. Attached
      BY DEF FindInv
    <3> QED BY <2>2, <3>1, <3>2 DEF Attached
  <2>4. Route(n, m) = {directClients[n][IdOf(c)]}
    <3>1. Route(n, m) = {directClients[n][i] : i \in
                            {direct[d] : d \in DOMAIN direct \cap {m.dest}} \cap DOMAIN directClients[n]}
      BY <1>1, <1>3 DEF Route
    <3>2. {direct[d] : d \in DOMAIN direct \cap {m.dest}} = {IdOf(c)}
      BY <2>1, <2>2
    <3> HIDE DEF direct
    <3> QED BY <2>3, <3>1, <3>2
  <2>5. directClients[n][IdOf(c)] = c
    <3>1. PICK d \in Children(n) : directClients[n][IdOf(c)] = d /\ IdOf(d) = IdOf(c)
      BY <2>3, DirectIs
    <3>2. d \in Nodes /\ c \in Nodes
      BY <2>2, <3>1, ChildLinks
    <3>3. d = c
      BY <2>2, <3>1, <3>2 DEF RoutesInv, IdsGiven
    <3> QED BY <3>1, <3>3
  <2>6. m.dest \in Soon(c)
    BY <2>1, <2>2 DEF FindInv, FiledAhead, FiledDown
  <2> QED BY <2>4, <2>5, <2>6 DEF Found
<1> QED BY <1>2, <1>3

LEMMA SendFinds ==
    ASSUME KernalInv, RoutesInv, FindInv, Learns, NEW n \in Nodes, NEW m \in Good,
           SendMessage(n, m), lastBody' = lastBody, m.kind # "gone",
           Foreign(ToSet(m.body)) \subseteq Soon(n)',
           m.kind = "user" => Foreign({m.dest}) \subseteq Knows(n)
    PROVE  LinksLed' /\ FoundLed' /\ clientsToRemove' = clientsToRemove
<1>1. link' = Sent(n, m, Route(n, m))
  BY DEF SendMessage
<1>2. clientsToRemove' = clientsToRemove
  <2>1. clientsToRemove \in [Nodes -> Seq(Nat)] /\ clientsToRemove[n] = <<>>
    BY DEF KernalInv, RestTyped, FindInv, NothingRemoved
  <2>2. clientsToRemove' = [clientsToRemove EXCEPT ![n] = @ \o <<>>]
    BY NothingUnsent DEF SendMessage
  <2> QED BY <2>1, <2>2
<1>3. FoundLed'
  <2>1. m.kind = "user" /\ m.dest \notin Tags => Found(n, m)
    <3>1. CASE m.kind = "user" /\ m.dest \notin Tags /\ m.dest # 0
      <4>1. m.dest \in Foreign({m.dest})
        BY <3>1 DEF Foreign
      <4> QED BY <3>1, <4>1, RouteAhead
    <3> QED BY <3>1 DEF Found
  <2> QED BY <2>1 DEF SendMessage, FindInv, FoundLed
<1>4. ASSUME NEW l \in Links, l[1] = n, l[2] \in Route(n, m)
      PROVE  Stamped(n, l[2], m) \in LedOn(l)'
  <2>1. l[2] \in Nodes
    BY LinkNodes
  <2>2. /\ Stamped(n, l[2], m) \in Good /\ Stamped(n, l[2], m).kind = m.kind
        /\ Stamped(n, l[2], m).body = m.body /\ Stamped(n, l[2], m).dest = m.dest
    <3>1. Stamped(n, l[2], m) \in Good
      BY <2>1, StampedGood
    <3> QED BY <3>1 DEF Stamped, Good, Message
  <2>3. ASSUME m.kind = "user" PROVE Foreign({m.dest}) \subseteq Soon(l[2])'
    <3>1. Foreign({m.dest}) # {} => m.dest \in Foreign({m.dest}) /\ m.dest \in Knows(n)
      BY <2>3 DEF Foreign
    <3>2. Foreign({m.dest}) # {} => m.dest \in Soon(l[2])
      BY <1>4, <3>1, RouteAhead
    <3>3. Foreign({m.dest}) \subseteq Soon(l[2])
      BY <3>2 DEF Foreign
    <3> QED BY <2>1, <3>3 DEF Learns
  <2> QED BY <1>4, <2>2, <2>3 DEF LedOn
<1>5. ASSUME NEW l \in Links PROVE link'[l] \in Seq(LedOn(l)')
  <2>1. link[l] \in Seq(LedOn(l)')
    BY LedKept DEF FindInv, LinksLed
  <2>2. \/ link'[l] = link[l]
        \/ l[1] = n /\ l[2] \in Route(n, m) /\ link'[l] = Append(link[l], Stamped(n, l[2], m))
    BY <1>1 DEF Sent
  <2> QED BY <1>4, <2>1, <2>2
<1>6. LinksLed'
  <2>1. \A l \in Links : Foreign(ToSet(lastBody[l])) \subseteq Soon(l[1])'
    BY LinkNodes DEF FindInv, LinksLed, Learns
  <2> QED BY <1>5, <2>1 DEF LinksLed
<1> QED BY <1>2, <1>3, <1>6

(***************************************************************************)
(* Steps that change no table.                                             *)
(***************************************************************************)
\* nothing the sets are made of changes
LEMMA LearnsSame ==
    ASSUME KernalInv, RoutesInv, Grows, accepting' = accepting,
           \A n \in Nodes : Knows(n) \subseteq Knows(n)',
           \A n \in Nodes : Foreign(News(n)) \subseteq Landing(n)'
    PROVE  Learns
<1>1. ASSUME NEW n \in Nodes, NEW c \in Clients, Entering(n, c) PROVE HasId(c) /\ Entering(n, c)'
  <2>1. accepting[n].at # "no" /\ accepting[n].client = c
    BY <1>1 DEF Entering
  <2>2. HasId(c)
    BY <2>1, HandlerClient
  <2> QED BY <1>1, <2>2 DEF Entering
<1> QED BY <1>1, LearnsIf

LEMMA NewsSame ==
    ASSUME inHand' = inHand, NEW n \in Nodes
    PROVE  Foreign(News(n)) \subseteq Landing(n)'
BY DEF News, Landing

LEMMA KnowsSame ==
    ASSUME UNCHANGED <<idsFromServer, clientToDirectClient>>, NEW n \in Nodes
    PROVE  Knows(n) \subseteq Knows(n)'
BY DEF Knows

LEMMA DialFinds ==
    ASSUME KernalInv, RoutesInv, FindInv, NEW c \in Clients, Dial(c)
    PROVE  FindInv'
<1>1. UNCHANGED <<tables, drawn, clientConn, directClients, accepting, queues,
                  sending, wires, users>>
  BY DEF Dial
<1> USE DEF tables, queues, sending, wires
<1>2. \A n \in Nodes : IdOf(n)' = IdOf(n)
  BY <1>1 DEF IdOf
<1>3. Grows
  BY <1>1, <1>2, GrowsIfSame
<1>4. Learns
  BY <1>1, <1>3, LearnsSame, NewsSame, KnowsSame
<1>5. Attached' /\ FiledAhead' /\ LinksLed' /\ InLed' /\ OutLed' /\ ToldLed'
  BY <1>1, <1>2, <1>4, AttachedKept, FiledAheadKept, LinksLedKept, InLedKept, OutLedKept, ToldLedKept
<1>6. NothingRemoved' /\ FoundLed'
  BY <1>1 DEF FindInv, NothingRemoved, FoundLed
<1> QED BY <1>5, <1>6 DEF FindInv

LEMMA StutterFinds == ASSUME KernalInv, RoutesInv, FindInv, UNCHANGED vars PROVE FindInv'
<1>1. UNCHANGED <<tables, drawn, clientConn, connected, directClients, accepting, queues,
                  sending, wires, users>>
  BY DEF vars, accepted
<1> USE DEF tables, queues, sending, wires
<1>2. \A n \in Nodes : IdOf(n)' = IdOf(n)
  BY <1>1 DEF IdOf
<1>3. Grows
  BY <1>1, <1>2, GrowsIfSame
<1>4. Learns
  BY <1>1, <1>3, LearnsSame, NewsSame, KnowsSame
<1>5. Attached' /\ FiledAhead' /\ LinksLed' /\ InLed' /\ OutLed' /\ ToldLed'
  BY <1>1, <1>2, <1>4, AttachedKept, FiledAheadKept, LinksLedKept, InLedKept, OutLedKept, ToldLedKept
<1>6. NothingRemoved' /\ FoundLed'
  BY <1>1 DEF FindInv, NothingRemoved, FoundLed
<1> QED BY <1>5, <1>6 DEF FindInv

LEMMA SubmitFinds ==
    ASSUME KernalInv, RoutesInv, FindInv, NEW n \in Nodes, Submit(n)
    PROVE  FindInv'
<1>1. UNCHANGED <<tables, accepted, msgIn, inHand, sending, wires, lost>>
  BY DEF Submit
<1>2. PICK dest \in {0} \cup (announced[n] \ {myId[n]}) :
         /\ msgOut' = [msgOut EXCEPT ![n] = Append(@,
               [dest |-> dest, src |-> (IF n = Root THEN 0 ELSE myId[n]),
                kind |-> "user", body |-> <<Len(submitted) + 1>>])]
         /\ Len(submitted) < MaxSubmit /\ myId[n] # 0
  BY DEF Submit
<1>3. PICK m : m = [dest |-> dest, src |-> (IF n = Root THEN 0 ELSE myId[n]),
                   kind |-> "user", body |-> <<Len(submitted) + 1>>]
  OBVIOUS
<1> DEFINE tag == Len(submitted) + 1
<1> USE DEF tables, accepted, sending, wires
<1>4. Grows /\ \A k \in Nodes : IdOf(k)' = IdOf(k)
  BY <1>1, SameIdsKept DEF SameIds
<1>5. Learns
  BY <1>1, <1>4, LearnsSame, NewsSame, KnowsSame
<1>6. Attached' /\ FiledAhead' /\ LinksLed' /\ InLed' /\ ToldLed'
  BY <1>1, <1>4, <1>5, AttachedKept, FiledAheadKept, LinksLedKept, InLedKept, ToldLedKept
<1>7. NothingRemoved' /\ FoundLed'
  BY <1>1 DEF FindInv, NothingRemoved, FoundLed
<1>8. HasId(n) /\ myId[n] = IdOf(n)
  <2>1. n \in Clients => ClientStarted(n)
    BY DEF RoutesInv, Started
  <2> QED BY <1>2, <2>1 DEF ClientStarted, HasId, IdOf, Clients
<1>9. tag \in Tags
  <2>1. Len(submitted) \in Nat /\ MaxSubmit \in Nat
    BY TreeAssumption DEF KernalInv, RestTyped
  <2> QED BY <1>2, <2>1 DEF Tags
<1> HIDE DEF tag
<1>10. m \in Good /\ m.kind = "user" /\ m.dest = dest /\ m.body = <<tag>>
  <2>1. tag \in Nat /\ dest \in Nat /\ myId[n] \in Nat
    BY <1>2, <1>9 DEF KernalInv, TablesTyped, Tags
  <2> QED BY <1>3, <1>9, <2>1 DEF Good, Message, Tags, tag
<1>11. Foreign(ToSet(m.body)) = {}
  BY <1>9, <1>10 DEF Foreign, ToSet
<1>12. Foreign({m.dest}) \subseteq Tabled(n) \ {IdOf(n)}
  <2>1. Foreign(announced[n]) \subseteq Tabled(n)
    BY DEF FindInv, ToldLed
  <2> QED BY <1>2, <1>8, <1>10, <2>1 DEF Foreign
<1>13. m \in LedOut(n)
  BY <1>8, <1>10, <1>11, <1>12 DEF LedOut
<1>14. OutLed'
  <2>1. m \in LedOut(n)'
    BY <1>5, <1>13, LedKept
  <2>2. msgOut \in [Nodes -> Seq(Good)]
    BY DEF KernalInv, QueuesTyped
  <2>3. ASSUME NEW k \in Nodes PROVE msgOut'[k] \in Seq(LedOut(k)')
    <3>1. msgOut[k] \in Seq(LedOut(k)')
      BY <1>5, LedKept DEF FindInv, OutLed
    <3>2. msgOut'[k] = IF k = n THEN Append(msgOut[k], m) ELSE msgOut[k]
      BY <1>2, <1>3, <2>2
    <3> QED BY <2>1, <3>1, <3>2
  <2>4. \A k \in Nodes : accepting'[k].at = "inserting" => accepting'[k].msg \in LedOut(k)'
    BY <1>1, <1>5, LedKept DEF FindInv, OutLed
  <2> QED BY <2>3, <2>4 DEF OutLed
<1> QED BY <1>6, <1>7, <1>14 DEF FindInv

LEMMA HandleOutFinds ==
    ASSUME KernalInv, RoutesInv, FindInv, NEW n \in Nodes, HandleOut(n)
    PROVE  FindInv'
<1> DEFINE m == Head(msgOut[n])
<1>1. /\ msgOut[n] # <<>> /\ msgOut' = [msgOut EXCEPT ![n] = Tail(@)]
      /\ SendMessage(n, m)
      /\ UNCHANGED <<tables, accepted, msgIn, inHand, wires, users>>
  BY DEF HandleOut
<1>2. m \in LedOut(n) /\ Tail(msgOut[n]) \in Seq(LedOut(n))
  BY <1>1 DEF FindInv, OutLed
<1> HIDE DEF m
<1> USE DEF tables, accepted, wires
<1>3. Grows /\ \A k \in Nodes : IdOf(k)' = IdOf(k)
  BY <1>1, SameIdsKept DEF SameIds
<1>4. Learns
  BY <1>1, <1>3, LearnsSame, NewsSame, KnowsSame
<1>5. Attached' /\ FiledAhead' /\ InLed' /\ ToldLed'
  BY <1>1, <1>3, <1>4, AttachedKept, FiledAheadKept, InLedKept, ToldLedKept
<1>6. LinksLed' /\ FoundLed' /\ clientsToRemove' = clientsToRemove
  <2>1. m \in Good /\ m.kind # "gone"
    BY <1>2 DEF LedOut
  <2>2. Foreign(ToSet(m.body)) \subseteq Soon(n)'
    BY <1>2, <1>4 DEF LedOut, Learns
  <2>3. m.kind = "user" => Foreign({m.dest}) \subseteq Knows(n)
    BY <1>2 DEF LedOut, Tabled, Foreign
  <2> QED BY <1>1, <1>4, <2>1, <2>2, <2>3, SendFinds
<1>7. OutLed'
  <2>1. msgOut \in [Nodes -> Seq(Good)]
    BY DEF KernalInv, QueuesTyped
  <2>2. ASSUME NEW k \in Nodes PROVE msgOut'[k] \in Seq(LedOut(k)')
    <3>1. msgOut'[k] \in Seq(LedOut(k))
      BY <1>1, <1>2, <2>1 DEF FindInv, OutLed
    <3> QED BY <1>4, <3>1, LedKept
  <2>3. \A k \in Nodes : accepting'[k].at = "inserting" => accepting'[k].msg \in LedOut(k)'
    BY <1>1, <1>4, LedKept DEF FindInv, OutLed
  <2> QED BY <2>2, <2>3 DEF OutLed
<1>8. NothingRemoved'
  BY <1>1, <1>6 DEF FindInv, NothingRemoved
<1> QED BY <1>5, <1>6, <1>7, <1>8 DEF FindInv

LEMMA DeliverFinds ==
    ASSUME KernalInv, RoutesInv, FindInv, NEW l \in Links, Deliver(l),
           accepting[l[2]] = NotAccepting
    PROVE  FindInv'
<1>1. PICK m, body : /\ m = Head(link[l]) /\ link[l] # <<>>
                     /\ body = IF m.body = <<>> THEN lastBody[l] ELSE m.body
  BY DEF Deliver
<1>2. PICK d : d = [m EXCEPT !.body = body]
  OBVIOUS
<1>3. /\ msgIn' = [msgIn EXCEPT ![l[2]] = Append(@, d)]
      /\ lastBody' = [lastBody EXCEPT ![l] = body]
      /\ link' = [link EXCEPT ![l] = Tail(@)]
      /\ UNCHANGED <<tables, accepted, msgOut, inHand, clientsToRemove, notFound, open, users>>
  BY <1>1, <1>2 DEF Deliver
<1>4. l[1] \in Nodes /\ l[2] \in Nodes
  BY LinkNodes
<1>5. /\ msgIn \in [Nodes -> Seq(Good)] /\ link \in [Links -> Seq(Good)]
      /\ lastBody \in [Links -> Seq(Nat)]
  BY DEF KernalInv, QueuesTyped, WiresTyped
<1>6. m \in LedOn(l) /\ Tail(link[l]) \in Seq(LedOn(l)) /\ m \in Fitting(l[1], l[2]) /\ HasId(l[1])
  BY <1>1 DEF FindInv, LinksLed, RoutesInv, LinksFit
<1>7. m \in Good /\ body \in Seq(Nat) /\ (m.body # <<>> => body = m.body)
  BY <1>1, <1>5, <1>6 DEF LedOn, Good, Message
<1>8. d.kind = m.kind /\ d.dest = m.dest /\ d.src = m.src /\ d.body = body /\ d \in Good
  BY <1>2, <1>7 DEF Good, Message
<1>9. Foreign(ToSet(body)) \subseteq Soon(l[1])
  BY <1>1, <1>6 DEF LedOn, FindInv, LinksLed
<1>10. Landing(l[2]) = Soon(l[2])
  <2>1. \A c \in Clients : ~Entering(l[2], c)
    BY DEF Entering, NotAccepting
  <2> QED BY <2>1 DEF Soon, Foreign
<1>11. d \in LedIn(l[2])
  <2>1. d.kind = "new" => Vouched(d)
    <3>1. d.kind = "new" => d.src = IdOf(l[1])
      BY <1>6, <1>8 DEF Fitting
    <3> QED BY <1>4, <1>6, <1>8, <1>9, <3>1 DEF Vouched
  <2>2. d.kind # "gone" /\ (d.kind = "user" => Foreign({d.dest}) \subseteq Landing(l[2]))
    BY <1>6, <1>8, <1>10 DEF LedOn
  <2> QED BY <1>8, <2>1, <2>2 DEF LedIn
<1> USE DEF tables, accepted
<1>12. Grows /\ \A k \in Nodes : IdOf(k)' = IdOf(k)
  BY <1>3, SameIdsKept DEF SameIds
<1>13. Learns
  BY <1>3, <1>12, LearnsSame, NewsSame, KnowsSame
<1>14. Attached' /\ FiledAhead' /\ OutLed' /\ ToldLed'
  BY <1>3, <1>12, <1>13, AttachedKept, FiledAheadKept, OutLedKept, ToldLedKept
<1>15. LinksLed'
  <2>1. ASSUME NEW j \in Links PROVE link'[j] \in Seq(LedOn(j)')
    <3>1. link'[j] \in Seq(LedOn(j))
      BY <1>3, <1>5, <1>6 DEF FindInv, LinksLed
    <3> QED BY <1>13, <3>1, LedKept
  <2>2. ASSUME NEW j \in Links PROVE Foreign(ToSet(lastBody'[j])) \subseteq Soon(j[1])'
    <3>1. Foreign(ToSet(lastBody'[j])) \subseteq Soon(j[1])
      BY <1>3, <1>5, <1>9 DEF FindInv, LinksLed
    <3> QED BY <1>13, <3>1, LinkNodes DEF Learns
  <2> QED BY <2>1, <2>2 DEF LinksLed
<1>16. InLed'
  <2>1. ASSUME NEW k \in Nodes PROVE msgIn'[k] \in Seq(LedIn(k)) /\ inHand'[k] \in Seq(LedIn(k))
    <3>1. msgIn[k] \in Seq(LedIn(k)) /\ inHand[k] \in Seq(LedIn(k))
      BY DEF FindInv, InLed
    <3>2. msgIn'[k] = IF k = l[2] THEN Append(msgIn[k], d) ELSE msgIn[k]
      BY <1>3, <1>4, <1>5
    <3> QED BY <1>3, <1>11, <3>1, <3>2
  <2> QED BY <1>13, <2>1, LedKept DEF InLed
<1>17. NothingRemoved' /\ FoundLed'
  BY <1>3 DEF FindInv, NothingRemoved, FoundLed
<1> QED BY <1>14, <1>15, <1>16, <1>17 DEF FindInv

(***************************************************************************)
(* Using a message: who sent the notice has the ids in it already.         *)
(***************************************************************************)
LEMMA SetOfAppend ==
    ASSUME NEW S, NEW s \in Seq(S), NEW x \in S
    PROVE  ToSet(Append(s, x)) = ToSet(s) \cup {x}
<1> DEFINE t == Append(s, x)
<1>1. /\ DOMAIN s = 1..Len(s) /\ DOMAIN t = 1..Len(s) + 1 /\ Len(s) \in Nat
      /\ \A i \in 1..Len(s) : t[i] = s[i]
  OBVIOUS
<1>2. t[Len(s) + 1] = x
  OBVIOUS
<1> HIDE DEF t
<1>3. \A i \in DOMAIN t : i \in DOMAIN s \/ i = Len(s) + 1
  BY <1>1
<1>4. DOMAIN s \subseteq DOMAIN t /\ Len(s) + 1 \in DOMAIN t
  BY <1>1
<1>5. ToSet(t) = ToSet(s) \cup {x}
  BY <1>1, <1>2, <1>3, <1>4 DEF ToSet
<1> QED BY <1>5 DEF t

LEMMA SetOfBoth ==
    ASSUME NEW S, NEW s \in Seq(S), NEW t \in Seq(S)
    PROVE  ToSet(s \o t) = ToSet(s) \cup ToSet(t)
<1> DEFINE u == s \o t
<1>1. /\ Len(s) \in Nat /\ Len(t) \in Nat /\ DOMAIN s = 1..Len(s) /\ DOMAIN t = 1..Len(t)
      /\ DOMAIN u = 1..Len(s) + Len(t)
  OBVIOUS
<1>2. \A i \in 1..Len(s) : u[i] = s[i]
  OBVIOUS
<1>3. \A i \in DOMAIN u : i \notin 1..Len(s) => i - Len(s) \in DOMAIN t /\ u[i] = t[i - Len(s)]
  BY <1>1
<1>4. \A i \in DOMAIN t : Len(s) + i \in DOMAIN u /\ u[Len(s) + i] = t[i]
  BY <1>1
<1>5. DOMAIN s \subseteq DOMAIN u
  BY <1>1
<1> HIDE DEF u
<1>6. ToSet(s) \subseteq ToSet(u)
  BY <1>1, <1>2, <1>5 DEF ToSet
<1>7. ToSet(t) \subseteq ToSet(u)
  BY <1>4 DEF ToSet
<1>8. ToSet(u) \subseteq ToSet(s) \cup ToSet(t)
  BY <1>1, <1>2, <1>3 DEF ToSet
<1> QED BY <1>6, <1>7, <1>8 DEF u

LEMMA SetOfReverse ==
    ASSUME NEW S, NEW s \in Seq(S)
    PROVE  Reverse(s) \in Seq(S) /\ ToSet(Reverse(s)) = ToSet(s)
<1>1. Reverse(s) \in Seq(S)
  BY ReverseTyped
<1>2. Len(s) \in Nat /\ DOMAIN s = 1..Len(s)
  OBVIOUS
<1>3. DOMAIN Reverse(s) = 1..Len(s) /\ \A i \in 1..Len(s) : Reverse(s)[i] = s[Len(s) - i + 1]
  BY <1>2 DEF Reverse
<1>4. \A i \in 1..Len(s) : Len(s) - i + 1 \in 1..Len(s) /\ Len(s) - (Len(s) - i + 1) + 1 = i
  BY <1>2
<1>5. ToSet(Reverse(s)) \subseteq ToSet(s)
  BY <1>2, <1>3, <1>4 DEF ToSet
<1>6. ToSet(s) \subseteq ToSet(Reverse(s))
  BY <1>2, <1>3, <1>4 DEF ToSet
<1> QED BY <1>1, <1>5, <1>6

\* In has m: it forwarded it before, or it has just taken it from m_msgIn
Takes(n, m) == \A k \in Nodes : \/ inHand'[k] = inHand[k]
                                \/ k = n /\ inHand[n][1] = m /\ inHand'[n] = <<>>

LEMMA UsedLearns ==
    ASSUME KernalInv, RoutesInv, Grows, accepting' = accepting,
           NEW n \in Nodes, NEW m, Takes(n, m),
           \A k \in Nodes : Knows(k) \subseteq Knows(k)',
           m.kind = "new" => Foreign(ToSet(m.body)) \subseteq Tabled(n)'
    PROVE  Learns
<1>1. ASSUME NEW k \in Nodes PROVE Foreign(News(k)) \subseteq Landing(k)'
  <2>1. CASE inHand'[k] = inHand[k]
    BY <2>1 DEF News, Landing
  <2>2. CASE k = n /\ inHand[n][1] = m
    <3>1. News(n) = {} \/ (m.kind = "new" /\ News(n) = ToSet(m.body))
      BY <2>2 DEF News
    <3>2. Foreign({}) = {} /\ Tabled(n)' \subseteq Landing(n)'
      BY DEF Foreign, Landing
    <3> QED BY <2>2, <3>1, <3>2
  <2> QED BY <2>1, <2>2 DEF Takes
<1> QED BY <1>1, LearnsSame

UsedFinds == Learns /\ FiledAhead' /\ ToldLed' /\ clientsToRemove' = clientsToRemove

LEMMA SameFinds ==
    ASSUME KernalInv, RoutesInv, FindInv, NEW n \in Nodes, NEW m, Takes(n, m),
           UNCHANGED <<accepted, open, Ids, clientsToRemove>>,
           m.kind = "new" => Foreign(ToSet(m.body)) \subseteq Tabled(n)
    PROVE  UsedFinds
<1>1. Grows /\ \A k \in Nodes : IdOf(k)' = IdOf(k)
  BY SameIdsKept DEF SameIds, Ids, accepted
<1>2. UNCHANGED <<accepting, idsFromServer, clientToDirectClient, announced>>
  BY DEF accepted, Ids
<1>3. \A k \in Nodes : Knows(k)' = Knows(k)
  BY <1>2 DEF Knows
<1>4. Tabled(n)' = Tabled(n)
  BY <1>1, <1>3 DEF Tabled
<1>5. Learns
  BY <1>1, <1>2, <1>3, <1>4, UsedLearns
<1>6. FiledAhead' /\ ToldLed'
  BY <1>1, <1>2, <1>5, FiledAheadKept, ToldLedKept
<1> QED BY <1>5, <1>6 DEF UsedFinds

LEMMA OwnIdFinds ==
    ASSUME KernalInv, RoutesInv, FindInv, NEW n \in Nodes, NEW m \in Heard(n),
           m.kind = "new", m.dest = 1, UseOwnId(n, m), Takes(n, m), UsedWell(n),
           UNCHANGED <<accepted, open, clientsToRemove>>
    PROVE  UsedFinds
<1>1. PICK a \in Nodes : Sender(n, a) /\ m \in Fitting(a, n)
  BY DEF Heard
<1>2. HasId(a) /\ HasId(n) /\ m.src = IdOf(a)
  BY <1>1 DEF Sender, Fitting
<1>3. n \in Children(a) /\ m.body = <<IdOf(n)>>
  <2>1. n \in Children(a) /\ (m.body = <<IdOf(n)>> \/ m.dest = IdOf(n))
    BY <1>1 DEF Fitting
  <2>2. IdOf(n) # 1
    BY <1>2, <2>1, ChildId
  <2> QED BY <2>1, <2>2
<1>4. n \in Clients /\ Parent[n] = a
  BY <1>3, ChildLinks
<1>5. PICK s : s = IdOf(a)
  OBVIOUS
<1>6. PICK id : id = IdOf(n)
  OBVIOUS
<1>7. /\ idsFromServer' = [idsFromServer EXCEPT ![n] = Append(@, s)]
      /\ announced' = [announced EXCEPT ![n] = @ \cup {id}]
      /\ clientToDirectClient' = clientToDirectClient
  <2>1. m.body[Len(m.body)] = id
    BY <1>3, <1>6
  <2> QED BY <1>2, <1>5, <2>1 DEF UseOwnId
<1>8. idsFromServer \in [Nodes -> Seq(Nat)] /\ s \in Nat /\ DOMAIN announced = Nodes
  <2>1. \A k \in Nodes : IdOf(k) \in Nat
    BY DEF IdOf, KernalInv, TablesTyped, AcceptTyped
  <2> QED BY <1>5, <2>1 DEF KernalInv, TablesTyped
<1>9. Grows /\ \A k \in Nodes : IdOf(k)' = IdOf(k)
  BY DEF UsedWell
<1>10. \A k \in Nodes : ToSet(idsFromServer'[k]) = ToSet(idsFromServer[k]) \cup (IF k = n THEN {s} ELSE {})
  <2>1. ToSet(Append(idsFromServer[n], s)) = ToSet(idsFromServer[n]) \cup {s}
    BY <1>8, SetOfAppend
  <2> QED BY <1>7, <1>8, <2>1
<1>11. \A k \in Nodes : Knows(k) \subseteq Knows(k)'
  BY <1>7, <1>10 DEF Knows
<1>12. Foreign({id}) \subseteq Tabled(n)'
  BY <1>6, <1>9 DEF Tabled, Foreign
<1>13. Learns
  <2>1. ToSet(m.body) = {id}
    BY <1>3, <1>6 DEF ToSet
  <2> QED BY <1>9, <1>11, <1>12, <2>1, UsedLearns DEF accepted
<1>14. FiledAhead'
  <2>1. Foreign({s}) \subseteq Soon(a)'
    BY <1>5, <1>9 DEF Soon, Landing, Tabled, Foreign
  <2>2. \A c \in Clients : \A x \in ToSet(idsFromServer'[c]) :
           x \in ToSet(idsFromServer[c]) \/ Foreign({x}) \subseteq Soon(Parent[c])'
    BY <1>4, <1>10, <2>1 DEF Clients
  <2>3. \A k \in Nodes : \A c \in Children(k) : c \in Nodes
    BY ChildLinks
  <2> QED BY <1>7, <1>9, <1>13, <2>2, <2>3, FiledAheadIf DEF HasId
<1>15. ToldLed'
  <2>1. \A k \in Nodes : \A x \in announced'[k] : x \in announced[k] \/ (k = n /\ x = id)
    BY <1>7, <1>8
  <2> QED BY <1>12, <1>13, <2>1, ToldLedIf
<1> QED BY <1>13, <1>14, <1>15 DEF UsedFinds

\* the sender of a notice that In uses has the ids in it in its Soon
LEMMA VouchedBy ==
    ASSUME KernalInv, RoutesInv, NEW n \in Nodes, NEW m \in LedIn(n), m.kind = "new",
           NEW a \in Nodes, HasId(a), m.src = IdOf(a)
    PROVE  \A x \in ToSet(m.body) : Foreign({x}) \subseteq Soon(a)
<1>1. PICK b \in Nodes : HasId(b) /\ m.src = IdOf(b) /\ Foreign(ToSet(m.body)) \subseteq Soon(b)
  BY DEF LedIn, Vouched
<1>2. b = a
  BY <1>1 DEF RoutesInv, IdsGiven
<1> QED BY <1>1, <1>2 DEF Foreign

LEMMA FromServerFinds ==
    ASSUME KernalInv, RoutesInv, FindInv, NEW n \in Nodes, Awake(n), NEW m \in Heard(n),
           m \in LedIn(n), m.kind = "new", m.src = serverId[n], UseFromServer(n, m),
           Takes(n, m), UsedWell(n), UNCHANGED <<accepted, open, clientsToRemove>>
    PROVE  UsedFinds
<1>1. PICK a \in Nodes : Sender(n, a) /\ m \in Fitting(a, n)
  BY DEF Heard
<1>2. HasId(a) /\ m.src = IdOf(a) /\ m.body \in Seq(Nat)
  <2>1. m \in Good
    BY DEF Heard
  <2> QED BY <1>1, <2>1 DEF Sender, Fitting, Good, Message
<1>3. n \in Clients /\ a = Parent[n]
  <2>1. n \in Clients
    BY <1>2 DEF RoutesInv, Started, HasId, Clients
  <2>2. ClientStarted(n) /\ Parent[n] \in Nodes
    BY <2>1, WithinServer DEF RoutesInv, Started
  <2>3. serverId[n] = IdOf(Parent[n])
    BY <2>2 DEF ClientStarted, Awake, HasId
  <2> QED BY <1>2, <2>1, <2>2, <2>3 DEF RoutesInv, IdsGiven
<1>4. PICK B : B = ToSet(m.body)
  OBVIOUS
<1>5. /\ idsFromServer' = [idsFromServer EXCEPT ![n] = @ \o Reverse(m.body)]
      /\ announced' = [announced EXCEPT ![n] = @ \cup B]
      /\ clientToDirectClient' = clientToDirectClient
  BY <1>4 DEF UseFromServer
<1>6. idsFromServer \in [Nodes -> Seq(Nat)] /\ DOMAIN announced = Nodes
  BY DEF KernalInv, TablesTyped
<1>7. Grows /\ \A k \in Nodes : IdOf(k)' = IdOf(k)
  BY DEF UsedWell
<1>8. \A k \in Nodes : ToSet(idsFromServer'[k]) = ToSet(idsFromServer[k]) \cup (IF k = n THEN B ELSE {})
  <2>1. ToSet(idsFromServer[n] \o Reverse(m.body)) = ToSet(idsFromServer[n]) \cup B
    BY <1>2, <1>4, <1>6, SetOfBoth, SetOfReverse
  <2> QED BY <1>5, <1>6, <2>1
<1>9. \A k \in Nodes : Knows(k) \subseteq Knows(k)'
  BY <1>5, <1>8 DEF Knows
<1>10. Foreign(B) \subseteq Tabled(n)'
  BY <1>8 DEF Tabled, Foreign, Knows
<1>11. Learns
  BY <1>4, <1>7, <1>9, <1>10, UsedLearns DEF accepted
<1>12. FiledAhead'
  <2>1. \A x \in B : Foreign({x}) \subseteq Soon(a)'
    <3>1. \A x \in B : Foreign({x}) \subseteq Soon(a)
      BY <1>2, <1>4, VouchedBy
    <3> QED BY <1>11, <3>1 DEF Learns
  <2>2. \A c \in Clients : \A x \in ToSet(idsFromServer'[c]) :
           x \in ToSet(idsFromServer[c]) \/ Foreign({x}) \subseteq Soon(Parent[c])'
    BY <1>3, <1>8, <2>1 DEF Clients
  <2>3. \A k \in Nodes : \A c \in Children(k) : c \in Nodes
    BY ChildLinks
  <2> QED BY <1>5, <1>7, <1>11, <2>2, <2>3, FiledAheadIf DEF HasId
<1>13. ToldLed'
  <2>1. \A k \in Nodes : \A x \in announced'[k] : x \in announced[k] \/ (k = n /\ x \in B)
    BY <1>5, <1>6
  <2>2. \A x \in B : Foreign({x}) \subseteq Tabled(n)'
    BY <1>10 DEF Foreign
  <2> QED BY <1>11, <2>1, <2>2, ToldLedIf
<1> QED BY <1>11, <1>12, <1>13 DEF UsedFinds

LEMMA FromClientFinds ==
    ASSUME KernalInv, RoutesInv, FindInv, NEW n \in Nodes, Awake(n), NEW m \in Heard(n),
           m \in LedIn(n), m.kind = "new", m.src # serverId[n], UseFromClient(n, m),
           Takes(n, m), UsedWell(n), UNCHANGED <<accepted, open, clientsToRemove>>
    PROVE  UsedFinds
<1>1. PICK a \in Nodes : Sender(n, a) /\ m \in Fitting(a, n)
  BY DEF Heard
<1>2. a \in Children(n) /\ HasId(a) /\ m.src = IdOf(a)
  BY <1>1, HeardFrom DEF Sender, Fitting
<1>3. PICK s : s = m.src
  OBVIOUS
<1>4. PICK B : B = ToSet(m.body)
  OBVIOUS
<1>5. PICK old : old = clientToDirectClient[n]
  OBVIOUS
<1>6. PICK new : new = [x \in DOMAIN old \cup B |-> IF x \in DOMAIN old THEN old[x] ELSE s]
  OBVIOUS
<1>7. /\ clientToDirectClient' = [clientToDirectClient EXCEPT ![n] = new]
      /\ announced' = [announced EXCEPT ![n] = @ \cup B]
      /\ idsFromServer' = idsFromServer
  BY <1>3, <1>4, <1>5, <1>6 DEF UseFromClient
<1>8. DOMAIN clientToDirectClient = Nodes /\ DOMAIN announced = Nodes
  BY DEF KernalInv, TablesTyped
<1>9. Grows /\ \A k \in Nodes : IdOf(k)' = IdOf(k)
  BY DEF UsedWell
<1>10. /\ clientToDirectClient'[n] = new /\ DOMAIN new = DOMAIN old \cup B
       /\ \A x \in DOMAIN new : \/ x \in DOMAIN old /\ new[x] = old[x]
                                \/ x \in B /\ new[x] = s
       /\ \A k \in Nodes : k # n => clientToDirectClient'[k] = clientToDirectClient[k]
  BY <1>6, <1>7, <1>8
<1>11. \A k \in Nodes : DOMAIN clientToDirectClient'[k] =
                           DOMAIN clientToDirectClient[k] \cup (IF k = n THEN B ELSE {})
  BY <1>5, <1>10
<1>12. \A k \in Nodes : Knows(k) \subseteq Knows(k)'
  BY <1>7, <1>11 DEF Knows
<1>13. Foreign(B) \subseteq Tabled(n)'
  BY <1>11 DEF Tabled, Foreign, Knows
<1>14. Learns
  BY <1>4, <1>9, <1>12, <1>13, UsedLearns DEF accepted
<1>15. FiledAhead'
  <2>1. \A x \in B : Foreign({x}) \subseteq Soon(a)'
    <3>1. \A x \in B : Foreign({x}) \subseteq Soon(a)
      BY <1>2, <1>4, VouchedBy
    <3> QED BY <1>14, <3>1 DEF Learns
  <2>2. ASSUME NEW k \in Nodes, NEW c \in Children(k), NEW x \in DOMAIN clientToDirectClient'[k],
               HasId(c)', clientToDirectClient'[k][x] = IdOf(c)'
        PROVE  \/ /\ HasId(c) /\ x \in DOMAIN clientToDirectClient[k]
                  /\ clientToDirectClient[k][x] = IdOf(c)
               \/ Foreign({x}) \subseteq Soon(c)'
    <3>1. c \in Nodes /\ HasId(c) /\ IdOf(c)' = IdOf(c)
      BY <1>9, <2>2, ChildLinks DEF HasId
    <3>2. CASE x \in DOMAIN clientToDirectClient[k]
               /\ clientToDirectClient'[k][x] = clientToDirectClient[k][x]
      BY <2>2, <3>1, <3>2
    <3>3. CASE k = n /\ x \in B /\ clientToDirectClient'[k][x] = s
      <4>1. c = a
        BY <1>2, <1>3, <2>2, <3>1, <3>3 DEF RoutesInv, IdsGiven
      <4> QED BY <2>1, <3>3, <4>1
    <3> QED BY <1>5, <1>10, <2>2, <3>2, <3>3
  <2> QED BY <1>7, <1>14, <2>2, FiledAheadIf
<1>16. ToldLed'
  <2>1. \A k \in Nodes : \A x \in announced'[k] : x \in announced[k] \/ (k = n /\ x \in B)
    BY <1>7, <1>8
  <2>2. \A x \in B : Foreign({x}) \subseteq Tabled(n)'
    BY <1>13 DEF Foreign
  <2> QED BY <1>14, <2>1, <2>2, ToldLedIf
<1> QED BY <1>14, <1>15, <1>16 DEF UsedFinds

LEMMA UseFinds ==
    ASSUME KernalInv, RoutesInv, FindInv, NEW n \in Nodes, NEW m \in Heard(n), m \in LedIn(n),
           UseMessage(n, m), n \in Clients /\ myId[n] = 0 => IsNotice(m),
           Takes(n, m), UNCHANGED <<accepted, open>>
    PROVE  UsedFinds /\ \A k \in Nodes : IdOf(k)' = IdOf(k)
<1>1. UsedWell(n)
  BY UseIsWell
<1>2. \A k \in Nodes : IdOf(k)' = IdOf(k)
  BY <1>1 DEF UsedWell
<1> SUFFICES UsedFinds
  BY <1>2
<1>3. PICK a \in Nodes : Sender(n, a) /\ m \in Fitting(a, n)
  BY DEF Heard
<1>4. HasId(n) /\ HasId(a) /\ a # n /\ (m.kind = "new" => m.src = IdOf(a))
  BY <1>3, NeighbourIs DEF Sender, Fitting
<1>5. Awake(n) \/ (IsNotice(m) /\ myId[n] = 0)
  BY <1>4, AwakeIf
<1>6. m.kind = "new" => m.src # myId[n]
  <2>1. IdOf(a) # 0 /\ IdOf(a) # IdOf(n)
    BY <1>4 DEF HasId, RoutesInv, IdsGiven
  <2> QED BY <1>4, <1>5, <2>1 DEF Awake
<1>7. m.kind # "gone"
  BY DEF LedIn
<1>8. CASE m.src = myId[n] /\ UNCHANGED <<tables, clientsToRemove>>
  BY <1>6, <1>8, SameFinds DEF tables, Ids
<1>9. CASE /\ m.kind = "new"
           /\ \/ m.dest = 1 /\ UseOwnId(n, m)
              \/ m.dest # 1 /\ m.src = serverId[n] /\ UseFromServer(n, m)
              \/ m.dest # 1 /\ m.src # serverId[n] /\ UseFromClient(n, m)
           /\ UNCHANGED <<used, removed, clientsToRemove>>
  <2>1. CASE m.dest = 1 /\ UseOwnId(n, m)
    BY <1>1, <1>9, <2>1, OwnIdFinds
  <2>2. m.dest # 1 => Awake(n)
    BY <1>5 DEF IsNotice
  <2>3. CASE m.dest # 1 /\ m.src = serverId[n] /\ UseFromServer(n, m)
    BY <1>1, <1>9, <2>2, <2>3, FromServerFinds
  <2>4. CASE m.dest # 1 /\ m.src # serverId[n] /\ UseFromClient(n, m)
    BY <1>1, <1>9, <2>2, <2>4, FromClientFinds
  <2> QED BY <1>9, <2>1, <2>3, <2>4
<1>10. CASE m.kind = "user" /\ UNCHANGED <<Ids, removed, clientsToRemove>>
  BY <1>10, SameFinds
<1> QED BY <1>7, <1>8, <1>9, <1>10 DEF UseMessage

LEMMA UsingFinds ==
    ASSUME KernalInv, RoutesInv, FindInv, NEW n \in Nodes, NEW m \in Heard(n), m \in LedIn(n),
           UseMessage(n, m), n \in Clients /\ myId[n] = 0 => IsNotice(m),
           Takes(n, m), UNCHANGED <<accepted, msgOut, link, notFound, wires>>,
           \A k \in Nodes : /\ msgIn'[k] \in Seq(LedIn(k)) /\ inHand'[k] \in Seq(LedIn(k))
                            /\ Len(inHand'[k]) <= 1
    PROVE  FindInv'
<1> USE DEF wires
<1>1. UsedFinds /\ \A k \in Nodes : IdOf(k)' = IdOf(k)
  BY UseFinds
<1>2. Learns /\ FiledAhead' /\ ToldLed' /\ clientsToRemove' = clientsToRemove
  BY <1>1 DEF UsedFinds
<1>3. UNCHANGED <<drawn, clientConn, connected, directClients, accepting>>
  BY DEF accepted
<1>4. Attached' /\ LinksLed' /\ OutLed'
  BY <1>1, <1>2, <1>3, AttachedKept, LinksLedKept, OutLedKept
<1>5. InLed'
  BY <1>2, LedKept DEF InLed
<1>6. NothingRemoved' /\ FoundLed'
  BY <1>2 DEF FindInv, NothingRemoved, FoundLed
<1> QED BY <1>2, <1>4, <1>5, <1>6 DEF FindInv

LEMMA UseForwardedFinds ==
    ASSUME KernalInv, RoutesInv, FindInv, NEW n \in Nodes, UseForwarded(n)
    PROVE  FindInv'
<1>1. /\ inHand[n] # <<>> /\ inHand' = [inHand EXCEPT ![n] = <<>>]
      /\ UseMessage(n, inHand[n][1])
      /\ UNCHANGED <<accepted, msgOut, msgIn, link, notFound, wires, users>>
  BY DEF UseForwarded
<1>2. /\ \A k \in Nodes : msgIn[k] \in Seq(LedIn(k)) /\ inHand[k] \in Seq(LedIn(k)) /\ Len(inHand[k]) <= 1
      /\ inHand[n] \in Seq(Heard(n)) /\ inHand \in [Nodes -> Seq(Good)]
  BY DEF RoutesInv, Arrived, FindInv, InLed, NothingRemoved, KernalInv, QueuesTyped
<1>3. inHand[n][1] \in Heard(n) /\ inHand[n][1] \in LedIn(n)
  BY <1>1, <1>2
<1>4. ~(n \in Clients /\ myId[n] = 0)
  BY <1>1, Idle
<1>5. inHand'[n] = <<>> /\ \A k \in Nodes : k # n => inHand'[k] = inHand[k]
  BY <1>1, <1>2
<1>6. Takes(n, inHand[n][1])
  BY <1>5 DEF Takes
<1>7. ASSUME NEW k \in Nodes
      PROVE  msgIn'[k] \in Seq(LedIn(k)) /\ inHand'[k] \in Seq(LedIn(k)) /\ Len(inHand'[k]) <= 1
  BY <1>1, <1>2, <1>5
<1> QED BY <1>1, <1>3, <1>4, <1>6, <1>7, UsingFinds

LEMMA ForwardFinds ==
    ASSUME KernalInv, RoutesInv, FindInv, NEW n \in Nodes, NEW m \in Heard(n), m \in LedIn(n),
           ~Mine(n, m), SendMessage(n, m), Awake(n), inHand[n] = <<>>,
           inHand' = IF m.dest = 0 THEN [inHand EXCEPT ![n] = <<m>>] ELSE inHand,
           UNCHANGED <<tables, accepted, msgOut, wires>>,
           \A k \in Nodes : msgIn'[k] \in Seq(LedIn(k))
    PROVE  FindInv'
<1> USE DEF tables, accepted, wires
<1>1. PICK a \in Nodes : Sender(n, a) /\ m \in Fitting(a, n)
  BY DEF Heard
<1>2. m \in Good /\ m.kind # "gone" /\ m.dest \notin {1, IdOf(n)}
  BY DEF Heard, LedIn, Mine, Awake
<1>3. inHand \in [Nodes -> Seq(Good)]
  BY DEF KernalInv, QueuesTyped
<1>4. /\ \A k \in Nodes : k # n => inHand'[k] = inHand[k]
      /\ inHand'[n] \in {<<>>, <<m>>} /\ (m.dest = 0 => inHand'[n] = <<m>>)
  BY <1>3
<1>5. Grows /\ \A k \in Nodes : IdOf(k)' = IdOf(k)
  BY SameIdsKept DEF SameIds
<1>6. \A k \in Nodes : Knows(k)' = Knows(k)
  BY DEF Knows
<1>7. Learns
  <2>1. ASSUME NEW k \in Nodes PROVE Foreign(News(k)) \subseteq Landing(k)'
    BY <1>4 DEF News, Landing, Foreign
  <2> QED BY <1>5, <1>6, <2>1, LearnsSame
<1>8. Foreign(ToSet(m.body)) \subseteq Soon(n)'
  <2>1. CASE m.kind = "user"
    <3>1. m.body \in Seq(Tags)
      BY <1>1, <2>1 DEF Fitting
    <3>2. ToSet(m.body) \subseteq Tags
      BY <3>1, SetOfSeq
    <3> QED BY <3>2 DEF Foreign
  <2>2. CASE m.kind = "new"
    <3>1. m.dest = 0
      BY <1>1, <1>2, <2>2 DEF Fitting
    <3>2. inHand'[n] # <<>> /\ inHand'[n][1] = m
      <4>1. <<m>> # <<>> /\ <<m>>[1] = m
        OBVIOUS
      <4> QED BY <1>4, <3>1, <4>1
    <3>3. News(n)' = ToSet(m.body)
      BY <2>2, <3>2 DEF News
    <3> QED BY <3>3 DEF Soon, Landing
  <2> QED BY <1>2, <2>1, <2>2 DEF Good, Message
<1>9. m.kind = "user" => Foreign({m.dest}) \subseteq Knows(n)
  <2>1. News(n) = {}
    BY DEF News
  <2>2. Landing(n) = Foreign(Knows(n) \cup {IdOf(n)})
    BY <2>1 DEF Landing, Tabled, Foreign
  <2> QED BY <1>2, <2>2 DEF LedIn, Foreign
<1>10. LinksLed' /\ FoundLed' /\ clientsToRemove' = clientsToRemove
  BY <1>2, <1>7, <1>8, <1>9, SendFinds
<1>11. Attached' /\ FiledAhead' /\ OutLed' /\ ToldLed'
  BY <1>5, <1>7, AttachedKept, FiledAheadKept, OutLedKept, ToldLedKept
<1>12. InLed'
  <2>1. <<m>> \in Seq(LedIn(n)) /\ <<>> \in Seq(LedIn(n))
    OBVIOUS
  <2>2. \A k \in Nodes : inHand'[k] \in Seq(LedIn(k))
    BY <1>4, <2>1 DEF FindInv, InLed
  <2> QED BY <1>7, <2>2, LedKept DEF InLed
<1>13. NothingRemoved'
  <2>1. Len(<<>>) <= 1 /\ Len(<<m>>) <= 1
    OBVIOUS
  <2> QED BY <1>4, <1>10, <2>1 DEF FindInv, NothingRemoved
<1> QED BY <1>10, <1>11, <1>12, <1>13 DEF FindInv

LEMMA ReciveFinds ==
    ASSUME KernalInv, RoutesInv, FindInv, NEW n \in Nodes, ReciveMessage(n)
    PROVE  FindInv'
<1> DEFINE m == Head(msgIn[n])
<1>1. /\ inHand[n] = <<>> /\ msgIn[n] # <<>> /\ msgIn' = [msgIn EXCEPT ![n] = Tail(@)]
      /\ UNCHANGED <<accepted, msgOut, wires, users>>
      /\ \/ /\ Mine(n, m) /\ UseMessage(n, m) /\ UNCHANGED <<link, notFound>>
            /\ inHand' = inHand
         \/ /\ ~Mine(n, m) /\ SendMessage(n, m) /\ UNCHANGED tables
            /\ inHand' = IF m.dest = 0 THEN [inHand EXCEPT ![n] = <<m>>] ELSE inHand
  BY DEF ReciveMessage
<1>2. /\ \A k \in Nodes : msgIn[k] \in Seq(LedIn(k)) /\ inHand[k] \in Seq(LedIn(k)) /\ Len(inHand[k]) <= 1
      /\ msgIn[n] \in Seq(Heard(n)) /\ msgIn \in [Nodes -> Seq(Good)]
  BY DEF RoutesInv, Arrived, FindInv, InLed, NothingRemoved, KernalInv, QueuesTyped
<1>3. m \in Heard(n) /\ m \in LedIn(n) /\ Tail(msgIn[n]) \in Seq(LedIn(n))
  BY <1>1, <1>2
<1>4. n \in Clients /\ myId[n] = 0 => IsNotice(m)
  BY <1>1 DEF RoutesInv, Waiting, ClientWaits
<1> HIDE DEF m
<1>5. \A k \in Nodes : msgIn'[k] \in Seq(LedIn(k))
  BY <1>1, <1>2, <1>3
<1>6. CASE Mine(n, m) /\ UseMessage(n, m) /\ UNCHANGED <<link, notFound>> /\ inHand' = inHand
  <2>1. Takes(n, m)
    BY <1>6 DEF Takes
  <2>2. \A k \in Nodes : /\ msgIn'[k] \in Seq(LedIn(k)) /\ inHand'[k] \in Seq(LedIn(k))
                         /\ Len(inHand'[k]) <= 1
    BY <1>2, <1>5, <1>6
  <2> QED BY <1>1, <1>3, <1>4, <1>6, <2>1, <2>2, UsingFinds
<1>7. CASE /\ ~Mine(n, m) /\ SendMessage(n, m) /\ UNCHANGED tables
           /\ inHand' = IF m.dest = 0 THEN [inHand EXCEPT ![n] = <<m>>] ELSE inHand
  <2>1. HasId(n)
    BY <1>3 DEF Heard, Sender
  <2>2. Awake(n)
    BY <1>4, <1>7, <2>1, AwakeIf DEF Mine, IsNotice
  <2> QED BY <1>1, <1>3, <1>5, <1>7, <2>2, ForwardFinds
<1> QED BY <1>1, <1>6, <1>7

(***************************************************************************)
(* The accept handler, and the start of the root.                          *)
(***************************************************************************)
LEMMA StartRootFinds ==
    ASSUME KernalInv, RoutesInv, FindInv, ProperIds', StartRoot
    PROVE  FindInv'
<1>1. /\ myId[Root] = 0 /\ Root \in Nodes
      /\ UNCHANGED <<serverId, idsFromServer, serverConn, clientToDirectClient,
                     announced, used, removed, clientConn, connected,
                     directClients, accepting, queues, sending, wires, users>>
  BY TreeAssumption DEF StartRoot
<1>2. PICK id : BuildId(Root, id) /\ myId' = [myId EXCEPT ![Root] = id]
  BY DEF StartRoot
<1>3. myId \in [Nodes -> Nat]
  BY DEF KernalInv, TablesTyped
<1> USE DEF queues, sending, wires
<1>4. IdOf(Root)' = id /\ ~HasId(Root) /\ \A k \in Nodes : k # Root => IdOf(k)' = IdOf(k)
  <2>1. myId'[Root] = id
    BY <1>1, <1>2, <1>3
  <2> QED BY <1>1, <2>1 DEF IdOf, HasId
<1>5. \A c \in Clients : c \in Nodes /\ IdOf(c)' = IdOf(c)
  BY <1>4 DEF Clients
<1>6. Grows
  <2>1. \A c \in Clients : Dead(c) => ~Linked(c)'
    BY <1>1 DEF Dead, Linked
  <2> QED BY <1>1, <1>2, <1>4, <2>1, NewIdKept
<1>7. Learns
  BY <1>1, <1>6, LearnsSame, NewsSame, KnowsSame
<1>8. Attached'
  BY <1>1, <1>5 DEF FindInv, Attached, HasId, Linked, Entering
<1>9. FiledAhead'
  <2>1. \A n \in Nodes : \A c \in Children(n) : c \in Clients
    BY ChildLinks
  <2> QED BY <1>1, <1>5, <1>7, <2>1, FiledAheadIf DEF HasId
<1>10. LinksLed' /\ InLed' /\ OutLed' /\ ToldLed'
  BY <1>1, <1>7, LinksLedKept, InLedKept, OutLedKept, ToldLedKept
<1>11. NothingRemoved' /\ FoundLed'
  BY <1>1 DEF FindInv, NothingRemoved, FoundLed
<1> QED BY <1>8, <1>9, <1>10, <1>11 DEF FindInv

LEMMA AcceptListFinds ==
    ASSUME KernalInv, RoutesInv, FindInv, NEW n \in Nodes, AcceptList(n)
    PROVE  FindInv'
<1> DEFINE c == accepting[n].client
           list == idsFromServer[n] \o Keys(clientToDirectClient[n])
           msg == Added(n, clientConn[c].otherId, list)
           now == [at |-> "inserting", client |-> c, msg |-> msg]
<1>1. /\ accepting[n].at = "listing" /\ accepting' = [accepting EXCEPT ![n] = now]
      /\ UNCHANGED <<tables, drawn, clientConn, connected, directClients, queues,
                     sending, wires, users>>
  BY DEF AcceptList
<1>2. accepting \in [Nodes -> {NotAccepting} \cup Listing \cup Inserting]
  BY DEF KernalInv, AcceptTyped
<1>3. now.at = "inserting" /\ now.client = c /\ now.msg = msg
  OBVIOUS
<1>4. msg.kind = "new" /\ msg.body = list
  BY DEF Added
<1>5. ToSet(list) \subseteq Knows(n)
  <2>1. clientToDirectClient[n] \in MapsTo(Nat) /\ idsFromServer[n] \in Seq(Nat)
    BY DEF KernalInv, TablesTyped
  <2>2. Keys(clientToDirectClient[n]) \in Seq(DOMAIN clientToDirectClient[n])
    BY <2>1, KeysIn
  <2>3. DOMAIN clientToDirectClient[n] \subseteq Nat
    BY <2>1, MapIs
  <2>4. Keys(clientToDirectClient[n]) \in Seq(Nat)
    BY <2>2, <2>3, SeqOver
  <2>5. ToSet(Keys(clientToDirectClient[n])) \subseteq DOMAIN clientToDirectClient[n]
    BY <2>2, SetOfSeq
  <2>6. ToSet(list) = ToSet(idsFromServer[n]) \cup ToSet(Keys(clientToDirectClient[n]))
    BY <2>1, <2>4, SetOfBoth
  <2> QED BY <2>5, <2>6 DEF Knows
<1> HIDE DEF now, list, c, msg
<1>6. accepting'[n] = now /\ \A k \in Nodes : k # n => accepting'[k] = accepting[k]
  BY <1>1, <1>2
<1>7. \A k \in Nodes : \A a \in Clients : Entering(k, a)' <=> Entering(k, a)
  <2>1. accepting[n].at # "no" /\ accepting[n].client = c
    BY <1>1 DEF c
  <2>2. \A a \in Clients : Entering(n, a)' <=> Entering(n, a)
    BY <1>3, <1>6, <2>1 DEF Entering
  <2>3. \A k \in Nodes : \A a \in Clients : k # n => (Entering(k, a)' <=> Entering(k, a))
    BY <1>6 DEF Entering
  <2> QED BY <2>2, <2>3
<1> USE DEF tables, queues, sending, wires
<1>8. Grows /\ \A k \in Nodes : IdOf(k)' = IdOf(k)
  BY <1>1, SameIdsKept DEF SameIds
<1>9. Learns
  <2>1. ASSUME NEW k \in Nodes, NEW a \in Clients, Entering(k, a) PROVE HasId(a)
    <3>1. accepting[k].at # "no" /\ accepting[k].client = a
      BY <2>1 DEF Entering
    <3> QED BY <3>1, HandlerClient
  <2> QED BY <1>1, <1>7, <1>8, <2>1, NewsSame, KnowsSame, LearnsIf
<1>10. Attached'
  <2>1. \A a \in Clients : a \in Nodes /\ Parent[a] \in Nodes
    BY WithinServer
  <2> QED BY <1>1, <1>7, <1>8, <2>1 DEF FindInv, Attached, HasId, Linked
<1>11. FiledAhead' /\ LinksLed' /\ InLed' /\ ToldLed'
  BY <1>1, <1>8, <1>9, FiledAheadKept, LinksLedKept, InLedKept, ToldLedKept
<1>12. OutLed'
  <2>1. msg \in Good
    <3>1. accepting'[n].msg \in Good
      <4>1. KernalInv'
        BY AcceptListTyped
      <4>2. accepting' \in [Nodes -> {NotAccepting} \cup Listing \cup Inserting]
        BY <4>1 DEF KernalInv, AcceptTyped
      <4>3. accepting'[n].at = "inserting"
        BY <1>3, <1>6
      <4> QED BY <4>2, <4>3 DEF NotAccepting, Listing, Inserting
    <3> QED BY <1>3, <1>6, <3>1
  <2>2. Foreign(ToSet(msg.body)) \subseteq Soon(n)
    BY <1>4, <1>5 DEF Soon, Landing, Tabled, Foreign
  <2>3. msg \in LedOut(n)'
    <3>1. msg \in LedOut(n)
      BY <1>4, <2>1, <2>2 DEF LedOut
    <3> QED BY <1>9, <3>1, LedKept
  <2>4. \A k \in Nodes : msgOut'[k] \in Seq(LedOut(k)')
    BY <1>1, <1>9, LedKept DEF FindInv, OutLed
  <2>5. \A k \in Nodes : accepting'[k].at = "inserting" => accepting'[k].msg \in LedOut(k)'
    BY <1>3, <1>6, <1>9, <2>3, LedKept DEF FindInv, OutLed
  <2> QED BY <2>4, <2>5 DEF OutLed
<1>13. NothingRemoved' /\ FoundLed'
  BY <1>1 DEF FindInv, NothingRemoved, FoundLed
<1> QED BY <1>10, <1>11, <1>12, <1>13 DEF FindInv

LEMMA AcceptInsertFinds ==
    ASSUME KernalInv, RoutesInv, FindInv, NEW n \in Nodes, AcceptInsert(n)
    PROVE  FindInv'
<1>1. accepting[n].at = "inserting"
  BY DEF AcceptInsert
<1>2. PICK c \in Children(n) :
         /\ accepting[n].client = c /\ HasId(c) /\ clientConn[c].otherId = IdOf(c)
         /\ Awake(n) /\ Entering(n, c)
  BY <1>1, HandlerClient
<1>3. PICK id : id = IdOf(c)
  OBVIOUS
<1>4. /\ directClients' = [directClients EXCEPT ![n] = Insert(@, id, c)]
      /\ clientToDirectClient' = [clientToDirectClient EXCEPT ![n] = Insert(@, id, id)]
      /\ msgOut' = [msgOut EXCEPT ![n] = Append(@, accepting[n].msg)]
      /\ accepting' = [accepting EXCEPT ![n] = NotAccepting]
      /\ UNCHANGED <<myId, serverId, idsFromServer, serverConn, announced, used,
                     removed, drawn, clientConn, connected, msgIn, inHand,
                     sending, wires, users>>
  BY <1>1, <1>2, <1>3 DEF AcceptInsert
<1>5. /\ accepting \in [Nodes -> {NotAccepting} \cup Listing \cup Inserting]
      /\ msgOut \in [Nodes -> Seq(Good)]
      /\ clientToDirectClient \in [Nodes -> MapsTo(Nat)]
      /\ directClients \in [Nodes -> MapsTo(Clients)]
      /\ c \in Nodes /\ c \in Clients /\ Parent[c] = n
  BY ChildLinks DEF KernalInv, AcceptTyped, QueuesTyped, TablesTyped
<1>6. accepting'[n].at = "no" /\ \A k \in Nodes : k # n => accepting'[k] = accepting[k]
  BY <1>4, <1>5 DEF NotAccepting
<1>7. \A k \in Nodes : \A a \in Clients : Entering(k, a) => Entering(k, a)' \/ (k = n /\ a = c)
  BY <1>2, <1>6 DEF Entering
<1>8. /\ \A k \in Nodes : DOMAIN directClients[k] \subseteq DOMAIN directClients'[k]
      /\ id \in DOMAIN directClients'[n]
  <2>1. directClients'[n] = Insert(directClients[n], id, c)
    BY <1>4, <1>5
  <2>2. \A k \in Nodes : k # n => directClients'[k] = directClients[k]
    BY <1>4, <1>5
  <2> QED BY <2>1, <2>2 DEF Insert
<1>9. /\ \A k \in Nodes : k # n => clientToDirectClient'[k] = clientToDirectClient[k]
      /\ id \in DOMAIN clientToDirectClient'[n]
      /\ DOMAIN clientToDirectClient[n] \subseteq DOMAIN clientToDirectClient'[n]
      /\ \A x \in DOMAIN clientToDirectClient'[n] :
            \/ /\ x \in DOMAIN clientToDirectClient[n]
               /\ clientToDirectClient'[n][x] = clientToDirectClient[n][x]
            \/ x = id /\ clientToDirectClient'[n][x] = id
  <2>1. clientToDirectClient'[n] = Insert(clientToDirectClient[n], id, id)
    BY <1>4, <1>5
  <2>2. \A k \in Nodes : k # n => clientToDirectClient'[k] = clientToDirectClient[k]
    BY <1>4, <1>5
  <2> QED BY <2>1, <2>2 DEF Insert
<1> USE DEF sending, wires
<1>10. Grows /\ \A k \in Nodes : IdOf(k)' = IdOf(k)
  BY <1>4, SameIdsKept DEF SameIds
<1>11. \A k \in Nodes : Knows(k) \subseteq Knows(k)'
  BY <1>4, <1>9 DEF Knows
<1>12. Learns
  <2>1. ASSUME NEW k \in Nodes, NEW a \in Clients, Entering(k, a)
        PROVE  HasId(a) /\ (Entering(k, a)' \/ IdOf(a) \in Knows(k)')
    <3>1. HasId(a)
      <4>1. accepting[k].at # "no" /\ accepting[k].client = a
        BY <2>1 DEF Entering
      <4> QED BY <4>1, HandlerClient
    <3>2. id \in Knows(n)'
      BY <1>9 DEF Knows
    <3> QED BY <1>3, <1>7, <2>1, <3>1, <3>2
  <2> QED BY <1>4, <1>10, <1>11, <2>1, NewsSame, LearnsIf
<1>13. Attached'
  <2>1. ASSUME NEW a \in Clients, HasId(a)'
        PROVE  Linked(a)' /\ (Entering(Parent[a], a)' \/ IdOf(a)' \in DOMAIN directClients'[Parent[a]])
    <3>1. a \in Nodes /\ Parent[a] \in Nodes
      BY WithinServer
    <3>2. HasId(a) /\ IdOf(a)' = IdOf(a)
      BY <1>10, <2>1, <3>1 DEF HasId
    <3>3. Linked(a) /\ (Entering(Parent[a], a) \/ IdOf(a) \in DOMAIN directClients[Parent[a]])
      BY <3>2 DEF FindInv, Attached
    <3>4. Linked(a)'
      BY <1>4, <3>3 DEF Linked
    <3> QED BY <1>3, <1>7, <1>8, <3>1, <3>2, <3>3, <3>4
  <2> QED BY <2>1 DEF Attached
<1>14. FiledAhead'
  <2>1. ASSUME NEW k \in Nodes, NEW a \in Children(k), NEW x \in DOMAIN clientToDirectClient'[k],
               HasId(a)', clientToDirectClient'[k][x] = IdOf(a)'
        PROVE  \/ /\ HasId(a) /\ x \in DOMAIN clientToDirectClient[k]
                  /\ clientToDirectClient[k][x] = IdOf(a)
               \/ Foreign({x}) \subseteq Soon(a)'
    <3>1. a \in Nodes /\ HasId(a) /\ IdOf(a)' = IdOf(a)
      BY <1>10, <2>1, ChildLinks DEF HasId
    <3>2. CASE x \in DOMAIN clientToDirectClient[k]
               /\ clientToDirectClient'[k][x] = clientToDirectClient[k][x]
      BY <2>1, <3>1, <3>2
    <3>3. CASE x = IdOf(a)'
      BY <3>3 DEF Soon, Landing, Tabled, Foreign
    <3> QED BY <1>9, <2>1, <3>2, <3>3
  <2> QED BY <1>4, <1>12, <2>1, FiledAheadIf
<1>15. LinksLed' /\ InLed' /\ ToldLed'
  BY <1>4, <1>12, LinksLedKept, InLedKept, ToldLedKept
<1>16. OutLed'
  <2>1. ASSUME NEW k \in Nodes PROVE msgOut'[k] \in Seq(LedOut(k)')
    <3>1. accepting[n].msg \in LedOut(n) /\ msgOut[k] \in Seq(LedOut(k))
      BY <1>1 DEF FindInv, OutLed
    <3>2. msgOut'[k] = IF k = n THEN Append(msgOut[k], accepting[n].msg) ELSE msgOut[k]
      BY <1>4, <1>5
    <3>3. msgOut'[k] \in Seq(LedOut(k))
      BY <3>1, <3>2
    <3> QED BY <1>12, <3>3, LedKept
  <2>2. \A k \in Nodes : accepting'[k].at = "inserting" => accepting'[k].msg \in LedOut(k)'
    BY <1>6, <1>12, LedKept DEF FindInv, OutLed
  <2> QED BY <2>1, <2>2 DEF OutLed
<1>17. NothingRemoved' /\ FoundLed'
  BY <1>4 DEF FindInv, NothingRemoved, FoundLed
<1> QED BY <1>13, <1>14, <1>15, <1>16, <1>17 DEF FindInv

LEMMA AcceptFinds ==
    ASSUME KernalInv, RoutesInv, FindInv, ProperIds', NEW n \in Nodes, NEW c \in Children(n), Accept(c)
    PROVE  FindInv'
<1>1. c \in Clients /\ c \in Nodes /\ Parent[c] = n /\ c # n /\ <<n, c>> \in Links
  BY ChildLinks
<1>2. /\ connected[c] = "dialed" /\ accepting[n] = NotAccepting
      /\ open' = open \cup {<<n, c>>, <<c, n>>}
      /\ accepting' = [accepting EXCEPT ![n] = [at |-> "listing", client |-> c]]
      /\ UNCHANGED <<tables, directClients, msgIn, inHand, clientsToRemove,
                     notFound, lastBody, users>>
  BY <1>1 DEF Accept
<1>3. /\ Awake(n) /\ HasId(n) /\ myId[n] = IdOf(n) /\ ~HasId(c)
      /\ link[<<n, c>>] = <<>> /\ <<n, c>> \notin open /\ <<c, n>> \notin open
  BY <1>1, <1>2, ServerHasId, NewClient DEF Awake
<1>4. PICK id \in ToSet(Rand[n]) :
         /\ BuildId(n, id)
         /\ clientConn' = [clientConn EXCEPT ![c] = [myId |-> myId[n], otherId |-> id]]
         /\ msgOut' = [msgOut EXCEPT ![n] = Append(@, Added(n, 0, <<id>>))]
         /\ link' = [link EXCEPT ![<<n, c>>] =
                        IF id = Added(n, 1, <<id>>).src THEN @
                        ELSE Append(@, Added(n, 1, <<id>>))]
  BY <1>1 DEF Accept
<1>5. /\ link \in [Links -> Seq(Good)] /\ msgOut \in [Nodes -> Seq(Good)]
      /\ accepting \in [Nodes -> {NotAccepting} \cup Listing \cup Inserting]
      /\ clientConn \in [Nodes -> [myId : Nat, otherId : Nat \ {1}]] /\ myId \in [Nodes -> Nat]
  BY DEF KernalInv, WiresTyped, QueuesTyped, AcceptTyped, TablesTyped
<1> USE DEF tables
<1>6. IdOf(c)' = id /\ \A k \in Nodes : k # c => IdOf(k)' = IdOf(k)
  <2>1. clientConn'[c] = [myId |-> myId[n], otherId |-> id]
    BY <1>1, <1>4, <1>5
  <2>2. \A k \in Nodes : k # c => clientConn'[k] = clientConn[k]
    BY <1>4, <1>5
  <2> QED BY <1>1, <1>2, <2>1, <2>2 DEF IdOf, Clients
<1>7. Grows /\ id \notin Names /\ id # 0 /\ id \in Nat
  <2>1. \A d \in Clients : Dead(d) => ~Linked(d)'
    BY <1>1, <1>2, <1>3, OtherLinks DEF Dead, Linked
  <2> QED BY <1>1, <1>3, <1>4, <1>6, <2>1, NewIdKept
<1>8. PICK direct : direct = [dest |-> 1, src |-> IdOf(n), kind |-> "new", body |-> <<id>>]
  OBVIOUS
<1>9. PICK all : all = [dest |-> 0, src |-> IdOf(n), kind |-> "new", body |-> <<id>>]
  OBVIOUS
<1>10. /\ direct \in Good /\ direct.kind = "new" /\ direct.body = <<id>>
      /\ all \in Good /\ all.kind = "new" /\ all.body = <<id>>
  <2>1. IdOf(n) \in Nat /\ <<id>> \in Seq(Nat) /\ <<id>> # <<>>
    BY <1>3, <1>7, <1>5
  <2> QED BY <1>8, <1>9, <2>1 DEF Good, Message
<1>11. msgOut' = [msgOut EXCEPT ![n] = Append(@, all)]
  BY <1>3, <1>4, <1>9 DEF Added
<1>12. link'[<<n, c>>] = <<direct>> /\ \A l \in Links : l # <<n, c>> => link'[l] = link[l]
  <2>1. id # IdOf(n)
    BY <1>3, <1>7 DEF Names, HasId
  <2>2. Added(n, 1, <<id>>) = direct /\ direct.src = IdOf(n)
    BY <1>3, <1>8 DEF Added
  <2>3. link' = [link EXCEPT ![<<n, c>>] = Append(@, direct)]
    BY <1>4, <2>1, <2>2
  <2> QED BY <1>1, <1>3, <1>5, <2>3
<1>13. accepting'[n].at = "listing" /\ accepting'[n].client = c
       /\ \A k \in Nodes : k # n => accepting'[k] = accepting[k]
  BY <1>2, <1>5
<1>14. \A k \in Nodes : \A a \in Clients : Entering(k, a) => k # n /\ Entering(k, a)'
  BY <1>2, <1>13 DEF Entering, NotAccepting
<1>15. Learns
  <2>1. ASSUME NEW k \in Nodes, NEW a \in Clients, Entering(k, a) PROVE HasId(a)
    <3>1. accepting[k].at # "no" /\ accepting[k].client = a
      BY <2>1 DEF Entering
    <3> QED BY <3>1, HandlerClient
  <2> QED BY <1>2, <1>7, <1>14, <2>1, NewsSame, KnowsSame, LearnsIf
<1>16. Foreign(ToSet(<<id>>)) \subseteq Soon(n)'
  <2>1. Entering(n, c)'
    BY <1>13 DEF Entering
  <2>2. ToSet(<<id>>) = {id}
    BY DEF ToSet
  <2>3. Foreign({id}) \subseteq Soon(n)'
    BY <1>1, <1>6, <2>1 DEF Soon, Foreign
  <2> QED BY <2>2, <2>3
<1>17. Attached'
  <2>1. ASSUME NEW a \in Clients, HasId(a)'
        PROVE  Linked(a)' /\ (Entering(Parent[a], a)' \/ IdOf(a)' \in DOMAIN directClients'[Parent[a]])
    <3>1. a \in Nodes /\ Parent[a] \in Nodes
      BY WithinServer
    <3>2. CASE a = c
      BY <1>1, <1>2, <1>13, <3>2 DEF Linked, Entering
    <3>3. CASE a # c
      <4>1. HasId(a) /\ IdOf(a)' = IdOf(a)
        BY <1>6, <2>1, <3>1, <3>3 DEF HasId
      <4>2. Linked(a) /\ (Entering(Parent[a], a) \/ IdOf(a) \in DOMAIN directClients[Parent[a]])
        BY <4>1 DEF FindInv, Attached
      <4>3. Linked(a)'
        BY <1>2, <4>2 DEF Linked
      <4> QED BY <1>2, <1>14, <3>1, <4>1, <4>2, <4>3
    <3> QED BY <3>2, <3>3
  <2> QED BY <2>1 DEF Attached
<1>18. FiledAhead'
  <2>1. ASSUME NEW k \in Nodes, NEW a \in Children(k), NEW x \in DOMAIN clientToDirectClient[k],
               HasId(a)', clientToDirectClient[k][x] = IdOf(a)'
        PROVE  HasId(a) /\ clientToDirectClient[k][x] = IdOf(a)
    <3>1. PICK d \in Children(k) : HasId(d) /\ clientToDirectClient[k][x] = IdOf(d)
      BY DEF RoutesInv, Tables, Filed
    <3>2. d \in Nodes /\ a \in Nodes
      BY <3>1, ChildLinks
    <3>3. IdOf(d) \in Names
      BY <3>1, <3>2 DEF Names, HasId
    <3>4. a # c
      BY <1>7, <1>6, <2>1, <3>1, <3>3
    <3> QED BY <1>6, <2>1, <3>2, <3>4 DEF HasId
  <2> QED BY <1>2, <1>15, <2>1, FiledAheadIf
<1>19. LinksLed'
  <2>1. direct \in LedOn(<<n, c>>)'
    BY <1>10, <1>16 DEF LedOn
  <2>2. ASSUME NEW l \in Links PROVE link'[l] \in Seq(LedOn(l)')
    <3>1. link[l] \in Seq(LedOn(l)')
      BY <1>15, LedKept DEF FindInv, LinksLed
    <3>2. <<direct>> \in Seq(LedOn(<<n, c>>)')
      BY <2>1
    <3> QED BY <1>12, <3>1, <3>2
  <2>3. \A l \in Links : Foreign(ToSet(lastBody'[l])) \subseteq Soon(l[1])'
    BY <1>2, <1>15, LinkNodes DEF FindInv, LinksLed, Learns
  <2> QED BY <2>2, <2>3 DEF LinksLed
<1>20. InLed' /\ ToldLed'
  BY <1>2, <1>15, InLedKept, ToldLedKept
<1>21. OutLed'
  <2>1. all \in LedOut(n)'
    BY <1>10, <1>16 DEF LedOut
  <2>2. ASSUME NEW k \in Nodes PROVE msgOut'[k] \in Seq(LedOut(k)')
    <3>1. msgOut[k] \in Seq(LedOut(k)')
      BY <1>15, LedKept DEF FindInv, OutLed
    <3>2. msgOut'[k] = IF k = n THEN Append(msgOut[k], all) ELSE msgOut[k]
      BY <1>5, <1>11
    <3> QED BY <2>1, <3>1, <3>2
  <2>3. \A k \in Nodes : accepting'[k].at = "inserting" => accepting'[k].msg \in LedOut(k)'
    BY <1>13, <1>15, LedKept DEF FindInv, OutLed
  <2> QED BY <2>2, <2>3 DEF OutLed
<1>22. NothingRemoved' /\ FoundLed'
  BY <1>2 DEF FindInv, NothingRemoved, FoundLed
<1> QED BY <1>17, <1>18, <1>19, <1>20, <1>21, <1>22 DEF FindInv

\* no peer has gone, so none is noticed
LEMMA NothingNoticed ==
    ASSUME KernalInv, RoutesInv, FindInv, NEW l \in Links
    PROVE  ~NoticesPeer(l[2], l[1])
<1>1. PICK a \in Nodes, b \in Nodes : a = l[1] /\ b = l[2] /\ (b \in Children(a) \/ a \in Children(b))
  BY LinkNodes DEF Links
<1>2. \A c \in Clients : <<c, Parent[c]>> \in open <=> <<Parent[c], c>> \in open
  BY DEF RoutesInv, Started, ClientStarted, FindInv, Attached, Linked
<1>3. <<b, a>> \in open => <<a, b>> \in open
  BY <1>1, <1>2, ChildLinks
<1> QED BY <1>1, <1>3 DEF NoticesPeer, Closes

\* a connection that is there does not fail
LEMMA NothingFails ==
    ASSUME KernalInv, RoutesInv, FindInv, Unbroken', NEW n \in Nodes, NEW k \in Nodes, Fails(n, k)
    PROVE  FALSE
<1>1. <<n, k>> \in open /\ open' = open \ {<<n, k>>} /\ UNCHANGED <<myId, clientConn>>
  BY DEF Fails, Closes, tables, accepted
<1>2. PICK c \in Clients : <<n, k>> \in {<<Parent[c], c>>, <<c, Parent[c]>>}
  <2>1. <<n, k>> \in Links
    BY <1>1 DEF KernalInv, WiresTyped
  <2> QED BY <2>1, ChildLinks DEF Links
<1>3. HasId(c)
  BY <1>1, <1>2 DEF RoutesInv, Started, ClientStarted
<1>4. IdOf(c)' # 0 /\ ~Linked(c)'
  BY <1>1, <1>2, <1>3 DEF HasId, IdOf, Linked
<1> QED BY <1>4 DEF Unbroken

LEMMA NextFinds ==
    KernalInv /\ RoutesInv /\ FindInv /\ ProperIds' /\ Unbroken' /\ [Next]_vars => FindInv'
<1> SUFFICES ASSUME KernalInv, RoutesInv, FindInv, ProperIds', Unbroken', Next PROVE FindInv'
  BY StutterFinds
<1>1. CASE Joining
  BY <1>1, StartRootFinds, DialFinds DEF Joining
<1>2. ASSUME NEW n \in Nodes, Context(n) PROVE FindInv'
  <2>1. ASSUME NEW c \in Children(n), Accept(c) PROVE FindInv'
    BY <2>1, AcceptFinds
  <2>2. ASSUME accepting[n] = NotAccepting, NEW l \in Links, l[2] = n, Deliver(l)
        PROVE  FindInv'
    BY <2>2, DeliverFinds
  <2>3. ASSUME NEW l \in Links, l[2] = n, NoticesPeer(n, l[1]) PROVE FindInv'
    BY <2>3, NothingNoticed
  <2> QED BY <1>2, <2>1, <2>2, <2>3, AcceptListFinds, AcceptInsertFinds DEF Context
<1>3. ASSUME NEW n \in Nodes, In(n) PROVE FindInv'
  BY <1>3, ReciveFinds, UseForwardedFinds DEF In
<1>4. ASSUME NEW n \in Nodes, HandleRemoveClients(n) PROVE FindInv'
  BY <1>4 DEF HandleRemoveClients, FindInv, NothingRemoved
<1>5. CASE Working
  BY <1>1, <1>2, <1>3, <1>4, <1>5, HandleOutFinds DEF Working
<1>6. ASSUME NEW n \in Users, Submit(n) PROVE FindInv'
  BY <1>6, SubmitFinds, TreeAssumption
<1>7. ASSUME NEW n \in Nodes, NEW k \in Nodes, Fails(n, k) PROVE FindInv'
  BY <1>7, NothingFails
<1> QED BY <1>5, <1>6, <1>7 DEF Next

\* what no table has an entry for is no node's id
LEMMA FoundIsEnough ==
    ASSUME RoutesInv, FindInv
    PROVE  AnnouncedIsReachable
<1> SUFFICES ASSUME NEW m \in notFound, m.kind = "user" PROVE Owners(m.dest) = {}
  BY DEF AnnouncedIsReachable
<1>1. m.dest \in Tags
  BY DEF FindInv, FoundLed
<1>2. m.dest \in Of({})
  BY <1>1, TagsFree
<1> QED BY <1>2 DEF Of

LEMMA FindsHold ==
    Spec /\ []ProperIds /\ []Unbroken => [](KernalInv /\ RoutesInv /\ FindInv)
<1>1. Init => KernalInv /\ RoutesInv /\ FindInv
  BY InitTyped, RoutesInit, FindInit
<1>2. /\ KernalInv /\ RoutesInv /\ FindInv
      /\ ProperIds' /\ Unbroken' /\ [Next]_vars
      => (KernalInv /\ RoutesInv /\ FindInv)'
  BY NextTyped, NextRoutes, NextFinds
<1> QED BY <1>1, <1>2, PTL DEF Spec

(***************************************************************************)
(* An id that a user was told of is reported as unknown only if it is no   *)
(* node's: in any tree, however the notices and the messages of the users  *)
(* overtake one another, while the ids are proper and no connection has    *)
(* been lost.                                                              *)
(***************************************************************************)
THEOREM KernalAnnouncedIsReachable ==
    Spec /\ []ProperIds /\ []Unbroken => []AnnouncedIsReachable
<1>1. RoutesInv /\ FindInv => AnnouncedIsReachable
  BY FoundIsEnough
<1> QED BY <1>1, FindsHold, PTL

(***************************************************************************)
(* Where proper ids come from.  Only starting the root and accepting a     *)
(* client give an id; every other step leaves the ids alone.               *)
(***************************************************************************)
IdsStay ==
    /\ UNCHANGED <<drawn, clientConn>>
    /\ \A n \in Nodes : IdOf(n)' = IdOf(n) /\ (myId'[n] = 0 => myId[n] = 0)
    /\ \A c \in Clients : connected'[c] # connected[c] => Dial(c)

LEMMA UseKeepsIds ==
    ASSUME KernalInv, RoutesInv, NEW n \in Nodes, NEW m \in Heard(n), UseMessage(n, m),
           n \in Clients /\ myId[n] = 0 => IsNotice(m), UNCHANGED <<accepted, open>>
    PROVE  IdsStay
<1>1. UsedWell(n)
  BY UseIsWell
<1> QED BY <1>1 DEF UsedWell, IdsStay, accepted, IdOf, Clients

LEMMA InKeepsIds ==
    ASSUME KernalInv, RoutesInv, NEW n \in Nodes, In(n)
    PROVE  IdsStay
<1>1. msgIn[n] \in Seq(Heard(n)) /\ inHand[n] \in Seq(Heard(n))
  BY DEF RoutesInv, Arrived
<1>2. CASE UseForwarded(n)
  <2>1. inHand[n] # <<>> /\ inHand[n][1] \in Heard(n)
    BY <1>1, <1>2 DEF UseForwarded
  <2>2. ~(n \in Clients /\ myId[n] = 0)
    BY <2>1, Idle
  <2> QED BY <1>2, <2>1, <2>2, UseKeepsIds DEF UseForwarded, wires
<1>3. CASE ReciveMessage(n)
  <2> DEFINE m == Head(msgIn[n])
  <2>1. msgIn[n] # <<>> /\ m \in Heard(n)
    BY <1>1, <1>3 DEF ReciveMessage
  <2>2. n \in Clients /\ myId[n] = 0 => IsNotice(m)
    BY <2>1 DEF RoutesInv, Waiting, ClientWaits
  <2>3. UNCHANGED <<accepted, open>> /\ (UseMessage(n, m) \/ UNCHANGED tables)
    BY <1>3 DEF ReciveMessage, wires
  <2> HIDE DEF m
  <2>4. CASE UNCHANGED tables
    BY <2>3, <2>4 DEF IdsStay, tables, accepted, IdOf
  <2> QED BY <2>1, <2>2, <2>3, <2>4, UseKeepsIds
<1> QED BY <1>2, <1>3 DEF In

LEMMA OthersKeepIds ==
    ASSUME KernalInv, RoutesInv, [Next]_vars, ~StartRoot, \A c \in Clients : ~Accept(c)
    PROVE  IdsStay
<1> USE DEF tables, accepted
<1>1. ASSUME UNCHANGED <<myId, drawn, clientConn, connected>> PROVE IdsStay
  BY <1>1 DEF IdsStay, IdOf
<1>2. CASE UNCHANGED vars
  BY <1>1, <1>2 DEF vars
<1>3. ASSUME NEW c \in Clients, Dial(c) PROVE IdsStay
  <2>1. \A d \in Clients : d # c => connected'[d] = connected[d]
    BY <1>3 DEF Dial, KernalInv, AcceptTyped, Clients
  <2> QED BY <1>3, <2>1 DEF Dial, IdsStay, IdOf
<1>4. ASSUME NEW n \in Nodes, Context(n) PROVE IdsStay
  <2>1. \A c \in Children(n) : ~Accept(c)
    BY ChildLinks
  <2> QED BY <1>1, <1>4, <2>1 DEF Context, AcceptList, AcceptInsert, Deliver, NoticesPeer, Closes
<1>5. ASSUME NEW n \in Nodes, HandleRemoveClients(n) PROVE IdsStay
  <2>1. Head(clientsToRemove[n]) # myId[n]
    BY <1>5, NotItself DEF HandleRemoveClients
  <2>2. UNCHANGED connected
    BY <1>5, <2>1 DEF HandleRemoveClients, RemoveDirect, RemoveOther
  <2> QED BY <1>1, <1>5, <2>2 DEF HandleRemoveClients
<1>6. ASSUME NEW n \in Nodes, HandleOut(n) PROVE IdsStay
  BY <1>1, <1>6 DEF HandleOut
<1>7. ASSUME NEW n \in Users, Submit(n) PROVE IdsStay
  BY <1>1, <1>7 DEF Submit
<1>8. ASSUME NEW n \in Nodes, NEW k \in Nodes, Fails(n, k) PROVE IdsStay
  BY <1>1, <1>8 DEF Fails, Closes
<1> QED BY <1>2, <1>3, <1>4, <1>5, <1>6, <1>7, <1>8, InKeepsIds DEF Next, Working, Joining

(***************************************************************************)
(* Started in this order, a node dials only once its server has its id.    *)
(***************************************************************************)
DialedLate == \A c \in Clients : connected[c] # "none" => myId[Parent[c]] # 0

LEMMA DialedLateKept ==
    ASSUME StartedInOrder, KernalInv, RoutesInv, DialedLate, [Next]_vars
    PROVE  DialedLate'
<1>1. \A c \in Clients : c \in Nodes /\ Parent[c] \in Nodes
  BY WithinServer
<1>2. /\ myId \in [Nodes -> Nat]
      /\ connected \in [Nodes -> {"none", "dialed", "up", "reset"}]
  BY DEF KernalInv, TablesTyped, AcceptTyped
<1>3. CASE StartRoot
  <2>1. PICK id : BuildId(Root, id) /\ myId' = [myId EXCEPT ![Root] = id]
    BY <1>3 DEF StartRoot
  <2>2. id # 0
    BY <2>1, BuiltId, TreeAssumption
  <2> QED BY <1>1, <1>2, <1>3, <2>1, <2>2 DEF StartRoot, DialedLate
<1>4. ASSUME NEW d \in Clients, Accept(d) PROVE DialedLate'
  BY <1>1, <1>2, <1>4 DEF Accept, DialedLate, tables
<1>5. CASE ~StartRoot /\ \A c \in Clients : ~Accept(c)
  <2>1. IdsStay
    BY <1>5, OthersKeepIds
  <2>2. ASSUME NEW c \in Clients, Dial(c) PROVE myId[Parent[c]] # 0 /\ connected[c] = "none"
    BY <2>2 DEF Dial, StartedInOrder
  <2> QED BY <1>1, <2>1, <2>2 DEF IdsStay, DialedLate
<1> QED BY <1>3, <1>4, <1>5

(***************************************************************************)
(* What a step that gives an id has to show.                               *)
(***************************************************************************)
Numbered == \A n \in Nodes : IdOf(n) \notin 1..MaxSubmit

LEMMA NewIdProper ==
    ASSUME ProperIds, Numbered', NEW r \in Nodes, NEW id,
           IdOf(r)' = id, id # 0, \A k \in Nodes : k # r => IdOf(k)' = IdOf(k) /\ IdOf(k) # id,
           \A c \in Clients : IdOf(c)' # 0 => clientConn'[c].myId # 0
    PROVE  ProperIds'
<1>1. ASSUME NEW j \in Nodes, NEW k \in Nodes, IdOf(j)' # 0, IdOf(j)' = IdOf(k)'
      PROVE  j = k
  BY <1>1 DEF ProperIds
<1> QED BY <1>1 DEF ProperIds, Numbered

\* the id of an accepted client, and of the root
LEMMA AcceptedId ==
    ASSUME KernalInv, RoutesInv, DialedLate, NEW c \in Clients, Accept(c)
    PROVE  \E id : /\ BuildId(Parent[c], id) /\ id # 0 /\ IdOf(c)' = id /\ ~HasId(c)
                   /\ \A k \in Nodes : k # c => IdOf(k)' = IdOf(k)
                   /\ \A d \in Clients : d # c => clientConn'[d] = clientConn[d]
                   /\ clientConn'[c].myId = myId[Parent[c]] /\ myId[Parent[c]] # 0
<1>1. c \in Nodes /\ Parent[c] \in Nodes /\ c # Root
  BY WithinServer DEF Clients
<1>2. PICK id : /\ BuildId(Parent[c], id)
                /\ clientConn' = [clientConn EXCEPT
                                     ![c] = [myId |-> myId[Parent[c]], otherId |-> id]]
  BY DEF Accept
<1>3. connected[c] = "dialed" /\ myId' = myId
  BY DEF Accept, tables
<1>4. clientConn'[c] = [myId |-> myId[Parent[c]], otherId |-> id]
  BY <1>1, <1>2 DEF KernalInv, AcceptTyped
<1>5. \A k \in Nodes : k # c => clientConn'[k] = clientConn[k]
  BY <1>2 DEF KernalInv, AcceptTyped
<1>6. IdOf(c)' = id /\ \A k \in Nodes : k # c => IdOf(k)' = IdOf(k)
  BY <1>1, <1>3, <1>4, <1>5 DEF IdOf
<1>7. ~HasId(c) /\ myId[Parent[c]] # 0
  BY <1>3 DEF DialedLate, RoutesInv, Started, ClientStarted
<1>8. id # 0
  BY <1>1, <1>2, BuiltId
<1> QED BY <1>2, <1>4, <1>5, <1>6, <1>7, <1>8 DEF Clients

LEMMA RootId ==
    ASSUME KernalInv, StartRoot
    PROVE  \E id : /\ BuildId(Root, id) /\ id # 0 /\ IdOf(Root)' = id
                   /\ \A k \in Nodes : k # Root => IdOf(k)' = IdOf(k)
                   /\ clientConn' = clientConn
<1>1. PICK id : BuildId(Root, id) /\ myId' = [myId EXCEPT ![Root] = id]
  BY DEF StartRoot
<1>2. Root \in Nodes /\ myId'[Root] = id /\ clientConn' = clientConn
  BY <1>1, TreeAssumption DEF StartRoot, KernalInv, TablesTyped
<1>3. id # 0
  BY <1>1, <1>2, BuiltId
<1> QED BY <1>1, <1>2, <1>3 DEF IdOf

LEMMA StayProper == ASSUME ProperIds, IdsStay PROVE ProperIds'
BY DEF ProperIds, IdsStay, Clients

(***************************************************************************)
(* A tree with one server: buildId looks for the new id among the root's   *)
(* own id and the keys of clientToDirectClient.  While no connection has   *)
(* been lost every client is in that map once its accept is done, so this  *)
(* is enough, whatever rand() returns and however often it repeats itself. *)
(* That no id is a number a user's message carries stays an assumption.    *)
(***************************************************************************)
OneServer == \A c \in Clients : Parent[c] = Root
DirectFiled == \A n \in Nodes : DOMAIN directClients[n] \subseteq DOMAIN clientToDirectClient[n]

LEMMA DirectFiledKept ==
    ASSUME KernalInv, FindInv, DirectFiled, [Next]_vars
    PROVE  DirectFiled'
<1>1. /\ directClients \in [Nodes -> MapsTo(Clients)]
      /\ clientToDirectClient \in [Nodes -> MapsTo(Nat)]
  BY DEF KernalInv, AcceptTyped, TablesTyped
<1> USE DEF tables, accepted
<1>2. ASSUME UNCHANGED <<directClients, clientToDirectClient>> PROVE DirectFiled'
  BY <1>2 DEF DirectFiled
<1>3. CASE UNCHANGED vars
  BY <1>2, <1>3 DEF vars
<1>4. CASE Joining
  BY <1>2, <1>4 DEF Joining, StartRoot, Dial
<1>5. ASSUME NEW n \in Nodes, AcceptInsert(n) PROVE DirectFiled'
  <2>1. PICK id, c : /\ directClients' = [directClients EXCEPT ![n] = Insert(@, id, c)]
                     /\ clientToDirectClient' =
                           [clientToDirectClient EXCEPT ![n] = Insert(@, id, id)]
    BY <1>5 DEF AcceptInsert
  <2>2. DOMAIN Insert(directClients[n], id, c) = DOMAIN directClients[n] \cup {id}
    BY DEF Insert
  <2>3. DOMAIN Insert(clientToDirectClient[n], id, id) = DOMAIN clientToDirectClient[n] \cup {id}
    BY DEF Insert
  <2> QED BY <1>1, <2>1, <2>2, <2>3 DEF DirectFiled
<1>6. ASSUME NEW n \in Nodes, Context(n) PROVE DirectFiled'
  BY <1>2, <1>5, <1>6 DEF Context, Accept, AcceptList, Deliver, NoticesPeer, Closes
<1>7. ASSUME NEW n \in Nodes, NEW m, UseMessage(n, m), UNCHANGED accepted PROVE DirectFiled'
  <2>1. CASE UseFromClient(n, m)
    <3>1. \A k \in Nodes : DOMAIN clientToDirectClient[k] \subseteq DOMAIN clientToDirectClient'[k]
      BY <1>1, <2>1 DEF UseFromClient
    <3> QED BY <1>7, <3>1 DEF DirectFiled
  <2>2. CASE UNCHANGED clientToDirectClient
    BY <1>2, <1>7, <2>2
  <2> QED BY <1>7, <2>1, <2>2 DEF UseMessage, UseOwnId, UseFromServer, Ids
<1>8. ASSUME NEW n \in Nodes, In(n) PROVE DirectFiled'
  <2>1. CASE UNCHANGED <<tables, accepted>>
    BY <1>2, <2>1
  <2> QED BY <1>7, <1>8, <2>1 DEF In, ReciveMessage, UseForwarded
<1>9. \A n \in Nodes : ~HandleRemoveClients(n)
  BY DEF FindInv, NothingRemoved, HandleRemoveClients
<1>10. ASSUME NEW n \in Nodes, HandleOut(n) PROVE DirectFiled'
  BY <1>2, <1>10 DEF HandleOut
<1>11. ASSUME NEW n \in Users, Submit(n) PROVE DirectFiled'
  BY <1>2, <1>11 DEF Submit
<1>12. ASSUME NEW n \in Nodes, NEW k \in Nodes, Fails(n, k) PROVE DirectFiled'
  BY <1>2, <1>12 DEF Fails, Closes
<1> QED BY <1>3, <1>4, <1>6, <1>8, <1>9, <1>10, <1>11, <1>12 DEF Next, Working

LEMMA OneServerNewIds ==
    ASSUME OneServer, KernalInv, RoutesInv, FindInv, ProperIds, DialedLate, DirectFiled,
           Numbered', [Next]_vars
    PROVE  ProperIds'
<1>1. \A c \in Clients : c \in Nodes /\ Parent[c] = Root
  BY WithinServer DEF OneServer
<1>2. \A k \in Nodes : k = Root \/ k \in Clients
  BY DEF Clients
<1>3. CASE StartRoot
  <2>1. PICK id : /\ id # 0 /\ IdOf(Root)' = id
                  /\ \A k \in Nodes : k # Root => IdOf(k)' = IdOf(k)
                  /\ clientConn' = clientConn
    BY <1>3, RootId
  <2>2. \A c \in Clients : ~HasId(c)
    BY <1>1, <1>3 DEF StartRoot, DialedLate, RoutesInv, Started, ClientStarted
  <2>3. \A c \in Clients : IdOf(c)' = 0 /\ IdOf(c) = 0
    BY <1>1, <2>1, <2>2 DEF HasId, Clients
  <2> QED BY <1>2, <2>1, <2>3, NewIdProper, TreeAssumption
<1>4. ASSUME NEW c \in Clients, Accept(c) PROVE ProperIds'
  <2>1. PICK id : /\ BuildId(Root, id) /\ id # 0 /\ IdOf(c)' = id
                  /\ \A k \in Nodes : k # c => IdOf(k)' = IdOf(k)
                  /\ \A d \in Clients : d # c => clientConn'[d] = clientConn[d]
                  /\ clientConn'[c].myId # 0
    BY <1>1, <1>4, AcceptedId
  <2>2. id # myId[Root] /\ id \notin DOMAIN clientToDirectClient[Root]
    BY <2>1 DEF BuildId, Fresh
  <2>3. ASSUME NEW k \in Nodes, k # c PROVE IdOf(k) # id
    <3>1. CASE k = Root
      BY <2>2, <3>1 DEF IdOf
    <3>2. CASE k # Root /\ HasId(k)
      <4>1. k \in Clients /\ ~Entering(Root, k)
        BY <1>1, <1>2, <1>4, <3>2 DEF Accept, Entering, NotAccepting
      <4>2. IdOf(k) \in DOMAIN directClients[Root]
        BY <1>1, <3>2, <4>1 DEF FindInv, Attached
      <4> QED BY <2>2, <4>2, TreeAssumption DEF DirectFiled
    <3>3. CASE ~HasId(k)
      BY <2>1, <3>3 DEF HasId
    <3> QED BY <3>1, <3>2, <3>3
  <2>4. \A d \in Clients : IdOf(d)' # 0 => clientConn'[d].myId # 0
    BY <1>1, <2>1 DEF ProperIds
  <2> QED BY <1>1, <2>1, <2>3, <2>4, NewIdProper
<1>5. CASE ~StartRoot /\ \A c \in Clients : ~Accept(c)
  BY <1>5, OthersKeepIds, StayProper
<1> QED BY <1>3, <1>4, <1>5

(***************************************************************************)
(* With one server buildId gives proper ids.                               *)
(***************************************************************************)
THEOREM KernalOneServerProperIds ==
    ASSUME OneServer
    PROVE  Spec /\ []Unbroken /\ []Numbered => []ProperIds
<1>1. StartedInOrder
  BY DEF OneServer, StartedInOrder
<1>2. Init => /\ KernalInv /\ RoutesInv /\ FindInv
              /\ ProperIds /\ DialedLate /\ DirectFiled
  <2>1. Init => ProperIds /\ DialedLate /\ DirectFiled
    <3> SUFFICES ASSUME Init PROVE ProperIds /\ DialedLate /\ DirectFiled
      OBVIOUS
    <3>1. \A n \in Nodes : IdOf(n) = 0
      BY DEF Init, IdOf, NoConn, Clients
    <3> QED BY <3>1 DEF Init, ProperIds, DialedLate, DirectFiled, Clients
  <2> QED BY <2>1, InitTyped, RoutesInit, FindInit
<1>3. /\ KernalInv /\ RoutesInv /\ FindInv /\ ProperIds /\ DialedLate /\ DirectFiled
      /\ Unbroken' /\ Numbered' /\ [Next]_vars
      => (KernalInv /\ RoutesInv /\ FindInv /\ ProperIds /\ DialedLate /\ DirectFiled)'
  <2> SUFFICES ASSUME KernalInv, RoutesInv, FindInv, ProperIds, DialedLate, DirectFiled,
                      Unbroken', Numbered', [Next]_vars
               PROVE  (KernalInv /\ RoutesInv /\ FindInv
                          /\ ProperIds /\ DialedLate /\ DirectFiled)'
    OBVIOUS
  <2>1. ProperIds'
    BY OneServerNewIds
  <2>2. DialedLate' /\ DirectFiled'
    BY <1>1, DialedLateKept, DirectFiledKept
  <2> QED BY <2>1, <2>2, NextTyped, NextRoutes, NextFinds
<1> QED BY <1>2, <1>3, PTL DEF Spec

(***************************************************************************)
(* With one server, then, what the routes promise rests on no assumption   *)
(* about the ids: whatever rand() returns, while no connection is lost,    *)
(* the tables never lead the wrong way, notices have bodies and what users *)
(* were told of is reachable.                                              *)
(***************************************************************************)
THEOREM KernalOneServerRoutes ==
    ASSUME OneServer
    PROVE  Spec /\ []Unbroken /\ []Numbered =>
               [](RoutesLead /\ NoticesHaveBodies /\ AnnouncedIsReachable)
BY KernalOneServerProperIds, KernalRoutesLead, KernalNoticesHaveBodies,
   KernalAnnouncedIsReachable, PTL

(***************************************************************************)
(* Any tree whose servers draw numbers of their own, none of them twice,   *)
(* and in which nodes are started from the root down, like those of the    *)
(* runs: an id is the number its server drew for it.                       *)
(***************************************************************************)
Giver(n) == IF n = Root THEN Root ELSE Parent[n]
DrawnIds == \A n \in Nodes : HasId(n) =>
    \E i \in DOMAIN Rand[Giver(n)] : i <= drawn[Giver(n)] /\ IdOf(n) = Rand[Giver(n)][i]

LEMMA GiverIs ==
    ASSUME NEW n \in Nodes
    PROVE  Giver(n) \in Servers /\ Giver(n) \in Nodes
<1>1. CASE n = Root
  BY <1>1, TreeAssumption DEF Giver, Servers
<1>2. CASE n # Root
  <2>1. n \in Clients /\ Parent[n] \in Nodes
    BY <1>2, WithinServer DEF Clients
  <2> QED BY <1>2, <2>1 DEF Giver, Servers, Children
<1> QED BY <1>1, <1>2

LEMMA NewIdDrawn ==
    ASSUME FreshDraws, KernalInv, DrawnIds, ProperIds, NEW r \in Nodes, NEW id,
           BuildId(Giver(r), id), ~HasId(r), IdOf(r)' = id,
           \A k \in Nodes : k # r => IdOf(k)' = IdOf(k),
           \A c \in Clients : IdOf(c)' # 0 => clientConn'[c].myId # 0
    PROVE  DrawnIds' /\ ProperIds'
<1>1. /\ drawn \in [Nodes -> Nat] /\ MaxSubmit \in Nat /\ Rand \in [Nodes -> Seq(Nat)]
      /\ Giver(r) \in Nodes /\ Giver(r) \in Servers
  BY GiverIs, TreeAssumption DEF KernalInv, AcceptTyped
<1>2. PICK i \in DOMAIN Rand[Giver(r)] : /\ drawn[Giver(r)] < i /\ id = Rand[Giver(r)][i]
                                         /\ drawn' = [drawn EXCEPT ![Giver(r)] = i]
  BY DEF BuildId
<1>3. id # 0 /\ i \in Nat /\ drawn'[Giver(r)] = i
      /\ \A k \in Nodes : drawn[k] \in Nat /\ drawn'[k] \in Nat /\ drawn[k] <= drawn'[k]
  BY <1>1, <1>2, BuiltId
<1>4. ASSUME NEW k \in Nodes, k # r PROVE IdOf(k) # id
  <2>1. CASE ~HasId(k)
    BY <1>3, <2>1 DEF HasId
  <2>2. CASE HasId(k)
    <3>1. Giver(k) \in Servers /\ Giver(k) \in Nodes
      BY GiverIs
    <3>2. PICK j \in DOMAIN Rand[Giver(k)] : j <= drawn[Giver(k)] /\ IdOf(k) = Rand[Giver(k)][j]
      BY <2>2 DEF DrawnIds
    <3>3. Rand[Giver(k)][j] = Rand[Giver(r)][i] => Giver(k) = Giver(r) /\ j = i
      BY <1>1, <3>1 DEF FreshDraws
    <3>4. j \in Nat
      BY <1>1, <3>1
    <3> QED BY <1>2, <1>3, <3>1, <3>2, <3>3, <3>4
  <2> QED BY <2>1, <2>2
<1>5. Numbered'
  <2>1. id > MaxSubmit
    BY <1>1, <1>2 DEF FreshDraws
  <2>2. id \notin 1..MaxSubmit
    <3>1. id \in Nat
      BY <1>1, <1>2
    <3> QED BY <1>1, <2>1, <3>1
  <2> QED BY <2>2 DEF Numbered, ProperIds
<1>6. ProperIds'
  BY <1>3, <1>4, <1>5, NewIdProper
<1>7. DrawnIds'
  <2> SUFFICES ASSUME NEW k \in Nodes, HasId(k)'
               PROVE  \E j \in DOMAIN Rand[Giver(k)] :
                         j <= drawn'[Giver(k)] /\ IdOf(k)' = Rand[Giver(k)][j]
    BY DEF DrawnIds
  <2>1. CASE k = r
    BY <1>2, <1>3, <2>1
  <2>2. CASE k # r
    <3>1. IdOf(k)' = IdOf(k) /\ HasId(k) /\ Giver(k) \in Nodes
      BY <2>2, GiverIs DEF HasId
    <3>2. PICK j \in DOMAIN Rand[Giver(k)] : j <= drawn[Giver(k)] /\ IdOf(k) = Rand[Giver(k)][j]
      BY <3>1 DEF DrawnIds
    <3>3. j \in Nat
      BY <1>1, <3>1
    <3> QED BY <1>3, <3>1, <3>2, <3>3
  <2> QED BY <2>1, <2>2
<1> QED BY <1>6, <1>7

LEMMA FreshNewIds ==
    ASSUME FreshDraws, KernalInv, RoutesInv, ProperIds, DialedLate, DrawnIds, [Next]_vars
    PROVE  ProperIds' /\ DrawnIds'
<1>1. CASE StartRoot
  <2>1. PICK id : /\ BuildId(Root, id) /\ IdOf(Root)' = id
                  /\ \A k \in Nodes : k # Root => IdOf(k)' = IdOf(k)
                  /\ clientConn' = clientConn
    BY <1>1, RootId
  <2>2. Giver(Root) = Root /\ Root \in Nodes /\ ~HasId(Root)
    BY <1>1, TreeAssumption DEF Giver, StartRoot, HasId, IdOf
  <2>3. \A c \in Clients : IdOf(c)' # 0 => clientConn'[c].myId # 0
    BY <2>1 DEF ProperIds, Clients
  <2> QED BY <2>1, <2>2, <2>3, NewIdDrawn
<1>2. ASSUME NEW c \in Clients, Accept(c) PROVE ProperIds' /\ DrawnIds'
  <2>1. PICK id : /\ BuildId(Parent[c], id) /\ IdOf(c)' = id /\ ~HasId(c)
                  /\ \A k \in Nodes : k # c => IdOf(k)' = IdOf(k)
                  /\ \A d \in Clients : d # c => clientConn'[d] = clientConn[d]
                  /\ clientConn'[c].myId # 0
    BY <1>2, AcceptedId
  <2>2. Giver(c) = Parent[c] /\ c \in Nodes
    BY DEF Giver, Clients
  <2>3. \A d \in Clients : IdOf(d)' # 0 => clientConn'[d].myId # 0
    BY <2>1 DEF ProperIds, Clients
  <2> QED BY <2>1, <2>2, <2>3, NewIdDrawn
<1>3. CASE ~StartRoot /\ \A c \in Clients : ~Accept(c)
  <2>1. IdsStay
    BY <1>3, OthersKeepIds
  <2> QED BY <2>1, StayProper DEF IdsStay, DrawnIds, HasId
<1> QED BY <1>1, <1>2, <1>3

THEOREM KernalFreshProperIds ==
    ASSUME FreshDraws, StartedInOrder
    PROVE  Spec => []ProperIds
<1>1. Init => KernalInv /\ RoutesInv /\ ProperIds /\ DialedLate /\ DrawnIds
  <2>1. Init => ProperIds /\ DialedLate /\ DrawnIds
    <3> SUFFICES ASSUME Init PROVE ProperIds /\ DialedLate /\ DrawnIds
      OBVIOUS
    <3>1. \A n \in Nodes : IdOf(n) = 0
      BY DEF Init, IdOf, NoConn, Clients
    <3> QED BY <3>1 DEF Init, ProperIds, DialedLate, DrawnIds, HasId, Clients
  <2> QED BY <2>1, InitTyped, RoutesInit
<1>2. KernalInv /\ RoutesInv /\ ProperIds /\ DialedLate /\ DrawnIds /\ [Next]_vars
      => (KernalInv /\ RoutesInv /\ ProperIds /\ DialedLate /\ DrawnIds)'
  BY NextTyped, NextRoutes, DialedLateKept, FreshNewIds
<1> QED BY <1>1, <1>2, PTL DEF Spec
=============================================================================
