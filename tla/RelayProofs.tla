---------------------------- MODULE RelayProofs ----------------------------
(***************************************************************************)
(* Theorems about Relay for trees of any shape, any number of messages and *)
(* any set of faults.                                                      *)
(***************************************************************************)
EXTENDS Relay, ConnectionProofs

(***************************************************************************)
(* The headers of the messages of a list, and of those elements of a list  *)
(* of chunks or calls that bring a message forward: its header, its Send.  *)
(* Of two headers made by one owner the one with the smaller number is the *)
(* earlier; headers of different owners stand in any order.                *)
(***************************************************************************)
Hdr(c) == c.msg.header
Earlier(a, b) == a.from = b.from => a.num < b.num
Hdrs(s) == {s[i].header : i \in DOMAIN s}
HdrsAt(s, I) == {Hdr(s[i]) : i \in I}
Rising(s) == \A i, j \in DOMAIN s : i < j => Earlier(s[i].header, s[j].header)
RisingAt(s, I) == \A i, j \in I : i < j => Earlier(Hdr(s[i]), Hdr(s[j]))
Below(S, T) == \A a \in S, b \in T : Earlier(a, b)

HeadersIn(p) == {i \in DOMAIN p : p[i].part = "header"}
SendsIn(c) == {i \in DOMAIN c : IsSend(c[i])}
SentHdrs(h) == {h[i] : i \in DOMAIN h}

(* Sets of headers that stand in line, the first in front, all of them in S. *)
InLine(A, B, C, D, E, S) ==
    /\ Below(A, B \cup C \cup D \cup E) /\ Below(B, C \cup D \cup E)
    /\ Below(C, D \cup E) /\ Below(D, E)
    /\ A \cup B \cup C \cup D \cup E \subseteq S

(***************************************************************************)
(* One direction of a connection: what the reader has pushed (got), the    *)
(* message it is reading (m) and its operation (rop), the pipe (p), the    *)
(* writer's operation (wop) and queue (q), the calls posted (c) and the    *)
(* headers sent (h).                                                       *)
(***************************************************************************)
\* the part that comes after a chunk, for a reader who has its header
After(part, m) == IF part = "header" /\ m.header.sized THEN "body" ELSE "header"

\* the chunks of s follow on each other: the first is an a, a b comes next
Follows(s, a, b) ==
    /\ s = <<>> => a = b
    /\ s # <<>> => s[1].part = a /\ b = After(s[Len(s)].part, s[Len(s)].msg)
    /\ \A i \in 1..Len(s) - 1 : s[i + 1].part = After(s[i].part, s[i].msg)

Turn(op, m) == IF op.st = "done" THEN After(op.part, m) ELSE op.part
WriteTurn(wop, q) == IF q = <<>> THEN "header" ELSE Turn(wop, Head(q))

\* an operation that has moved the header of its message
HasHeader(op) == op.part = "body" \/ op.st = "done"
HalfHdr(rop, m) == IF HasHeader(rop) THEN {m.header} ELSE {}
Unwritten(wop, q) == IF HasHeader(wop) /\ q # <<>> THEN Tail(q) ELSE q

RowTyped(got, m, rop, p, wop, q, c, h) ==
    /\ got \in Seq(Messages) /\ m \in Messages /\ rop \in Operation /\ p \in Seq(Chunk)
    /\ wop \in Operation /\ q \in Seq(Messages) /\ c \in Seq(Calls) /\ h \in Seq(Headers)

\* a header says whether there is a body to write
Told(m, rop, q, c) ==
    /\ rop.part = "body" => m.header.sized
    /\ \A i \in DOMAIN q : Whole(q[i])
    /\ \A i \in SendsIn(c) : Whole(c[i].msg)

Order(got, m, rop, p, wop, q, c, h) ==
    /\ Rising(got) /\ Rising(Unwritten(wop, q))
    /\ RisingAt(p, HeadersIn(p)) /\ RisingAt(c, SendsIn(c))
    /\ InLine(Hdrs(got), HalfHdr(rop, m), HdrsAt(p, HeadersIn(p)),
              Hdrs(Unwritten(wop, q)), HdrsAt(c, SendsIn(c)), SentHdrs(h))

Row(got, m, rop, p, wop, q, c, h) ==
    /\ RowTyped(got, m, rop, p, wop, q, c, h)
    /\ Follows(p, Turn(rop, m), WriteTurn(wop, q))
    /\ Told(m, rop, q, c)
    /\ Order(got, m, rop, p, wop, q, c, h)

(***************************************************************************)
(* All directions, and where what is sent comes from: it is numbered by    *)
(* its sender, or it came in and was forwarded.  Either way its maker sent *)
(* it, and forwarding leads from there to here.                            *)
(***************************************************************************)
Way(e) == Row(messagesIn[Peer[e]], temporaryIn[Peer[e]], readOp[Peer[e]], pipe[e],
              writeOp[e], messagesOut[e], posted[e], sent[e])

Own(d, x) == x.from = d /\ x.num <= Len(sent[d])
CameIn(f, x) == \E i \in 1..forwarded[f] : x = messagesIn[f][i].header
Known(d, x) == x \in SentHdrs(sent[x.from]) /\ Leads(x.from, d)
Sources == \A d \in Ends : \A x \in SentHdrs(sent[d]) :
    /\ Known(d, x)
    /\ Own(d, x) \/ \E f \in DOMAIN NextHop : NextHop[f] = d /\ CameIn(f, x)
RowInv == Sources /\ \A e \in Ends : Way(e)

Counts ==
    /\ forwarded \in [DOMAIN NextHop -> Nat]
    /\ \A f \in DOMAIN NextHop : forwarded[f] <= Len(messagesIn[f])

-----------------------------------------------------------------------------
(* A header moves to the set in front of its own, or comes new.            *)
LEMMA LineMoves ==
    ASSUME NEW A, NEW B, NEW C, NEW D, NEW E, NEW S, InLine(A, B, C, D, E, S), NEW x
    PROVE  /\ \A F : E = {x} \cup F /\ Below({x}, F) => InLine(A, B, C, D \cup {x}, F, S)
           /\ \A F : D = {x} \cup F /\ Below({x}, F) => InLine(A, B, C \cup {x}, F, E, S)
           /\ \A F : C = {x} \cup F /\ Below({x}, F) /\ B = {} => InLine(A, {x}, F, D, E, S)
           /\ B = {x} => InLine(A \cup {x}, {}, C, D, E, S)
           /\ Below(S, {x}) => InLine(A, B, C, D, E \cup {x}, S \cup {x})
BY DEF InLine, Below

LEMMA HdrsAppend ==
    ASSUME NEW S, NEW s \in Seq(S), NEW x \in S
    PROVE  /\ Hdrs(Append(s, x)) = Hdrs(s) \cup {x.header}
           /\ Rising(s) /\ Below(Hdrs(s), {x.header}) => Rising(Append(s, x))
<1> DEFINE t == Append(s, x)
<1>1. /\ Len(s) \in Nat /\ DOMAIN s = 1..Len(s) /\ DOMAIN t = 1..Len(s) + 1
      /\ t[Len(s) + 1] = x /\ \A i \in 1..Len(s) : t[i] = s[i]
  BY AppendOf
<1> HIDE DEF t
<1>2. \A i \in DOMAIN t : i \in DOMAIN s \/ i = Len(s) + 1
  BY <1>1
<1>3. \A i \in DOMAIN s : i \in DOMAIN t /\ t[i] = s[i] /\ ~(Len(s) + 1 < i)
  BY <1>1
<1>4. Hdrs(t) = Hdrs(s) \cup {x.header}
  <2>1. Len(s) + 1 \in DOMAIN t
    BY <1>1
  <2> QED BY <1>1, <1>2, <1>3, <2>1 DEF Hdrs
<1>5. ASSUME Rising(s), Below(Hdrs(s), {x.header}), NEW i \in DOMAIN t, NEW j \in DOMAIN t, i < j
      PROVE  Earlier(t[i].header, t[j].header)
  <2>1. i \in DOMAIN s
    BY <1>1, <1>2, <1>5
  <2>2. CASE j \in DOMAIN s
    BY <1>3, <1>5, <2>1, <2>2 DEF Rising
  <2>3. CASE j = Len(s) + 1
    BY <1>1, <1>3, <1>5, <2>1, <2>3 DEF Below, Hdrs
  <2> QED BY <1>2, <2>2, <2>3
<1>6. Rising(s) /\ Below(Hdrs(s), {x.header}) => Rising(t)
  BY <1>5 DEF Rising
<1> QED BY <1>4, <1>6 DEF t

LEMMA HdrsTail ==
    ASSUME NEW S, NEW s \in Seq(S), s # <<>>
    PROVE  /\ Hdrs(s) = {Head(s).header} \cup Hdrs(Tail(s))
           /\ Rising(s) => Rising(Tail(s)) /\ Below({Head(s).header}, Hdrs(Tail(s)))
<1> DEFINE t == Tail(s)
<1>1. /\ Len(s) \in Nat /\ Len(s) >= 1 /\ Head(s) = s[1] /\ DOMAIN s = 1..Len(s)
      /\ t \in Seq(S) /\ Len(t) = Len(s) - 1
      /\ \A i \in 1..Len(s) - 1 : t[i] = s[i + 1]
  BY TailOf
<1>2. DOMAIN t = 1..Len(s) - 1
  BY <1>1
<1> HIDE DEF t
<1>3. 1 \in DOMAIN s /\ \A i \in DOMAIN t : i + 1 \in DOMAIN s /\ t[i] = s[i + 1] /\ 1 < i + 1
  BY <1>1, <1>2
<1>4. \A i \in DOMAIN s : i = 1 \/ (i - 1 \in DOMAIN t /\ t[i - 1] = s[i])
  BY <1>1, <1>2
<1>5. Hdrs(s) = {s[1].header} \cup Hdrs(t)
  BY <1>3, <1>4 DEF Hdrs
<1>6. \A i, j \in DOMAIN t : i < j => i + 1 < j + 1
  BY <1>1, <1>2
<1>7. Rising(s) => Rising(t)
  BY <1>3, <1>6 DEF Rising
<1>8. Rising(s) => Below({s[1].header}, Hdrs(t))
  BY <1>3 DEF Rising, Below, Hdrs
<1> QED BY <1>1, <1>5, <1>7, <1>8 DEF t

(* The same for the elements of s at I, which get a place more at the end, *)
(* or lose the first.                                                      *)
Longer(I, s) == I \cup {Len(s) + 1}
Shifted(I, s) == {i \in 1..Len(s) - 1 : i + 1 \in I}

LEMMA HdrsAtSame ==
    ASSUME NEW S, NEW s \in Seq(S), NEW x \in S, NEW I, I \subseteq DOMAIN s
    PROVE  HdrsAt(Append(s, x), I) = HdrsAt(s, I)
<1>1. \A i \in I : Append(s, x)[i] = s[i]
  BY AppendOf
<1> QED BY <1>1 DEF HdrsAt

LEMMA RisingAtSame ==
    ASSUME NEW S, NEW s \in Seq(S), NEW x \in S, NEW I, I \subseteq DOMAIN s, RisingAt(s, I)
    PROVE  RisingAt(Append(s, x), I)
<1>1. \A i \in I : Append(s, x)[i] = s[i]
  BY AppendOf
<1> QED BY <1>1 DEF RisingAt

LEMMA HdrsAtLonger ==
    ASSUME NEW S, NEW s \in Seq(S), NEW x \in S, NEW I, I \subseteq DOMAIN s
    PROVE  HdrsAt(Append(s, x), Longer(I, s)) = HdrsAt(s, I) \cup {Hdr(x)}
<1> DEFINE t == Append(s, x)
<1>1. t[Len(s) + 1] = x /\ \A i \in I : t[i] = s[i]
  BY AppendOf
<1> HIDE DEF t
<1>2. HdrsAt(t, Longer(I, s)) = HdrsAt(s, I) \cup {Hdr(x)}
  BY <1>1 DEF HdrsAt, Longer
<1> QED BY <1>2 DEF t

LEMMA RisingAtLonger ==
    ASSUME NEW S, NEW s \in Seq(S), NEW x \in S, NEW I, I \subseteq DOMAIN s,
           RisingAt(s, I), Below(HdrsAt(s, I), {Hdr(x)})
    PROVE  RisingAt(Append(s, x), Longer(I, s))
<1> DEFINE t == Append(s, x)
           J == Longer(I, s)
<1>1. /\ Len(s) \in Nat /\ DOMAIN s = 1..Len(s)
      /\ t[Len(s) + 1] = x /\ \A i \in 1..Len(s) : t[i] = s[i]
  BY AppendOf
<1> HIDE DEF t, J
<1>2. \A i \in I : t[i] = s[i] /\ ~(Len(s) + 1 < i)
  BY <1>1
<1>3. ASSUME NEW i \in J, NEW j \in J, i < j PROVE Earlier(Hdr(t[i]), Hdr(t[j]))
  <2>1. i \in I
    BY <1>1, <1>2, <1>3 DEF J, Longer
  <2>2. CASE j \in I
    BY <1>2, <1>3, <2>1, <2>2 DEF RisingAt
  <2>3. CASE j = Len(s) + 1
    BY <1>1, <1>2, <1>3, <2>1, <2>3 DEF Below, HdrsAt
  <2> QED BY <2>2, <2>3 DEF J, Longer
<1>4. RisingAt(t, J)
  BY <1>3 DEF RisingAt
<1> QED BY <1>4 DEF t, J

LEMMA HdrsAtShifted ==
    ASSUME NEW S, NEW s \in Seq(S), s # <<>>, NEW I, I \subseteq DOMAIN s
    PROVE  HdrsAt(s, I) = HdrsAt(Tail(s), Shifted(I, s))
                                 \cup (IF 1 \in I THEN {Hdr(Head(s))} ELSE {})
<1> DEFINE t == Tail(s)
           J == Shifted(I, s)
<1>1. /\ Len(s) \in Nat /\ Len(s) >= 1 /\ Head(s) = s[1] /\ DOMAIN s = 1..Len(s)
      /\ \A i \in 1..Len(s) - 1 : t[i] = s[i + 1]
  BY TailOf
<1> HIDE DEF t
<1>2. J = {i \in 1..Len(s) - 1 : i + 1 \in I}
  BY DEF Shifted
<1> HIDE DEF J
<1>3. \A i \in J : i + 1 \in I /\ t[i] = s[i + 1]
  BY <1>1, <1>2
<1>4. \A i \in I : i = 1 \/ (i - 1 \in J /\ t[i - 1] = s[i])
  <2> SUFFICES ASSUME NEW i \in I, i # 1 PROVE i - 1 \in J /\ t[i - 1] = s[i]
    OBVIOUS
  <2>1. i - 1 \in 1..Len(s) - 1 /\ (i - 1) + 1 = i
    BY <1>1
  <2> QED BY <1>1, <1>2, <2>1
<1>5. HdrsAt(s, I) = HdrsAt(t, J) \cup (IF 1 \in I THEN {Hdr(s[1])} ELSE {})
  BY <1>3, <1>4 DEF HdrsAt
<1> QED BY <1>1, <1>5 DEF t, J

LEMMA RisingAtShifted ==
    ASSUME NEW S, NEW s \in Seq(S), s # <<>>, NEW I, I \subseteq DOMAIN s, RisingAt(s, I)
    PROVE  RisingAt(Tail(s), Shifted(I, s))
<1> DEFINE t == Tail(s)
           J == Shifted(I, s)
<1>1. Len(s) \in Nat /\ \A i \in 1..Len(s) - 1 : t[i] = s[i + 1]
  BY TailOf
<1>2. J \subseteq 1..Len(s) - 1 /\ \A i \in J : i + 1 \in I
  BY DEF Shifted
<1> HIDE DEF t, J
<1>3. \A i, j \in J : i < j => i + 1 < j + 1
  BY <1>1, <1>2
<1>4. \A i \in J : t[i] = s[i + 1]
  BY <1>1, <1>2
<1>5. RisingAt(t, J)
  BY <1>2, <1>3, <1>4 DEF RisingAt
<1> QED BY <1>5 DEF t, J

LEMMA BelowShifted ==
    ASSUME NEW S, NEW s \in Seq(S), s # <<>>, NEW I, I \subseteq DOMAIN s, RisingAt(s, I), 1 \in I
    PROVE  Below({Hdr(Head(s))}, HdrsAt(Tail(s), Shifted(I, s)))
<1> DEFINE t == Tail(s)
           J == Shifted(I, s)
<1>1. Len(s) \in Nat /\ Head(s) = s[1] /\ \A i \in 1..Len(s) - 1 : t[i] = s[i + 1]
  BY TailOf
<1>2. J \subseteq 1..Len(s) - 1 /\ \A i \in J : i + 1 \in I
  BY DEF Shifted
<1> HIDE DEF t, J
<1>3. \A i \in J : t[i] = s[i + 1] /\ 1 < i + 1
  BY <1>1, <1>2
<1>4. Below({Hdr(s[1])}, HdrsAt(t, J))
  BY <1>2, <1>3 DEF RisingAt, Below, HdrsAt
<1> QED BY <1>1, <1>4 DEF t, J
-----------------------------------------------------------------------------
(* The chunks in turn, longer by one at the end or shorter by the first.   *)
LEMMA FollowsAppend ==
    ASSUME NEW s \in Seq(Chunk), NEW a, NEW b, Follows(s, a, b), NEW c \in Chunk, c.part = b
    PROVE  Follows(Append(s, c), a, After(c.part, c.msg))
<1> DEFINE t == Append(s, c)
           n == Len(s)
<1>1. /\ n \in Nat /\ Len(t) = n + 1 /\ t # <<>> /\ t[n + 1] = c
      /\ \A i \in 1..n : t[i] = s[i]
      /\ s = <<>> <=> n = 0
  BY AppendOf
<1> HIDE DEF t, n
<1>2. Follows(s, a, b) /\ n = Len(s)
  BY DEF n
<1>3. t[1].part = a
  BY <1>1, <1>2 DEF Follows
<1>4. ASSUME NEW i \in 1..n PROVE t[i + 1].part = After(t[i].part, t[i].msg)
  <2>1. CASE i = n
    BY <1>1, <1>2, <2>1 DEF Follows
  <2>2. CASE i # n
    BY <1>1, <1>2, <2>2 DEF Follows
  <2> QED BY <2>1, <2>2
<1>5. Len(t) - 1 = n
  BY <1>1
<1>6. Follows(t, a, After(c.part, c.msg))
  BY <1>1, <1>3, <1>4, <1>5 DEF Follows
<1> QED BY <1>6 DEF t

LEMMA FollowsTail ==
    ASSUME NEW s \in Seq(Chunk), NEW a, NEW b, Follows(s, a, b), s # <<>>
    PROVE  Head(s).part = a /\ Follows(Tail(s), After(a, Head(s).msg), b)
<1> DEFINE t == Tail(s)
           n == Len(s)
<1>1. /\ n \in Nat /\ n >= 1 /\ Len(t) = n - 1 /\ Head(s) = s[1]
      /\ \A i \in 1..n - 1 : t[i] = s[i + 1]
      /\ t = <<>> <=> n = 1
  BY TailOf
<1> HIDE DEF t, n
<1>2. /\ s[1].part = a /\ b = After(s[n].part, s[n].msg)
      /\ \A i \in 1..n - 1 : s[i + 1].part = After(s[i].part, s[i].msg)
  BY DEF Follows, n
<1>3. CASE n = 1
  BY <1>1, <1>2, <1>3 DEF Follows, t
<1>4. CASE n # 1
  <2>1. 1 \in 1..n - 1 /\ t[1] = s[2] /\ n - 1 \in 1..n - 1 /\ t[n - 1] = s[n]
    BY <1>1, <1>4
  <2>2. t[1].part = After(a, s[1].msg) /\ b = After(t[n - 1].part, t[n - 1].msg)
    BY <1>2, <2>1
  <2>3. ASSUME NEW i \in 1..Len(t) - 1 PROVE t[i + 1].part = After(t[i].part, t[i].msg)
    <3>1. i \in 1..n - 1 /\ i + 1 \in 1..n - 1
      BY <1>1
    <3> QED BY <1>1, <1>2, <3>1
  <2>4. Follows(t, After(a, s[1].msg), b)
    BY <1>1, <1>4, <2>2, <2>3 DEF Follows
  <2> QED BY <1>1, <1>2, <2>4 DEF t
<1> QED BY <1>3, <1>4

-----------------------------------------------------------------------------
(***************************************************************************)
(* What a step may do to one direction.                                    *)
(***************************************************************************)
\* operations that keep their place
LEMMA RowStays ==
    ASSUME NEW got, NEW m, NEW rop, NEW p, NEW wop, NEW q, NEW c, NEW h,
           Row(got, m, rop, p, wop, q, c, h),
           NEW rop2 \in Operation, NEW wop2 \in Operation,
           SamePlace(rop, rop2), SamePlace(wop, wop2)
    PROVE  Row(got, m, rop2, p, wop2, q, c, h)
<1>1. Turn(rop2, m) = Turn(rop, m) /\ WriteTurn(wop2, q) = WriteTurn(wop, q)
  BY DEF SamePlace, Turn, WriteTurn
<1>2. HasHeader(rop2) <=> HasHeader(rop)
  BY DEF SamePlace, HasHeader
<1>3. HalfHdr(rop2, m) = HalfHdr(rop, m) /\ Unwritten(wop2, q) = Unwritten(wop, q)
  BY DEF SamePlace, HasHeader, HalfHdr, Unwritten
<1>4. RowTyped(got, m, rop2, p, wop2, q, c, h)
  BY DEF Row, RowTyped
<1>5. Told(m, rop2, q, c)
  BY <1>2 DEF Row, Told, SamePlace
<1>6. Order(got, m, rop2, p, wop2, q, c, h)
  BY <1>3 DEF Row, Order
<1> QED BY <1>1, <1>4, <1>5, <1>6 DEF Row

\* the elements at the end and at the front of the calls, and of the chunks
LEMMA CallsAppend ==
    ASSUME NEW c \in Seq(Calls), NEW x \in Calls
    PROVE  /\ SendsIn(Append(c, x)) = IF IsSend(x) THEN Longer(SendsIn(c), c) ELSE SendsIn(c)
           /\ SendsIn(c) \subseteq DOMAIN c
<1> DEFINE t == Append(c, x)
<1>1. /\ Len(c) \in Nat /\ DOMAIN c = 1..Len(c) /\ DOMAIN t = 1..Len(c) + 1
      /\ t[Len(c) + 1] = x /\ \A i \in 1..Len(c) : t[i] = c[i]
  BY AppendOf
<1> HIDE DEF t
<1>2. \A i \in DOMAIN t : i \in DOMAIN c \/ i = Len(c) + 1
  BY <1>1
<1>3. Len(c) + 1 \in DOMAIN t /\ DOMAIN c \subseteq DOMAIN t /\ Len(c) + 1 \notin DOMAIN c
  BY <1>1
<1>4. SendsIn(t) = IF IsSend(x) THEN Longer(SendsIn(c), c) ELSE SendsIn(c)
  BY <1>1, <1>2, <1>3 DEF SendsIn, Longer
<1> QED BY <1>4 DEF t, SendsIn

LEMMA CallsTail ==
    ASSUME NEW c \in Seq(Calls), c # <<>>
    PROVE  /\ SendsIn(c) \subseteq DOMAIN c /\ SendsIn(Tail(c)) = Shifted(SendsIn(c), c)
           /\ 1 \in SendsIn(c) <=> IsSend(Head(c))
           /\ Head(c) \in Calls /\ Tail(c) \in Seq(Calls)
<1>1. /\ Len(c) \in Nat /\ Len(c) >= 1 /\ Head(c) = c[1] /\ Head(c) \in Calls
      /\ Tail(c) \in Seq(Calls) /\ Len(Tail(c)) = Len(c) - 1
      /\ \A i \in 1..Len(c) - 1 : Tail(c)[i] = c[i + 1]
  BY TailOf
<1>2. DOMAIN c = 1..Len(c) /\ DOMAIN Tail(c) = 1..Len(c) - 1
  BY <1>1
<1>3. 1 \in DOMAIN c /\ \A i \in 1..Len(c) - 1 : i + 1 \in DOMAIN c
  BY <1>1, <1>2
<1> QED BY <1>1, <1>2, <1>3 DEF SendsIn, Shifted

LEMMA ChunksAppend ==
    ASSUME NEW p \in Seq(Chunk), NEW x \in Chunk
    PROVE  /\ HeadersIn(Append(p, x)) =
                  IF x.part = "header" THEN Longer(HeadersIn(p), p) ELSE HeadersIn(p)
           /\ HeadersIn(p) \subseteq DOMAIN p
<1> DEFINE t == Append(p, x)
<1>1. /\ Len(p) \in Nat /\ DOMAIN p = 1..Len(p) /\ DOMAIN t = 1..Len(p) + 1
      /\ t[Len(p) + 1] = x /\ \A i \in 1..Len(p) : t[i] = p[i]
  BY AppendOf
<1> HIDE DEF t
<1>2. \A i \in DOMAIN t : i \in DOMAIN p \/ i = Len(p) + 1
  BY <1>1
<1>3. Len(p) + 1 \in DOMAIN t /\ DOMAIN p \subseteq DOMAIN t /\ Len(p) + 1 \notin DOMAIN p
  BY <1>1
<1>4. HeadersIn(t) = IF x.part = "header" THEN Longer(HeadersIn(p), p) ELSE HeadersIn(p)
  BY <1>1, <1>2, <1>3 DEF HeadersIn, Longer
<1> QED BY <1>4 DEF t, HeadersIn

LEMMA ChunksTail ==
    ASSUME NEW p \in Seq(Chunk), p # <<>>
    PROVE  /\ HeadersIn(p) \subseteq DOMAIN p /\ HeadersIn(Tail(p)) = Shifted(HeadersIn(p), p)
           /\ 1 \in HeadersIn(p) <=> Head(p).part = "header"
           /\ Head(p) \in Chunk /\ Tail(p) \in Seq(Chunk)
<1>1. /\ Len(p) \in Nat /\ Len(p) >= 1 /\ Head(p) = p[1] /\ Head(p) \in Chunk
      /\ Tail(p) \in Seq(Chunk) /\ Len(Tail(p)) = Len(p) - 1
      /\ \A i \in 1..Len(p) - 1 : Tail(p)[i] = p[i + 1]
  BY TailOf
<1>2. DOMAIN p = 1..Len(p) /\ DOMAIN Tail(p) = 1..Len(p) - 1
  BY <1>1
<1>3. 1 \in DOMAIN p /\ \A i \in 1..Len(p) - 1 : i + 1 \in DOMAIN p
  BY <1>1, <1>2
<1> QED BY <1>1, <1>2, <1>3 DEF HeadersIn, Shifted

\* a close is posted, or runs
LEMMA RowClosePosted ==
    ASSUME NEW got, NEW m, NEW rop, NEW p, NEW wop, NEW q, NEW c, NEW h, NEW x \in Ends,
           Row(got, m, rop, p, wop, q, c, h)
    PROVE  Row(got, m, rop, p, wop, q, Append(c, PostClose(x)), h)
<1> DEFINE t == Append(c, PostClose(x))
<1>1. c \in Seq(Calls) /\ PostClose(x) \in Calls /\ ~IsSend(PostClose(x))
  BY PostTyped DEF Row, RowTyped, IsSend, PostClose
<1>2. t \in Seq(Calls) /\ \A i \in 1..Len(c) : t[i] = c[i]
  BY <1>1, AppendOf
<1>3. SendsIn(c) \subseteq 1..Len(c)
  BY <1>1 DEF SendsIn
<1>4. SendsIn(t) = SendsIn(c) /\ SendsIn(c) \subseteq DOMAIN c
  BY <1>1, CallsAppend
<1>5. HdrsAt(t, SendsIn(t)) = HdrsAt(c, SendsIn(c))
      /\ (RisingAt(c, SendsIn(c)) => RisingAt(t, SendsIn(t)))
  <2> DEFINE I == SendsIn(c)
             y == PostClose(x)
  <2>1. y \in Calls /\ I \subseteq DOMAIN c
    BY <1>1, <1>4
  <2> HIDE DEF I, y
  <2>2. HdrsAt(Append(c, y), I) = HdrsAt(c, I)
    BY <1>1, <2>1, HdrsAtSame
  <2>3. RisingAt(c, I) => RisingAt(Append(c, y), I)
    BY <1>1, <2>1, RisingAtSame
  <2> QED BY <1>4, <2>2, <2>3 DEF I, y
<1> HIDE DEF t
<1>6. RowTyped(got, m, rop, p, wop, q, t, h)
  BY <1>2 DEF Row, RowTyped
<1>7. Told(m, rop, q, t)
  BY <1>2, <1>3, <1>4 DEF Row, Told
<1>8. Order(got, m, rop, p, wop, q, t, h)
  BY <1>5 DEF Row, Order
<1>9. Row(got, m, rop, p, wop, q, t, h)
  BY <1>6, <1>7, <1>8 DEF Row
<1> QED BY <1>9 DEF t

LEMMA RowCloseRuns ==
    ASSUME NEW got, NEW m, NEW rop, NEW p, NEW wop, NEW q, NEW c, NEW h,
           Row(got, m, rop, p, wop, q, c, h), c # <<>>, ~IsSend(Head(c))
    PROVE  Row(got, m, rop, p, wop, q, Tail(c), h)
<1> DEFINE t == Tail(c)
<1>1. c \in Seq(Calls)
  BY DEF Row, RowTyped
<1>2. /\ SendsIn(c) \subseteq DOMAIN c /\ SendsIn(t) = Shifted(SendsIn(c), c)
      /\ 1 \notin SendsIn(c) /\ t \in Seq(Calls)
  BY <1>1, CallsTail
<1>3. \A i \in Shifted(SendsIn(c), c) : i + 1 \in SendsIn(c) /\ t[i] = c[i + 1]
  BY <1>1, TailOf DEF Shifted
<1>4. HdrsAt(c, SendsIn(c)) = HdrsAt(t, SendsIn(t))
      /\ (RisingAt(c, SendsIn(c)) => RisingAt(t, SendsIn(t)))
  <2>1. HdrsAt(c, SendsIn(c)) = HdrsAt(t, Shifted(SendsIn(c), c))
                                       \cup (IF 1 \in SendsIn(c) THEN {Hdr(Head(c))} ELSE {})
    BY <1>1, <1>2, HdrsAtShifted
  <2>2. RisingAt(c, SendsIn(c)) => RisingAt(t, Shifted(SendsIn(c), c))
    BY <1>1, <1>2, RisingAtShifted
  <2> QED BY <1>2, <2>1, <2>2
<1> HIDE DEF t
<1>5. RowTyped(got, m, rop, p, wop, q, t, h)
  BY <1>2 DEF Row, RowTyped
<1>6. Told(m, rop, q, t)
  BY <1>2, <1>3 DEF Row, Told
<1>7. Order(got, m, rop, p, wop, q, t, h)
  BY <1>4 DEF Row, Order
<1>8. Row(got, m, rop, p, wop, q, t, h)
  BY <1>5, <1>6, <1>7 DEF Row
<1> QED BY <1>8 DEF t

\* a message with a number above all before it is sent
LEMMA RowSent ==
    ASSUME NEW got, NEW m, NEW rop, NEW p, NEW wop, NEW q, NEW c, NEW h,
           Row(got, m, rop, p, wop, q, c, h),
           NEW x \in Messages, Whole(x), Below(SentHdrs(h), {x.header})
    PROVE  Row(got, m, rop, p, wop, q, Append(c, PostSend(x)), Append(h, x.header))
<1> DEFINE t == Append(c, PostSend(x))
           g == Append(h, x.header)
           n == x.header
<1>1. /\ c \in Seq(Calls) /\ h \in Seq(Headers) /\ PostSend(x) \in Calls /\ IsSend(PostSend(x))
      /\ x.header \in Headers /\ PostSend(x).msg = x /\ Hdr(PostSend(x)) = n
  BY PostTyped DEF Row, RowTyped, Messages, IsSend, PostSend, Hdr
<1>2. /\ t \in Seq(Calls) /\ t[Len(c) + 1].msg = x /\ \A i \in 1..Len(c) : t[i] = c[i]
  BY <1>1, AppendOf
<1>3. /\ g \in Seq(Headers) /\ Len(h) \in Nat /\ DOMAIN h = 1..Len(h) /\ DOMAIN g = 1..Len(h) + 1
      /\ g[Len(h) + 1] = x.header /\ \A i \in 1..Len(h) : g[i] = h[i]
  BY <1>1, AppendOf
<1>4. /\ SendsIn(c) \subseteq DOMAIN c /\ DOMAIN c = 1..Len(c)
      /\ SendsIn(t) = Longer(SendsIn(c), c)
  BY <1>1, CallsAppend
<1>5. /\ HdrsAt(t, SendsIn(t)) = HdrsAt(c, SendsIn(c)) \cup {n}
      /\ RisingAt(c, SendsIn(c)) /\ Below(HdrsAt(c, SendsIn(c)), {n}) => RisingAt(t, SendsIn(t))
  <2> DEFINE I == SendsIn(c)
             y == PostSend(x)
  <2>1. y \in Calls /\ Hdr(y) = n /\ I \subseteq DOMAIN c
    BY <1>1, <1>4
  <2> HIDE DEF I, y, n
  <2>2. HdrsAt(Append(c, y), Longer(I, c)) = HdrsAt(c, I) \cup {Hdr(y)}
    BY <1>1, <2>1, HdrsAtLonger
  <2>3. RisingAt(c, I) /\ Below(HdrsAt(c, I), {Hdr(y)}) => RisingAt(Append(c, y), Longer(I, c))
    BY <1>1, <2>1, RisingAtLonger
  <2> QED BY <1>4, <2>1, <2>2, <2>3 DEF I, y
<1> HIDE DEF t, g
<1>6. SentHdrs(g) = SentHdrs(h) \cup {n}
  <2>1. \A i \in DOMAIN g : i \in DOMAIN h \/ i = Len(h) + 1
    BY <1>3
  <2>2. \A i \in DOMAIN h : i \in DOMAIN g
    BY <1>3
  <2>3. Len(h) + 1 \in DOMAIN g
    BY <1>3
  <2> QED BY <1>3, <2>1, <2>2, <2>3 DEF SentHdrs
<1>7. RowTyped(got, m, rop, p, wop, q, t, g)
  BY <1>2, <1>3 DEF Row, RowTyped
<1>8. Told(m, rop, q, t)
  BY <1>2, <1>4 DEF Row, Told, Longer
<1>9. Order(got, m, rop, p, wop, q, t, g)
  <2> DEFINE A == Hdrs(got)
             B == HalfHdr(rop, m)
             C == HdrsAt(p, HeadersIn(p))
             D == Hdrs(Unwritten(wop, q))
             E == HdrsAt(c, SendsIn(c))
             S == SentHdrs(h)
  <2>1. InLine(A, B, C, D, E, S)
    BY DEF Row, Order
  <2> HIDE DEF A, B, C, D, E, S, n
  <2>2. Below(S, {n})
    BY DEF S, n
  <2>3. InLine(A, B, C, D, E \cup {n}, S \cup {n}) /\ Below(E, {n})
    BY <2>1, <2>2, LineMoves DEF InLine, Below
  <2> USE DEF A, B, C, D, E, S
  <2> QED BY <1>5, <1>6, <2>3 DEF Row, Order
<1>10. Row(got, m, rop, p, wop, q, t, g)
  BY <1>7, <1>8, <1>9 DEF Row
<1> QED BY <1>10 DEF t, g

\* the lambda of Send queues its message, and starts to write if it is the first
LEMMA RowQueued ==
    ASSUME NEW got, NEW m, NEW rop, NEW p, NEW wop, NEW q, NEW c, NEW h,
           Row(got, m, rop, p, wop, q, c, h), c # <<>>, IsSend(Head(c)),
           NEW new \in Operation, q # <<>> => new = wop,
           q = <<>> => new.part = "header" /\ new.st # "done"
    PROVE  Row(got, m, rop, p, new, Append(q, Head(c).msg), Tail(c), h)
<1> DEFINE x == Head(c).msg
           n == x.header
           g == Append(q, x)
           t == Tail(c)
           u == Unwritten(wop, q)
           I == SendsIn(c)
<1>1. q \in Seq(Messages) /\ c \in Seq(Calls) /\ wop \in Operation
  BY DEF Row, RowTyped
<1>2. I \subseteq DOMAIN c /\ 1 \in I /\ t \in Seq(Calls) /\ SendsIn(t) = Shifted(I, c)
  BY <1>1, CallsTail
<1>3. Head(c) = c[1] /\ \A i \in SendsIn(t) : i + 1 \in I /\ t[i] = c[i + 1]
  BY <1>1, <1>2, TailOf DEF Shifted
<1>4. Whole(x) /\ x \in Messages /\ Hdr(Head(c)) = n
  <2>1. Head(c) \in Calls
    BY <1>1, CallsTail
  <2> QED BY <1>2, <1>3, <2>1 DEF Row, Told, Hdr, Calls
<1>5. /\ g \in Seq(Messages) /\ g # <<>>
      /\ \A i \in DOMAIN g : Whole(g[i])
  <2>1. /\ DOMAIN q = 1..Len(q) /\ DOMAIN g = 1..Len(q) + 1 /\ Len(q) \in Nat
        /\ g[Len(q) + 1] = x /\ \A i \in 1..Len(q) : g[i] = q[i]
        /\ g \in Seq(Messages) /\ g # <<>>
    BY <1>1, <1>4, AppendOf
  <2>2. \A i \in DOMAIN g : i \in DOMAIN q \/ i = Len(q) + 1
    BY <2>1
  <2> QED BY <1>4, <2>1, <2>2 DEF Row, Told
<1>6. Unwritten(new, g) = Append(u, x) /\ u \in Seq(Messages)
  <2>1. CASE q = <<>>
    BY <1>1, <1>5, <2>1 DEF Unwritten, HasHeader
  <2>2. CASE q # <<>>
    <3>1. Tail(g) = Append(Tail(q), x) /\ Tail(q) \in Seq(Messages)
      BY <1>1, <1>4, <2>2
    <3> QED BY <1>1, <1>5, <2>2, <3>1 DEF Unwritten
  <2> QED BY <2>1, <2>2
<1>7. WriteTurn(new, g) = WriteTurn(wop, q)
  <2>1. q # <<>> => Head(g) = Head(q)
    BY <1>1, <1>4
  <2> HIDE DEF g
  <2> QED BY <1>5, <2>1 DEF WriteTurn, Turn
<1>8. RowTyped(got, m, rop, p, new, g, t, h)
  BY <1>2, <1>5 DEF Row, RowTyped
<1>9. Told(m, rop, g, t)
  BY <1>3, <1>5 DEF Row, Told
<1>10. Order(got, m, rop, p, new, g, t, h)
  <2> DEFINE A == Hdrs(got)
             B == HalfHdr(rop, m)
             C == HdrsAt(p, HeadersIn(p))
             D == Hdrs(u)
             E == HdrsAt(c, I)
             F == HdrsAt(t, Shifted(I, c))
             S == SentHdrs(h)
  <2>1. InLine(A, B, C, D, E, S) /\ RisingAt(c, I) /\ Rising(u)
    BY DEF Row, Order
  <2>2. E = F \cup {n}
    <3> HIDE DEF I, n
    <3> QED BY <1>1, <1>2, <1>4, HdrsAtShifted
  <2>3. RisingAt(t, Shifted(I, c))
    <3> HIDE DEF I
    <3> QED BY <1>1, <1>2, <2>1, RisingAtShifted
  <2>4. Below({n}, F)
    <3>1. Below({Hdr(Head(c))}, HdrsAt(Tail(c), Shifted(I, c)))
      <4> HIDE DEF I
      <4> QED BY <1>1, <1>2, <2>1, BelowShifted
    <3> QED BY <1>4, <3>1
  <2>5. Hdrs(Append(u, x)) = D \cup {n} /\ (Below(D, {n}) => Rising(Append(u, x)))
    <3>1. u \in Seq(Messages) /\ x \in Messages /\ Rising(u)
      BY <1>4, <1>6, <2>1
    <3> HIDE DEF u, x
    <3>2. Hdrs(Append(u, x)) = Hdrs(u) \cup {x.header}
      BY <3>1, HdrsAppend
    <3>3. Below(Hdrs(u), {x.header}) => Rising(Append(u, x))
      BY <3>1, HdrsAppend
    <3> QED BY <3>2, <3>3
  <2> HIDE DEF A, B, C, D, E, F, S, n
  <2>6. InLine(A, B, C, D \cup {n}, F, S) /\ Below(D, {n})
    BY <2>1, <2>2, <2>4 DEF InLine, Below
  <2> USE DEF A, B, C, S
  <2> QED BY <1>2, <1>6, <2>3, <2>5, <2>6 DEF Row, Order, F
<1>11. Row(got, m, rop, p, new, g, t, h)
  <2> HIDE DEF g, t
  <2> QED BY <1>7, <1>8, <1>9, <1>10 DEF Row
<1> QED BY <1>11

\* the system writes the part that is being written
LEMMA RowWritten ==
    ASSUME NEW got, NEW m, NEW rop, NEW p, NEW wop, NEW q, NEW c, NEW h,
           Row(got, m, rop, p, wop, q, c, h), q # <<>>, wop.st = "pending",
           NEW new \in Operation, new.part = wop.part, new.st = "done"
    PROVE  Row(got, m, rop, Append(p, [part |-> wop.part, msg |-> Head(q)]), new, q, c, h)
<1> DEFINE y == [part |-> wop.part, msg |-> Head(q)]
           n == Head(q).header
           s == Append(p, y)
           I == HeadersIn(p)
<1>1. q \in Seq(Messages) /\ p \in Seq(Chunk) /\ wop \in Operation
  BY DEF Row, RowTyped
<1>2. Head(q) \in Messages
  BY <1>1, TailOf
<1>3. y \in Chunk /\ y.part = wop.part /\ y.msg = Head(q) /\ Hdr(y) = n
  BY <1>1, <1>2 DEF Chunk, Operation, Hdr
<1>4. s \in Seq(Chunk)
  BY <1>1, <1>3, AppendOf
<1>5. Follows(s, Turn(rop, m), WriteTurn(new, q))
  <2>1. WriteTurn(wop, q) = wop.part /\ WriteTurn(new, q) = After(wop.part, Head(q))
    BY DEF WriteTurn, Turn
  <2> DEFINE a == Turn(rop, m)
             b == WriteTurn(wop, q)
  <2>2. Follows(p, a, b) /\ y.part = b
    BY <1>3, <2>1 DEF Row
  <2> HIDE DEF a, b, y
  <2>3. Follows(Append(p, y), a, After(y.part, y.msg))
    BY <1>1, <1>3, <2>2, FollowsAppend
  <2> QED BY <1>3, <2>1, <2>3 DEF a, b
<1>6. RowTyped(got, m, rop, s, new, q, c, h)
  BY <1>4 DEF Row, RowTyped
<1>7. Told(m, rop, q, c)
  BY DEF Row
<1>8. I \subseteq DOMAIN p
      /\ HeadersIn(s) = IF wop.part = "header" THEN Longer(I, p) ELSE I
  <2> HIDE DEF y
  <2> QED BY <1>1, <1>3, ChunksAppend
<1> DEFINE A == Hdrs(got)
           B == HalfHdr(rop, m)
           C == HdrsAt(p, I)
           D == Hdrs(Unwritten(wop, q))
           E == HdrsAt(c, SendsIn(c))
           S == SentHdrs(h)
<1>9. InLine(A, B, C, D, E, S) /\ RisingAt(p, I) /\ Rising(Unwritten(wop, q))
  BY DEF Row, Order
<1>10. CASE wop.part = "header"
  <2> DEFINE F == Hdrs(Tail(q))
  <2>1. Unwritten(wop, q) = q /\ Unwritten(new, q) = Tail(q)
    BY <1>10 DEF Unwritten, HasHeader
  <2>2. D = {n} \cup F /\ Below({n}, F) /\ Rising(Tail(q))
    <3>1. Rising(q)
      BY <1>9, <2>1
    <3> QED BY <1>1, <2>1, <3>1, HdrsTail
  <2>3. HdrsAt(s, Longer(I, p)) = C \cup {n}
    <3> HIDE DEF y, I, n
    <3> QED BY <1>1, <1>3, <1>8, HdrsAtLonger
  <2>4. Below(C, {n}) => RisingAt(s, Longer(I, p))
    <3> HIDE DEF y, I, n
    <3> QED BY <1>1, <1>3, <1>8, <1>9, RisingAtLonger
  <2> HIDE DEF A, B, C, D, E, F, S, n
  <2>5. InLine(A, B, C \cup {n}, F, E, S) /\ Below(C, {n})
    BY <1>9, <2>2 DEF InLine, Below
  <2> USE DEF A, B, E, S
  <2>6. Order(got, m, rop, s, new, q, c, h)
    <3> HIDE DEF s
    <3> QED BY <1>8, <1>10, <2>1, <2>2, <2>3, <2>4, <2>5 DEF Row, Order, F
  <2>7. Row(got, m, rop, s, new, q, c, h)
    <3> HIDE DEF s
    <3> QED BY <1>5, <1>6, <1>7, <2>6 DEF Row
  <2> QED BY <2>7
<1>11. CASE wop.part # "header"
  <2>1. Unwritten(new, q) = Unwritten(wop, q)
    BY <1>1, <1>11 DEF Unwritten, HasHeader, Operation, Parts
  <2>2. HdrsAt(s, I) = C
    <3> HIDE DEF y, I
    <3> QED BY <1>1, <1>3, <1>8, HdrsAtSame
  <2>3. RisingAt(s, I)
    <3> HIDE DEF y, I
    <3> QED BY <1>1, <1>3, <1>8, <1>9, RisingAtSame
  <2>4. Order(got, m, rop, s, new, q, c, h)
    <3>1. HeadersIn(s) = I
      BY <1>8, <1>11
    <3> HIDE DEF s
    <3> QED BY <1>9, <2>1, <2>2, <2>3, <3>1 DEF Row, Order
  <2>5. Row(got, m, rop, s, new, q, c, h)
    <3> HIDE DEF s
    <3> QED BY <1>5, <1>6, <1>7, <2>4 DEF Row
  <2> QED BY <2>5
<1> QED BY <1>10, <1>11

\* the write handler goes on with the body
LEMMA RowBodyNext ==
    ASSUME NEW got, NEW m, NEW rop, NEW p, NEW wop, NEW q, NEW c, NEW h,
           Row(got, m, rop, p, wop, q, c, h), wop.part = "header", wop.st = "done",
           q # <<>>, Head(q).header.sized,
           NEW new \in Operation, new.part = "body", new.st # "done"
    PROVE  Row(got, m, rop, p, new, q, c, h)
<1>1. Unwritten(new, q) = Unwritten(wop, q) /\ WriteTurn(new, q) = WriteTurn(wop, q)
  BY DEF Unwritten, HasHeader, WriteTurn, Turn, After
<1> QED BY <1>1 DEF Row, RowTyped, Order

\* or takes the message from the queue and goes on with the next
LEMMA RowPopped ==
    ASSUME NEW got, NEW m, NEW rop, NEW p, NEW wop, NEW q, NEW c, NEW h,
           Row(got, m, rop, p, wop, q, c, h), wop.st = "done", q # <<>>,
           wop.part = "body" \/ ~Head(q).header.sized,
           NEW new \in Operation, Tail(q) # <<>> => new.part = "header" /\ new.st # "done"
    PROVE  Row(got, m, rop, p, new, Tail(q), c, h)
<1> DEFINE g == Tail(q)
<1>1. q \in Seq(Messages)
  BY DEF Row, RowTyped
<1>2. g \in Seq(Messages) /\ \A i \in DOMAIN g : Whole(g[i])
  <2>1. /\ DOMAIN q = 1..Len(q) /\ Len(q) \in Nat /\ Len(q) >= 1 /\ g \in Seq(Messages)
        /\ Len(g) = Len(q) - 1 /\ \A i \in 1..Len(q) - 1 : g[i] = q[i + 1]
    BY <1>1, TailOf
  <2>2. \A i \in DOMAIN g : i + 1 \in DOMAIN q /\ g[i] = q[i + 1]
    BY <2>1
  <2> QED BY <2>1, <2>2 DEF Row, Told
<1>3. Unwritten(wop, q) = g /\ Unwritten(new, g) = g
  BY <1>2 DEF Unwritten, HasHeader
<1>4. WriteTurn(wop, q) = "header" /\ WriteTurn(new, g) = "header"
  BY DEF WriteTurn, Turn, After
<1> HIDE DEF g
<1>5. Told(m, rop, g, c)
  BY <1>2 DEF Row, Told
<1>6. Row(got, m, rop, p, new, g, c, h)
  BY <1>2, <1>3, <1>4, <1>5 DEF Row, RowTyped, Order
<1> QED BY <1>6 DEF g

\* the read handler goes on with the body
LEMMA RowBodyRead ==
    ASSUME NEW got, NEW m, NEW rop, NEW p, NEW wop, NEW q, NEW c, NEW h,
           Row(got, m, rop, p, wop, q, c, h), rop.part = "header", rop.st = "done",
           m.header.sized,
           NEW new \in Operation, new.part = "body", new.st # "done"
    PROVE  Row(got, m, new, p, wop, q, c, h)
<1>1. HalfHdr(new, m) = HalfHdr(rop, m) /\ Turn(new, m) = Turn(rop, m)
  BY DEF HalfHdr, HasHeader, Turn, After
<1>2. Told(m, new, q, c)
  BY <1>1 DEF Row, Told
<1> QED BY <1>1, <1>2 DEF Row, RowTyped, Order

\* or pushes the message and goes on with the next
LEMMA RowPushed ==
    ASSUME NEW got, NEW m, NEW rop, NEW p, NEW wop, NEW q, NEW c, NEW h,
           Row(got, m, rop, p, wop, q, c, h), rop.st = "done",
           rop.part = "body" \/ ~m.header.sized,
           NEW new \in Operation, new.part = "header", new.st # "done"
    PROVE  Row(Append(got, m), m, new, p, wop, q, c, h)
<1> DEFINE g == Append(got, m)
           n == m.header
<1>1. got \in Seq(Messages) /\ m \in Messages
  BY DEF Row, RowTyped
<1>2. g \in Seq(Messages)
  BY <1>1, AppendOf
<1>3. Turn(rop, m) = "header" /\ Turn(new, m) = "header"
  BY DEF Turn, After
<1>4. HalfHdr(rop, m) = {n} /\ HalfHdr(new, m) = {}
  BY DEF HalfHdr, HasHeader
<1>5. Told(m, new, q, c)
  BY DEF Row, Told
<1>6. Order(g, m, new, p, wop, q, c, h)
  <2> DEFINE A == Hdrs(got)
             C == HdrsAt(p, HeadersIn(p))
             D == Hdrs(Unwritten(wop, q))
             E == HdrsAt(c, SendsIn(c))
             S == SentHdrs(h)
  <2>1. InLine(A, {n}, C, D, E, S) /\ Rising(got)
    BY <1>4 DEF Row, Order
  <2>2. Hdrs(g) = A \cup {n} /\ (Below(A, {n}) => Rising(g))
    BY <1>1, <2>1, HdrsAppend
  <2> HIDE DEF A, C, D, E, S, n
  <2>3. InLine(A \cup {n}, {}, C, D, E, S) /\ Below(A, {n})
    BY <2>1 DEF InLine, Below
  <2> HIDE DEF g
  <2> QED BY <1>4, <2>2, <2>3 DEF Row, Order, C, D, E, S
<1> HIDE DEF g
<1>7. Row(g, m, new, p, wop, q, c, h)
  BY <1>2, <1>3, <1>5, <1>6 DEF Row, RowTyped
<1> QED BY <1>7 DEF g

\* the part that is being read arrives
LEMMA RowHeaderArrives ==
    ASSUME NEW got, NEW m, NEW rop, NEW p, NEW wop, NEW q, NEW c, NEW h,
           Row(got, m, rop, p, wop, q, c, h), rop.part = "header", rop.st # "done",
           p # <<>>, Head(p).part = "header",
           NEW new \in Operation, new.part = "header", new.st = "done",
           NEW k \in Messages, k.header = Head(p).msg.header
    PROVE  Row(got, k, new, Tail(p), wop, q, c, h)
<1> DEFINE s == Tail(p)
           n == k.header
           I == HeadersIn(p)
<1>1. p \in Seq(Chunk)
  BY DEF Row, RowTyped
<1>2. /\ I \subseteq DOMAIN p /\ HeadersIn(s) = Shifted(I, p) /\ 1 \in I
      /\ Head(p) \in Chunk /\ s \in Seq(Chunk)
  BY <1>1, ChunksTail
<1>4. Hdr(Head(p)) = n
  BY DEF Hdr
<1>5. Follows(s, Turn(new, k), WriteTurn(wop, q))
  <2>1. Turn(rop, m) = "header" /\ Turn(new, k) = After("header", Head(p).msg)
    BY DEF Turn, After
  <2> QED BY <1>1, <2>1, FollowsTail DEF Row
<1>6. HalfHdr(rop, m) = {} /\ HalfHdr(new, k) = {n}
  BY DEF HalfHdr, HasHeader
<1>7. Told(k, new, q, c)
  BY DEF Row, Told
<1>8. Order(got, k, new, s, wop, q, c, h)
  <2> DEFINE A == Hdrs(got)
             C == HdrsAt(p, I)
             D == Hdrs(Unwritten(wop, q))
             E == HdrsAt(c, SendsIn(c))
             F == HdrsAt(s, Shifted(I, p))
             S == SentHdrs(h)
  <2>1. InLine(A, {}, C, D, E, S) /\ RisingAt(p, I)
    BY <1>6 DEF Row, Order
  <2>2. C = F \cup {n}
    <3> HIDE DEF I, n
    <3> QED BY <1>1, <1>2, <1>4, HdrsAtShifted
  <2>3. RisingAt(s, Shifted(I, p))
    <3> HIDE DEF I
    <3> QED BY <1>1, <1>2, <2>1, RisingAtShifted
  <2>4. Below({n}, F)
    <3>1. Below({Hdr(Head(p))}, HdrsAt(Tail(p), Shifted(I, p)))
      <4> HIDE DEF I
      <4> QED BY <1>1, <1>2, <2>1, BelowShifted
    <3> QED BY <1>4, <3>1
  <2> HIDE DEF A, C, D, E, F, S, n
  <2>5. InLine(A, {n}, F, D, E, S)
    BY <2>1, <2>2, <2>4 DEF InLine, Below
  <2> HIDE DEF s
  <2> QED BY <1>2, <1>6, <2>3, <2>5 DEF Row, Order, A, D, E, F, S
<1>9. Row(got, k, new, s, wop, q, c, h)
  <2> HIDE DEF s
  <2> QED BY <1>2, <1>5, <1>7, <1>8 DEF Row, RowTyped
<1> QED BY <1>9

LEMMA RowBodyArrives ==
    ASSUME NEW got, NEW m, NEW rop, NEW p, NEW wop, NEW q, NEW c, NEW h,
           Row(got, m, rop, p, wop, q, c, h), rop.part = "body", rop.st # "done",
           p # <<>>, Head(p).part = "body",
           NEW new \in Operation, new.part = "body", new.st = "done",
           NEW k \in Messages, k.header = m.header, k.body = Head(p).msg.body
    PROVE  Row(got, k, new, Tail(p), wop, q, c, h)
<1> DEFINE s == Tail(p)
           I == HeadersIn(p)
<1>1. p \in Seq(Chunk)
  BY DEF Row, RowTyped
<1>2. /\ I \subseteq DOMAIN p /\ HeadersIn(s) = Shifted(I, p) /\ 1 \notin I
      /\ Head(p) \in Chunk /\ s \in Seq(Chunk)
  BY <1>1, ChunksTail
<1>4. HasHeader(rop) /\ HasHeader(new)
  BY DEF HasHeader
<1>5. Follows(s, Turn(new, k), WriteTurn(wop, q))
  <2>1. Turn(rop, m) = "body" /\ Turn(new, k) = After("body", Head(p).msg)
    BY DEF Turn, After
  <2> QED BY <1>1, <2>1, FollowsTail DEF Row
<1>6. HalfHdr(new, k) = HalfHdr(rop, m)
  BY <1>4 DEF HalfHdr
<1>7. Told(k, new, q, c)
  BY DEF Row, Told
<1>8. HdrsAt(s, HeadersIn(s)) = HdrsAt(p, I) /\ RisingAt(s, HeadersIn(s))
  <2>1. RisingAt(p, I)
    BY DEF Row, Order
  <2>2. HdrsAt(p, I) = HdrsAt(s, Shifted(I, p)) \cup (IF 1 \in I THEN {Hdr(Head(p))} ELSE {})
    <3> HIDE DEF I
    <3> QED BY <1>1, <1>2, HdrsAtShifted
  <2>3. RisingAt(s, Shifted(I, p))
    <3> HIDE DEF I
    <3> QED BY <1>1, <1>2, <2>1, RisingAtShifted
  <2> QED BY <1>2, <2>2, <2>3
<1> HIDE DEF s
<1>9. Order(got, k, new, s, wop, q, c, h)
  BY <1>6, <1>8 DEF Row, Order
<1>10. Row(got, k, new, s, wop, q, c, h)
  BY <1>2, <1>5, <1>7, <1>9 DEF Row, RowTyped
<1> QED BY <1>10 DEF s

-----------------------------------------------------------------------------
(***************************************************************************)
(* The steps of a connection, one direction at a time.                     *)
(***************************************************************************)
LEMMA HopIs ==
    ASSUME NEW f \in DOMAIN NextHop
    PROVE  f \in Ends /\ NextHop[f] \in Ends /\ Peer[f] \in Ends /\ Peer[Peer[f]] = f
BY HopAssumption, EndsAssumption DEF Ends

(* The way of a message: it begins where it was sent, it goes on over a    *)
(* hop, and of two ways that meet one runs into the other.                 *)
LEMMA LeadsOn ==
    ASSUME NEW o \in Ends
    PROVE  /\ Leads(o, o)
           /\ \A f \in DOMAIN NextHop : Leads(o, Peer[f]) => Leads(o, NextHop[f])
BY DEF Leads

LEMMA LeadsAway ==
    ASSUME NEW f \in DOMAIN NextHop, NEW d \in Ends, Leads(Peer[f], d), Peer[f] # d
    PROVE  Leads(NextHop[f], d)
<1> SUFFICES ASSUME NEW S \in SUBSET Ends, NextHop[f] \in S,
                    \A e \in DOMAIN NextHop : Peer[e] \in S => NextHop[e] \in S
             PROVE  d \in S
  BY DEF Leads
<1> DEFINE T == S \cup {Peer[f]}
<1>1. T \in SUBSET Ends /\ Peer[f] \in T
  BY HopIs
<1>2. ASSUME NEW e \in DOMAIN NextHop, Peer[e] \in T PROVE NextHop[e] \in T
  <2>1. CASE Peer[e] \in S
    BY <2>1
  <2>2. CASE Peer[e] = Peer[f]
    <3>1. e = f
      BY <2>2, HopIs
    <3> QED BY <3>1
  <2> QED BY <1>2, <2>1, <2>2
<1> HIDE DEF T
<1>3. d \in T
  BY <1>1, <1>2 DEF Leads
<1> QED BY <1>3 DEF T

LEMMA OneWayToHop ==
    ASSUME NEW o \in Ends, NEW f \in DOMAIN NextHop, NEW g \in DOMAIN NextHop,
           NextHop[f] = NextHop[g], Leads(o, Peer[f]), Leads(o, Peer[g])
    PROVE  f = g
<1> SUFFICES ASSUME f # g PROVE FALSE
  OBVIOUS
<1> DEFINE p == Peer[f]
           q == Peer[g]
           S == {x \in Ends : Leads(x, p) \/ Leads(p, x)}
<1>1. p \in Ends /\ q \in Ends /\ p # q
  BY HopIs
<1>2. S \in SUBSET Ends /\ o \in S
  OBVIOUS
<1>3. ASSUME NEW e \in DOMAIN NextHop, Peer[e] \in S PROVE NextHop[e] \in S
  <2>0. NextHop[e] \in Ends
    BY HopIs
  <2>1. CASE Leads(p, Peer[e])
    BY <1>1, <2>0, <2>1, LeadsOn
  <2>2. CASE Leads(Peer[e], p) /\ Peer[e] # p
    BY <1>1, <2>0, <2>2, LeadsAway
  <2>3. CASE Peer[e] = p
    BY <1>1, <2>0, <2>3, LeadsOn
  <2> QED BY <1>3, <2>1, <2>2, <2>3
<1> HIDE DEF S
<1>4. q \in S
  BY <1>2, <1>3 DEF Leads
<1> USE DEF S
<1>5. CASE Leads(q, p)
  <2>1. Leads(NextHop[g], p)
    BY <1>1, <1>5, LeadsAway
  <2> QED BY <2>1, HopAssumption
<1>6. CASE Leads(p, q)
  <2>1. Leads(NextHop[f], q)
    BY <1>1, <1>6, LeadsAway
  <2> QED BY <2>1, HopAssumption
<1> QED BY <1>4, <1>5, <1>6

(* What a node has forwarded has come in, so it was sent to it.            *)
LEMMA CameInKnown ==
    ASSUME Types, Counts, RowInv, NEW f \in DOMAIN NextHop, NEW x, CameIn(f, x)
    PROVE  /\ Known(Peer[f], x)
           /\ \A i \in 1..forwarded[f] : i \in DOMAIN messagesIn[f]
<1> DEFINE got == messagesIn[f]
<1>1. got \in Seq(Messages) /\ forwarded[f] \in Nat /\ forwarded[f] <= Len(got)
  BY HopIs DEF Types, Counts
<1> HIDE DEF got
<1>2. \A i \in 1..forwarded[f] : i \in DOMAIN got
  BY <1>1
<1>3. x \in Hdrs(got)
  BY <1>2 DEF CameIn, Hdrs, got
<1>4. Hdrs(got) \subseteq SentHdrs(sent[Peer[f]])
  <2>1. Way(Peer[f]) /\ Peer[Peer[f]] = f
    BY HopIs DEF RowInv
  <2> QED BY <2>1 DEF Way, Row, Order, InLine, got
<1> QED BY <1>2, <1>3, <1>4, HopIs DEF RowInv, Sources, got

LEMMA WayTyped ==
    ASSUME Types, NEW e \in Ends
    PROVE  /\ Peer[e] \in Ends /\ readOp[Peer[e]] \in Operation /\ writeOp[e] \in Operation
           /\ messagesIn[Peer[e]] \in Seq(Messages) /\ temporaryIn[Peer[e]] \in Messages
           /\ pipe[e] \in Seq(Chunk) /\ messagesOut[e] \in Seq(Messages)
           /\ posted[e] \in Seq(Calls) /\ sent[e] \in Seq(Headers)
BY EndsAssumption DEF Types, Calls

LEMMA StillWay ==
    ASSUME Types, Types', NEW e \in Ends, Way(e), Still(e)
    PROVE  Way(e)'
<1>1. readOp'[Peer[e]] \in Operation /\ writeOp'[e] \in Operation
  BY EndsAssumption DEF Types
<1>2. SamePlace(readOp[Peer[e]], readOp'[Peer[e]]) /\ SamePlace(writeOp[e], writeOp'[e])
  BY DEF Still, WriterSame, ReaderSame
<1>3. /\ messagesIn'[Peer[e]] = messagesIn[Peer[e]] /\ temporaryIn'[Peer[e]] = temporaryIn[Peer[e]]
      /\ pipe'[e] = pipe[e] /\ messagesOut'[e] = messagesOut[e]
      /\ posted'[e] = posted[e] /\ sent'[e] = sent[e]
  BY DEF Still, WriterSame, ReaderSame
<1>4. Row(messagesIn[Peer[e]], temporaryIn[Peer[e]], readOp'[Peer[e]], pipe[e],
          writeOp'[e], messagesOut[e], posted[e], sent[e])
  BY <1>1, <1>2, RowStays DEF Way
<1> QED BY <1>3, <1>4 DEF Way

\* a close is posted, or runs and aborts what was under way
LEMMA CloseWay ==
    ASSUME Types, Types', NEW x \in Ends,
           Disconnect(x) \/ RefuseFromListener(x) \/ RunClose(x),
           NEW e \in Ends, Way(e)
    PROVE  Way(e)'
<1>0. /\ readOp \in [Ends -> Operation] /\ writeOp \in [Ends -> Operation]
      /\ posted \in [Ends -> Seq(Calls)] /\ Peer[e] \in Ends
      /\ readOp'[Peer[e]] \in Operation /\ writeOp'[e] \in Operation
  BY EndsAssumption DEF Types, Calls
<1>1. /\ UNCHANGED <<messagesOut, temporaryIn, messagesIn, pipe, sent>>
      /\ \/ posted' = [posted EXCEPT ![x] = Append(@, PostClose(x))]
         \/ /\ posted[x] # <<>> /\ Head(posted[x]) = PostClose(x)
            /\ posted' = [posted EXCEPT ![x] = Tail(@)]
  BY DEF Disconnect, RefuseFromListener, RunClose
<1>2. \A d \in Ends : SamePlace(readOp[d], readOp'[d]) /\ SamePlace(writeOp[d], writeOp'[d])
  <2>1. CASE Disconnect(x) \/ RefuseFromListener(x)
    BY <2>1, SameKept DEF Disconnect, RefuseFromListener, ops
  <2>2. CASE RunClose(x)
    <3>1. /\ readOp' = [readOp EXCEPT ![x] = Aborted(readOp[x])]
          /\ writeOp' = [writeOp EXCEPT ![x] = Aborted(writeOp[x])]
      BY <2>2 DEF RunClose, Close
    <3>2. /\ SamePlace(readOp[x], Aborted(readOp[x]))
          /\ SamePlace(writeOp[x], Aborted(writeOp[x]))
      BY <1>0, PlaceKept
    <3> QED BY <1>0, <3>1, <3>2, FamilyKept
  <2> QED BY <2>1, <2>2
<1>3. Row(messagesIn[Peer[e]], temporaryIn[Peer[e]], readOp'[Peer[e]], pipe[e],
          writeOp'[e], messagesOut[e], posted[e], sent[e])
  BY <1>0, <1>2, RowStays DEF Way
<1>4. Row(messagesIn[Peer[e]], temporaryIn[Peer[e]], readOp'[Peer[e]], pipe[e],
          writeOp'[e], messagesOut[e], posted'[e], sent[e])
  <2>1. CASE e # x
    <3>1. posted'[e] = posted[e]
      BY <1>0, <1>1, <2>1
    <3> QED BY <1>3, <3>1
  <2>2. CASE e = x /\ posted'[e] = Append(posted[e], PostClose(x))
    BY <1>3, <2>2, RowClosePosted
  <2>3. CASE /\ e = x /\ posted[e] # <<>> /\ Head(posted[e]) = PostClose(x)
             /\ posted'[e] = Tail(posted[e])
    <3>1. ~IsSend(Head(posted[e]))
      BY <2>3 DEF IsSend, PostClose
    <3> QED BY <1>3, <2>3, <3>1, RowCloseRuns
  <2> QED BY <1>0, <1>1, <2>1, <2>2, <2>3
<1> QED BY <1>1, <1>4 DEF Way

\* what is sent is later than all that was sent there before
LEMMA SentWay ==
    ASSUME NEW x \in Ends, NEW m \in Messages, Whole(m),
           Below(SentHdrs(sent[x]), {m.header}),
           posted \in [Ends -> Seq(Calls)], sent \in [Ends -> Seq(Headers)],
           posted' = [posted EXCEPT ![x] = Append(@, PostSend(m))],
           sent' = [sent EXCEPT ![x] = Append(@, m.header)],
           UNCHANGED <<messagesIn, temporaryIn, readOp, pipe, writeOp, messagesOut>>,
           NEW e \in Ends, Way(e)
    PROVE  Way(e)'
<1>1. CASE e # x
  BY <1>1 DEF Way
<1>2. CASE e = x
  <2>1. posted'[e] = Append(posted[e], PostSend(m)) /\ sent'[e] = Append(sent[e], m.header)
    BY <1>2
  <2>2. Row(messagesIn[Peer[e]], temporaryIn[Peer[e]], readOp[Peer[e]], pipe[e],
            writeOp[e], messagesOut[e], Append(posted[e], PostSend(m)), Append(sent[e], m.header))
    BY <1>2, RowSent DEF Way
  <2> QED BY <2>1, <2>2 DEF Way
<1> QED BY <1>1, <1>2

\* an end numbers what its owner sends
LEMMA SendIs ==
    ASSUME Types, NEW x \in Ends, Send(x)
    PROVE  \E m \in Messages :
              /\ Whole(m) /\ m.header.from = x /\ m.header.num = Len(sent[x]) + 1
              /\ posted' = [posted EXCEPT ![x] = Append(@, PostSend(m))]
              /\ sent' = [sent EXCEPT ![x] = Append(@, m.header)]
<1>1. Len(sent[x]) \in Nat
  BY DEF Types
<1> DEFINE n == Len(sent[x]) + 1
<1>2. PICK sized \in Sized :
          /\ posted' = [posted EXCEPT ![x] = Append(@, PostSend(Message(x, n, sized)))]
          /\ sent' = [sent EXCEPT ![x] = Append(@, Message(x, n, sized).header)]
  BY DEF Send
<1>3. n \in Nat /\ n # 0 /\ sized \in BOOLEAN
  BY <1>1, ConnectionBounds
<1> HIDE DEF n
<1>4. Message(x, n, sized) \in Messages
  BY <1>3, MessageTyped
<1>5. Whole(Message(x, n, sized))
  BY <1>3 DEF Message, Whole, NoBody
<1>6. Message(x, n, sized).header.from = x /\ Message(x, n, sized).header.num = n
  BY DEF Message
<1> QED BY <1>2, <1>4, <1>5, <1>6 DEF n

\* which is later than what its owner sent before
LEMMA OwnIsLater ==
    ASSUME Types, Counts, RowInv, NEW x \in Ends, NEW c, c.from = x, c.num = Len(sent[x]) + 1
    PROVE  Below(SentHdrs(sent[x]), {c})
<1> SUFFICES ASSUME NEW y \in SentHdrs(sent[x]), y.from = x PROVE y.num < c.num
  BY DEF Below, Earlier
<1>1. sent[x] \in Seq(Headers) /\ Len(sent[x]) \in Nat
  BY DEF Types
<1>2. y \in Headers
  BY <1>1 DEF SentHdrs
<1>3. CASE Own(x, y)
  BY <1>1, <1>2, <1>3 DEF Own, Headers
<1>4. ASSUME NEW f \in DOMAIN NextHop, NextHop[f] = x, CameIn(f, y) PROVE FALSE
  <2>1. Leads(y.from, Peer[f])
    BY <1>4, CameInKnown DEF Known
  <2> QED BY <1>4, <2>1, HopAssumption
<1> QED BY <1>3, <1>4 DEF RowInv, Sources

LEMMA SendWay ==
    ASSUME Types, Counts, RowInv, NEW x \in Ends, Send(x), NEW e \in Ends
    PROVE  Way(e)'
<1>1. PICK m \in Messages :
          /\ Whole(m) /\ m.header.from = x /\ m.header.num = Len(sent[x]) + 1
          /\ posted' = [posted EXCEPT ![x] = Append(@, PostSend(m))]
          /\ sent' = [sent EXCEPT ![x] = Append(@, m.header)]
  BY SendIs
<1>2. posted \in [Ends -> Seq(Calls)] /\ sent \in [Ends -> Seq(Headers)]
  BY DEF Types, Calls
<1>3. UNCHANGED <<messagesIn, temporaryIn, readOp, pipe, writeOp, messagesOut>>
  BY DEF Send, ops
<1>4. Below(SentHdrs(sent[x]), {m.header})
  BY <1>1, OwnIsLater
<1>5. Way(e)
  BY DEF RowInv
<1> QED BY <1>1, <1>2, <1>3, <1>4, <1>5, SentWay

LEMMA RunSendWay ==
    ASSUME Types, Types', NEW x \in Ends, RunSend(x), NEW e \in Ends, Way(e)
    PROVE  Way(e)'
<1>0. /\ posted \in [Ends -> Seq(Calls)] /\ messagesOut \in [Ends -> Seq(Messages)]
      /\ writeOp \in [Ends -> Operation] /\ writeOp'[e] \in Operation /\ Peer[e] \in Ends
  BY EndsAssumption DEF Types, Calls
<1>1. /\ UNCHANGED <<readOp, temporaryIn, messagesIn, pipe, sent>>
      /\ posted[x] # <<>> /\ IsSend(Head(posted[x]))
      /\ posted' = [posted EXCEPT ![x] = Tail(@)]
      /\ messagesOut' = [messagesOut EXCEPT ![x] = Append(@, Head(posted[x]).msg)]
      /\ writeOp' = IF messagesOut[x] = <<>>
                    THEN [writeOp EXCEPT ![x] = Started(x, "header")] ELSE writeOp
  BY DEF RunSend, RunSendStarting, IsSend
<1>2. CASE e # x
  BY <1>0, <1>1, <1>2, OthersStill, StillWay
<1>3. CASE e = x
  <2>1. /\ messagesOut'[e] = Append(messagesOut[e], Head(posted[e]).msg)
        /\ posted'[e] = Tail(posted[e])
    BY <1>0, <1>1, <1>3
  <2>2. /\ messagesOut[e] # <<>> => writeOp'[e] = writeOp[e]
        /\ messagesOut[e] = <<>> => writeOp'[e].part = "header" /\ writeOp'[e].st # "done"
    BY <1>0, <1>1, <1>3 DEF Started
  <2>3. Row(messagesIn[Peer[e]], temporaryIn[Peer[e]], readOp[Peer[e]], pipe[e],
            writeOp'[e], Append(messagesOut[e], Head(posted[e]).msg), Tail(posted[e]), sent[e])
    BY <1>0, <1>1, <1>3, <2>2, RowQueued DEF Way
  <2> QED BY <1>1, <2>1, <2>3 DEF Way
<1> QED BY <1>2, <1>3

LEMMA TransmitWay ==
    ASSUME Types, Types', ChainInv, NEW x \in Ends, Transmit(x), NEW e \in Ends, Way(e)
    PROVE  Way(e)'
<1>0. /\ messagesOut[e] \in Seq(Messages) /\ writeOp \in [Ends -> Operation]
      /\ writeOp'[e] \in Operation /\ pipe \in [Ends -> Seq(Chunk)] /\ Peer[e] \in Ends
  BY EndsAssumption DEF Types
<1>1. /\ UNCHANGED <<readOp, temporaryIn, messagesIn, messagesOut, sent, posted>>
      /\ writeOp[x].st = "pending"
      /\ pipe' = [pipe EXCEPT ![x] =
                     Append(@, [part |-> writeOp[x].part, msg |-> Head(messagesOut[x])])]
      /\ writeOp' = [writeOp EXCEPT ![x].st = "done"]
  BY DEF Transmit
<1>2. CASE e # x
  <2>1. pipe'[e] = pipe[e] /\ writeOp'[e] = writeOp[e]
    BY <1>0, <1>1, <1>2
  <2> QED BY <1>1, <1>2, <2>1, OthersStill, StillWay
<1>3. CASE e = x
  <2> DEFINE c == [part |-> writeOp[e].part, msg |-> Head(messagesOut[e])]
  <2>1. pipe'[e] = Append(pipe[e], c)
    BY <1>0, <1>1, <1>3
  <2>2. writeOp'[e].part = writeOp[e].part /\ writeOp'[e].st = "done"
    BY <1>0, <1>1, <1>3 DEF Operation
  <2>3. messagesOut[e] # <<>> /\ writeOp[e].st = "pending"
    BY <1>1, <1>3 DEF ChainInv, WritePump, Outstanding
  <2>4. Row(messagesIn[Peer[e]], temporaryIn[Peer[e]], readOp[Peer[e]], Append(pipe[e], c),
            writeOp'[e], messagesOut[e], posted[e], sent[e])
    BY <1>0, <2>2, <2>3, RowWritten DEF Way
  <2> HIDE DEF c
  <2> QED BY <1>1, <2>1, <2>4 DEF Way
<1> QED BY <1>2, <1>3

\* the message at the front has a body to write
LEMMA WriteHandlerWay ==
    ASSUME Types, Types', ChainInv, NEW x \in Ends, WriteHandler(x), NEW e \in Ends, Way(e)
    PROVE  Way(e)'
<1>0. /\ messagesOut \in [Ends -> Seq(Messages)] /\ writeOp \in [Ends -> Operation]
      /\ writeOp'[e] \in Operation /\ Peer[e] \in Ends
  BY EndsAssumption DEF Types
<1> DEFINE toBody == HasBodyToWrite(x)
           left == Tail(messagesOut[x])
<1>1. /\ UNCHANGED <<readOp, temporaryIn, messagesIn, pipe, sent, posted>>
      /\ writeOp[x].st = "done"
      /\ messagesOut' = [messagesOut EXCEPT ![x] = IF toBody THEN @ ELSE left]
      /\ writeOp' = [writeOp EXCEPT ![x] =
                        IF toBody THEN Started(x, "body")
                        ELSE IF left # <<>> THEN Started(x, "header")
                        ELSE Finished(@, "none")]
  <2> HIDE DEF toBody, left
  <2> QED BY DEF WriteHandler, WriteNext, toBody, left
<1>2. CASE e # x
  <2>1. messagesOut'[e] = messagesOut[e] /\ writeOp'[e] = writeOp[e]
    <3> HIDE DEF toBody, left
    <3> QED BY <1>0, <1>1, <1>2
  <2> QED BY <1>1, <1>2, <2>1, OthersStill, StillWay
<1>3. CASE e = x
  <2> DEFINE q == messagesOut[e]
  <2>1. q \in Seq(Messages) /\ q # <<>> /\ writeOp[e].st = "done" /\ writeOp[e].part \in Parts
    BY <1>0, <1>1, <1>3 DEF ChainInv, WritePump, Outstanding, Operation
  <2>2. Whole(Head(q))
    <3>1. Head(q) = q[1] /\ Len(q) \in Nat /\ Len(q) >= 1 /\ DOMAIN q = 1..Len(q)
      <4> HIDE DEF q
      <4> QED BY <2>1, TailOf
    <3>2. 1 \in DOMAIN q
      BY <3>1
    <3>3. \A i \in DOMAIN q : Whole(q[i])
      BY DEF Way, Row, Told
    <3> QED BY <3>1, <3>2, <3>3
  <2>3. toBody <=> writeOp[e].part = "header" /\ Head(q).header.sized
    BY <1>3, <2>2 DEF HasBodyToWrite, Whole
  <2>4. CASE writeOp[e].part = "header" /\ Head(q).header.sized
    <3>1. messagesOut'[e] = q /\ writeOp'[e].part = "body" /\ writeOp'[e].st # "done"
      BY <1>0, <1>1, <1>3, <2>3, <2>4 DEF Started
    <3>2. Row(messagesIn[Peer[e]], temporaryIn[Peer[e]], readOp[Peer[e]], pipe[e],
              writeOp'[e], q, posted[e], sent[e])
      BY <1>0, <2>1, <2>4, <3>1, RowBodyNext DEF Way
    <3> HIDE DEF q
    <3> QED BY <1>1, <3>1, <3>2 DEF Way
  <2>5. CASE writeOp[e].part = "body" \/ ~Head(q).header.sized
    <3>1. /\ messagesOut'[e] = Tail(q)
          /\ Tail(q) # <<>> => writeOp'[e].part = "header" /\ writeOp'[e].st # "done"
      BY <1>0, <1>1, <1>3, <2>3, <2>5 DEF Started
    <3>2. Row(messagesIn[Peer[e]], temporaryIn[Peer[e]], readOp[Peer[e]], pipe[e],
              writeOp'[e], Tail(q), posted[e], sent[e])
      BY <1>0, <2>1, <2>5, <3>1, RowPopped DEF Way
    <3> HIDE DEF q
    <3> QED BY <1>1, <3>1, <3>2 DEF Way
  <2> QED BY <2>1, <2>4, <2>5 DEF Parts
<1> QED BY <1>2, <1>3

LEMMA ReadHandlerWay ==
    ASSUME Types, Types', NEW x \in Ends, ReadHandler(x), NEW e \in Ends, Way(e)
    PROVE  Way(e)'
<1>0. /\ messagesIn \in [Ends -> Seq(Messages)] /\ readOp \in [Ends -> Operation]
      /\ readOp'[x] \in Operation /\ temporaryIn[x] \in Messages
  BY DEF Types
<1> DEFINE toBody == HasBodyToRead(x)
<1>1. /\ UNCHANGED <<writeOp, messagesOut, sent, posted, pipe, temporaryIn>>
      /\ readOp[x].st = "done"
      /\ messagesIn' = IF toBody THEN messagesIn
                       ELSE [messagesIn EXCEPT ![x] = Append(@, temporaryIn[x])]
      /\ readOp' = [readOp EXCEPT ![x] = IF toBody THEN Started(x, "body")
                                         ELSE Started(x, "header")]
  <2> HIDE DEF toBody
  <2> QED BY DEF ReadHandler, ReadNext, toBody
<1>2. CASE e # Peer[x]
  <2>1. \A d \in Ends : d # x => /\ readOp'[d] = readOp[d] /\ temporaryIn'[d] = temporaryIn[d]
                                 /\ messagesIn'[d] = messagesIn[d]
    <3> HIDE DEF toBody
    <3> QED BY <1>0, <1>1
  <2> QED BY <1>1, <1>2, <2>1, OthersRead, StillWay
<1>3. CASE e = Peer[x]
  <2>0. Peer[e] = x
    BY <1>3, OneReader
  <2>1. Row(messagesIn[x], temporaryIn[x], readOp[x], pipe[e],
            writeOp[e], messagesOut[e], posted[e], sent[e])
    BY <2>0 DEF Way
  <2>2. readOp[x].part \in Parts
    BY <1>0 DEF Operation
  <2>3. toBody <=> readOp[x].part = "header" /\ temporaryIn[x].header.sized
    BY DEF HasBodyToRead
  <2>4. CASE readOp[x].part = "header" /\ temporaryIn[x].header.sized
    <3>1. messagesIn'[x] = messagesIn[x] /\ readOp'[x].part = "body" /\ readOp'[x].st # "done"
      BY <1>0, <1>1, <2>3, <2>4 DEF Started
    <3>2. Row(messagesIn[x], temporaryIn[x], readOp'[x], pipe[e],
              writeOp[e], messagesOut[e], posted[e], sent[e])
      BY <1>0, <1>1, <2>1, <2>4, <3>1, RowBodyRead
    <3> QED BY <1>1, <2>0, <3>1, <3>2 DEF Way
  <2>5. CASE readOp[x].part = "body" \/ ~temporaryIn[x].header.sized
    <3>1. /\ messagesIn'[x] = Append(messagesIn[x], temporaryIn[x])
          /\ readOp'[x].part = "header" /\ readOp'[x].st # "done"
      BY <1>0, <1>1, <2>3, <2>5 DEF Started
    <3>2. Row(Append(messagesIn[x], temporaryIn[x]), temporaryIn[x], readOp'[x], pipe[e],
              writeOp[e], messagesOut[e], posted[e], sent[e])
      BY <1>0, <1>1, <2>1, <2>5, <3>1, RowPushed
    <3> QED BY <1>1, <2>0, <3>1, <3>2 DEF Way
  <2> QED BY <2>2, <2>4, <2>5 DEF Parts
<1> QED BY <1>2, <1>3

LEMMA ArriveWay ==
    ASSUME Types, Types', NEW x \in Ends, Arrive(x), NEW e \in Ends, Way(e)
    PROVE  Way(e)'
<1>0. /\ pipe \in [Ends -> Seq(Chunk)] /\ readOp \in [Ends -> Operation] /\ Peer[x] \in Ends
      /\ temporaryIn \in [Ends -> Messages]
      /\ readOp'[x] \in Operation /\ temporaryIn'[x] \in Messages
  BY EndsAssumption DEF Types
<1> DEFINE chunk == Head(pipe[Peer[x]])
<1>1. /\ UNCHANGED <<writeOp, messagesOut, sent, posted, messagesIn>>
      /\ readOp[x].st = "pending" /\ pipe[Peer[x]] # <<>> /\ chunk.part = readOp[x].part
      /\ temporaryIn' = [temporaryIn EXCEPT ![x] =
             IF chunk.part = "header" THEN [@ EXCEPT !.header = chunk.msg.header]
             ELSE [@ EXCEPT !.body = chunk.msg.body]]
      /\ pipe' = [pipe EXCEPT ![Peer[x]] = Tail(@)]
      /\ readOp' = [readOp EXCEPT ![x].st = "done"]
  BY DEF Arrive
<1>2. CASE e # Peer[x]
  <2>1. \A d \in Ends : d # x => /\ readOp'[d] = readOp[d] /\ temporaryIn'[d] = temporaryIn[d]
                                 /\ messagesIn'[d] = messagesIn[d]
    <3> HIDE DEF chunk
    <3> QED BY <1>0, <1>1
  <2>2. pipe'[e] = pipe[e]
    BY <1>0, <1>1, <1>2
  <2> QED BY <1>1, <1>2, <2>1, <2>2, OthersRead, StillWay
<1>3. CASE e = Peer[x]
  <2>0. Peer[e] = x
    BY <1>3, OneReader
  <2>1. Row(messagesIn[x], temporaryIn[x], readOp[x], pipe[e],
            writeOp[e], messagesOut[e], posted[e], sent[e])
    BY <2>0 DEF Way
  <2>2. /\ pipe'[e] = Tail(pipe[e]) /\ pipe[e] # <<>> /\ Head(pipe[e]).part = readOp[x].part
        /\ readOp'[x].part = readOp[x].part /\ readOp'[x].st = "done" /\ readOp[x].st # "done"
        /\ readOp[x].part \in Parts
    BY <1>0, <1>1, <1>3 DEF Operation
  <2>3. CASE readOp[x].part = "header"
    <3>1. temporaryIn'[x].header = Head(pipe[e]).msg.header
      <4>1. temporaryIn'[x] = [temporaryIn[x] EXCEPT !.header = Head(pipe[e]).msg.header]
        BY <1>0, <1>1, <1>3, <2>3
      <4> QED BY <1>0, <4>1 DEF Messages
    <3>2. Row(messagesIn[x], temporaryIn'[x], readOp'[x], Tail(pipe[e]),
              writeOp[e], messagesOut[e], posted[e], sent[e])
      BY <1>0, <2>1, <2>2, <2>3, <3>1, RowHeaderArrives
    <3> QED BY <1>1, <2>0, <2>2, <3>2 DEF Way
  <2>4. CASE readOp[x].part = "body"
    <3>1. /\ temporaryIn'[x].header = temporaryIn[x].header
          /\ temporaryIn'[x].body = Head(pipe[e]).msg.body
      <4>1. temporaryIn'[x] = [temporaryIn[x] EXCEPT !.body = Head(pipe[e]).msg.body]
        BY <1>0, <1>1, <1>3, <2>4
      <4> QED BY <1>0, <4>1 DEF Messages
    <3>2. Row(messagesIn[x], temporaryIn'[x], readOp'[x], Tail(pipe[e]),
              writeOp[e], messagesOut[e], posted[e], sent[e])
      BY <1>0, <2>1, <2>2, <2>4, <3>1, RowBodyArrives
    <3> QED BY <1>1, <2>0, <2>2, <3>2 DEF Way
  <2> QED BY <2>2, <2>3, <2>4 DEF Parts
<1> QED BY <1>2, <1>3

-----------------------------------------------------------------------------
(***************************************************************************)
(* Where the messages come from, from step to step.                        *)
(***************************************************************************)
\* what an end has taken in only grows at its end
Grown(s, t) == t = s \/ \E m \in Messages : t = Append(s, m)

LEMMA GrownIs ==
    ASSUME NEW s \in Seq(Messages), NEW t, Grown(s, t)
    PROVE  /\ Len(s) \in Nat /\ Len(t) \in Nat /\ Len(s) <= Len(t)
           /\ \A i \in 1..Len(s) : t[i] = s[i]
BY AppendOf DEF Grown

LEMMA NextGrows ==
    ASSUME Types, NEW x \in Ends,
           Connecting(x) \/ RunPosted(x) \/ Writing(x) \/ Reading(x) \/ Environment(x)
    PROVE  /\ \A f \in Ends : Grown(messagesIn[f], messagesIn'[f])
           /\ sent' = sent \/ Send(x)
<1>1. CASE ReadHandler(x)
  <2>1. messagesIn \in [Ends -> Seq(Messages)] /\ temporaryIn[x] \in Messages
    BY DEF Types
  <2>2. /\ sent' = sent
        /\ \/ messagesIn' = messagesIn
           \/ messagesIn' = [messagesIn EXCEPT ![x] = Append(@, temporaryIn[x])]
    BY <1>1 DEF ReadHandler, ReadNext
  <2> QED BY <2>1, <2>2 DEF Grown
<1>2. CASE Connecting(x) \/ RunPosted(x)
  BY <1>2 DEF Connecting, ConnectToListener, Established, ConnectHandler, ConnectFromListener,
              RunPosted, RunClose, RunSend, RunSendStarting, Grown, data
<1>3. CASE Writing(x)
  BY <1>3 DEF Writing, WriteHandler, WriteNext, WriteErrorHandler, Transmit, Grown, data
<1>4. CASE Reading(x) /\ ~ReadHandler(x)
  BY <1>4 DEF Reading, ReadErrorHandler, Arrive, ReadEnd, Grown, data
<1>5. CASE Environment(x)
  BY <1>5 DEF Environment, ConnectFails, RefuseFromListener, Send, Disconnect, Release,
              BreakNetwork, ReadReset, WriteReset, Grown, data
<1> QED BY <1>1, <1>2, <1>3, <1>4, <1>5

\* nothing leaves what an end sent, and what comes new is known to it
LEMMA SourcesStep ==
    ASSUME Types, Types', Counts, Sources,
           \A f \in Ends : Grown(messagesIn[f], messagesIn'[f]),
           \A f \in DOMAIN NextHop : forwarded'[f] \in Nat /\ forwarded[f] <= forwarded'[f],
           \A d \in Ends : \/ sent'[d] = sent[d]
                           \/ \E c \in Headers :
                                /\ sent'[d] = Append(sent[d], c)
                                /\ \/ c.from = d /\ c.num <= Len(sent[d]) + 1
                                   \/ \E f \in DOMAIN NextHop :
                                        /\ NextHop[f] = d /\ Known(Peer[f], c)
                                        /\ \E i \in 1..forwarded'[f] : c = messagesIn'[f][i].header
    PROVE  Sources'
<1>1. ASSUME NEW d \in Ends
      PROVE  /\ SentHdrs(sent[d]) \subseteq Headers
             /\ SentHdrs(sent[d]) \subseteq SentHdrs(sent'[d])
             /\ Len(sent[d]) \in Nat /\ Len(sent'[d]) \in Nat /\ Len(sent[d]) <= Len(sent'[d])
             /\ \A c \in Headers : sent'[d] = Append(sent[d], c) =>
                   /\ Len(sent'[d]) = Len(sent[d]) + 1
                   /\ SentHdrs(sent'[d]) = SentHdrs(sent[d]) \cup {c}
  <2> DEFINE h == sent[d]
  <2>1. h \in Seq(Headers) /\ Len(h) \in Nat
    BY DEF Types
  <2> HIDE DEF h
  <2>2. SentHdrs(h) \subseteq Headers
    BY <2>1 DEF SentHdrs
  <2>3. ASSUME NEW c \in Headers
        PROVE  Len(Append(h, c)) = Len(h) + 1 /\ SentHdrs(Append(h, c)) = SentHdrs(h) \cup {c}
    <3> DEFINE t == Append(h, c)
    <3>1. /\ DOMAIN h = 1..Len(h) /\ DOMAIN t = 1..Len(h) + 1 /\ Len(t) = Len(h) + 1
          /\ t[Len(h) + 1] = c /\ \A i \in 1..Len(h) : t[i] = h[i]
      BY <2>1, AppendOf
    <3> HIDE DEF t
    <3>2. /\ \A i \in DOMAIN t : i \in DOMAIN h \/ i = Len(h) + 1
          /\ Len(h) + 1 \in DOMAIN t /\ DOMAIN h \subseteq DOMAIN t
      BY <2>1, <3>1
    <3>3. Len(t) = Len(h) + 1 /\ SentHdrs(t) = SentHdrs(h) \cup {c}
      BY <3>1, <3>2 DEF SentHdrs
    <3> QED BY <3>3 DEF t
  <2>4. sent'[d] = h \/ \E c \in Headers : sent'[d] = Append(h, c)
    BY DEF h
  <2>5. SentHdrs(h) \subseteq SentHdrs(sent'[d]) /\ Len(sent'[d]) \in Nat /\ Len(h) <= Len(sent'[d])
    <3>1. CASE sent'[d] = h
      BY <2>1, <3>1
    <3>2. ASSUME NEW c \in Headers, sent'[d] = Append(h, c)
          PROVE  /\ SentHdrs(h) \subseteq SentHdrs(sent'[d])
                 /\ Len(sent'[d]) \in Nat /\ Len(h) <= Len(sent'[d])
      <4>1. Len(sent'[d]) = Len(h) + 1 /\ SentHdrs(sent'[d]) = SentHdrs(h) \cup {c}
        BY <2>3, <3>2
      <4> QED BY <2>1, <4>1
    <3> QED BY <2>4, <3>1, <3>2
  <2> QED BY <2>1, <2>2, <2>3, <2>5 DEF h
<1>2. ASSUME NEW d \in Ends, NEW c \in Headers, Known(d, c) PROVE Known(d, c)'
  BY <1>1, <1>2 DEF Known, Headers
<1>3. ASSUME NEW f \in DOMAIN NextHop, NEW c, CameIn(f, c) PROVE CameIn(f, c)'
  <2> DEFINE s == messagesIn[f]
             t == messagesIn'[f]
             k == forwarded[f]
  <2>1. s \in Seq(Messages) /\ Grown(s, t) /\ k \in Nat /\ k <= Len(s)
    BY HopIs DEF Types, Counts
  <2>2. forwarded'[f] \in Nat /\ k <= forwarded'[f]
    OBVIOUS
  <2>3. PICK i \in 1..k : c = s[i].header
    BY <1>3 DEF CameIn
  <2> HIDE DEF s, t, k
  <2>4. i \in 1..forwarded'[f] /\ t[i] = s[i]
    BY <2>1, <2>2, GrownIs
  <2> QED BY <2>3, <2>4 DEF CameIn, t
<1>4. ASSUME NEW d \in Ends, NEW c \in SentHdrs(sent[d])
      PROVE  /\ Known(d, c)'
             /\ Own(d, c)' \/ \E f \in DOMAIN NextHop : NextHop[f] = d /\ CameIn(f, c)'
  <2>1. c \in Headers /\ Known(d, c)
    BY <1>1, <1>4 DEF Sources
  <2>2. CASE Own(d, c)
    <3>1. c.from = d /\ c.num \in Nat /\ c.num <= Len(sent[d])
      BY <2>1, <2>2 DEF Own, Headers
    <3>2. Len(sent[d]) \in Nat /\ Len(sent'[d]) \in Nat /\ Len(sent[d]) <= Len(sent'[d])
      BY <1>1
    <3>3. c.num <= Len(sent'[d])
      BY <3>1, <3>2
    <3> QED BY <1>2, <2>1, <3>1, <3>3 DEF Own
  <2>3. CASE \E f \in DOMAIN NextHop : NextHop[f] = d /\ CameIn(f, c)
    BY <1>2, <1>3, <2>1, <2>3
  <2> QED BY <1>4, <2>2, <2>3 DEF Sources
<1>5. ASSUME NEW d \in Ends, NEW c \in Headers, sent'[d] = Append(sent[d], c),
             \/ c.from = d /\ c.num <= Len(sent[d]) + 1
             \/ \E f \in DOMAIN NextHop :
                  /\ NextHop[f] = d /\ Known(Peer[f], c)
                  /\ \E i \in 1..forwarded'[f] : c = messagesIn'[f][i].header
      PROVE  /\ Known(d, c)'
             /\ Own(d, c)' \/ \E f \in DOMAIN NextHop : NextHop[f] = d /\ CameIn(f, c)'
  <2>1. c \in SentHdrs(sent'[d]) /\ Len(sent'[d]) = Len(sent[d]) + 1
    <3>1. SentHdrs(sent'[d]) = SentHdrs(sent[d]) \cup {c} /\ Len(sent'[d]) = Len(sent[d]) + 1
      BY <1>1, <1>5
    <3> QED BY <3>1
  <2>2. CASE c.from = d /\ c.num <= Len(sent[d]) + 1
    BY <2>1, <2>2, LeadsOn DEF Known, Own
  <2>3. ASSUME NEW f \in DOMAIN NextHop, NextHop[f] = d, Known(Peer[f], c),
               \E i \in 1..forwarded'[f] : c = messagesIn'[f][i].header
        PROVE  Known(d, c)' /\ CameIn(f, c)'
    <3>1. c.from \in Ends
      BY DEF Headers
    <3>2. Leads(c.from, d)
      BY <2>3, <3>1, LeadsOn DEF Known
    <3>3. c \in SentHdrs(sent'[c.from])
      BY <1>1, <2>3, <3>1 DEF Known
    <3> QED BY <2>3, <3>2, <3>3 DEF Known, CameIn
  <2> QED BY <1>5, <2>2, <2>3
<1>6. ASSUME NEW d \in Ends, NEW c \in SentHdrs(sent'[d])
      PROVE  /\ Known(d, c)'
             /\ Own(d, c)' \/ \E f \in DOMAIN NextHop : NextHop[f] = d /\ CameIn(f, c)'
  <2>1. CASE c \in SentHdrs(sent[d])
    BY <1>4, <2>1
  <2>2. CASE c \notin SentHdrs(sent[d])
    <3>1. PICK a \in Headers :
             /\ sent'[d] = Append(sent[d], a)
             /\ \/ a.from = d /\ a.num <= Len(sent[d]) + 1
                \/ \E f \in DOMAIN NextHop :
                     /\ NextHop[f] = d /\ Known(Peer[f], a)
                     /\ \E i \in 1..forwarded'[f] : a = messagesIn'[f][i].header
      BY <1>6, <2>2
    <3>2. SentHdrs(sent'[d]) = SentHdrs(sent[d]) \cup {a}
      BY <1>1, <3>1
    <3>3. c = a
      BY <1>6, <2>2, <3>2
    <3> QED BY <1>5, <3>1, <3>3
  <2> QED BY <2>1, <2>2
<1> QED BY <1>6 DEF Sources

LEMMA NextSources ==
    ASSUME Types, Types', Counts, Sources, forwarded' = forwarded, NEW x \in Ends,
           Connecting(x) \/ RunPosted(x) \/ Writing(x) \/ Reading(x) \/ Environment(x)
    PROVE  Sources'
<1>1. /\ \A f \in Ends : Grown(messagesIn[f], messagesIn'[f])
      /\ sent' = sent \/ Send(x)
  BY NextGrows
<1>2. \A f \in DOMAIN NextHop : forwarded'[f] \in Nat /\ forwarded[f] <= forwarded'[f]
  BY DEF Counts
<1>3. ASSUME NEW d \in Ends
      PROVE  \/ sent'[d] = sent[d]
             \/ \E c \in Headers : /\ sent'[d] = Append(sent[d], c)
                                   /\ c.from = d /\ c.num <= Len(sent[d]) + 1
  <2>1. CASE Send(x)
    <3>1. PICK m \in Messages :
              /\ m.header.from = x /\ m.header.num = Len(sent[x]) + 1
              /\ sent' = [sent EXCEPT ![x] = Append(@, m.header)]
      BY <2>1, SendIs
    <3>2. m.header \in Headers /\ sent \in [Ends -> Seq(Headers)]
      BY DEF Messages, Types
    <3>3. m.header.num <= Len(sent[x]) + 1
      BY <3>1, <3>2
    <3> QED BY <3>1, <3>2, <3>3
  <2> QED BY <1>1, <2>1
<1> QED BY <1>1, <1>2, <1>3, SourcesStep

\* the counts, and what they count, only grow
LEMMA CountsStep ==
    ASSUME Types, Counts, [RelayNext]_relayVars
    PROVE  /\ Counts' /\ \A f \in Ends : Grown(messagesIn[f], messagesIn'[f])
           /\ \A f \in DOMAIN NextHop : forwarded'[f] \in Nat /\ forwarded[f] <= forwarded'[f]
<1>1. ASSUME \A f \in Ends : Grown(messagesIn[f], messagesIn'[f]), forwarded' = forwarded
      PROVE  Counts'
  <2>1. ASSUME NEW f \in DOMAIN NextHop PROVE forwarded[f] <= Len(messagesIn'[f])
    <3>1. /\ messagesIn[f] \in Seq(Messages) /\ Grown(messagesIn[f], messagesIn'[f])
          /\ forwarded[f] \in Nat /\ forwarded[f] <= Len(messagesIn[f])
      BY <1>1, HopIs DEF Types, Counts
    <3>2. Len(messagesIn[f]) \in Nat /\ Len(messagesIn'[f]) \in Nat
          /\ Len(messagesIn[f]) <= Len(messagesIn'[f])
      BY <3>1, GrownIs
    <3> QED BY <3>1, <3>2
  <2> QED BY <1>1, <2>1 DEF Counts
<1>2. CASE UNCHANGED relayVars
  <2>1. messagesIn' = messagesIn /\ forwarded' = forwarded
    BY <1>2 DEF relayVars, vars
  <2> QED BY <1>1, <2>1 DEF Grown, Counts
<1>3. CASE Next /\ UNCHANGED forwarded
  <2>1. \A f \in Ends : Grown(messagesIn[f], messagesIn'[f])
    BY <1>3, NextGrows DEF Next
  <2> QED BY <1>1, <1>3, <2>1 DEF Counts
<1>4. ASSUME NEW e \in DOMAIN NextHop, Forward(e)
      PROVE  /\ Counts' /\ messagesIn' = messagesIn
             /\ \A f \in DOMAIN NextHop : forwarded'[f] \in Nat /\ forwarded[f] <= forwarded'[f]
  <2>1. /\ messagesIn' = messagesIn /\ forwarded[e] < Len(messagesIn[e])
        /\ forwarded' = [forwarded EXCEPT ![e] = @ + 1]
    BY <1>4 DEF Forward, ForwardMessage
  <2>2. Len(messagesIn[e]) \in Nat
    BY HopIs DEF Types
  <2> QED BY <2>1, <2>2 DEF Counts
<1> QED BY <1>2, <1>3, <1>4, <1>1, NextGrows DEF RelayNext, Next, Grown, relayVars, vars, Counts

\* what was forwarded stays: once one was not whole there always is one
LEMMA WholeBefore ==
    ASSUME Types, Counts, [RelayNext]_relayVars, ForwardedWhole'
    PROVE  ForwardedWhole
<1> SUFFICES ASSUME NEW f \in DOMAIN NextHop, NEW i \in 1..forwarded[f]
             PROVE  Whole(messagesIn[f][i])
  BY DEF ForwardedWhole
<1>1. /\ Grown(messagesIn[f], messagesIn'[f]) /\ messagesIn[f] \in Seq(Messages)
      /\ forwarded'[f] \in Nat /\ forwarded[f] <= forwarded'[f]
      /\ forwarded[f] \in Nat /\ forwarded[f] <= Len(messagesIn[f])
  BY CountsStep, HopIs DEF Types, Counts
<1>2. /\ Len(messagesIn[f]) \in Nat
      /\ \A j \in 1..Len(messagesIn[f]) : messagesIn'[f][j] = messagesIn[f][j]
  BY <1>1, GrownIs
<1>3. i \in 1..Len(messagesIn[f]) /\ i \in 1..forwarded'[f]
  BY <1>1, <1>2
<1>4. Whole(messagesIn'[f][i])
  BY <1>3 DEF ForwardedWhole
<1> QED BY <1>2, <1>3, <1>4

-----------------------------------------------------------------------------
(***************************************************************************)
(* A node forwards the next of the messages it got.                        *)
(***************************************************************************)
\* the message it takes
Coming(f) == messagesIn[f][forwarded[f] + 1]

LEMMA ForwardIs ==
    ASSUME Types, Counts, NEW f \in DOMAIN NextHop, Forward(f)
    PROVE  /\ UNCHANGED <<sock, alive, broken, ops, messagesOut, temporaryIn, messagesIn, pipe>>
           /\ forwarded' = [forwarded EXCEPT ![f] = @ + 1]
           /\ forwarded[f] < Len(messagesIn[f]) /\ Coming(f) \in Messages
           /\ \/ UNCHANGED <<posted, sent>>
              \/ /\ IsConnected(NextHop[f])
                 /\ posted' = [posted EXCEPT ![NextHop[f]] = Append(@, PostSend(Coming(f)))]
                 /\ sent' = [sent EXCEPT ![NextHop[f]] = Append(@, Coming(f).header)]
<1> DEFINE s == messagesIn[f]
           k == forwarded[f]
<1>1. s \in Seq(Messages) /\ k \in Nat
  BY HopIs DEF Types, Counts
<1>2. k < Len(s)
  BY DEF Forward, ForwardMessage
<1> HIDE DEF s, k
<1>3. s[k + 1] \in Messages
  BY <1>1, <1>2
<1>4. Coming(f) \in Messages
  BY <1>3 DEF Coming, s, k
<1> QED BY <1>4 DEF Forward, ForwardMessage, Coming

\* the owner of its header knows it, and it is later than what came before it
LEMMA ForwardedIsLater ==
    ASSUME Types, Counts, RowInv, NEW f \in DOMAIN NextHop, Forward(f)
    PROVE  /\ Known(Peer[f], Coming(f).header)
           /\ Below(SentHdrs(sent[NextHop[f]]), {Coming(f).header})
<1> DEFINE s == messagesIn[f]
           k == forwarded[f]
           d == NextHop[f]
           c == Coming(f).header
<1>1. s \in Seq(Messages) /\ k \in Nat /\ k < Len(s) /\ c = s[k + 1].header /\ c.from \in Ends
  <2>1. s \in Seq(Messages) /\ k \in Nat
    BY HopIs DEF Types, Counts
  <2>2. k < Len(s) /\ Coming(f) \in Messages
    BY ForwardIs
  <2>3. c.from \in Ends
    BY <2>2 DEF Messages, Headers
  <2> QED BY <2>1, <2>2, <2>3 DEF Coming
<1>2. Rising(s) /\ Hdrs(s) \subseteq SentHdrs(sent[Peer[f]])
  <2>1. Way(Peer[f]) /\ Peer[Peer[f]] = f
    BY HopIs DEF RowInv
  <2> QED BY <2>1 DEF Way, Row, Order, InLine
<1> HIDE DEF s, k, c
<1>3. k + 1 \in DOMAIN s /\ \A i \in 1..k : i \in DOMAIN s /\ i < k + 1
  BY <1>1
<1>4. c \in SentHdrs(sent[Peer[f]])
  BY <1>1, <1>2, <1>3 DEF Hdrs
<1>5. Known(Peer[f], c)
  BY <1>4, HopIs DEF RowInv, Sources
<1>6. ASSUME NEW y \in SentHdrs(sent[d]), y.from = c.from PROVE y.num < c.num
  <2>1. CASE Own(d, y)
    <3>1. Leads(d, Peer[f])
      BY <1>5, <1>6, <2>1 DEF Own, Known
    <3> QED BY <3>1, HopAssumption
  <2>2. ASSUME NEW g \in DOMAIN NextHop, NextHop[g] = d, CameIn(g, y) PROVE y.num < c.num
    <3>1. Leads(c.from, Peer[g]) /\ Leads(c.from, Peer[f])
      BY <1>5, <1>6, <2>2, CameInKnown DEF Known
    <3>2. g = f
      BY <1>1, <2>2, <3>1, OneWayToHop
    <3>3. PICK i \in 1..k : y = s[i].header
      BY <2>2, <3>2 DEF CameIn, s, k
    <3>4. Earlier(y, c)
      BY <1>1, <1>2, <1>3, <3>3 DEF Rising
    <3> QED BY <1>6, <3>4 DEF Earlier
  <2> QED BY <1>6, <2>1, <2>2, HopIs DEF RowInv, Sources
<1>7. Below(SentHdrs(sent[d]), {c})
  BY <1>6 DEF Below, Earlier
<1> QED BY <1>5, <1>7 DEF c

LEMMA ForwardTyped ==
    ASSUME Types, Counts, NEW f \in DOMAIN NextHop, Forward(f)
    PROVE  Types'
<1>1. UNCHANGED <<sock, alive, broken, ops, messagesOut, temporaryIn, messagesIn, pipe>>
  BY ForwardIs
<1>2. posted \in [Ends -> Seq(Calls)] /\ sent \in [Ends -> Seq(Headers)] /\ NextHop[f] \in Ends
  BY HopIs DEF Types, Calls
<1>3. posted' \in [Ends -> Seq(Calls)] /\ sent' \in [Ends -> Seq(Headers)]
  <2>1. CASE UNCHANGED <<posted, sent>>
    BY <1>2, <2>1
  <2>2. CASE ~UNCHANGED <<posted, sent>>
    <3>1. /\ Coming(f) \in Messages
          /\ posted' = [posted EXCEPT ![NextHop[f]] = Append(@, PostSend(Coming(f)))]
          /\ sent' = [sent EXCEPT ![NextHop[f]] = Append(@, Coming(f).header)]
      BY <2>2, ForwardIs
    <3>2. PostSend(Coming(f)) \in Calls /\ Coming(f).header \in Headers
      BY <3>1, PostTyped DEF Messages
    <3> QED BY <1>2, <3>1, <3>2, AppendFamily
  <2> QED BY <2>1, <2>2
<1> QED BY <1>1, <1>3 DEF Types, Calls, ops

LEMMA ForwardChained ==
    ASSUME Types, ChainInv, ReadStarts, Counts, NEW f \in DOMAIN NextHop, Forward(f)
    PROVE  ChainInv' /\ ReadStarts'
<1>1. UNCHANGED <<sock, connectOp, readOp, writeOp, messagesOut>>
  BY ForwardIs DEF ops
<1>2. \A e \in Ends : NotOpen(e) => posted'[e] = posted[e]
  <2>1. CASE UNCHANGED <<posted, sent>>
    BY <2>1
  <2>2. CASE ~UNCHANGED <<posted, sent>>
    <3>1. /\ IsConnected(NextHop[f])
          /\ \E c : posted' = [posted EXCEPT ![NextHop[f]] = Append(@, c)]
      BY <2>2, ForwardIs
    <3>2. posted \in [Ends -> Seq(Calls)] /\ ~NotOpen(NextHop[f])
      BY <3>1 DEF Types, Calls, NotOpen, IsConnected
    <3> QED BY <3>1, <3>2
  <2> QED BY <2>1, <2>2
<1>3. NothingBeforeOpen'
  BY <1>1, <1>2 DEF ChainInv, NothingBeforeOpen, NotOpen, Outstanding
<1>4. ConnectStatus' /\ WritePump' /\ ReadArmed'
  BY <1>1 DEF ChainInv, ConnectStatus, ConnectClauses, WritePump, ReadArmed, IsConnected, Outstanding
<1>5. ReadStarts'
  BY <1>1 DEF ReadStarts, NotOpen, Outstanding, Idle
<1> QED BY <1>3, <1>4, <1>5 DEF ChainInv

LEMMA ForwardRow ==
    ASSUME Types, Types', Counts, RowInv, ForwardedWhole',
           NEW f \in DOMAIN NextHop, Forward(f)
    PROVE  RowInv'
<1> DEFINE d == NextHop[f]
           m == Coming(f)
<1>1. /\ UNCHANGED <<messagesIn, temporaryIn, readOp, pipe, writeOp, messagesOut>>
      /\ forwarded' = [forwarded EXCEPT ![f] = @ + 1] /\ m \in Messages
      /\ \/ UNCHANGED <<posted, sent>>
         \/ /\ posted' = [posted EXCEPT ![d] = Append(@, PostSend(m))]
            /\ sent' = [sent EXCEPT ![d] = Append(@, m.header)]
  BY ForwardIs DEF ops
<1>2. forwarded[f] \in Nat /\ forwarded'[f] = forwarded[f] + 1 /\ m = messagesIn'[f][forwarded'[f]]
  BY <1>1 DEF Counts, Coming
<1>3. forwarded'[f] \in 1..forwarded'[f]
  BY <1>2
<1>4. Whole(m) /\ m.header \in Headers
  BY <1>1, <1>2, <1>3 DEF ForwardedWhole, Messages
<1>5. Known(Peer[f], m.header) /\ Below(SentHdrs(sent[d]), {m.header})
  BY ForwardedIsLater
<1>6. /\ posted \in [Ends -> Seq(Calls)] /\ sent \in [Ends -> Seq(Headers)] /\ d \in Ends
      /\ forwarded \in [DOMAIN NextHop -> Nat]
  BY HopIs DEF Types, Calls, Counts
<1> HIDE DEF d, m
<1>7. ASSUME NEW e \in Ends PROVE Way(e)'
  <2>1. Way(e)
    BY DEF RowInv
  <2>2. CASE UNCHANGED <<posted, sent>>
    BY <1>1, <2>1, <2>2 DEF Way
  <2>3. CASE ~UNCHANGED <<posted, sent>>
    BY <1>1, <1>4, <1>5, <1>6, <2>1, <2>3, SentWay
  <2> QED BY <2>2, <2>3
<1>8. Sources'
  <2>1. \A g \in Ends : Grown(messagesIn[g], messagesIn'[g])
    BY <1>1 DEF Grown
  <2>2. \A g \in DOMAIN NextHop : forwarded'[g] \in Nat /\ forwarded[g] <= forwarded'[g]
    BY <1>1, <1>6
  <2>3. \A e \in Ends : \/ sent'[e] = sent[e]
                        \/ e = d /\ sent'[e] = Append(sent[e], m.header)
    BY <1>1, <1>6
  <2>4. NextHop[f] = d /\ Known(Peer[f], m.header)
        /\ \E i \in 1..forwarded'[f] : m.header = messagesIn'[f][i].header
    BY <1>2, <1>3, <1>5 DEF d
  <2> QED BY <1>4, <2>1, <2>2, <2>3, <2>4, SourcesStep DEF RowInv
<1> QED BY <1>7, <1>8 DEF RowInv

-----------------------------------------------------------------------------
(***************************************************************************)
(* The connections' invariants hold whatever was forwarded, the directions *)
(* as long as all of it was whole.                                         *)
(***************************************************************************)
RelayInv ==
    /\ Types /\ ChainInv /\ ReadStarts /\ Counts
    /\ ForwardedWhole => RowInv

LEMMA RelayStarts == RelayInit => RelayInv
<1> SUFFICES ASSUME RelayInit PROVE RelayInv
  OBVIOUS
<1>1. Types /\ ChainInv /\ ReadStarts
  BY InitTyped, InitChained, InitStreams DEF RelayInit, StreamInv
<1>2. ASSUME NEW e \in Ends PROVE Way(e)
  <2>1. Peer[e] \in Ends
    BY EndsAssumption
  <2>2. /\ sent[e] = <<>> /\ messagesOut[e] = <<>> /\ posted[e] = <<>> /\ pipe[e] = <<>>
        /\ messagesIn[Peer[e]] = <<>> /\ readOp[Peer[e]] = Idle /\ writeOp[e] = Idle
    BY <2>1 DEF RelayInit, Init
  <2>3. RowTyped(messagesIn[Peer[e]], temporaryIn[Peer[e]], readOp[Peer[e]], pipe[e],
                 writeOp[e], messagesOut[e], posted[e], sent[e])
    BY <1>1, WayTyped DEF RowTyped
  <2> DEFINE m == temporaryIn[Peer[e]]
  <2>4. Follows(<<>>, Turn(Idle, m), WriteTurn(Idle, <<>>))
    <3> HIDE DEF m
    <3> QED BY DEF Follows, Turn, WriteTurn, Idle
  <2>5. Told(m, Idle, <<>>, <<>>)
    <3> HIDE DEF m
    <3> QED BY DEF Told, Idle, SendsIn
  <2>6. Order(<<>>, m, Idle, <<>>, Idle, <<>>, <<>>, <<>>)
    <3> HIDE DEF m
    <3>1. /\ Unwritten(Idle, <<>>) = <<>> /\ HalfHdr(Idle, m) = {} /\ Hdrs(<<>>) = {}
          /\ HeadersIn(<<>>) = {} /\ SendsIn(<<>>) = {} /\ SentHdrs(<<>>) = {}
      BY DEF Unwritten, HalfHdr, HasHeader, Idle, Hdrs, HeadersIn, SendsIn, SentHdrs
    <3>2. \A s : HdrsAt(s, {}) = {} /\ RisingAt(s, {})
      BY DEF HdrsAt, RisingAt
    <3>3. Rising(<<>>) /\ InLine({}, {}, {}, {}, {}, {})
      BY DEF Rising, InLine, Below
    <3> QED BY <3>1, <3>2, <3>3 DEF Order
  <2> HIDE DEF m
  <2> QED BY <2>2, <2>3, <2>4, <2>5, <2>6 DEF Way, Row, m
<1>3. Sources
  BY DEF RelayInit, Init, Sources, SentHdrs
<1>4. Counts
  <2>1. \A f \in DOMAIN NextHop : messagesIn[f] = <<>>
    BY HopIs DEF RelayInit, Init
  <2> QED BY <2>1 DEF RelayInit, Counts
<1> QED BY <1>1, <1>2, <1>3, <1>4 DEF RelayInv, RowInv

LEMMA ConnectionStep ==
    ASSUME Types, Types', ChainInv, ReadStarts, Counts, RowInv, Next, forwarded' = forwarded
    PROVE  RowInv'
<1>1. PICK x \in Ends :
          Connecting(x) \/ RunPosted(x) \/ Writing(x) \/ Reading(x) \/ Environment(x)
  BY DEF Next
<1>2. Sources'
  BY <1>1, NextSources DEF RowInv
<1>3. ASSUME NEW e \in Ends PROVE Way(e)'
  <2>1. Way(e) /\ WritePump
    BY DEF RowInv, ChainInv
  <2>2. CASE Connecting(x) \/ ConnectFails(x)
    BY <2>1, <2>2, ConnectingStill, StillWay
  <2>3. CASE \/ Release(x) \/ BreakNetwork(x) \/ WriteErrorHandler(x) \/ ReadErrorHandler(x)
             \/ ReadEnd(x) \/ ReadReset(x) \/ WriteReset(x)
    BY <2>1, <2>3, FailuresStill, StillWay
  <2>4. CASE Disconnect(x) \/ RefuseFromListener(x) \/ RunClose(x)
    BY <2>1, <2>4, CloseWay
  <2>5. CASE Send(x)
    BY <2>5, SendWay
  <2>6. CASE RunSend(x) \/ WriteHandler(x) \/ Transmit(x)
    BY <2>1, <2>6, RunSendWay, WriteHandlerWay, TransmitWay
  <2>7. CASE ReadHandler(x) \/ Arrive(x)
    BY <2>1, <2>7, ReadHandlerWay, ArriveWay
  <2>8. \/ Connecting(x) \/ ConnectFails(x)
        \/ Release(x) \/ BreakNetwork(x) \/ WriteErrorHandler(x) \/ ReadErrorHandler(x)
        \/ ReadEnd(x) \/ ReadReset(x) \/ WriteReset(x)
        \/ Disconnect(x) \/ RefuseFromListener(x) \/ RunClose(x)
        \/ Send(x) \/ RunSend(x) \/ WriteHandler(x) \/ Transmit(x) \/ ReadHandler(x) \/ Arrive(x)
    BY <1>1 DEF RunPosted, Writing, Reading, Environment
  <2> QED BY <2>2, <2>3, <2>4, <2>5, <2>6, <2>7, <2>8
<1> QED BY <1>2, <1>3 DEF RowInv

LEMMA StutterStep ==
    ASSUME Types, Types', RowInv, UNCHANGED relayVars
    PROVE  RowInv'
<1>1. UNCHANGED <<vars, forwarded>>
  BY DEF relayVars
<1>2. \A e \in Ends : Way(e)'
  <2>1. \A e \in Ends : Still(e)
    BY <1>1, AllStill, SameKept DEF vars
  <2> QED BY <2>1, StillWay DEF RowInv
<1>3. Sources'
  BY <1>1 DEF RowInv, Sources, Known, Own, CameIn, vars
<1> QED BY <1>2, <1>3 DEF RowInv

LEMMA RelayInductive == RelaySpec => []RelayInv
<1>1. RelayInv /\ [RelayNext]_relayVars => RelayInv'
  <2> SUFFICES ASSUME RelayInv, [RelayNext]_relayVars PROVE RelayInv'
    OBVIOUS
  <2>0. Types /\ ChainInv /\ ReadStarts /\ Counts /\ WritePump
    BY DEF RelayInv, ChainInv
  <2>1. Counts' /\ (ForwardedWhole' => RowInv)
    BY <2>0, CountsStep, WholeBefore DEF RelayInv
  <2>2. CASE UNCHANGED relayVars
    <3>1. Types' /\ ChainInv'
      BY <2>0, <2>2, NextTyped, NextChained DEF relayVars
    <3>2. ReadStarts'
      BY <2>0, <2>2 DEF ReadStarts, NotOpen, Outstanding, Idle, vars, relayVars
    <3> QED BY <2>0, <2>1, <2>2, <3>1, <3>2, StutterStep DEF RelayInv
  <2>3. CASE Next /\ UNCHANGED forwarded
    <3>1. Types' /\ ChainInv'
      BY <2>0, <2>3, NextTyped, NextChained
    <3>2. ReadStarts'
      <4>1. PICK x \in Ends :
                Connecting(x) \/ RunPosted(x) \/ Writing(x) \/ Reading(x) \/ Environment(x)
        BY <2>3 DEF Next
      <4> QED BY <2>0, <4>1, ConnectingReads, OthersDoNotRead DEF Environment
    <3> QED BY <2>0, <2>1, <2>3, <3>1, <3>2, ConnectionStep DEF RelayInv
  <2>4. ASSUME NEW f \in DOMAIN NextHop, Forward(f) PROVE RelayInv'
    <3>1. Types' /\ ChainInv' /\ ReadStarts'
      BY <2>0, <2>4, ForwardTyped, ForwardChained
    <3> QED BY <2>0, <2>1, <2>4, <3>1, ForwardRow DEF RelayInv
  <2> QED BY <2>2, <2>3, <2>4 DEF RelayNext
<1> QED BY <1>1, RelayStarts, PTL DEF RelaySpec

(***************************************************************************)
(* In a tree of any shape, whatever fails on any of its connections and    *)
(* whatever its nodes add of their own: what an end gets keeps the order   *)
(* of each sender's messages, skips what was dropped on the way and adds   *)
(* nothing, until a message that is not whole has been forwarded.          *)
(***************************************************************************)
THEOREM RelayInOrder == RelaySpec => []InOrderEndToEnd
<1>1. RelayInv => InOrderEndToEnd
  <2> SUFFICES ASSUME RelayInv, ForwardedWhole, NEW e \in Ends
               PROVE  LET far == messagesIn[e]
                      IN  /\ \A i, j \in DOMAIN far :
                                i < j /\ far[i].header.from = far[j].header.from
                                    => far[i].header.num < far[j].header.num
                          /\ \A i \in DOMAIN far : \E k \in DOMAIN sent[far[i].header.from] :
                                far[i].header = sent[far[i].header.from][k]
    BY DEF InOrderEndToEnd
  <2> DEFINE far == messagesIn[e]
  <2>1. Peer[e] \in Ends /\ Peer[Peer[e]] = e
    BY OneReader
  <2>2. Way(Peer[e]) /\ Sources
    BY <2>1 DEF RelayInv, RowInv
  <2>3. Rising(far) /\ Hdrs(far) \subseteq SentHdrs(sent[Peer[e]])
    BY <2>1, <2>2 DEF Way, Row, Order, InLine
  <2> HIDE DEF far
  <2>4. ASSUME NEW i \in DOMAIN far
        PROVE  \E k \in DOMAIN sent[far[i].header.from] :
                  far[i].header = sent[far[i].header.from][k]
    <3>1. far[i].header \in SentHdrs(sent[Peer[e]])
      BY <2>3 DEF Hdrs
    <3>2. Known(Peer[e], far[i].header)
      BY <2>1, <2>2, <3>1 DEF Sources
    <3> QED BY <3>2 DEF Known, SentHdrs
  <2> QED BY <2>3, <2>4 DEF Rising, Earlier, far
<1> QED BY <1>1, RelayInductive, PTL

(***************************************************************************)
(* As long as what a node forwards is whole its connections' readers and   *)
(* writers stay in step: an operation never reads the other part.          *)
(***************************************************************************)
THEOREM RelayStreamsInSync == RelaySpec => [](ForwardedWhole => StreamInSync)
<1>1. RelayInv => (ForwardedWhole => StreamInSync)
  <2> SUFFICES ASSUME RelayInv, ForwardedWhole,
                      NEW e \in Ends, readOp[e].st = "pending", pipe[Peer[e]] # <<>>
               PROVE  Head(pipe[Peer[e]]).part = readOp[e].part
    BY DEF StreamInSync
  <2>1. Peer[e] \in Ends /\ Peer[Peer[e]] = e
    BY OneReader
  <2> DEFINE s == pipe[Peer[e]]
             a == Turn(readOp[e], temporaryIn[e])
             b == WriteTurn(writeOp[Peer[e]], messagesOut[Peer[e]])
  <2>2. s \in Seq(Chunk) /\ Follows(s, a, b) /\ s # <<>>
    BY <2>1 DEF RelayInv, RowInv, Way, Row, RowTyped
  <2>3. a = readOp[e].part
    BY DEF Turn
  <2>4. Head(s).part = a
    <3> HIDE DEF s, a, b
    <3> QED BY <2>2, FollowsTail
  <2> QED BY <2>3, <2>4
<1> QED BY <1>1, RelayInductive, PTL

=============================================================================
