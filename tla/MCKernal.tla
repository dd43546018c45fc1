------------------------------ MODULE MCKernal ------------------------------
(* Small trees for TLC.                                                    *)
EXTENDS Kernal

\* root - a - b
ChainNodes == {"root", "a", "b"}
ChainParent == [n \in {"a", "b"} |-> IF n = "a" THEN "root" ELSE "a"]
ChainRand == [n \in ChainNodes |->
                 CASE n = "root" -> <<4, 5>> [] n = "a" -> <<6>> [] n = "b" -> <<>>]

(* Either an end of the chain sends one message, at any time, or b is not  *)
(* started, root sends two and a a third: enough for a list of ids that is *)
(* read from the body of a user's message, and for somebody to write to    *)
(* the id it seems to hold.                                                *)
FewSends == \A i \in DOMAIN submitted' :
    /\ i > 1 => connected'["b"] = "none" /\ submitted'[1].from = "root"
    /\ submitted'[i].from = "a" <=> i = 3
ChainSpec == Init /\ [][Next /\ FewSends]_vars /\ WF_vars(Working /\ FewSends)

\* root - a - b and root - x
ForkNodes == {"root", "a", "b", "x"}
ForkParent == [n \in {"a", "b", "x"} |-> IF n = "b" THEN "a" ELSE "root"]
ForkRand == [n \in ForkNodes |->
                CASE n = "root" -> <<3, 4, 5>> [] n = "a" -> <<6>> [] n \in {"b", "x"} -> <<>>]

\* a node is started once its server knows its id, x last of all
ChainAfter == [n \in {"a", "b"} |-> {ChainParent[n]}]
ForkAfter == [n \in {"a", "b", "x"} |-> {ForkParent[n]} \cup (IF n = "x" THEN {"b"} ELSE {})]

\* what KernalFreshProperIds asks for: in the trees of the runs ids are proper
ASSUME RoutingAssumption == FreshDraws /\ StartedInOrder

-----------------------------------------------------------------------------
(* Losing connections: either the chain root - a - b joins, x is never     *)
(* started and nobody sends, or the four nodes of the fork have joined,    *)
(* have used every notice and x sends.  The second initial state is the    *)
(* last one of a run of the fork without failures.                         *)
ChainOnly == [n \in {"a", "b", "x"} |-> {ForkParent[n]} \cup (IF n = "x" THEN {"x"} ELSE {})]
OnlyX == {"x"}
Downward == {<<"root", "a">>, <<"a", "b">>}

Each(root, a, b, x) == [n \in ForkNodes |->
    CASE n = "root" -> root [] n = "a" -> a [] n = "b" -> b [] n = "x" -> x]
Ends(mine, other) == [myId |-> mine, otherId |-> other]

Joined ==
    /\ myId = Each(3, 4, 6, 5)
    /\ drawn = Each(3, 1, 0, 0)
    /\ serverId = Each(0, 3, 4, 3)
    /\ idsFromServer = Each(<<>>, <<3, 4, 5>>, <<4, 3, 5>>, <<3, 6, 4>>)
    /\ serverConn = Each(NoConn, Ends(4, 3), Ends(6, 4), Ends(5, 3))
    /\ clientConn = Each(NoConn, Ends(3, 4), Ends(4, 6), Ends(3, 5))
    /\ connected = Each("none", "up", "up", "up")
    /\ clientToDirectClient = Each(4 :> 4 @@ 5 :> 5 @@ 6 :> 4, 6 :> 6, <<>>, <<>>)
    /\ directClients = Each(4 :> "a" @@ 5 :> "x", 6 :> "b", <<>>, <<>>)
    /\ accepting = [n \in Nodes |-> NotAccepting]
    /\ open = Links
    /\ msgOut = [n \in Nodes |-> <<>>] /\ msgIn = [n \in Nodes |-> <<>>]
    /\ inHand = [n \in Nodes |-> <<>>]
    /\ clientsToRemove = [n \in Nodes |-> <<>>]
    /\ link = [l \in Links |-> <<>>]
    /\ lastBody = [l \in Links |->
           CASE l = <<"root", "x">> -> <<4, 6>> [] l = <<"a", "root">> -> <<6>>
             [] l \in {<<"root", "a">>, <<"a", "b">>} -> <<5>> [] OTHER -> <<>>]
    /\ announced = Each({6}, {4, 5}, {3, 5, 6}, {4, 5, 6})
    /\ used = [n \in Nodes |-> <<>>] /\ removed = [n \in Nodes |-> <<>>]
    /\ lost = {} /\ notFound = {} /\ submitted = <<>>

LossSpec == (Init \/ Joined) /\ [][Next]_vars /\ Fairness
=============================================================================
