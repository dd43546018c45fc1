------------------------------ MODULE Channel ------------------------------
(***************************************************************************)
(* What every message path of the engine promises its user: messages are   *)
(* taken out in the order they were put in, none is invented, duplicated   *)
(* or skipped.  Nothing is promised about how long a message stays inside, *)
(* so a path may lose the tail of what it was given (a closed socket) but  *)
(* never a message in the middle.                                          *)
(*                                                                         *)
(* TSQueue and Connection are shown to implement this module.              *)
(***************************************************************************)
EXTENDS Naturals, Sequences

CONSTANT Msgs       \* what can be sent

VARIABLES sent,     \* everything handed to the path, in order
          received  \* everything the path handed out, in order

chanVars == <<sent, received>>

Init ==
    /\ sent = <<>>
    /\ received = <<>>

Send ==
    /\ \E m \in Msgs : sent' = Append(sent, m)
    /\ UNCHANGED received

Receive ==
    /\ Len(received) < Len(sent)
    /\ received' = Append(received, sent[Len(received) + 1])
    /\ UNCHANGED sent

Next == Send \/ Receive

Spec == Init /\ [][Next]_chanVars
=============================================================================
