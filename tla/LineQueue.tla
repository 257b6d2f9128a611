------------------------------ MODULE LineQueue ------------------------------
(* One direction of a connection as HalRpc sees it: whole lines, received in *)
(* the order in which they were sent.  What is under way when the connection *)
(* is closed is simply never received.                                       *)
EXTENDS Naturals, Sequences

CONSTANT Line

VARIABLES
    sent,      \* the lines one end has sent
    received   \* the lines the other end has received

Init == sent = <<>> /\ received = <<>>

Send ==
    /\ \E line \in Line : sent' = Append(sent, line)
    /\ UNCHANGED received

Receive ==
    /\ Len(received) < Len(sent)
    /\ received' = Append(received, sent[Len(received) + 1])
    /\ UNCHANGED sent

Next == Send \/ Receive

Spec == Init /\ [][Next]_<<sent, received>>

=============================================================================
