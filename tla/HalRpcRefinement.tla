-------------------------- MODULE HalRpcRefinement --------------------------
(***************************************************************************)
(* HalRpc implements CallPromise: a call is busy while _call runs, and a   *)
(* request is on its way while a connection carries a copy of it that no   *)
(* thread has executed yet.                                                *)
(***************************************************************************)
EXTENDS HalRpcInv

OnItsWay == {r \in Request : Carriers(r) # {}}

Promise == INSTANCE CallPromise WITH
    busy <- [c \in Clients |-> pc[c] # "idle"],
    onItsWay <- OnItsWay

\* The protocol keeps the client's promise, through lost connections, retries,
\* timeouts and crashes: no call returns an answer that is not its own or that
\* nobody computed, nothing is executed that was not sent, too often, or by a
\* client that never called.
KeepsPromise == Promise!Spec

=============================================================================
