----------------------------- MODULE MC_HalRpc -----------------------------
(* Small instances of HalRpc for TLC. *)
EXTENDS HalRpcRefinement, TLC

CONSTANTS c1, c2, k1, k2, k3, k4, none, dead

TwoConns == {k1, k2}
OneClient == {c1}
TwoClients == {c1, c2}
ThreeConns == {k1, k2, k3}
FourConns == {k1, k2, k3, k4}

ReadAndWrite == {"get_topology", "submit_job"}

\* Connections are interchangeable, and so are clients.
ConnSymmetry == Permutations(Conns)
Symmetry == Permutations(Conns) \cup Permutations(Clients)

=============================================================================
