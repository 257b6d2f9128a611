------------------------- MODULE MC_DaemonLifecycle -------------------------
(* Small instances of DaemonLifecycle for TLC. *)
EXTENDS DaemonLifecycle, TLC

CONSTANTS d1, d2, d3, nothing

TwoDaemons == {d1, d2}
ThreeDaemons == {d1, d2, d3}
DaemonSymmetry == Permutations(Daemons)

=============================================================================
