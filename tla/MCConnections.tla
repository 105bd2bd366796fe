--------------------------- MODULE MCConnections ---------------------------
(* Instances of Connections for TLC. *)
EXTENDS Connections, TLC

Symmetry == Permutations(Fds) \cup Permutations(Slots)
=============================================================================
