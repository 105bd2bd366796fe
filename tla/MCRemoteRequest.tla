-------------------------- MODULE MCRemoteRequest --------------------------
(* Instances of RemoteRequest for TLC. *)
EXTENDS RemoteRequest, TLC

Symmetry == Permutations(Callers) \cup Permutations(Slots)
=============================================================================
