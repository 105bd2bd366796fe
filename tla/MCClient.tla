------------------------------ MODULE MCClient ------------------------------
(* Instances of Client for TLC: the properties need no definitions. *)
EXTENDS Client
=============================================================================
