----------------------------- MODULE MCSettings -----------------------------
(* Instances of Settings for TLC. *)
EXTENDS Settings, TLC

CONSTANTS phone, n1, c1, c2, c3

Blank     == [i \in Ids |-> None]
Known     == phone :> [vol |-> DefaultVol, name |-> n1] @@ Blank

\* Two controllers change a client that was renamed once and connects twice; a
\* controller changes one, while another, which may do so too, listens.
Renamed   == [made |-> 0, asked |-> 0, there |-> {c1, c2}, store |-> Known]
OneClient == [made |-> 1, asked |-> 0, there |-> {c1, c3}, store |-> Blank]
OneChange == [made |-> 0, asked |-> 1, there |-> {c1, c3}, store |-> Blank]

FewStarts == {Renamed, OneClient, OneChange}
=============================================================================
