--------------------------- MODULE MCClientStore ---------------------------
(* An instance of ClientStore for TLC: three clients, keys all different.   *)
EXTENDS ClientStore, TLC

CONSTANTS a, b, c, k1, k2, k3

ThreeIds  == {a, b, c}
ThreeKeys == {k1, k2, k3}
ThreeKey  == (a :> k1) @@ (b :> k2) @@ (c :> k3)
=============================================================================
