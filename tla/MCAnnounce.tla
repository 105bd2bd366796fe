----------------------------- MODULE MCAnnounce -----------------------------
(* Instances of Announce for TLC: every phone has an address of its own.   *)
EXTENDS Announce, TLC
CONSTANTS p1, p2, a1, a2
Apart == p1 :> a1 @@ p2 :> a2
=============================================================================
