----------------------------- MODULE MCPlayback -----------------------------
(* An instance of Playback for TLC.  A frame of 20 ms is three units, so that
   part of it can be held back and the rest be within a unit of the schedule. *)
EXTENDS Playback

SomeGaps  == {-(Restart + 1), 0, 1}
SomeSteps == {-2, 3}
=============================================================================
