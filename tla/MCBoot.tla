------------------------------- MODULE MCBoot -------------------------------
(* Values for the model checking of Boot. *)
EXTENDS Boot

CONSTANTS on, off, default, bad, pot, page, server

TwoKnobs == {NoKnob, pot}

\* The default knob sits on a pin that the bad assignment takes.
OneClash == {<<bad, pot>>}

=============================================================================
