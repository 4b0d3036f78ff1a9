-------------------------------- MODULE MCPlayer --------------------------------
(* Player for TLC, with a catalog of three challenges.                     *)
EXTENDS Player

CONSTANTS ch1, ch2, ch3

Catalog == {ch1, ch2, ch3}
InOrder == <<ch1, ch2, ch3>>
=============================================================================
