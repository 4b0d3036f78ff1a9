------------------------------- MODULE MCAttach -------------------------------
(* Attach for TLC; the bounds are in the configurations.                   *)
EXTENDS Attach
=============================================================================
