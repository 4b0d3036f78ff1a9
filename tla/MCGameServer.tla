----------------------------- MODULE MCGameServer -----------------------------
(* GameServer for TLC; liveness is checked, so there is no symmetry.       *)
EXTENDS GameServer
=============================================================================
