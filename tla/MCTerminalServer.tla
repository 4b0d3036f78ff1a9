--------------------------- MODULE MCTerminalServer ---------------------------
(* TerminalServer for TLC; the bounds are in the configurations.           *)
EXTENDS TerminalServer
=============================================================================
