--------------------------- MODULE MCTerminalOutput ---------------------------
(* TerminalOutput for TLC: a marker of three bytes and one other byte.     *)
EXTENDS TerminalOutput

marker == <<"rs", "k", "us">>
=============================================================================
