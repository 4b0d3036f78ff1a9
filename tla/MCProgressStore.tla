---------------------------- MODULE MCProgressStore ----------------------------
(* ProgressStore for TLC; processes and challenges are model values.       *)
EXTENDS ProgressStore
=============================================================================
