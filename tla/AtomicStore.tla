------------------------------ MODULE AtomicStore ------------------------------
(***************************************************************************)
(* What the progress file promises, as if it were one variable: marks are  *)
(* saved one at a time, none is ever taken back, and what a player is told *)
(* is saved has been.  It knows no files and no processes; ProgressStore   *)
(* implements it for a player with one client.                             *)
(***************************************************************************)
CONSTANT Challenges

VARIABLES
  saved,     \* the marks that a new client will find
  confirmed  \* those the player has been told of

vars == <<saved, confirmed>>

Init == saved = {} /\ confirmed = {}

(* A completion is saved, with or without a word to the player ...         *)
Save(c) ==
  /\ saved' = saved \cup {c}
  /\ confirmed' \in {confirmed, confirmed \cup {c}}

(* ... who may be told of it once more.                                    *)
Confirm(c) ==
  /\ c \in saved
  /\ confirmed' = confirmed \cup {c}
  /\ UNCHANGED saved

Next == \E c \in Challenges : Save(c) \/ Confirm(c)

Spec == Init /\ [][Next]_vars
=============================================================================
