------------------------------- MODULE MCGrading -------------------------------
(* Grading for TLC, on every challenge there is.                           *)
EXTENDS Grading

AllChallenges == DOMAIN allChallenges
=============================================================================
