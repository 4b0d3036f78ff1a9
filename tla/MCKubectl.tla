------------------------------ MODULE MCKubectl ------------------------------
(* Kubectl for TLC: goroutines and namespaces are interchangeable.         *)
EXTENDS Kubectl, TLC

Symmetry == Permutations(Calls) \cup Permutations(Ids)
=============================================================================
