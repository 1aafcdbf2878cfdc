--------------------------- MODULE MCActionQueue ---------------------------
(* Instances of ActionQueue for TLC.                                       *)
EXTENDS ActionQueue, TLC

\* The addresses are interchangeable.
Symmetry == Permutations(Nodes)
=============================================================================
