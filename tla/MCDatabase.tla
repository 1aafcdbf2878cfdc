----------------------------- MODULE MCDatabase -----------------------------
(* Instances of Database for TLC.                                          *)
EXTENDS Database, TLC

\* The query texts are interchangeable.
Symmetry == Permutations(Texts)
=============================================================================
