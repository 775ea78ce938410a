--------------------------- MODULE MCOsmlObject ---------------------------
(* Instances of OsmlObject for TLC. *)
EXTENDS OsmlObject, TLC

Symmetry == Permutations(Threads)
=============================================================================
