--------------------------- MODULE MCTrigramIndex ---------------------------
(* Small instances of TrigramIndex for TLC. *)
EXTENDS TrigramIndex, TLC

Symmetry == Permutations(Calls)
=============================================================================
