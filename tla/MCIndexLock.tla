---------------------------- MODULE MCIndexLock ----------------------------
(* Small instances of IndexLock for TLC. *)
EXTENDS IndexLock, TLC

Symmetry == Permutations(Calls)
=============================================================================
