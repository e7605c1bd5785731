------------------------- MODULE MCUndoCheckpoint -------------------------
(* Small instances of UndoCheckpoint for TLC. *)
EXTENDS UndoCheckpoint, TLC

Symmetry == Permutations(Files)
=============================================================================
