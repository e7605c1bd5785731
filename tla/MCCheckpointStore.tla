------------------------- MODULE MCCheckpointStore -------------------------
(* Small instances of CheckpointStore for TLC. *)
EXTENDS CheckpointStore, TLC

Symmetry == Permutations(Creators)

\* The invariants claim nothing of a store that a rebuild has raced with, so
\* the states beyond that point are not explored.
BeforeRace == ~raced
=============================================================================
