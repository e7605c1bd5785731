------------------------------ MODULE MCLedger ------------------------------
(* Bounds and symmetry for the runs of Ledger. *)
EXTENDS Ledger, TLC

Symmetry == Permutations(Calls)
=============================================================================
