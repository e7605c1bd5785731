---------------------------- MODULE MCLspClient -----------------------------
(* The model checker's instance of LspClient. *)
EXTENDS LspClient, TLC
=============================================================================
