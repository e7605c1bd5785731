-------------------------- MODULE MCSessionDaemon ---------------------------
(* The model checker's instance of SessionDaemon. *)
EXTENDS SessionDaemon, TLC
=============================================================================
