----------------------------- MODULE MCSession -----------------------------
(* Session for TLC; its constants are given in the configurations. *)
EXTENDS Session

=============================================================================
