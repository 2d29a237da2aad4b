----------------------------- MODULE MCSession ------------------------------
(* Instances of Session for TLC; every constant gets its value in the .cfg. *)
EXTENDS Session
=============================================================================
