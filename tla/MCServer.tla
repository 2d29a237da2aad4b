------------------------------ MODULE MCServer ------------------------------
(* Instances of Server for TLC; every constant gets its value in the .cfg. *)
EXTENDS Server
=============================================================================
