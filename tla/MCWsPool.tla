------------------------------ MODULE MCWsPool ------------------------------
(* Small instances of WsPool for TLC. *)
EXTENDS WsPool, TLC

\* The tasks of one kind are interchangeable (safety runs only).
Symmetry == Permutations(Clients) \cup Permutations(Tasks)

=============================================================================
