------------------------------ MODULE MCLadder ------------------------------
(* Small instances of Ladder for TLC. *)
EXTENDS Ladder, TLC

CONSTANTS k1, k2, k3, ip1, w1, w2, d1, u1

\* k1 and k3 share a --dc-ip target and k2 has none; k1 and k2 are pinned.
SharedTarget == (k1 :> ip1) @@ (k2 :> None) @@ (k3 :> ip1)
TwoPins == (k1 :> <<"cfworker", "ws", "mtproto">>) @@ (k2 :> <<"cfworker", "mtproto", "ws">>)
              @@ (k3 :> <<>>)

OneClass == (k1 :> ip1)
NoPin == (k1 :> <<>>)

NoNames == <<>>
OneWorker == <<w1>>
TwoWorkers == <<w1, w2>>
OneDomain == <<d1>>
OneUpstream == <<u1>>

Symmetry == Permutations(Conns)
=============================================================================
