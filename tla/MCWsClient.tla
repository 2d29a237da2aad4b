----------------------------- MODULE MCWsClient -----------------------------
(* A small instance of WsClient for TLC. *)
EXTENDS WsClient, TLC

CONSTANTS e1, e2, e3, d1, d2, c1, c2

SomeLists == {<<e1, e2>>, <<e3>>, <<>>}
SomeDirect == {{e1, e2}}
SomeNetworks ==
    {[e \in Edges |-> "silent"], [e \in Edges |-> IF e = e1 THEN "serves" ELSE "refuses"]}
Repeated == <<d1, d2, d1>>
WalkAndOther == (c1 :> {"walk", "direct"}) @@ (c2 :> {"single"})
=============================================================================
