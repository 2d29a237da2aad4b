----------------------------- MODULE SparePool ------------------------------
(***************************************************************************)
(* What a pool of spare connections promises, whatever fills it: each      *)
(* bucket has a stock of at most Limit connections that a refill may top   *)
(* up, one refill at a time, each delivering once; anyone may take from it *)
(* at any time; and a bucket may be given a first lot, once, blindly.      *)
(* The two halves of pool.rs implement it: WsPool and CfPool.              *)
(***************************************************************************)
EXTENDS Naturals

CONSTANTS
    Keys,     \* the buckets
    Limit     \* what a refill fills a bucket up to

VARIABLES
    stock,    \* the connections of each bucket
    refill,   \* its refill: "none", "reserved" until it delivers, "delivered"
    cold      \* the buckets whose first lot is still to come

vars == <<stock, refill, cold>>

Init ==
    /\ stock = [k \in Keys |-> 0]
    /\ refill = [k \in Keys |-> "none"]
    /\ cold \subseteq Keys

\* Nobody else is refilling the bucket: the refill is its own.
Reserve(k) ==
    /\ refill[k] = "none"
    /\ refill' = [refill EXCEPT ![k] = "reserved"]
    /\ UNCHANGED <<stock, cold>>

\* A refill delivers what it has, or nothing, and never above the limit.
Deliver(k) ==
    /\ refill[k] = "reserved"
    /\ refill' = [refill EXCEPT ![k] = "delivered"]
    /\ \E n \in 0..Limit :
          /\ n = 0 \/ stock[k] + n <= Limit
          /\ stock' = [stock EXCEPT ![k] = @ + n]
    /\ UNCHANGED cold

Release(k) ==
    /\ refill[k] = "delivered"
    /\ refill' = [refill EXCEPT ![k] = "none"]
    /\ UNCHANGED <<stock, cold>>

\* A connection is taken, and those found unusable on the way are dropped.
Take(k) ==
    /\ \E n \in 1..stock[k] : stock' = [stock EXCEPT ![k] = @ - n]
    /\ UNCHANGED <<refill, cold>>

\* The first lot: at most Limit, on top of whatever is there.
Warm(k) ==
    /\ k \in cold
    /\ cold' = cold \ {k}
    /\ \E n \in 0..Limit : stock' = [stock EXCEPT ![k] = @ + n]
    /\ UNCHANGED refill

Next == \E k \in Keys : Reserve(k) \/ Deliver(k) \/ Release(k) \/ Take(k) \/ Warm(k)

Spec == Init /\ [][Next]_vars

=============================================================================
