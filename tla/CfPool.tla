------------------------------- MODULE CfPool -------------------------------
(***************************************************************************)
(* The Cloudflare half of the pool (cf_get, cf_prefetch, cf_refill_reserved*)
(* in src/src/pool.rs) with the two rungs that use it (cf_worker, cf_proxy *)
(* and cf_target in src/src/proxy.rs): which domain a connection runs      *)
(* through, which one its spare runs through, and the `--cf-balance`       *)
(* counter they share.  Cooldowns of Workers are in module Ladder.         *)
(***************************************************************************)
EXTENDS Integers, Sequences, Functions

CONSTANTS
    Setups,        \* the tiers and settings of --cf-balance considered
    Keys,          \* the (dc, is_media) pairs of a tier
    Domains,       \* the configured domains, in order
    PoolSize,      \* --pool-size
    Clients,       \* connections being routed
    DialResults,   \* the ways one dial may end
    NoKey

ASSUME CfPoolAssumption ==
    /\ Setups \subseteq [tier : {"worker", "proxy"}, cf_balance : BOOLEAN]
    /\ NoKey \notin Keys
    /\ Domains \in Seq(Range(Domains)) /\ Domains # <<>>
    /\ PoolSize \in Nat
    /\ DialResults \subseteq {"connected", "failed"}

VARIABLES
    setup,         \* the tier and the setting of this process, which never change
    counter,       \* CF_BALANCE_COUNTER or CF_WORKER_BALANCE_COUNTER, mod Len(Domains)
    cf_idle,       \* the buckets, oldest entry first
    cf_refilling,  \* the buckets with a refill reserved
    task,          \* the refill task of each bucket
    client,        \* what each client is doing
    proven         \* history: the routes that have answered a client

vars == <<setup, counter, cf_idle, cf_refilling, task, client, proven>>

Tier == setup.tier
CfBalance == setup.cf_balance

-----------------------------------------------------------------------------
(***************************************************************************)
(* What a CfTarget dials: a Worker domain, or a Cloudflare proxy name that *)
(* is either the `kws{N}` record of a domain or the bare domain itself.    *)
(***************************************************************************)
Route == [domain : Range(Domains), expanded : BOOLEAN]

Inline(d) == [domain |-> d, expanded |-> Tier = "proxy"]   \* what the inline path dials

\* balance_offset: whether the counter is consumed, and the domain it selects.
Balancing == CfBalance /\ Len(Domains) > 1
Ticked == IF Balancing THEN (counter + 1) % Len(Domains) ELSE counter
Offset == IF Balancing THEN counter ELSE 0

domain_order(first) ==
    [i \in 1..Len(Domains) |-> Domains[((first + i - 1) % Len(Domains)) + 1]]

\* Mutant: the spare always takes the next domain in the rotation.
cf_targetMutAlwaysNext(route) == [domain |-> domain_order(Offset)[1], expanded |-> FALSE]

(***************************************************************************)
(* The route of the spare, off the one that just answered.                 *)
(***************************************************************************)
cf_target(route) ==
    IF CfBalance
    THEN [domain |-> domain_order(Offset)[1], expanded |-> FALSE]
    ELSE route

budget == IF PoolSize < 1 THEN PoolSize ELSE 1   \* CF_POOL_MAX.min(pool_size)

NoCall == [pc |-> "out", key |-> NoKey, todo |-> <<>>, target |-> {}]

-----------------------------------------------------------------------------
Init ==
    /\ setup \in Setups
    /\ counter = 0
    /\ cf_idle = [k \in Keys |-> <<>>]
    /\ cf_refilling = {}
    /\ task = [k \in Keys |-> <<>>]
    /\ client = [c \in Clients |-> NoCall]
    /\ proven = {}

(***************************************************************************)
(* An idle connection ages past --pool-max-age, or its server closes it.   *)
(***************************************************************************)
Spoil(k, i) ==
    /\ cf_idle[k][i].usable
    /\ cf_idle' = [cf_idle EXCEPT ![k][i].usable = FALSE]
    /\ UNCHANGED <<setup, counter, cf_refilling, task, client, proven>>

(***************************************************************************)
(* A client reaches the rung.  cf_proxy takes its place in the rotation    *)
(* before it looks into the pool, cf_worker after a miss.                  *)
(***************************************************************************)
Enter(c, k) ==
    /\ client[c].pc = "out"
    /\ client' = [client EXCEPT ![c] = [NoCall EXCEPT !.pc = "get", !.key = k,
                     !.todo = IF Tier = "proxy" THEN domain_order(Offset) ELSE <<>>]]
    /\ counter' = IF Tier = "proxy" THEN Ticked ELSE counter
    /\ UNCHANGED <<setup, cf_idle, cf_refilling, task, proven>>

(***************************************************************************)
(* cf_get under the lock: pop until an entry is usable.  A hit asks for a  *)
(* replacement through the route of the entry itself.                      *)
(***************************************************************************)
cf_get(c) ==
    LET k == client[c].key
        usable == {i \in 1..Len(cf_idle[k]) : cf_idle[k][i].usable}
    IN  /\ client[c].pc = "get"
        /\ \/ /\ usable = {}
              /\ cf_idle' = [cf_idle EXCEPT ![k] = <<>>]
              /\ client' = [client EXCEPT ![c].pc = "walk",
                               ![c].todo = IF Tier = "proxy" THEN @ ELSE domain_order(Offset)]
              /\ counter' = IF Tier = "proxy" THEN counter ELSE Ticked
           \/ \E i \in usable :
              /\ \A j \in usable : j <= i
              /\ cf_idle' = [cf_idle EXCEPT ![k] = SubSeq(@, 1, i - 1)]
              /\ client' = [client EXCEPT ![c].pc = "prefetch", ![c].todo = <<>>,
                                          ![c].target = {cf_idle[k][i].route}]
              /\ UNCHANGED counter
        /\ UNCHANGED <<setup, cf_refilling, task, proven>>

(***************************************************************************)
(* The inline walk over the domains.  Success evaluates cf_target, which   *)
(* takes another place in the rotation, before cf_prefetch looks at        *)
(* anything.                                                               *)
(***************************************************************************)
Dial(c, result) ==
    LET d == Head(client[c].todo) IN
    /\ client[c].pc = "walk"
    /\ client[c].todo # <<>>
    /\ IF result = "connected"
       THEN /\ client' = [client EXCEPT ![c].pc = "prefetch", ![c].todo = <<>>,
                                        ![c].target = {cf_target(Inline(d))}]
            /\ counter' = Ticked
            /\ proven' = proven \cup {Inline(d)}
       ELSE /\ client' = [client EXCEPT ![c].todo = Tail(@)]
            /\ UNCHANGED <<counter, proven>>
    /\ UNCHANGED <<setup, cf_idle, cf_refilling, task>>

Fail(c) ==
    /\ client[c].pc = "walk"
    /\ client[c].todo = <<>>
    /\ client' = [client EXCEPT ![c] = NoCall]
    /\ UNCHANGED <<setup, counter, cf_idle, cf_refilling, task, proven>>

\* Mutant: a bucket that is reserved is reserved again.
reserve_cf_refillMutTwice(k) == PoolSize # 0

(***************************************************************************)
(* cf_prefetch: reserve the bucket and spawn its refill, or do nothing.    *)
(***************************************************************************)
reserve_cf_refill(k) == PoolSize # 0 /\ k \notin cf_refilling

cf_prefetch(c) ==
    LET k == client[c].key IN
    /\ client[c].pc = "prefetch"
    /\ client' = [client EXCEPT ![c] = NoCall]
    /\ IF reserve_cf_refill(k)
       THEN /\ cf_refilling' = cf_refilling \cup {k}
            /\ \E route \in client[c].target :
                  task' = [task EXCEPT ![k] = Append(@, [pc |-> "spawned", route |-> route])]
       ELSE UNCHANGED <<cf_refilling, task>>
    /\ UNCHANGED <<setup, counter, cf_idle, proven>>

(***************************************************************************)
(* cf_refill_reserved: look, dial once, look again and push; the guard     *)
(* releases the reservation on every way out.                              *)
(***************************************************************************)
Ended(k, i) == [task EXCEPT ![k] = SubSeq(@, 1, i - 1) \o SubSeq(@, i + 1, Len(@))]

\* Mutant: the early return leaves the bucket reserved.
RefillLookMutKeepsReservation(k, i) ==
    /\ task[k][i].pc = "spawned"
    /\ task' = IF Len(cf_idle[k]) >= budget THEN Ended(k, i)
               ELSE [task EXCEPT ![k][i].pc = "dialing"]
    /\ UNCHANGED <<setup, counter, cf_idle, cf_refilling, client, proven>>

RefillLook(k, i) ==
    /\ task[k][i].pc = "spawned"
    /\ task' = [task EXCEPT ![k][i].pc =
                   IF Len(cf_idle[k]) >= budget THEN "release" ELSE "dialing"]
    /\ UNCHANGED <<setup, counter, cf_idle, cf_refilling, client, proven>>

cf_connect_one(k, i, result) ==
    /\ task[k][i].pc = "dialing"
    /\ task' = [task EXCEPT ![k][i].pc = IF result = "connected" THEN "push" ELSE "release"]
    /\ UNCHANGED <<setup, counter, cf_idle, cf_refilling, client, proven>>

RefillPush(k, i) ==
    /\ task[k][i].pc = "push"
    /\ task' = [task EXCEPT ![k][i].pc = "release"]
    /\ cf_idle' = [cf_idle EXCEPT ![k] =
          IF Len(@) < budget THEN Append(@, [route |-> task[k][i].route, usable |-> TRUE])
          ELSE @]
    /\ UNCHANGED <<setup, counter, cf_refilling, client, proven>>

RefillRelease(k, i) ==
    /\ task[k][i].pc = "release"
    /\ task' = Ended(k, i)
    /\ cf_refilling' = cf_refilling \ {k}
    /\ UNCHANGED <<setup, counter, cf_idle, client, proven>>

-----------------------------------------------------------------------------
RefillStep(k) ==
    \E i \in 1..Len(task[k]) :
        \/ RefillLook(k, i)
        \/ \E r \in DialResults : cf_connect_one(k, i, r)
        \/ RefillPush(k, i)
        \/ RefillRelease(k, i)

ClientStep(c) ==
    \/ cf_get(c)
    \/ \E r \in DialResults : Dial(c, r)
    \/ Fail(c)
    \/ cf_prefetch(c)

Next ==
    \/ \E k \in Keys : RefillStep(k) \/ \E i \in 1..Len(cf_idle[k]) : Spoil(k, i)
    \/ \E c \in Clients : ClientStep(c) \/ \E k \in Keys : Enter(c, k)

\* Tasks that can run are polled, and every dial has a timeout.
Fairness ==
    /\ \A k \in Keys : WF_vars(RefillStep(k))
    /\ \A c \in Clients : WF_vars(ClientStep(c))

Spec == Init /\ [][Next]_vars
FairSpec == Spec /\ Fairness

-----------------------------------------------------------------------------
TypeOK ==
    /\ setup \in Setups
    /\ counter \in 0..(Len(Domains) - 1)
    /\ cf_idle \in [Keys -> Seq([route : Route, usable : BOOLEAN])]
    /\ cf_refilling \subseteq Keys
    /\ task \in [Keys -> Seq([pc : {"spawned", "dialing", "push", "release"}, route : Route])]
    /\ client \in [Clients -> [pc : {"out", "get", "walk", "prefetch"},
                               key : Keys \cup {NoKey}, todo : Seq(Range(Domains)),
                               target : SUBSET Route]]
    /\ proven \subseteq Route

(***************************************************************************)
(* Each Cloudflare bucket costs someone else's account at most CF_POOL_MAX *)
(* connections: the idle one and the one a refill holds or dials together, *)
(* whatever the clients and the refills of a bucket interleave.            *)
(***************************************************************************)
Spares(k) ==
    LET held == {i \in 1..Len(task[k]) : task[k][i].pc \in {"dialing", "push"}}
    IN  Len(cf_idle[k]) + (IF held = {} THEN 0 ELSE 1)

OneSpare == \A k \in Keys : Len(task[k]) <= 1 /\ Spares(k) <= budget

(***************************************************************************)
(* The Cloudflare half is a SparePool too, which nothing warms: a bucket's *)
(* spare counts from the moment its refill decides to dial it, a bucket is *)
(* given one only by the one refill that reserved it, and never more than  *)
(* CF_POOL_MAX allows.                                                     *)
(***************************************************************************)
Delivered(k) == \E i \in 1..Len(task[k]) : task[k][i].pc # "spawned"

Stock == [k \in Keys |-> Spares(k)]

Refill(k) ==
    IF k \notin cf_refilling THEN "none" ELSE IF Delivered(k) THEN "delivered" ELSE "reserved"

Refills == [k \in Keys |-> Refill(k)]

Pool == INSTANCE SparePool WITH
    Limit <- budget, stock <- Stock, refill <- Refills, cold <- {}

ImplementsSparePool == Pool!Spec

(***************************************************************************)
(* Without --cf-balance "the spare is opened through a known-good route":  *)
(* every spare dials a name that has answered a client, and never a name   *)
(* the inline path would not dial.                                         *)
(***************************************************************************)
SpareRoutes ==
    UNION {{task[k][i].route : i \in 1..Len(task[k])} : k \in Keys}

SpareThroughProvenRoute == ~CfBalance => SpareRoutes \subseteq proven

(***************************************************************************)
(* A reserved bucket is always released again.                             *)
(***************************************************************************)
ReservationReleased == \A k \in Keys : k \in cf_refilling ~> k \notin cf_refilling

(***************************************************************************)
(* connect_cf_record_with_outbound: "Reconnect to a single                 *)
(* already-expanded `kws{N}` Cloudflare record".  What a spare of the      *)
(* proxy tier dials is a record, not a bare domain.                        *)
(***************************************************************************)
SpareDialsRecord == Tier = "proxy" => \A r \in SpareRoutes : r.expanded

=============================================================================
