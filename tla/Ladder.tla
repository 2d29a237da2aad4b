------------------------------- MODULE Ladder -------------------------------
(***************************************************************************)
(* Routing of client connections (select_upstream and the rungs it walks,  *)
(* src/src/proxy.rs).  Connections run concurrently and share the four     *)
(* process-wide cooldown maps.  Each map is behind its own mutex, held for *)
(* one read or write, so every read and every write is a step of its own.  *)
(*                                                                         *)
(* The pools (modules WsPool and CfPool) appear through what they promise: *)
(* a `get` hits or misses.  Domain rotation is in CfPool.                  *)
(***************************************************************************)
EXTENDS Integers, Sequences, Functions

CONSTANTS
    Conns,       \* client connections
    Classes,     \* the (dc, is_media) pairs clients ask for
    Ips,         \* --dc-ip addresses
    TargetIp,    \* [Classes -> Ips \cup {None}]: the --dc-ip target, if any
    None,
    Builtin,     \* the classes whose DC has a built-in address (fallback_ip)
    Pins,        \* [Classes -> Seq(Tiers)], <<>> where nothing is pinned
    Workers,     \* --cf-worker-domain, in order
    CfDomains,   \* --cf-domain, in order
    Upstreams,   \* --mtproto-proxy, in order
    CfBalance,   \* --cf-balance
    Expiring,    \* the cooldown keys whose cooldown may run out during the run
    MaxChanges   \* bound on the changes of the network

Tiers == {"ws", "cfworker", "cfproxy", "mtproto", "tcp"}

Targets(tier) ==
    CASE tier = "cfworker" -> Workers
      [] tier = "cfproxy"  -> CfDomains
      [] tier = "mtproto"  -> Upstreams
      [] OTHER             -> <<>>

Addresses == Ips \cup Range(Workers) \cup Range(CfDomains) \cup Range(Upstreams)

\* WS_FAIL is keyed by class, IP_FAIL by address, the other two by name.
CooldownKeys == Classes \cup Ips \cup Range(Workers) \cup Range(Upstreams)

ASSUME LadderAssumption ==
    /\ \A tier \in Tiers : Targets(tier) \in Seq(Range(Targets(tier)))
    /\ TargetIp \in [Classes -> Ips \cup {None}]
    /\ Builtin \subseteq Classes
    /\ CfBalance \in BOOLEAN
    /\ MaxChanges \in Nat
    /\ Expiring \subseteq CooldownKeys
    /\ Pins \in [Classes -> Seq(Tiers)]
    /\ \A k \in Classes : \A i \in 1..Len(Pins[k]) :   \* validate_pinned_upstreams
          Pins[k][i] \notin {"ws", "tcp"} => Targets(Pins[k][i]) # <<>>

\* The cooldown maps are apart: no key is a key of two of them.
ASSUME KeysApart ==
    /\ Classes \cap (Ips \cup Range(Workers) \cup Range(Upstreams)) = {}
    /\ Ips \cap (Range(Workers) \cup Range(Upstreams)) = {}
    /\ Range(Workers) \cap Range(Upstreams) = {}

VARIABLES
    cooling,   \* the keys whose cooldown is active
    net,       \* the addresses that can be reached
    changes,   \* how often the network has changed
    conn,      \* the routing of each connection
    owed       \* history: the addresses that have to serve each connection

vars == <<cooling, net, changes, conn, owed>>

Idle == [pc |-> "out", class |-> None, rungs |-> <<>>, todo |-> <<>>,
         probing |-> FALSE, steady |-> FALSE, dialled |-> FALSE, via |-> "none"]

-----------------------------------------------------------------------------
(***************************************************************************)
(* The ladder of a connection: its rungs in order.  `force` dials through  *)
(* a cooldown; only the pinned ladder's last resort does.  A pinned tier   *)
(* that pinned_ladder skips is a rung with nothing to dial.                *)
(***************************************************************************)
Rung(tier, force) == [tier |-> tier, force |-> force]

HasTarget(k) == TargetIp[k] # None

HasDestination(k) == HasTarget(k) \/ k \in Builtin

has_fallback == Workers # <<>> \/ CfDomains # <<>> \/ Upstreams # <<>>

fallback_chain == <<Rung("cfworker", FALSE), Rung("cfproxy", FALSE), Rung("mtproto", FALSE)>>

tier_attemptable(k, tier) ==
    CASE tier = "ws"  -> HasTarget(k)
      [] tier = "tcp" -> HasDestination(k)
      [] OTHER        -> Targets(tier) # <<>>

\* Mutant: any later rung counts, whether it can be dialled or not.
tier_attemptable_afterMutAny(k, i) == i < Len(Pins[k])

(***************************************************************************)
(* A pinned rung is walked unless it has nothing to dial; it is forced     *)
(* when no later tier is attemptable.                                      *)
(***************************************************************************)
tier_attemptable_after(k, i) ==
    \E j \in (i + 1)..Len(Pins[k]) : tier_attemptable(k, Pins[k][j])

Skipped(k, tier) ==
    \/ tier = "ws" /\ ~HasTarget(k)
    \/ tier \in {"cfworker", "tcp"} /\ ~HasDestination(k)

pinned_rung(k, i) ==
    Rung(IF Skipped(k, Pins[k][i]) THEN "skipped" ELSE Pins[k][i], ~tier_attemptable_after(k, i))

pinned_ladder(k) == [i \in 1..Len(Pins[k]) |-> pinned_rung(k, i)]

Reprobes(k) == HasTarget(k) /\ Pins[k] = <<>> /\ has_fallback /\ TargetIp[k] \in cooling

\* Mutant: an address in cooldown is not probed again after the fallbacks.
select_upstreamMutNoReprobe(k) ==
    LET ws == Rung("ws", FALSE)
        tcp == Rung("tcp", FALSE)
    IN  CASE Pins[k] # <<>> -> pinned_ladder(k)
          [] Pins[k] = <<>> /\ ~HasTarget(k) /\ k \notin Builtin -> <<>>
          [] Pins[k] = <<>> /\ ~HasTarget(k) /\ k \in Builtin -> Append(fallback_chain, tcp)
          [] Reprobes(k) -> Append(fallback_chain, tcp)
          [] OTHER -> <<ws>> \o Append(fallback_chain, tcp)

select_upstream(k) ==
    LET ws == Rung("ws", FALSE)
        tcp == Rung("tcp", FALSE)
    IN  CASE Pins[k] # <<>> -> pinned_ladder(k)
          [] Pins[k] = <<>> /\ ~HasTarget(k) /\ k \notin Builtin -> <<>>
          [] Pins[k] = <<>> /\ ~HasTarget(k) /\ k \in Builtin -> Append(fallback_chain, tcp)
          [] Reprobes(k) -> fallback_chain \o <<ws, tcp>>
          [] OTHER -> <<ws>> \o Append(fallback_chain, tcp)

(***************************************************************************)
(* The addresses that have to serve a connection routed by `rungs`: those  *)
(* that stay reachable from its start, stand before a terminal TCP rung,   *)
(* and have no cooldown, and no earlier dial still out, that excuses them. *)
(***************************************************************************)
AddressesOf(k, tier) == IF tier = "ws" THEN {TargetIp[k]} ELSE Range(Targets(tier))

Gated(tier) == tier \in {"cfworker", "mtproto"}

BeingDialled == {Head(conn[c].todo) : c \in {d \in Conns : conn[d].pc = "dialing"}}

Owed(k, rungs) ==
    LET before == {i \in 1..Len(rungs) : \A j \in 1..i : rungs[j].tier # "tcp"}
        excused(r) == IF Gated(r.tier) /\ ~r.force THEN cooling \cup BeingDialled ELSE {}
    IN  net \cap UNION {AddressesOf(k, rungs[i].tier) \ excused(rungs[i]) : i \in before}

-----------------------------------------------------------------------------
Init ==
    /\ cooling = {}
    /\ net = Addresses
    /\ changes = 0
    /\ conn = [c \in Conns |-> Idle]
    /\ owed = [c \in Conns |-> {}]

(***************************************************************************)
(* The environment: an address becomes unreachable or reachable, which     *)
(* may disturb the dials to it that are under way; a cooldown runs out.    *)
(***************************************************************************)
DialledBy(c) ==
    CASE conn[c].pc = "dialing" -> {Head(conn[c].todo)}
      [] conn[c].pc = "wsdialing" -> {TargetIp[conn[c].class]}
      [] OTHER -> {}

NetChange(a) ==
    /\ changes < MaxChanges
    /\ changes' = changes + 1
    /\ net' = IF a \in net THEN net \ {a} ELSE net \cup {a}
    /\ conn' = [c \in Conns |-> [conn[c] EXCEPT !.steady = conn[c].steady /\ a \notin DialledBy(c)]]
    /\ owed' = [c \in Conns |-> owed[c] \ {a}]
    /\ UNCHANGED cooling

Expire(x) ==
    /\ x \in cooling
    /\ cooling' = cooling \ {x}
    /\ UNCHANGED <<net, changes, conn, owed>>

(***************************************************************************)
(* A connection asks for a route; IP_FAIL is read here, once.              *)
(***************************************************************************)
Accept(c, k) ==
    LET rungs == select_upstream(k) IN
    /\ conn[c].pc = "out"
    /\ conn' = [conn EXCEPT ![c] = [Idle EXCEPT !.pc = "rung", !.class = k, !.rungs = rungs]]
    /\ owed' = [owed EXCEPT ![c] = Owed(k, rungs)]
    /\ UNCHANGED <<cooling, net, changes>>

Served(r, tier) == [r EXCEPT !.pc = "done", !.via = tier, !.todo = <<>>]
\* Mutant: the rung after the failed one is lost as well.
NextRungMutSkipsOne(r) ==
    [r EXCEPT !.pc = "rung",
              !.rungs = IF Len(r.rungs) > 2 THEN Tail(Tail(r.rungs)) ELSE Tail(r.rungs),
              !.todo = <<>>, !.probing = FALSE, !.steady = FALSE]

NextRung(r) == [r EXCEPT !.pc = "rung", !.rungs = Tail(r.rungs), !.todo = <<>>,
                         !.probing = FALSE, !.steady = FALSE]

(***************************************************************************)
(* Every rung failed: only a ladder without a terminal TCP rung gets here. *)
(***************************************************************************)
Drop(c) ==
    /\ conn[c].pc = "rung"
    /\ conn[c].rungs = <<>>
    /\ conn' = [conn EXCEPT ![c] = Served(conn[c], "dropped")]
    /\ UNCHANGED <<cooling, net, changes, owed>>

tcp_fallback(c) ==
    /\ conn[c].pc = "rung"
    /\ conn[c].rungs # <<>>
    /\ Head(conn[c].rungs).tier = "tcp"
    /\ conn' = [conn EXCEPT ![c] = Served(conn[c], "tcp")]
    /\ UNCHANGED <<cooling, net, changes, owed>>

(***************************************************************************)
(* A pool hit serves the connection without touching a cooldown.           *)
(***************************************************************************)
PoolHit(c) ==
    LET tier == Head(conn[c].rungs).tier IN
    /\ conn[c].pc = "rung"
    /\ conn[c].rungs # <<>>
    /\ tier \in {"ws", "cfworker", "cfproxy"}
    /\ tier # "ws" => Targets(tier) # <<>>
    /\ conn' = [conn EXCEPT ![c] = Served(conn[c], tier)]
    /\ UNCHANGED <<cooling, net, changes, owed>>

Rotations(s) == {[i \in 1..Len(s) |-> s[((i - 1 + o) % Len(s)) + 1]] : o \in 0..(Len(s) - 1)}

Orders(tier) ==
    IF CfBalance /\ tier \in {"cfworker", "cfproxy"} /\ Targets(tier) # <<>>
    THEN Rotations(Targets(tier)) ELSE {Targets(tier)}

(***************************************************************************)
(* cf_worker, cf_proxy and upstream_proxies: after a pool miss, every      *)
(* target in order; a gated one in cooldown is stepped over unless forced. *)
(***************************************************************************)
EnterTier(c) ==
    /\ conn[c].pc = "rung"
    /\ conn[c].rungs # <<>>
    /\ Head(conn[c].rungs).tier \in {"cfworker", "cfproxy", "mtproto", "skipped"}
    /\ \E order \in Orders(Head(conn[c].rungs).tier) :
          conn' = [conn EXCEPT ![c] = [conn[c] EXCEPT !.pc = "walk", !.todo = order]]
    /\ UNCHANGED <<cooling, net, changes, owed>>

InCooldown(c) ==
    LET rung == Head(conn[c].rungs) IN
    Gated(rung.tier) /\ ~rung.force /\ Head(conn[c].todo) \in cooling

NextTarget(r) == [r EXCEPT !.pc = "walk", !.todo = Tail(r.todo), !.steady = FALSE]

Dialling(r, pc) == [r EXCEPT !.pc = pc, !.steady = TRUE, !.dialled = TRUE]

\* Mutant: a target in cooldown is retried instead of stepped over.
WalkMutRetries(c) ==
    LET r == conn[c] IN
    /\ r.pc = "walk"
    /\ \/ r.todo = <<>> /\ conn' = [conn EXCEPT ![c] = NextRung(r)]
       \/ r.todo # <<>> /\ InCooldown(c) /\ conn' = conn
       \/ r.todo # <<>> /\ ~InCooldown(c) /\ conn' = [conn EXCEPT ![c] = Dialling(r, "dialing")]
    /\ UNCHANGED <<cooling, net, changes, owed>>

Walk(c) ==
    LET r == conn[c] IN
    /\ r.pc = "walk"
    /\ \/ r.todo = <<>> /\ conn' = [conn EXCEPT ![c] = NextRung(r)]
       \/ r.todo # <<>> /\ InCooldown(c) /\ conn' = [conn EXCEPT ![c] = NextTarget(r)]
       \/ r.todo # <<>> /\ ~InCooldown(c) /\ conn' = [conn EXCEPT ![c] = Dialling(r, "dialing")]
    /\ UNCHANGED <<cooling, net, changes, owed>>

\* How a dial to `a` may end: undisturbed, the network decides.
Ends(a, steady) == (IF a \in net \/ ~steady THEN {TRUE} ELSE {})
                     \cup (IF a \notin net \/ ~steady THEN {FALSE} ELSE {})

DialEnd(c) ==
    LET tier == Head(conn[c].rungs).tier
        a == Head(conn[c].todo)
    IN  /\ conn[c].pc = "dialing"
        /\ \E connected \in Ends(a, conn[c].steady) :
              /\ conn' = [conn EXCEPT ![c] =
                    IF connected THEN Served(conn[c], tier) ELSE NextTarget(conn[c])]
              /\ cooling' = IF ~Gated(tier) THEN cooling
                            ELSE IF connected THEN cooling \ {a} ELSE cooling \cup {a}
        /\ UNCHANGED <<net, changes, owed>>

(***************************************************************************)
(* direct_ws after a pool miss.  WS_FAIL is read here, to know whether this*)
(* is a probe; connect_ws reads it again for the timeout, whose length the *)
(* model leaves open.                                                      *)
(***************************************************************************)
WsMiss(c) ==
    /\ conn[c].pc = "rung"
    /\ conn[c].rungs # <<>>
    /\ Head(conn[c].rungs).tier = "ws"
    /\ conn' = [conn EXCEPT ![c] =
          [conn[c] EXCEPT !.pc = "wstimer", !.probing = conn[c].class \in cooling]]
    /\ UNCHANGED <<cooling, net, changes, owed>>

connect_ws(c) ==
    /\ conn[c].pc = "wstimer"
    /\ conn' = [conn EXCEPT ![c] = Dialling(conn[c], "wsdialing")]
    /\ UNCHANGED <<cooling, net, changes, owed>>

WsConnected(c) ==
    /\ conn[c].pc = "wsdialing"
    /\ TRUE \in Ends(TargetIp[conn[c].class], conn[c].steady)
    /\ cooling' = cooling \ {conn[c].class}
    /\ conn' = [conn EXCEPT ![c] = [conn[c] EXCEPT !.pc = "wsclear"]]
    /\ UNCHANGED <<net, changes, owed>>

WsClearIp(c) ==
    /\ conn[c].pc = "wsclear"
    /\ cooling' = cooling \ {TargetIp[conn[c].class]}
    /\ conn' = [conn EXCEPT ![c] = Served(conn[c], "ws")]
    /\ UNCHANGED <<net, changes, owed>>

\* connect_timed_out: the TCP connect itself ran out the clock.
WsFailed(c, connect_timed_out) ==
    /\ conn[c].pc = "wsdialing"
    /\ FALSE \in Ends(TargetIp[conn[c].class], conn[c].steady)
    /\ cooling' = cooling \cup {conn[c].class}
    /\ conn' = [conn EXCEPT ![c] = IF connect_timed_out /\ ~conn[c].probing
                                   THEN [conn[c] EXCEPT !.pc = "wscool"] ELSE NextRung(conn[c])]
    /\ UNCHANGED <<net, changes, owed>>

cool_down_ip(c) ==
    /\ conn[c].pc = "wscool"
    /\ cooling' = cooling \cup {TargetIp[conn[c].class]}
    /\ conn' = [conn EXCEPT ![c] = NextRung(conn[c])]
    /\ UNCHANGED <<net, changes, owed>>

Finish(c) ==
    /\ conn[c].pc = "done"
    /\ conn' = [conn EXCEPT ![c] = Idle]
    /\ owed' = [owed EXCEPT ![c] = {}]
    /\ UNCHANGED <<cooling, net, changes>>

-----------------------------------------------------------------------------
Route(c) ==
    \/ Drop(c) \/ tcp_fallback(c) \/ PoolHit(c) \/ EnterTier(c) \/ Walk(c) \/ DialEnd(c)
    \/ WsMiss(c) \/ connect_ws(c) \/ WsConnected(c) \/ WsClearIp(c)
    \/ (\E timed_out \in BOOLEAN : WsFailed(c, timed_out)) \/ cool_down_ip(c)

Next ==
    \/ \E a \in Addresses : NetChange(a)
    \/ \E x \in Expiring : Expire(x)
    \/ \E c \in Conns : Route(c) \/ Finish(c) \/ \E k \in Classes : Accept(c, k)

(***************************************************************************)
(* Every connection is polled and every dial has a timeout, except the     *)
(* wait for a FakeTLS upstream's hello, so that this is for configurations *)
(* without one; clients keep connecting.  A pool drains: the direct one is *)
(* not refilled while the address is cooling (the `allow_refill` veto), a  *)
(* Cloudflare one while none of its domains answers, so a get that is      *)
(* repeated there misses.                                                  *)
(***************************************************************************)
DrainedWs(c) == WsMiss(c) /\ TargetIp[conn[c].class] \in cooling

DrainedCf(c, tier) ==
    EnterTier(c) /\ Head(conn[c].rungs).tier = tier /\ net \cap Range(Targets(tier)) = {}

Fairness ==
    \A c \in Conns : /\ WF_vars(Route(c))
                     /\ WF_vars(Finish(c) \/ \E k \in Classes : Accept(c, k))
                     /\ SF_vars(DrainedWs(c))
                     /\ \A tier \in {"cfworker", "cfproxy"} : SF_vars(DrainedCf(c, tier))

Spec == Init /\ [][Next]_vars
FairSpec == Spec /\ Fairness

-----------------------------------------------------------------------------
Rungs == [tier : Tiers \cup {"skipped"}, force : BOOLEAN]

Routing ==
    [pc : {"out", "rung", "walk", "dialing", "wstimer", "wsdialing", "wsclear", "wscool", "done"},
     class : Classes \cup {None}, rungs : Seq(Rungs), todo : Seq(Addresses),
     probing : BOOLEAN, steady : BOOLEAN, dialled : BOOLEAN,
     via : Tiers \cup {"none", "dropped"}]

TypeOK ==
    /\ cooling \subseteq CooldownKeys
    /\ net \subseteq Addresses
    /\ changes \in 0..MaxChanges
    /\ conn \in [Conns -> Routing]
    /\ owed \in [Conns -> SUBSET Addresses]
    /\ \A c \in Conns :
          /\ conn[c].pc # "out" => conn[c].class \in Classes
          /\ conn[c].pc \notin {"out", "rung", "done"} => conn[c].rungs # <<>>
          /\ conn[c].pc = "dialing" => conn[c].todo # <<>>

(***************************************************************************)
(* A connection ends on raw TCP, or is dropped, only when no tier of its   *)
(* ladder could have served it: every direct address and every Cloudflare  *)
(* proxy domain ahead was unreachable at some time since it was accepted,  *)
(* and so was every Worker and every upstream proxy that was not cooling   *)
(* then, or that is the last resort of a pin.  Cooldowns set and cleared   *)
(* by other connections in the meantime do not change that.                *)
(***************************************************************************)
ReachableTierServes ==
    \A c \in Conns :
        conn[c].pc = "done" /\ conn[c].via \in {"tcp", "dropped"} => owed[c] = {}

(***************************************************************************)
(* pinned_ladder: a pin "has no next rung, so respecting the skip would    *)
(* turn one transient failure into a cooldown-length outage".  A pinned    *)
(* connection with something to dial is never dropped without a dial, if   *)
(* there is an address for its DC: tier_attemptable_after counts cfworker  *)
(* for a DC without one, where pinned_ladder skips it.                     *)
(***************************************************************************)
AllSkipped(k) == \A i \in 1..Len(Pins[k]) : Skipped(k, Pins[k][i])

PinnedDropDialled ==
    \A c \in Conns :
        conn[c].pc = "done" /\ conn[c].via = "dropped" /\ HasDestination(conn[c].class) =>
            conn[c].dialled \/ AllSkipped(conn[c].class)

(***************************************************************************)
(* Every connection is routed or dropped in the end.                       *)
(***************************************************************************)
Routed == \A c \in Conns : conn[c].pc = "rung" ~> conn[c].pc = "done"

(***************************************************************************)
(* "That is what makes the cooldown self-healing": once a direct address   *)
(* answers again and stays up while no fallback tier works, its cooldown   *)
(* is lifted by a direct connect, without waiting for it to run out.       *)
(***************************************************************************)
FallbacksDown == net \subseteq Ips

IpCooldownHeals ==
    \A ip \in Ips : <>[](ip \in net /\ FallbacksDown) => []<>(ip \notin cooling)

=============================================================================
