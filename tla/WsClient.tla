------------------------------ MODULE WsClient ------------------------------
(***************************************************************************)
(* The connects of src/src/ws_client.rs: the walk over the Cloudflare      *)
(* domains (CfAttempts), the walk over the edges of --cf-ip inside each    *)
(* attempt, the cooldowns and the rotation that all calls share, and the   *)
(* walk over the two hostnames of a DC's own endpoint.                     *)
(*                                                                         *)
(* A call is a "walk" over the domains (the proxy tier), a "single" name   *)
(* (a Worker, or the record of a spare), or a "direct" one.  Between two   *)
(* dials a call only touches the shared maps, under their lock.  One map   *)
(* of edge cooldowns is enough: --cf-disable-tls selects it for good.      *)
(***************************************************************************)
EXTENDS Integers, Sequences, FiniteSets, Functions

CONSTANTS
    IpLists,     \* the lists of --cf-ip considered
    Anycast,     \* the edge that DNS selects
    DirectSets,  \* which edges are dialled without the outbound proxy
    Domains,     \* the configured domains, in order
    FirstDomains, \* where in the list a walk may begin
    Networks,    \* how the edges may behave at first
    Calls,       \* connects in progress
    Kinds,       \* what each of them may be
    MaxChanges   \* bound on the changes of the network

Edges == (UNION {Range(ips) : ips \in IpLists}) \cup {Anycast}
Behaviours == {"serves", "refuses", "silent"}

ASSUME WsClientAssumption ==
    /\ \A ips \in IpLists : ips \in Seq(Range(ips)) /\ Anycast \notin Range(ips)
    /\ \A edges \in DirectSets : Anycast \notin edges   \* it has no cooldown
    /\ Domains \in Seq(Range(Domains)) /\ Domains # <<>>
    /\ FirstDomains \subseteq Nat
    /\ Networks \subseteq [Edges -> Behaviours]
    /\ Kinds \in [Calls -> SUBSET {"walk", "single", "direct"}]
    /\ MaxChanges \in Nat

VARIABLES
    cf_ips, direct,  \* the settings of the process, which never change
    net,             \* how each edge behaves
    changes,         \* changes of the network so far
    rotation,        \* CF_IP_ROTATION, modulo the number of edges
    cooling,         \* the edges in CF_EDGE_TLS_FAIL (or CF_EDGE_PLAINTEXT_FAIL)
    pc, kind,        \* where each call is, and what it is
    attempts,        \* its CfAttempts, and the domain being tried
    path,            \* its connect_cf_with_path
    flags,           \* its WsAttempt: what it has found out, then what it returned
    outcomes,        \* history: how its dials have ended
    steady,          \* history: the edges that have served and not cooled all along
    tries, slow      \* history: the attempts per domain, and whose first one timed out

config == <<cf_ips, direct>>
calls == <<pc, kind, attempts, path, flags>>
history == <<outcomes, steady, tries, slow>>
vars == <<cf_ips, direct, net, changes, rotation, cooling, calls, history>>

Outcomes == {"connected", "redirect", "failed", "timed_out", "connect_timed_out"}
TimedOut == {"timed_out", "connect_timed_out"}
None == "none"
NoRetry == -1

(***************************************************************************)
(* The iterator of CfAttempts (of a direct call, the hostnames tried); the *)
(* edges left in an attempt as offsets from `first`, how the one dialled   *)
(* behaved when the dial began, the last outcome that was not a redirect   *)
(* and whether there was one; the WsAttempt.                               *)
(***************************************************************************)
NoAttempts == [first_domain |-> 0, next_ordinal |-> 0, pending_retry |-> NoRetry, domain |-> None]
NoPath == [first |-> 0, left |-> {}, sent |-> None, last |-> None, redirected |-> FALSE]
NoFlags == [ws |-> FALSE, all_redirects |-> TRUE,
            upgrade_timed_out |-> FALSE, connect_timed_out |-> FALSE]
Connected == [ws |-> TRUE, all_redirects |-> FALSE,
              upgrade_timed_out |-> FALSE, connect_timed_out |-> FALSE]
NoTries == [d \in Range(Domains) |-> 0]

(***************************************************************************)
(* The edge at an offset from the one a call starts with; without --cf-ip  *)
(* the name is dialled as it is.                                           *)
(***************************************************************************)
EdgeFrom(ips, first, o) ==
    IF ips = <<>> THEN Anycast ELSE ips[((first + o) % Len(ips)) + 1]

Offsets(ips) == IF ips = <<>> THEN {0} ELSE 0..(Len(ips) - 1)

InUse == {EdgeFrom(cf_ips, 0, o) : o \in Offsets(cf_ips)}

Init ==
    /\ cf_ips \in IpLists
    /\ direct \in DirectSets
    /\ \E n \in Networks : net = [e \in InUse |-> n[e]]
    /\ changes = 0
    /\ rotation = 0
    /\ cooling = {}
    /\ pc = [c \in Calls |-> "out"]
    /\ kind = [c \in Calls |-> None]
    /\ attempts = [c \in Calls |-> NoAttempts]
    /\ path = [c \in Calls |-> NoPath]
    /\ flags = [c \in Calls |-> NoFlags]
    /\ outcomes = [c \in Calls |-> {}]
    /\ steady = [c \in Calls |-> {}]
    /\ tries = [c \in Calls |-> NoTries]
    /\ slow = [c \in Calls |-> {}]

NetChange(e, behaviour) ==
    /\ changes < MaxChanges
    /\ changes' = changes + 1
    /\ net' = [net EXCEPT ![e] = behaviour]
    /\ steady' = [c \in Calls |-> IF behaviour = "serves" THEN steady[c] ELSE steady[c] \ {e}]
    /\ UNCHANGED <<config, rotation, cooling, calls, outcomes, tries, slow>>

\* CooldownMap::active turns false.
Expire(e) ==
    /\ e \in cooling
    /\ cooling' = cooling \ {e}
    /\ UNCHANGED <<config, net, changes, rotation, calls, history>>

-----------------------------------------------------------------------------
(***************************************************************************)
(* CfAttempts: each domain twice in a row, duplicates skipped.             *)
(***************************************************************************)
DomainAt(first, ordinal) == Domains[((first + ordinal) % Len(Domains)) + 1]

Fresh(a) ==
    {o \in a.next_ordinal..(Len(Domains) - 1) :
        \A prior \in 0..(o - 1) : DomainAt(a.first_domain, prior) # DomainAt(a.first_domain, o)}

Smallest(S) == CHOOSE m \in S : \A n \in S : m <= n

\* Mutant: there is no retry.
next_domainMutOnce(a) ==
    [a EXCEPT !.domain = DomainAt(a.first_domain, Smallest(Fresh(a))),
              !.next_ordinal = Smallest(Fresh(a)) + 1]

next_domain(a) ==
    IF a.pending_retry # NoRetry
    THEN [a EXCEPT !.domain = DomainAt(a.first_domain, a.pending_retry),
                   !.pending_retry = NoRetry]
    ELSE [a EXCEPT !.domain = DomainAt(a.first_domain, Smallest(Fresh(a))),
                   !.next_ordinal = Smallest(Fresh(a)) + 1,
                   !.pending_retry = Smallest(Fresh(a))]

HasNext(a) == a.pending_retry # NoRetry \/ Fresh(a) # {}

-----------------------------------------------------------------------------
(***************************************************************************)
(* The edges of one attempt, as offsets from `first`: those that are not   *)
(* cooling; just the first when all of them are.  Both are decided under   *)
(* one lock, at one time.                                                  *)
(***************************************************************************)
CoolingAt(ips, first, o) == EdgeFrom(ips, first, o) \in direct \cap cooling

\* Mutant: the edges are not looked at together.
cf_ip_attemptsMutSkipsAll(ips, first) == {o \in Offsets(ips) : ~CoolingAt(ips, first, o)}

\* Mutant: one edge per attempt.
cf_ip_attemptsMutOne(ips, first) ==
    IF \A o \in Offsets(ips) : CoolingAt(ips, first, o) THEN {0}
    ELSE {Smallest({o \in Offsets(ips) : ~CoolingAt(ips, first, o)})}

cf_ip_attempts(ips, first) ==
    IF \A o \in Offsets(ips) : CoolingAt(ips, first, o) THEN {0}
    ELSE {o \in Offsets(ips) : ~CoolingAt(ips, first, o)}

\* Mutant: every call starts with the first edge.
cf_ip_startMutFirst(ips) == 0

cf_ip_start(ips) == IF Len(ips) <= 1 THEN 0 ELSE rotation

(***************************************************************************)
(* How a dial may end, by the behaviour of the edge: a refusal, a redirect *)
(* or a handshake that stalls is an answer.  Behind the outbound proxy the *)
(* silence of the edge is what the proxy makes of it.                      *)
(***************************************************************************)
connect_ws_with_path(e, behaviour) ==
    CASE behaviour = "serves" -> {"connected"}
      [] behaviour = "refuses" -> {"redirect", "failed", "timed_out"}
      [] behaviour = "silent" ->
            {"connect_timed_out"} \cup (IF e \in direct THEN {} ELSE {"failed"})

-----------------------------------------------------------------------------
Return(c, result) ==
    /\ pc' = [pc EXCEPT ![c] = "done"]
    /\ attempts' = [attempts EXCEPT ![c] = NoAttempts]
    /\ path' = [path EXCEPT ![c] = NoPath]
    /\ flags' = [flags EXCEPT ![c] = result]
    /\ UNCHANGED kind

Begin(c, k, first) ==
    /\ pc[c] \in {"out", "done"}
    /\ pc' = [pc EXCEPT ![c] = IF k = "direct" THEN "direct" ELSE "attempt"]
    /\ kind' = [kind EXCEPT ![c] = k]
    /\ attempts' = [attempts EXCEPT ![c] = [NoAttempts EXCEPT !.first_domain = first % Len(Domains)]]
    /\ flags' = [flags EXCEPT ![c] = NoFlags]
    /\ outcomes' = [outcomes EXCEPT ![c] = {}]
    /\ steady' = [steady EXCEPT ![c] = {e \in InUse : net[e] = "serves" /\ e \notin cooling}]
    /\ tries' = [tries EXCEPT ![c] = NoTries]
    /\ slow' = [slow EXCEPT ![c] = {}]
    /\ UNCHANGED <<config, net, changes, rotation, cooling, path>>

(***************************************************************************)
(* connect_cf_with_path for the next name: a place in the rotation, and    *)
(* the edges to try.                                                       *)
(***************************************************************************)
\* The behaviour of the next edge when its dial begins.
NextSent(first, left) ==
    IF left = {} THEN None ELSE net[EdgeFrom(cf_ips, first, Smallest(left))]

Attempt(c) ==
    LET first == cf_ip_start(cf_ips)
        left == cf_ip_attempts(cf_ips, first)
    IN
    /\ pc[c] = "attempt"
    /\ pc' = [pc EXCEPT ![c] = "edge"]
    /\ IF kind[c] = "walk"
       THEN HasNext(attempts[c]) /\ attempts' = [attempts EXCEPT ![c] = next_domain(@)]
       ELSE UNCHANGED attempts
    /\ path' = [path EXCEPT ![c] = [NoPath EXCEPT !.first = first, !.left = left,
                                                  !.sent = NextSent(first, left)]]
    /\ rotation' = IF Len(cf_ips) <= 1 THEN rotation ELSE (rotation + 1) % Len(cf_ips)
    /\ UNCHANGED <<config, net, changes, cooling, kind, flags, history>>

(***************************************************************************)
(* The dial of an edge ends.  Only the silence of an edge that is dialled  *)
(* directly cools it down; any answer clears it.                           *)
(***************************************************************************)
Cooled(e, outcome) ==
    IF outcome = "connect_timed_out" THEN cooling \cup ({e} \cap direct) ELSE cooling \ {e}

\* Of a Cloudflare call it matters whether it met anything but redirects; of a success, nothing.
Remembered(c, outcome) ==
    IF outcome = "connected" THEN {}
    ELSE outcomes[c] \cup {IF kind[c] = "direct" \/ outcome = "redirect" THEN outcome ELSE "other"}

Forgotten(c, outcome) ==
    IF outcome = "connected"
    THEN tries' = [tries EXCEPT ![c] = NoTries] /\ slow' = [slow EXCEPT ![c] = {}]
    ELSE UNCHANGED <<tries, slow>>

FailedDial(p, outcome, sent) ==
    [p EXCEPT !.left = @ \ {Smallest(@)},
              !.last = IF outcome = "redirect" THEN @ ELSE outcome,
              !.redirected = @ \/ outcome = "redirect",
              !.sent = sent]

Dialled(c) == EdgeFrom(cf_ips, path[c].first, Smallest(path[c].left))

EdgeEnds(c, outcome) ==
    LET left == path[c].left \ {Smallest(path[c].left)} IN
    /\ pc[c] = "edge"
    /\ path[c].left # {}
    /\ outcome \in connect_ws_with_path(Dialled(c), path[c].sent)
                     \cup connect_ws_with_path(Dialled(c), net[Dialled(c)])
    /\ cooling' = Cooled(Dialled(c), outcome)
    /\ IF outcome = "connected"
       THEN Return(c, Connected)
       ELSE /\ path' = [path EXCEPT ![c] = FailedDial(@, outcome, NextSent(@.first, left))]
            /\ UNCHANGED <<pc, kind, attempts, flags>>
    /\ outcomes' = [outcomes EXCEPT ![c] = Remembered(c, outcome)]
    /\ steady' = [x \in Calls |-> IF x = c /\ outcome = "connected" THEN {}
                                  ELSE steady[x] \ cooling']
    /\ Forgotten(c, outcome)
    /\ UNCHANGED <<config, net, changes, rotation>>

(***************************************************************************)
(* All edges of the attempt have failed: a walk goes on to the next name,  *)
(* without the retry if it took the whole timeout; a single name is done.  *)
(***************************************************************************)
note_timed_out(a, result) ==
    [a EXCEPT !.domain = None,
              !.pending_retry = IF result \in TimedOut THEN NoRetry ELSE @]

PathResult(c) == IF path[c].last = None THEN "redirect" ELSE path[c].last

WalkGoesOn(c) ==
    LET result == PathResult(c)
        d == attempts[c].domain
    IN
    /\ pc' = [pc EXCEPT ![c] = "attempt"]
    /\ attempts' = [attempts EXCEPT ![c] = note_timed_out(@, result)]
    /\ path' = [path EXCEPT ![c] = NoPath]
    /\ flags' = [flags EXCEPT ![c].all_redirects = @ /\ result = "redirect"]
    /\ tries' = [tries EXCEPT ![c][d] = @ + 1]
    /\ slow' = [slow EXCEPT ![c] =
          IF result \in TimedOut /\ tries[c][d] = 0 THEN @ \cup {d} ELSE @]
    /\ UNCHANGED kind

PathReturns(c) ==
    /\ pc[c] = "edge"
    /\ path[c].left = {}
    /\ \/ kind[c] = "single" /\ Return(c, flags[c]) /\ UNCHANGED <<tries, slow>>
       \/ kind[c] = "walk" /\ WalkGoesOn(c)
    /\ UNCHANGED <<config, net, changes, rotation, cooling, outcomes, steady>>

WalkFails(c) ==
    /\ pc[c] = "attempt"
    /\ kind[c] = "walk" /\ ~HasNext(attempts[c])
    /\ Return(c, flags[c])
    /\ UNCHANGED <<config, net, changes, rotation, cooling, history>>

(***************************************************************************)
(* connect_ws_for_dc_with_outbound: the two hostnames of a DC, at one      *)
(* address; what is found out about it is told by three flags.             *)
(***************************************************************************)
Hostnames == 2

\* Mutant: a connect that stalls is reported as a stalled handshake.
FlaggedMutOneTimeout(f, outcome) ==
    [f EXCEPT !.all_redirects = @ /\ outcome = "redirect",
              !.upgrade_timed_out = @ \/ outcome \in TimedOut]

Flagged(f, outcome) ==
    [f EXCEPT !.all_redirects = @ /\ outcome = "redirect",
              !.upgrade_timed_out = @ \/ outcome = "timed_out",
              !.connect_timed_out = @ \/ outcome = "connect_timed_out"]

DirectEnds(c, outcome) ==
    /\ pc[c] = "direct"
    /\ \/ outcome = "connected" /\ Return(c, Connected)
       \/ /\ outcome # "connected"
          /\ IF attempts[c].next_ordinal + 1 = Hostnames
             THEN Return(c, Flagged(flags[c], outcome))
             ELSE /\ attempts' = [attempts EXCEPT ![c].next_ordinal = @ + 1]
                  /\ flags' = [flags EXCEPT ![c] = Flagged(@, outcome)]
                  /\ UNCHANGED <<pc, kind, path>>
    /\ outcomes' = [outcomes EXCEPT ![c] = Remembered(c, outcome)]
    /\ steady' = [steady EXCEPT ![c] = IF outcome = "connected" THEN {} ELSE @]
    /\ Forgotten(c, outcome)
    /\ UNCHANGED <<config, net, changes, rotation, cooling>>

-----------------------------------------------------------------------------
Start(c) == \E k \in Kinds[c], first \in FirstDomains : Begin(c, k, first)

CallStep(c) ==
    \/ Attempt(c) \/ PathReturns(c) \/ WalkFails(c)
    \/ \E outcome \in Outcomes : EdgeEnds(c, outcome) \/ DirectEnds(c, outcome)

Next ==
    \/ \E c \in Calls : CallStep(c) \/ Start(c)
    \/ \E e \in Edges : Expire(e)
    \/ \E e \in InUse, b \in Behaviours : NetChange(e, b)

\* Every dial has a timeout.  Nothing is assumed of the cooldowns' expiry.
Fairness == \A c \in Calls : WF_vars(CallStep(c))

Spec == Init /\ [][Next]_vars
FairSpec == Spec /\ Fairness

-----------------------------------------------------------------------------
Attempts == [first_domain : Nat, next_ordinal : Nat, pending_retry : Nat \cup {NoRetry},
             domain : Range(Domains) \cup {None}]
Path == [first : Nat, left : SUBSET Nat, sent : Behaviours \cup {None},
         last : (Outcomes \ {"connected", "redirect"}) \cup {None}, redirected : BOOLEAN]
Flags == [ws : BOOLEAN, all_redirects : BOOLEAN,
          upgrade_timed_out : BOOLEAN, connect_timed_out : BOOLEAN]

TypeOK ==
    /\ cf_ips \in IpLists /\ direct \in DirectSets
    /\ net \in [InUse -> Behaviours]
    /\ changes \in 0..MaxChanges
    /\ rotation \in Nat
    /\ cooling \subseteq direct
    /\ pc \in [Calls -> {"out", "attempt", "edge", "direct", "done"}]
    /\ kind \in [Calls -> {"walk", "single", "direct", None}]
    /\ attempts \in [Calls -> Attempts]
    /\ path \in [Calls -> Path]
    /\ flags \in [Calls -> Flags]
    /\ outcomes \in [Calls -> SUBSET (Outcomes \cup {"other"})]
    /\ steady \in [Calls -> SUBSET InUse]
    /\ tries \in [Calls -> [Range(Domains) -> Nat]]
    /\ slow \in [Calls -> SUBSET Range(Domains)]

Failed(c) == pc[c] = "done" /\ ~flags[c].ws

(***************************************************************************)
(* Whatever the other calls do to the shared rotation and cooldowns, a     *)
(* Cloudflare call does not fail past an edge that has served and has not  *)
(* been cooling all the while.                                             *)
(***************************************************************************)
SteadyEdgeServes == \A c \in Calls : kind[c] # "direct" /\ Failed(c) => steady[c] = {}

(***************************************************************************)
(* "If every edge is cooling, one rotating candidate is still retried":    *)
(* no attempt is without an edge to dial, which connect_cf_with_path's     *)
(* expect("non-empty CF IP list attempted") relies on.                     *)
(***************************************************************************)
AttemptDials ==
    \A c \in Calls :
        pc[c] = "edge" /\ path[c].left = {} => path[c].last # None \/ path[c].redirected

(***************************************************************************)
(* CfAttempts: a walk that fails has tried each domain, wherever it began, *)
(* and twice "in a row", unless the first try "ran out the clock".         *)
(***************************************************************************)
DomainsCovered ==
    \A c \in Calls : kind[c] = "walk" /\ Failed(c) =>
        \A d \in Range(Domains) : tries[c][d] = (IF d \in slow[c] THEN 1 ELSE 2)

(***************************************************************************)
(* What the routing ladder backs off on: all_redirects only if nothing but *)
(* redirects was met, and of a direct call each kind of timeout exactly if *)
(* it was met.                                                             *)
(***************************************************************************)
FlagsTell ==
    \A c \in Calls : Failed(c) =>
        /\ kind[c] # "single" => (flags[c].all_redirects <=> outcomes[c] = {"redirect"})
        /\ kind[c] = "direct" =>
              /\ flags[c].upgrade_timed_out <=> "timed_out" \in outcomes[c]
              /\ flags[c].connect_timed_out <=> "connect_timed_out" \in outcomes[c]

(***************************************************************************)
(* "One rotating candidate is still retried so recovery does not require a *)
(* restart": when one edge comes back for good among edges that are silent *)
(* for good, calls do not go on failing, and that without waiting for a    *)
(* cooldown to expire.                                                     *)
(***************************************************************************)
LoneServer(e) ==
    /\ e \in InUse
    /\ \A x \in InUse : x \in direct /\ net[x] = (IF x = e THEN "serves" ELSE "silent")

Returns(ws) ==
    \E c \in Calls :
        kind[c] # "direct" /\ pc[c] # "done" /\ pc'[c] = "done" /\ flags'[c].ws = ws

Recovers ==
    \A e \in Edges \ {Anycast} : <>[]LoneServer(e) /\ []<><<Returns(FALSE)>>_vars =>
        []<><<Returns(TRUE)>>_vars \/ []<><<\E x \in Edges : Expire(x)>>_vars

=============================================================================
