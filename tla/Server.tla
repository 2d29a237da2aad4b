------------------------------- MODULE Server -------------------------------
(***************************************************************************)
(* The life of one run of the proxy (run_with_listen, src/src/server.rs)   *)
(* and its file-descriptor budget (src/src/limits.rs): start-up, the       *)
(* optional connectivity check, the accept loop with its permits, and the  *)
(* handlers it spawns.  Connections are interchangeable, so handlers are   *)
(* counted: those with the client's socket only, and those that also hold  *)
(* an outbound one.                                                        *)
(***************************************************************************)
EXTENDS Integers

CONSTANTS
    FdLimits,         \* what soft_nofile_limit() may return
    PoolSize,         \* --pool-size
    DcBuckets,        \* two per configured DC
    MaxConnections,   \* --max-connections, or AutoLimit
    AutoLimit,
    Modes,            \* of "serve", "probes" (--check), "listener" (--check-listener)
    UsizeMax,         \* usize::MAX
    RuntimeReservedFds,
    UnlimitedMaxConnections,
    MinMaxConnections,
    MaxBacklog        \* the kernel's backlog of the listener

ASSUME ServerAssumption ==
    /\ UsizeMax \in Nat
    /\ FdLimits \subseteq 0..UsizeMax
    /\ {PoolSize, DcBuckets, RuntimeReservedFds, UnlimitedMaxConnections,
        MinMaxConnections} \subseteq 0..UsizeMax
    /\ MaxConnections \in (0..UsizeMax) \cup {AutoLimit}
    /\ MaxBacklog \in Nat
    /\ Modes \subseteq {"serve", "probes", "listener"}

VARIABLES
    mode,       \* what the run was started for
    fd_limit,   \* the soft limit it read
    pc,         \* where run_with_listen is
    shutdown,   \* whether the shutdown future has completed
    result,     \* what run_with_listen returned
    verdict,    \* what the check task sent on its channel
    permits,    \* the semaphore's free permits
    backlog,    \* connections waiting in the kernel
    routing,    \* handlers with the client's socket only
    bridged     \* handlers with an outbound socket as well

settings == <<mode, fd_limit>>
vars == <<settings, pc, shutdown, result, verdict, permits, backlog, routing, bridged>>

-----------------------------------------------------------------------------
(***************************************************************************)
(* limits.rs, in saturating usize arithmetic.                              *)
(***************************************************************************)
FdsPerConnection == 2
FdsPerPoolSlot == 2

Saturated(n) == IF n > UsizeMax THEN UsizeMax ELSE n
saturating_sub(a, b) == IF a < b THEN 0 ELSE a - b

PoolFds == Saturated(Saturated(PoolSize * DcBuckets) * FdsPerPoolSlot)
ReservedFds == Saturated(Saturated(1 + PoolFds) + RuntimeReservedFds)

\* Mutant: a limit below the reserve wraps around.
auto_max_connectionsMutWraps ==
    LET fit == ((fd_limit - ReservedFds) % (UsizeMax + 1)) \div FdsPerConnection
    IN  IF fd_limit = UsizeMax THEN UnlimitedMaxConnections
        ELSE IF fit < MinMaxConnections THEN MinMaxConnections ELSE fit

auto_max_connections ==
    LET fit == saturating_sub(fd_limit, ReservedFds) \div FdsPerConnection
    IN  IF fd_limit = UsizeMax THEN UnlimitedMaxConnections
        ELSE IF fit < MinMaxConnections THEN MinMaxConnections ELSE fit

max_connections == IF MaxConnections = AutoLimit THEN auto_max_connections ELSE MaxConnections

-----------------------------------------------------------------------------
Init ==
    /\ mode \in Modes
    /\ fd_limit \in FdLimits
    /\ pc = "configure"
    /\ shutdown = FALSE
    /\ result = "none"
    /\ verdict = "none"
    /\ permits = 0
    /\ backlog = 0
    /\ routing = 0
    /\ bridged = 0

Return(r) == pc' = "ended" /\ result' = r

Serving == pc \in {"acquire", "accept", "backoff"}

(***************************************************************************)
(* The environment: a stop is requested, a client connects.                *)
(***************************************************************************)
RequestShutdown ==
    /\ ~shutdown
    /\ shutdown' = TRUE
    /\ UNCHANGED <<settings, pc, result, verdict, permits, backlog, routing, bridged>>

Connect ==
    /\ Serving
    /\ backlog < MaxBacklog
    /\ backlog' = backlog + 1
    /\ UNCHANGED <<settings, pc, shutdown, result, verdict, permits, routing, bridged>>

(***************************************************************************)
(* Start-up: the outbound settings are parsed, the default domains fetched *)
(* if asked for, the pins validated, the probes run, the listener bound.   *)
(* The fetch and the probes select on `shutdown`; a select with both ready *)
(* takes either.                                                           *)
(***************************************************************************)
Configure(valid) ==
    /\ pc = "configure"
    /\ IF valid
       THEN pc' \in {"fetch", "validate"} /\ UNCHANGED result
       ELSE Return("InvalidOutbound")
    /\ UNCHANGED <<settings, shutdown, verdict, permits, backlog, routing, bridged>>

Fetch ==
    /\ pc = "fetch"
    /\ \/ shutdown /\ Return("Ok")
       \/ pc' = "validate" /\ UNCHANGED result
    /\ UNCHANGED <<settings, shutdown, verdict, permits, backlog, routing, bridged>>

Validate(valid) ==
    /\ pc = "validate"
    /\ IF valid
       THEN pc' = (IF mode = "probes" THEN "probes" ELSE "bind") /\ UNCHANGED result
       ELSE Return("InvalidPin")
    /\ UNCHANGED <<settings, shutdown, verdict, permits, backlog, routing, bridged>>

Probes(all_ok) ==
    /\ pc = "probes"
    /\ \/ shutdown /\ Return("Ok") /\ UNCHANGED verdict
       \/ /\ verdict' = IF all_ok THEN "ok" ELSE "failed"
          /\ Return(IF all_ok THEN "Ok" ELSE "CheckFailed")
    /\ UNCHANGED <<settings, shutdown, permits, backlog, routing, bridged>>

Bind(bound) ==
    /\ pc = "bind"
    /\ IF bound
       THEN pc' = "acquire" /\ permits' = max_connections /\ UNCHANGED result
       ELSE (Return("InvalidListenAddress") \/ Return("Bind")) /\ UNCHANGED permits
    /\ UNCHANGED <<settings, shutdown, verdict, backlog, routing, bridged>>

(***************************************************************************)
(* The check task of --check-listener.                                     *)
(***************************************************************************)
CheckTask(all_ok) ==
    /\ mode = "listener"
    /\ Serving
    /\ verdict = "none"
    /\ verdict' = IF all_ok THEN "ok" ELSE "failed"
    /\ UNCHANGED <<settings, pc, shutdown, result, permits, backlog, routing, bridged>>

(***************************************************************************)
(* The accept loop: a permit first, then a connection; both selects also   *)
(* wait for `shutdown` and for the verdict.  The permit goes into the      *)
(* handler, or is dropped at the end of the round, after the back-off.     *)
(***************************************************************************)
\* Mutant: the loop ends on the verdict without looking at it.
VerdictMutIgnored == verdict # "none" /\ Return("Ok")

Verdict ==
    /\ verdict # "none"
    /\ Return(IF verdict = "ok" THEN "Ok" ELSE "CheckFailed")

Stop == (shutdown /\ Return("Ok")) \/ Verdict

\* Mutant: at the connection limit nothing but a permit is waited for.
AcquireMutDeaf ==
    /\ pc = "acquire"
    /\ permits > 0 /\ permits' = permits - 1 /\ pc' = "accept" /\ UNCHANGED result
    /\ UNCHANGED <<settings, shutdown, verdict, backlog, routing, bridged>>

Acquire ==
    /\ pc = "acquire"
    /\ \/ Stop /\ UNCHANGED permits
       \/ permits > 0 /\ permits' = permits - 1 /\ pc' = "accept" /\ UNCHANGED result
    /\ UNCHANGED <<settings, shutdown, verdict, backlog, routing, bridged>>

Accept ==
    /\ pc = "accept"
    /\ \/ Stop /\ permits' = permits + 1 /\ UNCHANGED <<backlog, routing>>
       \/ /\ backlog > 0
          /\ backlog' = backlog - 1
          /\ routing' = routing + 1
          /\ pc' = "acquire"
          /\ UNCHANGED <<permits, result>>
       \/ pc' = "backoff" /\ UNCHANGED <<result, permits, backlog, routing>>   \* accept error
    /\ UNCHANGED <<settings, shutdown, verdict, bridged>>

Backoff ==
    /\ pc = "backoff"
    /\ pc' = "acquire"
    /\ permits' = permits + 1
    /\ UNCHANGED <<settings, shutdown, result, verdict, backlog, routing, bridged>>

(***************************************************************************)
(* A handler opens at most one outbound connection at a time, drops the    *)
(* one that failed before it dials the next, and ends with its permit.     *)
(***************************************************************************)
Dial ==
    /\ routing > 0
    /\ routing' = routing - 1
    /\ bridged' = bridged + 1
    /\ UNCHANGED <<settings, pc, shutdown, result, verdict, permits, backlog>>

DialFailed ==
    /\ bridged > 0
    /\ bridged' = bridged - 1
    /\ routing' = routing + 1
    /\ UNCHANGED <<settings, pc, shutdown, result, verdict, permits, backlog>>

\* Mutant: a handler that ends while it holds an outbound connection keeps its permit.
HandlerEndMutLeak ==
    /\ \/ routing > 0 /\ routing' = routing - 1 /\ permits' = permits + 1 /\ UNCHANGED bridged
       \/ bridged > 0 /\ bridged' = bridged - 1 /\ UNCHANGED <<routing, permits>>
    /\ UNCHANGED <<settings, pc, shutdown, result, verdict, backlog>>

HandlerEnd ==
    /\ \/ routing > 0 /\ routing' = routing - 1 /\ UNCHANGED bridged
       \/ bridged > 0 /\ bridged' = bridged - 1 /\ UNCHANGED routing
    /\ permits' = permits + 1
    /\ UNCHANGED <<settings, pc, shutdown, result, verdict, backlog>>

-----------------------------------------------------------------------------
Main ==
    \/ \E ok \in BOOLEAN : Configure(ok) \/ Validate(ok) \/ Probes(ok) \/ Bind(ok)
    \/ Fetch \/ Acquire \/ Accept \/ Backoff

Handlers == Dial \/ DialFailed \/ HandlerEnd

Next ==
    \/ RequestShutdown \/ Connect
    \/ \E ok \in BOOLEAN : CheckTask(ok)
    \/ Main \/ Handlers

(***************************************************************************)
(* The task of run_with_listen is polled when it can run; its sleeps, the  *)
(* fetch and every probe have a timeout.  select! polls its branches in a  *)
(* random order, so one that is ready round after round is taken.  Nothing *)
(* is assumed of clients and handlers.                                     *)
(***************************************************************************)
Fairness ==
    /\ WF_vars(Main)
    /\ SF_vars((Acquire \/ Accept) /\ pc' = "ended")
    /\ WF_vars(\E ok \in BOOLEAN : CheckTask(ok))

Spec == Init /\ [][Next]_vars
FairSpec == Spec /\ Fairness

-----------------------------------------------------------------------------
TypeOK ==
    /\ mode \in Modes
    /\ fd_limit \in FdLimits
    /\ pc \in {"configure", "fetch", "validate", "probes", "bind",
               "acquire", "accept", "backoff", "ended"}
    /\ shutdown \in BOOLEAN
    /\ result \in {"none", "Ok", "InvalidOutbound", "InvalidPin", "InvalidListenAddress",
                  "Bind", "CheckFailed"}
    /\ verdict \in {"none", "ok", "failed"}
    /\ permits \in 0..max_connections
    /\ backlog \in 0..MaxBacklog
    /\ routing \in Nat
    /\ bridged \in Nat

(***************************************************************************)
(* No permit is lost and none is made up, over accept errors, back-offs,   *)
(* handlers that end at any stage and the end of the loop: from the bind   *)
(* on, the free permits, the one the loop holds and those of the handlers  *)
(* add up to max_connections.                                              *)
(***************************************************************************)
Held == IF pc \in {"accept", "backoff"} THEN 1 ELSE 0

PermitsConserved ==
    Serving => permits + Held + routing + bridged = max_connections

(***************************************************************************)
(* What auto_max_connections is for: with the automatic limit the listener,*)
(* the pool's budget, the reserve and the sockets of every handler together*)
(* stay within the process's limit.  A limit too tight for that, below the *)
(* reserve or above, is exceeded by no more than MIN_MAX_CONNECTIONS needs.*)
(***************************************************************************)
OpenFds == (IF Serving THEN 1 ELSE 0) + PoolFds + RuntimeReservedFds
              + routing + FdsPerConnection * bridged

LeastFds == 1 + PoolFds + RuntimeReservedFds + FdsPerConnection * MinMaxConnections

FdsWithinLimit ==
    MaxConnections = AutoLimit /\ fd_limit < UsizeMax
        => OpenFds <= fd_limit \/ OpenFds <= LeastFds

(***************************************************************************)
(* The run reports the check faithfully: it fails as CheckFailed only on a *)
(* failed probe, and returns Ok without a shutdown only when all passed.   *)
(***************************************************************************)
VerdictReported ==
    /\ result = "CheckFailed" => verdict = "failed"
    /\ result = "Ok" /\ ~shutdown => verdict = "ok"

(***************************************************************************)
(* "Completing `shutdown` breaks the accept loop and returns", whatever    *)
(* the clients do: at the connection limit, under a stream of connections, *)
(* during a fetch or a back-off.                                           *)
(***************************************************************************)
ShutdownReturns == shutdown ~> pc = "ended"

(***************************************************************************)
(* A run with --check always comes to an end by itself, even if clients    *)
(* hold every permit of the loop it shares with --check-listener.          *)
(***************************************************************************)
CheckRunEnds == mode # "serve" ~> pc = "ended"

=============================================================================
