---------------------------- MODULE ServerProofs ----------------------------
(***************************************************************************)
(* Proofs about module Server, for every limit, pool size and number of    *)
(* connections: no permit is lost, the automatic connection limit keeps    *)
(* the process within its file descriptors, and the DC check reports what  *)
(* its probes found.                                                       *)
(***************************************************************************)
EXTENDS Server, TLAPS

(***************************************************************************)
(* PermitsConserved speaks of the accept loop only.  To be inductive it    *)
(* has to say what leads into the loop (no permit exists before the bind)  *)
(* and what comes out of it (the handlers outlive the loop).               *)
(***************************************************************************)
Starting == pc \in {"configure", "fetch", "validate", "probes", "bind"}

PermitInv ==
    /\ Starting => permits = 0 /\ routing = 0 /\ bridged = 0
    /\ PermitsConserved
    /\ pc = "ended" => permits + routing + bridged \in {0, max_connections}

IInv == TypeOK /\ PermitInv

(***************************************************************************)
(* The saturating sums of limits.rs are sizes, and a reserve that did not  *)
(* saturate is the exact sum of its parts.                                 *)
(***************************************************************************)
LEMMA SaturatedSize ==
    ASSUME NEW n \in Nat
    PROVE  /\ Saturated(n) \in 0..UsizeMax
           /\ Saturated(n) < UsizeMax => Saturated(n) = n
BY ServerAssumption DEF ServerAssumption, Saturated

LEMMA BudgetSizes ==
    /\ PoolFds \in 0..UsizeMax
    /\ ReservedFds \in 0..UsizeMax
    /\ ReservedFds < UsizeMax => ReservedFds = 1 + PoolFds + RuntimeReservedFds
<1> DEFINE slots == PoolSize * DcBuckets
<1>1. PoolSize \in Nat /\ DcBuckets \in Nat /\ RuntimeReservedFds \in Nat /\ UsizeMax \in Nat
  BY ServerAssumption DEF ServerAssumption
<1>2. slots \in Nat
  BY <1>1
<1> HIDE DEF slots
<1>3. Saturated(slots) \in Nat
  BY <1>1, <1>2, SaturatedSize
<1>4. Saturated(slots) * FdsPerPoolSlot \in Nat
  BY <1>3 DEF FdsPerPoolSlot
<1>5. PoolFds \in 0..UsizeMax
  BY <1>4, SaturatedSize DEF PoolFds, slots
<1>6. 1 + PoolFds \in Nat
  BY <1>1, <1>5
<1>7. /\ Saturated(1 + PoolFds) \in 0..UsizeMax
      /\ Saturated(1 + PoolFds) < UsizeMax => Saturated(1 + PoolFds) = 1 + PoolFds
  BY <1>6, SaturatedSize
<1>8. Saturated(1 + PoolFds) + RuntimeReservedFds \in Nat
  BY <1>1, <1>7
<1>9. /\ ReservedFds \in 0..UsizeMax
      /\ ReservedFds < UsizeMax
            => ReservedFds = Saturated(1 + PoolFds) + RuntimeReservedFds
  BY <1>8, SaturatedSize DEF ReservedFds
<1> QED
  BY <1>1, <1>5, <1>7, <1>9

(***************************************************************************)
(* The connection limit is a size, and the automatic one leaves the        *)
(* reserve untouched unless MIN_MAX_CONNECTIONS overrides it.              *)
(***************************************************************************)
LEMMA LimitSize == fd_limit \in FdLimits => max_connections \in Nat
<1> SUFFICES ASSUME fd_limit \in FdLimits PROVE max_connections \in Nat
  OBVIOUS
<1>1. /\ fd_limit \in Nat /\ UnlimitedMaxConnections \in Nat /\ MinMaxConnections \in Nat
      /\ MaxConnections # AutoLimit => MaxConnections \in Nat
  BY ServerAssumption DEF ServerAssumption
<1>2. saturating_sub(fd_limit, ReservedFds) \in Nat
  BY <1>1, BudgetSizes DEF saturating_sub
<1>3. saturating_sub(fd_limit, ReservedFds) \div FdsPerConnection \in Nat
  BY <1>2 DEF FdsPerConnection
<1> QED
  BY <1>1, <1>3 DEF max_connections, auto_max_connections

LEMMA LimitFits ==
    ASSUME MaxConnections = AutoLimit, fd_limit \in FdLimits, fd_limit < UsizeMax
    PROVE  \/ 1 + PoolFds + RuntimeReservedFds + 2 * max_connections <= fd_limit
           \/ max_connections <= MinMaxConnections
<1> DEFINE room == saturating_sub(fd_limit, ReservedFds)
           fit == room \div 2
<1>1. /\ fd_limit \in Nat /\ MinMaxConnections \in Nat /\ RuntimeReservedFds \in Nat
      /\ UsizeMax \in Nat /\ PoolFds \in Nat /\ ReservedFds \in Nat
  BY ServerAssumption, BudgetSizes DEF ServerAssumption
<1>2. room \in Nat /\ (room > 0 => room = fd_limit - ReservedFds)
  BY <1>1 DEF saturating_sub
<1>3. max_connections = IF fit < MinMaxConnections THEN MinMaxConnections ELSE fit
  BY <1>1 DEF max_connections, auto_max_connections, FdsPerConnection
<1> HIDE DEF room
<1>4. fit \in Nat /\ 2 * fit <= room
  BY <1>2
<1> HIDE DEF fit
<1>5. CASE fit <= MinMaxConnections
  BY <1>1, <1>3, <1>4, <1>5
<1>6. CASE fit > MinMaxConnections
  <2>1. room > 0 /\ max_connections = fit
    BY <1>1, <1>2, <1>3, <1>4, <1>6
  <2>2. ReservedFds < UsizeMax
    BY <1>1, <1>2, <2>1
  <2> QED
    BY <1>1, <1>2, <1>4, <2>1, <2>2, BudgetSizes
<1> QED
  BY <1>1, <1>4, <1>5, <1>6

-----------------------------------------------------------------------------
LEMMA InitIInv == Init => IInv
<1> SUFFICES ASSUME Init PROVE IInv
  OBVIOUS
<1>1. TypeOK
  <2>1. max_connections \in Nat /\ MaxBacklog \in Nat
    BY LimitSize, ServerAssumption DEF ServerAssumption, Init
  <2>2. permits \in 0..max_connections /\ backlog \in 0..MaxBacklog
    BY <2>1 DEF Init
  <2>3. routing \in Nat /\ bridged \in Nat
    BY DEF Init
  <2> QED
    BY <2>2, <2>3, Zenon DEF Init, TypeOK
<1>2. PermitInv
  BY DEF Init, PermitInv, PermitsConserved, Starting, Serving
<1> QED
  BY <1>1, <1>2 DEF IInv

(***************************************************************************)
(* Every step preserves the invariant: one step of the proof per action.   *)
(***************************************************************************)
LEMMA NextIInv == IInv /\ [Next]_vars => IInv'
<1> SUFFICES ASSUME IInv, [Next]_vars PROVE IInv'
  OBVIOUS
<1>0. fd_limit \in FdLimits /\ max_connections \in Nat
  BY LimitSize DEF IInv, TypeOK
<1>10. max_connections' = max_connections /\ fd_limit' = fd_limit
  <2>1. fd_limit' = fd_limit
    BY DEF Next, vars, settings, RequestShutdown, Connect, CheckTask, Main, Configure, Validate,
           Probes, Bind, Fetch, Acquire, Accept, Backoff, Handlers, Dial, DialFailed, HandlerEnd
  <2> QED
    BY <2>1 DEF max_connections, auto_max_connections
<1> USE <1>0, <1>10, ServerAssumption
        DEF settings, IInv, TypeOK, PermitInv, PermitsConserved, Starting, Serving, Held, Return
<1>1. CASE RequestShutdown
  BY <1>1 DEF RequestShutdown
<1>2. CASE Connect
  BY <1>2 DEF Connect, ServerAssumption
<1>3. CASE \E ok \in BOOLEAN : CheckTask(ok)
  BY <1>3 DEF CheckTask
<1>4. CASE Main
  <2>1. CASE \E ok \in BOOLEAN : Configure(ok)
    BY <2>1 DEF Configure
  <2>2. CASE \E ok \in BOOLEAN : Validate(ok)
    BY <2>2 DEF Validate
  <2>3. CASE \E ok \in BOOLEAN : Probes(ok)
    BY <2>3 DEF Probes
  <2>4. CASE \E ok \in BOOLEAN : Bind(ok)
    BY <2>4 DEF Bind
  <2>5. CASE Fetch
    BY <2>5 DEF Fetch
  <2>6. CASE Acquire
    BY <2>6 DEF Acquire, Stop, Verdict
  <2>7. CASE Accept
    BY <2>7 DEF Accept, Stop, Verdict, ServerAssumption
  <2>8. CASE Backoff
    BY <2>8 DEF Backoff
  <2> QED
    BY <1>4, <2>1, <2>2, <2>3, <2>4, <2>5, <2>6, <2>7, <2>8 DEF Main
<1>5. CASE Handlers
  <2>1. CASE Dial
    BY <2>1 DEF Dial
  <2>2. CASE DialFailed
    BY <2>2 DEF DialFailed
  <2>3. CASE HandlerEnd
    BY <2>3 DEF HandlerEnd
  <2> QED
    BY <1>5, <2>1, <2>2, <2>3 DEF Handlers
<1>6. CASE UNCHANGED vars
  BY <1>6 DEF vars
<1> QED
  BY <1>1, <1>2, <1>3, <1>4, <1>5, <1>6 DEF Next

(***************************************************************************)
(* The handlers never outnumber the permits, so their sockets fit in what  *)
(* auto_max_connections left for them.                                     *)
(***************************************************************************)
LEMMA IInvFds == IInv => FdsWithinLimit
<1> SUFFICES ASSUME IInv, MaxConnections = AutoLimit, fd_limit < UsizeMax
             PROVE  OpenFds <= fd_limit \/ OpenFds <= LeastFds
  BY DEF FdsWithinLimit
<1>1. fd_limit \in FdLimits /\ max_connections \in Nat
  BY LimitSize DEF IInv, TypeOK
<1>2. \/ 1 + PoolFds + RuntimeReservedFds + 2 * max_connections <= fd_limit
      \/ max_connections <= MinMaxConnections
  BY <1>1, LimitFits
<1>3. routing \in Nat /\ bridged \in Nat /\ routing + bridged <= max_connections
  BY <1>1 DEF IInv, TypeOK, PermitInv, PermitsConserved, Starting, Serving, Held
<1>4. /\ PoolFds \in Nat /\ RuntimeReservedFds \in Nat /\ fd_limit \in Nat
      /\ MinMaxConnections \in Nat
  BY <1>1, BudgetSizes, ServerAssumption DEF ServerAssumption
<1>5. OpenFds <= 1 + PoolFds + RuntimeReservedFds + 2 * max_connections
  BY <1>1, <1>3, <1>4 DEF OpenFds, FdsPerConnection
<1>6. OpenFds \in Nat
  BY <1>3, <1>4 DEF OpenFds, FdsPerConnection
<1> QED
  BY <1>1, <1>2, <1>4, <1>5, <1>6 DEF LeastFds, FdsPerConnection

-----------------------------------------------------------------------------
LEMMA InvariantHolds == Spec => []IInv
BY InitIInv, NextIInv, PTL DEF Spec

(***************************************************************************)
(* Type correctness; in particular the semaphore never holds more permits  *)
(* than it was made with.                                                  *)
(***************************************************************************)
THEOREM TypeCorrect == Spec => []TypeOK
<1>1. IInv => TypeOK
  BY DEF IInv
<1> QED
  BY <1>1, InvariantHolds, PTL

(***************************************************************************)
(* From the bind to the end of the loop the permits add up, for every      *)
(* limit and every interleaving of the loop with its handlers.             *)
(***************************************************************************)
THEOREM PermitsConservedHolds == Spec => []PermitsConserved
<1>1. IInv => PermitsConserved
  BY DEF IInv, PermitInv
<1> QED
  BY <1>1, InvariantHolds, PTL

(***************************************************************************)
(* The automatic limit keeps the process within its descriptors, for every *)
(* soft limit, pool size and number of DCs; a limit that leaves no room for*)
(* MIN_MAX_CONNECTIONS is exceeded by what those need, and by no more.     *)
(***************************************************************************)
THEOREM FdsWithinLimitHolds == Spec => []FdsWithinLimit
BY IInvFds, InvariantHolds, PTL

-----------------------------------------------------------------------------
(***************************************************************************)
(* VerdictReported is inductive once it says that nothing is returned      *)
(* before the end: the check task writes its verdict only while the loop   *)
(* runs, and nothing takes a shutdown back.                                *)
(***************************************************************************)
ReportInv == VerdictReported /\ (pc # "ended" => result = "none")

LEMMA NextReportInv == IInv /\ ReportInv /\ [Next]_vars => ReportInv'
<1> SUFFICES ASSUME IInv, ReportInv, [Next]_vars PROVE ReportInv'
  OBVIOUS
<1>0. verdict \in {"none", "ok", "failed"}
  BY DEF IInv, TypeOK
<1> USE DEF ReportInv, VerdictReported, Return, Serving
<1>1. CASE RequestShutdown
  BY <1>1 DEF RequestShutdown
<1>2. CASE Connect
  BY <1>2 DEF Connect
<1>3. CASE \E ok \in BOOLEAN : CheckTask(ok)
  BY <1>3 DEF CheckTask
<1>4. CASE Main
  <2>1. CASE \E ok \in BOOLEAN : Configure(ok)
    BY <2>1 DEF Configure
  <2>2. CASE \E ok \in BOOLEAN : Validate(ok)
    BY <2>2 DEF Validate
  <2>3. CASE \E ok \in BOOLEAN : Probes(ok)
    BY <2>3 DEF Probes
  <2>4. CASE \E ok \in BOOLEAN : Bind(ok)
    BY <2>4 DEF Bind
  <2>5. CASE Fetch
    BY <2>5 DEF Fetch
  <2>6. CASE Acquire
    BY <1>0, <2>6 DEF Acquire, Stop, Verdict
  <2>7. CASE Accept
    BY <1>0, <2>7 DEF Accept, Stop, Verdict
  <2>8. CASE Backoff
    BY <2>8 DEF Backoff
  <2> QED
    BY <1>4, <2>1, <2>2, <2>3, <2>4, <2>5, <2>6, <2>7, <2>8 DEF Main
<1>5. CASE Handlers
  BY <1>5 DEF Handlers, Dial, DialFailed, HandlerEnd
<1>6. CASE UNCHANGED vars
  BY <1>6 DEF vars
<1> QED
  BY <1>1, <1>2, <1>3, <1>4, <1>5, <1>6 DEF Next

(***************************************************************************)
(* A run fails as CheckFailed only on a failed probe, and without a        *)
(* shutdown returns Ok only when all passed, whenever the verdict, the     *)
(* shutdown and the clients arrive.                                        *)
(***************************************************************************)
THEOREM VerdictReportedHolds == Spec => []VerdictReported
<1>1. Init => ReportInv
  BY DEF Init, ReportInv, VerdictReported
<1>2. ReportInv => VerdictReported
  BY DEF ReportInv
<1> QED
  BY <1>1, <1>2, InvariantHolds, NextReportInv, PTL DEF Spec

=============================================================================
