-------------------------- MODULE AndroidAppProofs --------------------------
(***************************************************************************)
(* The safety of the Android side for any number of taps and of deaths of  *)
(* the process.                                                            *)
(***************************************************************************)
EXTENDS AndroidApp, TLAPS

(***************************************************************************)
(* What the shim's lock keeps: the handle in ProxyState is that of the     *)
(* worker that is alive; its sender is there as well until it is told to   *)
(* stop, and `stopping` is set only for a worker that was told.            *)
(***************************************************************************)
HandleKept ==
    \A r \in Runs : Alive(r) =>
        /\ thread = r
        /\ shutdown = r \/ r \in told
        /\ stopping => r \in told

WorkerType == worker \in [Runs -> Stages] /\ tgLink \in Runs \cup {None}

IInv == WorkerType /\ HandleKept /\ RefusedOnlyWhileStopping /\ LinkOfLiveRun

-----------------------------------------------------------------------------
LEMMA NoneIsNoRun == None \notin Runs
BY AndroidAppAssumption DEF Runs

LEMMA InitIInv == Init => IInv
<1> SUFFICES ASSUME Init PROVE IInv
  OBVIOUS
<1> USE DEF Init
<1>1. WorkerType
  BY DEF WorkerType, Stages
<1>2. HandleKept
  BY DEF HandleKept, Alive, Unended
<1>3. RefusedOnlyWhileStopping /\ LinkOfLiveRun
  BY DEF RefusedOnlyWhileStopping, LinkOfLiveRun
<1> QED
  BY <1>1, <1>2, <1>3 DEF IInv

(***************************************************************************)
(* Most steps touch neither the shim nor the workers, leave the link alone *)
(* or clear it, and do not bring the main thread to nativeStart.           *)
(***************************************************************************)
LEMMA Bystander ==
    ASSUME IInv, UNCHANGED <<native, workers>>,
           tgLink' \in {tgLink, None}, main' = "native" => main = "native"
    PROVE  IInv'
BY DEF IInv, WorkerType, HandleKept, RefusedOnlyWhileStopping, LinkOfLiveRun, Alive, Startable,
       native, workers

(***************************************************************************)
(* The same with a worker that moves on to a later stage of its life.      *)
(***************************************************************************)
LEMMA WorkerMoves ==
    ASSUME IInv, NEW r \in Runs, NEW stage \in Stages,
           Alive(r), stage # "unborn",
           worker' = [worker EXCEPT ![r] = stage],
           UNCHANGED <<native, told, main>>,
           tgLink' = r => stage \in {"announced", "serving", "stopped", "failed"},
           tgLink' \in {tgLink, r, None}
    PROVE  IInv'
<1> USE DEF IInv, WorkerType, native
<1>1. WorkerType'
  OBVIOUS
<1>2. \A q \in Runs : Alive(q)' => Alive(q)
  BY DEF Alive
<1>3. HandleKept'
  BY <1>2 DEF HandleKept
<1>4. Startable => Startable'
  BY DEF Startable, Alive, Unended
<1>5. RefusedOnlyWhileStopping'
  BY <1>4 DEF RefusedOnlyWhileStopping
<1>6. LinkOfLiveRun'
  BY NoneIsNoRun DEF LinkOfLiveRun
<1> QED
  BY <1>1, <1>3, <1>5, <1>6

(***************************************************************************)
(* start_proxy: the handle it finds is that of a worker that has returned, *)
(* and by HandleKept no other worker is alive.                             *)
(***************************************************************************)
LEMMA StartNativeStep == IInv /\ StartNative => IInv'
<1> SUFFICES ASSUME IInv, StartNative PROVE IInv'
  OBVIOUS
<1> USE DEF IInv, StartNative, bridge
<1>1. Startable => \A r \in Runs : ~Alive(r)
  BY DEF HandleKept, Startable, Alive, Unended
<1>2. main' # "native"
  BY DEF start_proxy
<1>3. RefusedOnlyWhileStopping'
  BY <1>2 DEF RefusedOnlyWhileStopping
<1>4. CASE Startable /\ UNCHANGED workers
  <2>1. WorkerType' /\ LinkOfLiveRun'
    BY <1>4 DEF WorkerType, LinkOfLiveRun, workers
  <2>2. HandleKept'
    BY <1>1, <1>4 DEF HandleKept, Alive, workers
  <2> QED
    BY <2>1, <2>2, <1>3
<1>5. CASE ~Startable /\ UNCHANGED <<native, workers>>
  BY <1>2, <1>5, Bystander
<1>6. ASSUME NEW r \in Runs, Startable, Newborn(r), thread' = r, shutdown' = r,
             worker' = [worker EXCEPT ![r] = "starting"], stopping' = FALSE
      PROVE  IInv'
  <2>1. WorkerType'
    BY <1>6 DEF WorkerType, Stages
  <2>2. \A q \in Runs : Alive(q)' => q = r
    BY <1>1, <1>6 DEF Alive, WorkerType
  <2>3. HandleKept'
    BY <2>2, <1>6 DEF HandleKept
  <2>4. LinkOfLiveRun'
    BY <1>6 DEF LinkOfLiveRun, WorkerType, Newborn
  <2> QED
    BY <2>1, <2>3, <2>4, <1>3
<1> QED
  BY <1>4, <1>5, <1>6, Zenon DEF start_proxy

LEMMA TaskStopsStep == IInv /\ TaskStops => IInv'
<1> SUFFICES ASSUME IInv, TaskStops PROVE IInv'
  OBVIOUS
<1> USE DEF IInv, TaskStops, stop_proxy, bridge
<1>1. WorkerType' /\ LinkOfLiveRun'
  BY DEF WorkerType, LinkOfLiveRun
<1>2. stopping' /\ \A r \in Runs : Alive(r) => r \in told'
  BY NoneIsNoRun DEF HandleKept
<1>3. HandleKept'
  BY <1>2 DEF HandleKept, Alive
<1>4. RefusedOnlyWhileStopping'
  BY <1>2 DEF RefusedOnlyWhileStopping
<1> QED
  BY <1>1, <1>3, <1>4

LEMMA KillStep == IInv /\ Kill => IInv'
<1> SUFFICES ASSUME IInv, Kill PROVE IInv'
  OBVIOUS
<1> USE DEF IInv, Kill
<1>1. WorkerType'
  BY DEF WorkerType, Stages
<1>2. \A r \in Runs : ~Alive(r)'
  BY DEF Alive, Unended
<1>3. HandleKept'
  BY <1>2 DEF HandleKept
<1>4. RefusedOnlyWhileStopping' /\ LinkOfLiveRun'
  BY DEF RefusedOnlyWhileStopping, LinkOfLiveRun
<1> QED
  BY <1>1, <1>3, <1>4

(***************************************************************************)
(* onStartCommand goes on to nativeStart only if it has found nothing      *)
(* running: no worker, or one that is winding down.                        *)
(***************************************************************************)
LEMMA onStartCommandStep ==
    ASSUME IInv, NEW m, onStartCommand(m)
    PROVE  IInv'
<1> USE DEF IInv, onStartCommand, native, workers
<1>1. WorkerType' /\ LinkOfLiveRun'
  BY DEF WorkerType, LinkOfLiveRun
<1>2. HandleKept'
  BY DEF HandleKept, Alive
<1>3. RefusedOnlyWhileStopping'
  BY DEF RefusedOnlyWhileStopping, nativeIsRunning, Startable
<1> QED
  BY <1>1, <1>2, <1>3

-----------------------------------------------------------------------------
LEMMA NextIInv == IInv /\ [Next]_vars => IInv'
<1> SUFFICES ASSUME IInv, [Next]_vars PROVE IInv'
  OBVIOUS
<1>1. CASE User
  <2>1. CASE TapStart
    BY <2>1, Bystander DEF TapStart
  <2>2. CASE TapStop
    BY <2>2, Bystander DEF TapStop, bridge
  <2>3. CASE Sync
    BY <2>3, Bystander DEF Sync, bridge
  <2> QED
    BY <1>1, <2>1, <2>2, <2>3 DEF User
<1>2. CASE Kill
  BY <1>2, KillStep
<1>3. CASE Callback
  <2>1. CASE onCreate
    BY <2>1, Bystander DEF onCreate, bridge
  <2>2. CASE onRestartUnsaved
    BY <2>2, Bystander DEF onRestartUnsaved, bridge
  <2>3. CASE stopProxy
    BY <2>3, Bystander DEF stopProxy, bridge
  <2>4. CASE onDestroy
    BY <2>4, Bystander DEF onDestroy, bridge
  <2> QED
    BY <1>3, <2>1, <2>2, <2>3, <2>4, onStartCommandStep DEF Callback
<1>4. CASE Starting
  <2>1. CASE StartRefused
    BY <2>1, Bystander DEF StartRefused, Withdraw, reportError, setRunning
  <2>2. CASE StartChecked
    BY <2>2, Bystander DEF StartChecked, Withdraw, bridge
  <2>3. CASE Flip
    BY <2>3, Bystander DEF Flip, setRunning
  <2>4. CASE StartConfirmed
    BY <2>4, Bystander DEF StartConfirmed, Withdraw, bridge
  <2> QED
    BY <1>4, <2>1, <2>2, <2>3, <2>4, StartNativeStep DEF Starting
<1>5. CASE Collect
  BY <1>5, Bystander DEF Collect, Withdraw, bridge
<1>6. CASE TaskStep
  <2>1. CASE TaskBegins
    BY <2>1, Bystander DEF TaskBegins, bridge
  <2>2. CASE awaitStopReport
    BY <2>2, Bystander DEF awaitStopReport, setRunning, bridge
  <2>3. CASE TaskAnswers
    BY <2>3, Bystander DEF TaskAnswers, setRunning
  <2> QED
    BY <1>6, <2>1, <2>2, <2>3, TaskStopsStep DEF TaskStep
<1>7. ASSUME NEW r \in Runs, LinkShown(r) \/ Listening(r)
      PROVE  IInv'
  <2>1. CASE LinkShown(r)
    BY <2>1, WorkerMoves, Zenon DEF LinkShown, Alive, Unended, Stages
  <2>2. CASE Listening(r)
    BY <2>2, WorkerMoves, Zenon DEF Listening, Alive, Unended, Stages
  <2> QED
    BY <1>7, <2>1, <2>2
<1>8. ASSUME NEW r \in Runs, Report(r)
      PROVE  IInv'
  <2>1. Alive(r)
    BY <1>8, Zenon DEF Report, Alive, Unended
  <2>2. tgLink' = None
    BY <1>8 DEF Report, reportError, setRunning
  <2> QED
    BY <1>8, <2>1, <2>2, NoneIsNoRun, WorkerMoves, Zenon DEF Report, Stages
<1>9. ASSUME NEW r \in Runs, ThreadReturns(r)
      PROVE  IInv'
  <2>1. Alive(r)
    BY <1>9 DEF ThreadReturns, Alive
  <2>2. tgLink' = tgLink /\ tgLink # r
    BY <1>9, NoneIsNoRun DEF ThreadReturns, bridge, IInv, LinkOfLiveRun
  <2> QED
    BY <1>9, <2>1, <2>2, WorkerMoves, Zenon DEF ThreadReturns, Stages
<1>10. ASSUME NEW r \in Runs, NEW result \in {"stopped", "failed"}, RunEnds(r, result)
       PROVE  IInv'
  BY <1>10, WorkerMoves, Zenon DEF RunEnds, Alive, Unended, Stages, bridge
<1>11. CASE UNCHANGED vars
  BY <1>11, Bystander DEF vars, bridge
<1> QED
  BY <1>1, <1>2, <1>3, <1>4, <1>5, <1>6, <1>7, <1>8, <1>9, <1>10, <1>11 DEF Next, WorkerStep

-----------------------------------------------------------------------------
LEMMA InvariantHolds == Spec => []IInv
BY InitIInv, NextIInv, PTL DEF Spec

(***************************************************************************)
(* start_proxy's claim that refusing keeps "exactly one worker alive at a  *)
(* time", for any number of starts, stops and deaths of the process.       *)
(***************************************************************************)
THEOREM OneWorkerHolds == Spec => []OneWorker
<1>1. IInv => OneWorker
  BY DEF IInv, HandleKept, OneWorker
<1> QED
  BY <1>1, InvariantHolds, PTL

(***************************************************************************)
(* nativeIsRunning hides no live worker that was not told to stop: a stop  *)
(* task that skips nativeStop has nothing to stop.                         *)
(***************************************************************************)
THEOREM HiddenOnlyIfToldHolds == Spec => []HiddenOnlyIfTold
<1>1. IInv => HiddenOnlyIfTold
  BY DEF IInv, HandleKept, HiddenOnlyIfTold, nativeIsRunning, Startable, Alive, Unended
<1> QED
  BY <1>1, InvariantHolds, PTL

(***************************************************************************)
(* The service's nativeStart is refused only while a run winds down.       *)
(***************************************************************************)
THEOREM RefusedOnlyWhileStoppingHolds == Spec => []RefusedOnlyWhileStopping
BY InvariantHolds, PTL DEF IInv

(***************************************************************************)
(* No interleaving of log lines, reports, stop tasks and adoptions leaves  *)
(* the link of a run that has reported its end on the screen.              *)
(***************************************************************************)
THEOREM LinkOfLiveRunHolds == Spec => []LinkOfLiveRun
BY InvariantHolds, PTL DEF IInv
=============================================================================
