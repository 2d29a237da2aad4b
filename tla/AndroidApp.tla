----------------------------- MODULE AndroidApp -----------------------------
(***************************************************************************)
(* The Android application around the proxy: the JNI shim that owns the    *)
(* worker thread (src/crates/android-jni/src/android.rs) and the Kotlin    *)
(* side that starts and stops it (ProxyService, ProxyBridge, NativeProxy,  *)
(* ProxyViewModel).                                                        *)
(*                                                                         *)
(* Four threads of control meet here: the main thread, which runs the      *)
(* service's callbacks one after another; the single-threaded executor of  *)
(* the stop tasks; the native worker, which reports through callbacks on   *)
(* its own thread; and the system, which queues the callbacks and may kill *)
(* the process.  A call into the shim runs under its lock and is a step;   *)
(* so is setRunning of ProxyBridge, whose second write only clears the     *)
(* link.  onListening is two steps, one for each of its writes.            *)
(***************************************************************************)
EXTENDS Integers, Sequences, Functions

CONSTANTS
    MaxTaps,     \* bound on the intents sent by the user
    MaxKills,    \* bound on the deaths of the process
    None

ASSUME AndroidAppAssumption == MaxTaps \in Nat /\ MaxKills \in Nat /\ None \notin Nat

Runs == 1..(MaxTaps + MaxKills)   \* every start that may succeed

VARIABLES
    \* ProxyState, behind the shim's lock
    shutdown,      \* the run whose shutdown sender is kept, or None
    thread,        \* the run whose thread handle is kept, or None
    stopping,
    \* the worker threads
    worker,        \* where each of them is
    told,          \* those whose shutdown future has completed
    \* ProxyBridge
    running,
    tgLink,        \* the run whose link is shown, or None
    error,         \* whether an error is shown
    \* the service and the main thread
    inbox,         \* the callbacks the system has queued
    up,            \* whether the system regards the service as started
    alive,         \* whether an instance exists and collects `running`
    proxyStarted,
    seen,          \* the value of `running` its collector last got
    main,          \* where the main thread is
    \* the stop executor
    queued,        \* tasks waiting
    stopper,       \* where the running task is
    taps, kills    \* used up of the bounds

native == <<shutdown, thread, stopping>>
workers == <<worker, told>>
bridge == <<running, tgLink, error>>
service == <<inbox, up, alive, proxyStarted, seen>>
executor == <<queued, stopper>>
bounds == <<taps, kills>>
vars == <<native, workers, bridge, service, main, executor, bounds>>

Stages == {"unborn", "starting", "announced", "serving", "stopped", "failed", "reported", "finished"}
Unended == {"starting", "announced", "serving"}
Alive(r) == worker[r] \in Unended \cup {"stopped", "failed", "reported"}

Init ==
    /\ shutdown = None /\ thread = None /\ stopping = FALSE
    /\ worker = [r \in Runs |-> "unborn"]
    /\ told = {}
    /\ running = FALSE /\ tgLink = None /\ error = FALSE
    /\ inbox = <<>> /\ up = FALSE /\ alive = FALSE /\ proxyStarted = FALSE /\ seen = FALSE
    /\ main = "idle"
    /\ queued = 0 /\ stopper = "idle"
    /\ taps = 0 /\ kills = 0

-----------------------------------------------------------------------------
(***************************************************************************)
(* ProxyBridge.                                                            *)
(***************************************************************************)
\* Mutant: the link stays.
setRunningMutKeepsLink(value) == running' = value /\ UNCHANGED tgLink

setRunning(value) ==
    /\ running' = value
    /\ tgLink' = IF value THEN tgLink ELSE None

reportError == error' = TRUE /\ setRunning(FALSE)

(***************************************************************************)
(* The shim.  is_finished() turns true when the thread has returned.       *)
(***************************************************************************)
Startable == \A r \in Runs : thread = r => worker[r] = "finished"

nativeIsRunning == ~stopping /\ ~Startable

Newborn(r) == worker[r] = "unborn" /\ \A q \in 1..(r - 1) : worker[q] # "unborn"

(***************************************************************************)
(* A finished worker is reaped; then the arguments may not parse, or the   *)
(* thread may not start.  Replacing the sender of an earlier run drops it. *)
(***************************************************************************)
start_proxy ==
    \/ /\ Startable
       /\ \E r \in Runs :
             /\ Newborn(r)
             /\ thread' = r /\ shutdown' = r
             /\ worker' = [worker EXCEPT ![r] = "starting"]
       /\ stopping' = FALSE
       /\ told' = told \cup ({shutdown} \ {None})
       /\ main' = "check"
    \/ /\ Startable
       /\ thread' = None /\ stopping' = (stopping /\ thread = None)
       /\ main' = "refused"
       /\ UNCHANGED <<shutdown, workers>>
    \/ /\ ~Startable
       /\ main' = "refused"
       /\ UNCHANGED <<native, workers>>

\* Mutant: the handle is taken together with the sender.
stop_proxyMutTakesHandle ==
    /\ told' = told \cup ({shutdown} \ {None})
    /\ shutdown' = None /\ thread' = None
    /\ stopping' = TRUE
    /\ UNCHANGED worker

\* Mutant: the worker is not told.
stop_proxyMutSilent == stopping' = TRUE /\ UNCHANGED <<shutdown, thread, workers>>

stop_proxy ==
    /\ told' = told \cup ({shutdown} \ {None})
    /\ shutdown' = None
    /\ stopping' = TRUE
    /\ UNCHANGED <<thread, worker>>

-----------------------------------------------------------------------------
(***************************************************************************)
(* The worker: run_with_listen, the shutdown of the runtime, the report as *)
(* the last statement, and the end of the thread.  A run ends when it is   *)
(* told to; by itself with a check, or when it cannot be started.          *)
(***************************************************************************)

\* The link is shown by each line of the banner that holds one (onLog), if the log level lets it
\* through, and by the first write of onListening.
LinkShown(r) ==
    /\ worker[r] \in {"starting", "announced"}
    /\ worker' = [worker EXCEPT ![r] = "announced"]
    /\ tgLink' = r
    /\ UNCHANGED <<native, told, running, error, service, main, executor, bounds>>

\* The second write of onListening.
Listening(r) ==
    /\ worker[r] = "announced"
    /\ worker' = [worker EXCEPT ![r] = "serving"]
    /\ running' = TRUE
    /\ UNCHANGED <<native, told, tgLink, error, service, main, executor, bounds>>

\* From the banner to on_listen the run awaits nothing, so it does not end there.
RunEnds(r, result) ==
    /\ worker[r] \in {"starting", "serving"}
    /\ worker' = [worker EXCEPT ![r] = result]
    /\ UNCHANGED <<native, told, bridge, service, main, executor, bounds>>

Report(r) ==
    /\ \/ worker[r] = "stopped" /\ setRunning(FALSE) /\ UNCHANGED error
       \/ worker[r] = "failed" /\ reportError
    /\ worker' = [worker EXCEPT ![r] = "reported"]
    /\ UNCHANGED <<native, told, service, main, executor, bounds>>

ThreadReturns(r) ==
    /\ worker[r] = "reported"
    /\ worker' = [worker EXCEPT ![r] = "finished"]
    /\ UNCHANGED <<native, told, bridge, service, main, executor, bounds>>

-----------------------------------------------------------------------------
(***************************************************************************)
(* The system: an intent creates the service if it is not up; stopSelf     *)
(* takes it down, unless its end is queued already.                        *)
(***************************************************************************)
StartService(intent) ==
    /\ inbox' = inbox \o (IF up THEN <<intent>> ELSE <<"create", intent>>)
    /\ up' = TRUE

stopSelf(rest) ==
    IF "destroy" \in Range(rest)
    THEN inbox' = rest /\ UNCHANGED up
    ELSE inbox' = Append(rest, "destroy") /\ up' = FALSE

\* The activity shows Start while `running` is false, the notification Stop while the service is up.
TapStart ==
    /\ main = "idle" /\ taps < MaxTaps
    /\ ~running
    /\ taps' = taps + 1
    /\ error' = FALSE
    /\ StartService("start")
    /\ UNCHANGED <<native, workers, running, tgLink, alive, proxyStarted, seen, main, executor, kills>>

TapStop ==
    /\ main = "idle" /\ taps < MaxTaps
    /\ running \/ up
    /\ taps' = taps + 1
    /\ StartService("stop")
    /\ UNCHANGED <<native, workers, bridge, alive, proxyStarted, seen, main, executor, kills>>

\* syncFromNative: the answer is read, and used later.
Sync ==
    /\ main = "idle"
    /\ nativeIsRunning
    /\ main' = "adopt"
    /\ UNCHANGED <<native, workers, bridge, service, executor, bounds>>

(***************************************************************************)
(* The callbacks of the service.                                           *)
(***************************************************************************)
Handles(message) == main = "idle" /\ inbox # <<>> /\ Head(inbox) = message

onCreate ==
    /\ Handles("create")
    /\ inbox' = Tail(inbox)
    /\ alive' = TRUE /\ proxyStarted' = FALSE /\ seen' = running
    /\ UNCHANGED <<native, workers, bridge, up, main, executor, bounds>>

\* Mutant: a running worker is not adopted.
onStartCommandMutAlways(message) ==
    /\ Handles(message)
    /\ inbox' = Tail(inbox)
    /\ error' = FALSE /\ proxyStarted' = TRUE /\ main' = "native"
    /\ UNCHANGED <<native, workers, running, tgLink, up, alive, seen, executor, bounds>>

onStartCommand(message) ==
    /\ Handles(message)
    /\ inbox' = Tail(inbox)
    /\ IF nativeIsRunning
       THEN main' = "adopt" /\ UNCHANGED <<error, proxyStarted>>
       ELSE error' = FALSE /\ proxyStarted' = TRUE /\ main' = "native"   \* startProxy
    /\ UNCHANGED <<native, workers, running, tgLink, up, alive, seen, executor, bounds>>

\* A restart by the system without saved arguments.
onRestartUnsaved ==
    /\ Handles("restart")
    /\ ~nativeIsRunning
    /\ stopSelf(Tail(inbox))
    /\ UNCHANGED <<native, workers, bridge, alive, proxyStarted, seen, main, executor, bounds>>

stopProxy ==
    /\ Handles("stop")
    /\ proxyStarted' = FALSE
    /\ queued' = queued + 1
    /\ stopSelf(Tail(inbox))
    /\ UNCHANGED <<native, workers, bridge, alive, seen, main, stopper, bounds>>

onDestroy ==
    /\ Handles("destroy")
    /\ inbox' = Tail(inbox)
    /\ alive' = FALSE
    /\ queued' = queued + 1
    /\ UNCHANGED <<native, workers, bridge, up, proxyStarted, seen, main, stopper, bounds>>

(***************************************************************************)
(* The rest of startProxy, a call at a time.                               *)
(***************************************************************************)
StartNative ==
    /\ main = "native"
    /\ start_proxy
    /\ UNCHANGED <<bridge, service, executor, bounds>>

Withdraw == proxyStarted' = FALSE /\ main' = "idle" /\ stopSelf(inbox)

StartRefused ==
    /\ main = "refused"
    /\ reportError
    /\ Withdraw
    /\ UNCHANGED <<native, workers, alive, seen, executor, bounds>>

StartChecked ==
    /\ main = "check"
    /\ IF error THEN Withdraw ELSE main' = "flip" /\ UNCHANGED <<inbox, up, proxyStarted>>
    /\ UNCHANGED <<native, workers, bridge, alive, seen, executor, bounds>>

\* setRunning(true), of startProxy or for a worker that was found running.
Flip ==
    /\ main \in {"flip", "adopt"}
    /\ setRunning(TRUE)
    /\ main' = IF main = "flip" THEN "confirm" ELSE "idle"
    /\ UNCHANGED <<native, workers, error, service, executor, bounds>>

StartConfirmed ==
    /\ main = "confirm"
    /\ IF nativeIsRunning THEN main' = "idle" /\ UNCHANGED <<inbox, up, proxyStarted>> ELSE Withdraw
    /\ UNCHANGED <<native, workers, bridge, alive, seen, executor, bounds>>

(***************************************************************************)
(* The collector of `running` is resumed on the main thread, with the      *)
(* value of that moment; it may be overtaken by queued callbacks.          *)
(***************************************************************************)
Collect ==
    /\ main = "idle" /\ alive
    /\ seen # running
    /\ seen' = running
    /\ IF proxyStarted /\ ~running
       THEN Withdraw
       ELSE UNCHANGED <<inbox, up, proxyStarted, main>>
    /\ UNCHANGED <<native, workers, bridge, alive, executor, bounds>>

-----------------------------------------------------------------------------
(***************************************************************************)
(* A task of stopNative: look, stop and wait for the report for at most    *)
(* STOP_REPORT_TIMEOUT_MS; or answer for a worker that is not there.       *)
(***************************************************************************)
TaskBegins ==
    /\ stopper = "idle" /\ queued > 0
    /\ queued' = queued - 1
    /\ stopper' = IF nativeIsRunning THEN "stop" ELSE "answer"
    /\ UNCHANGED <<native, workers, bridge, service, main, bounds>>

TaskStops ==
    /\ stopper = "stop"
    /\ stop_proxy
    /\ stopper' = "await"
    /\ UNCHANGED <<bridge, service, main, queued, bounds>>

\* The timeout needs no report; a report that came and went may be missed.
awaitStopReport ==
    /\ stopper = "await"
    /\ stopper' = "idle"
    /\ \/ ~running /\ UNCHANGED bridge
       \/ setRunning(FALSE) /\ UNCHANGED error
    /\ UNCHANGED <<native, workers, service, main, queued, bounds>>

\* Mutant: nothing is running, so nothing is done.
TaskAnswersMutSilent ==
    /\ stopper = "answer"
    /\ stopper' = "idle"
    /\ UNCHANGED <<native, workers, bridge, service, main, queued, bounds>>

TaskAnswers ==
    /\ stopper = "answer"
    /\ stopper' = "idle"
    /\ setRunning(FALSE)
    /\ UNCHANGED <<native, workers, error, service, main, queued, bounds>>

(***************************************************************************)
(* The system kills the process.  Nothing in memory survives; a service    *)
(* that is up is sticky and is created again, without an intent.           *)
(***************************************************************************)
Kill ==
    /\ kills < MaxKills
    /\ kills' = kills + 1
    /\ shutdown' = None /\ thread' = None /\ stopping' = FALSE
    /\ worker' = [r \in Runs |-> IF Alive(r) THEN "finished" ELSE worker[r]]
    /\ running' = FALSE /\ tgLink' = None /\ error' = FALSE
    /\ inbox' = IF up THEN <<"create", "restart">> ELSE <<>>
    /\ alive' = FALSE /\ proxyStarted' = FALSE /\ seen' = FALSE
    /\ main' = "idle"
    /\ queued' = 0 /\ stopper' = "idle"
    /\ UNCHANGED <<told, up, taps>>

-----------------------------------------------------------------------------
User == TapStart \/ TapStop \/ Sync

Callback ==
    \/ onCreate \/ onRestartUnsaved \/ stopProxy \/ onDestroy
    \/ \E m \in {"start", "restart"} : onStartCommand(m)

Starting == StartNative \/ StartRefused \/ StartChecked \/ Flip \/ StartConfirmed

TaskStep == TaskBegins \/ TaskStops \/ awaitStopReport \/ TaskAnswers

\* What a worker does without waiting for anything.
WorkerStep(r) == Listening(r) \/ Report(r) \/ ThreadReturns(r)

Next ==
    \/ User \/ Kill \/ Callback \/ Starting \/ Collect \/ TaskStep
    \/ \E r \in Runs : \/ LinkShown(r) \/ WorkerStep(r)
                       \/ \E result \in {"stopped", "failed"} : RunEnds(r, result)

(***************************************************************************)
(* The threads run, and the main looper is first come, first served: taps  *)
(* and resumes do not hold up a queued callback for ever.  A run told to   *)
(* stop returns (ShutdownReturns of module Server), and shutdown_timeout   *)
(* bounds its tail.  A worker that has announced itself goes on to serve.  *)
(***************************************************************************)
Fairness ==
    /\ WF_vars(Starting) /\ SF_vars(Callback) /\ SF_vars(Collect)
    /\ WF_vars(TaskStep)
    /\ \A r \in Runs : WF_vars(WorkerStep(r)) /\ WF_vars(r \in told /\ RunEnds(r, "stopped"))

Spec == Init /\ [][Next]_vars
FairSpec == Spec /\ Fairness

-----------------------------------------------------------------------------
TypeOK ==
    /\ {shutdown, thread, tgLink} \subseteq Runs \cup {None}
    /\ {stopping, running, error, up, alive, proxyStarted, seen} \subseteq BOOLEAN
    /\ worker \in [Runs -> Stages]
    /\ told \subseteq Runs
    /\ inbox \in Seq({"create", "start", "restart", "stop", "destroy"})
    /\ main \in {"idle", "adopt", "native", "refused", "check", "flip", "confirm"}
    /\ queued \in Nat
    /\ stopper \in {"idle", "stop", "await", "answer"}
    /\ taps \in 0..MaxTaps /\ kills \in 0..MaxKills

(***************************************************************************)
(* start_proxy: "Refusing is the only thing that keeps exactly one worker  *)
(* alive at a time, which is what makes emit_listening/emit_stopped/       *)
(* emit_error unambiguous about which run they describe."                  *)
(***************************************************************************)
OneWorker == \A q, r \in Runs : Alive(q) /\ Alive(r) => q = r

(***************************************************************************)
(* nativeIsRunning answers false for a worker that is alive only if that   *)
(* worker has been told to stop, whatever stops preceded its start: a stop *)
(* task that reads the answer can rely on it and leave the worker alone.   *)
(***************************************************************************)
HiddenOnlyIfTold == \A r \in Runs : Alive(r) /\ ~nativeIsRunning => r \in told

(***************************************************************************)
(* ACTION_START is never answered with "proxy is already running": between *)
(* the service's look and its nativeStart nothing else starts a run, so a  *)
(* start is refused only while a stopped run is winding down.              *)
(***************************************************************************)
RefusedOnlyWhileStopping == main = "native" /\ ~Startable => stopping

(***************************************************************************)
(* ProxyBridge has three writers of the link: the log lines and onListening*)
(* of a worker, and setRunning(false) of any thread.  The link that is     *)
(* shown is that of a run which has announced itself and has not reported  *)
(* its end, also when a stop that gave up waiting cleared it before the    *)
(* worker's own report, or a start was refused next to it.                 *)
(***************************************************************************)
LinkOfLiveRun ==
    tgLink # None => worker[tgLink] \in {"announced", "serving", "stopped", "failed"}

(***************************************************************************)
(* syncFromNative: "A state stuck on true is not a dead end either — the   *)
(* button that stale state shows is Stop, and taking it clears it."        *)
(***************************************************************************)
StopClears == "stop" \in Range(inbox) ~> ~running

(***************************************************************************)
(* A Stop ends every run that was alive when it was pressed, also one that *)
(* is still starting, or that another stop task is already waiting for.    *)
(***************************************************************************)
StopEndsRun == \A r \in Runs : "stop" \in Range(inbox) /\ Alive(r) ~> worker[r] = "finished"

(***************************************************************************)
(* ProxyService: the service tears itself down "instead of leaving         *)
(* "Running" up with no listener".  When every thread has come to rest,    *)
(* `running` is shown only with a worker behind it.                        *)
(***************************************************************************)
AtRest == main = "idle" /\ inbox = <<>> /\ queued = 0 /\ stopper = "idle" /\ (alive => seen = running)

RunningHasWorker == AtRest /\ running => \E r \in Runs : Alive(r)

=============================================================================
