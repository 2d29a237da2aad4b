# A TLA+ development of tg-ws-proxy-rs

Models, model checks and proofs for the proxy in `src/`. Paths below are
relative to the repository; `pool.rs` is `src/src/pool.rs`, `android.rs` is
`src/crates/android-jni/src/android.rs`, and so on.

## The system

A Telegram client connects to the proxy, which reads its obfuscated handshake,
chooses an upstream and relays the re-encrypted streams in both directions.

| Part | Code | Modules |
|---|---|---|
| Pool of pre-connected direct WebSockets, one bucket per (DC, media) | `pool.rs` `get`, `refill_reserved`, `warmup`, `connect_batch` | `WsPool`, `WsPoolProofs`, `SparePool` |
| Cloudflare spares, one per (tier, DC, media), and `--cf-balance` | `pool.rs` `cf_get`, `cf_prefetch`, `cf_refill_reserved`; `proxy.rs` `cf_worker`, `cf_proxy`, `cf_target` | `CfPool`, `CfPoolProofs`, `SparePool` |
| Routing ladder, pins, cooldowns | `proxy.rs` `select_upstream`, `pinned_ladder`, the tiers; `ws_client.rs` `CooldownMap` | `Ladder`, `LadderProofs` |
| Cloudflare and direct dialling: attempts, `--cf-ip` edges, their rotation and cooldowns | `ws_client.rs` `CfAttempts`, `connect_cf_with_path`, `connect_ws_for_dc_with_outbound` | `WsClient`, `WsClientProofs` |
| One client session: handshake, route, bridge, log line | `proxy.rs` `handle_client_with_runtime`, `bridge_ws`, `bridge_relay`, `bridge_tcp`, `join_bridge`, `UploadCounter` | `Session`, `SessionProofs` |
| Packet splitter | `splitter.rs` `split_and_encrypt`, `flush` | `Splitter`, `FramingProofs` |
| FakeTLS handshakes and records, readers and writers | `faketls.rs`; `proxy.rs` `ClientReader`, `PendingData`, `ClientWriter` | `Framing` (composed with `Splitter`), `FramingProofs` |
| A run: start-up, check modes, accept loop, shutdown, limits | `server.rs` `run_with_listen`, `limits.rs` | `Server`, `ServerProofs` |
| Android worker, service and bridge | `android.rs`, `ProxyService.kt`, `ProxyBridge.kt`, `NativeProxy.kt`, `ProxyViewModel.kt` | `AndroidApp`, `AndroidAppProofs` |
| Ciphers, outbound proxies, command line, probes, domain list | `crypto.rs`, `outbound/`, `config.rs`, `check.rs`, `default_domains*` | inputs of the models |
| Installers, OpenWrt pages, Android screens | `install.sh`, `openwrt/`, `android/…/ui` | not modelled |

How the parts meet: `AndroidApp` starts and stops runs, each of which is a
`Server`; `Server` accepts a connection and starts a handler, which is a
`Session`; the session's routing step is one walk of the `Ladder`; the tiers of
the ladder ask `WsPool` or `CfPool` first and then dial as `WsClient` does; each
direction of the session is a path of `Framing`, which drives the `Splitter`
where the sink is Telegram's WebSocket. The cooldown maps, the balance and
rotation counters and the pools are shared by all connections of the process,
and nothing but short locks orders the accesses: that is where the
interleavings come from. Each module abstracts its neighbours to what it can
see of them: a pool hit in `Ladder` is a choice, a dial in `CfPool` has any
outcome, `Server` counts handlers without looking into them, and `AndroidApp`
relies on `ShutdownReturns` of `Server`.

## The modules

Every lock acquisition, `await` and spawn in the code ends a step of the model;
what happens under one lock without an `await` is one step. Each module states
a type invariant.

**WsPool.** `idle` is the map of buckets, an entry its creation time and
whether its server has closed it. `refilling` is the set of reservations.
`client` is a call of `get` in progress (`GetCall` reads the clock, `GetPop`
runs under the lock, `GetReturn` schedules the refill after it). `task` holds
the spawned refill tasks: `RefillCount`, `RefillDial`, `RefillPush`,
`RefillRelease` are the four stretches of `refill_reserved` between its awaits,
the last one the drop of `RefillGuard`. `warm` is the same for `warmup`, whose
`buffer_unordered` works on `WarmupBucketConcurrency` buckets at a time.
`connect_batch` keeps at most `PoolConnectConcurrency` dials in flight.

**CfPool.** `setup` is the tier and whether `--cf-balance` is set. `cf_idle`,
`cf_refilling` and the tasks are as above, `counter` is the tier's balance
counter modulo the number of domains. A route is a domain and whether it has
been expanded to its `kws{N}` record. The two tiers differ in when the counter
ticks (the proxy tier before it looks into the pool, the Worker tier after a
miss) and in what `cf_target` carries over. `proven` is a history variable.

**SparePool** is what both halves of the pool promise, without clocks, dials,
routes or locks: each bucket has a stock, and a refill that is reserved,
delivers once, never above `Limit`, and is released; connections may be taken at
any time, and a bucket may get one first lot without a look at the limit. Both
pools implement it (`ImplementsSparePool == Pool!Spec`, where `Pool` is an
instance under a refinement mapping). In `WsPool` the stock is the bucket, the
refill has delivered once its task has pushed or found the bucket full, and the
first lot is warmup's push. In `CfPool` the stock is what the bucket costs: the
idle connection and the one its task dials or holds, so that the delivery is the
decision to dial and a failed dial takes the connection away again; there is no
first lot.

**Ladder.** `cooling` is the set of active keys of the four cooldown maps:
`WS_FAIL` by class, `IP_FAIL` by address, `CF_WORKER_FAIL` and `UPSTREAM_FAIL`
by name. A class is a (DC, media) pair; `TargetIp`, `Builtin` and `Pins` say
what the configuration gives it. `conn` is the routing of each connection: the
rungs it still has, the targets of the current rung it still has to try. A
pinned tier that `pinned_ladder` skips is a rung with nothing to dial. The keys
of the four maps are assumed apart (`KeysApart`), as the maps are. `net` is the set of addresses that answer, and changes at most `MaxChanges`
times. `owed` is a history variable: the addresses that were up, and not
excused by a cooldown, ever since the connection was accepted.

**WsClient.** Each call is a connect in progress, of a `kind`: a walk over the
domains, a single name, or the two hostnames of a DC. `attempts` is the iterator
`CfAttempts` with its pending retry, `path` the edges that `connect_cf_with_path`
has left and what the earlier ones answered, `flags` the `WsAttempt` it returns.
`Attempt` takes a place in `CF_IP_ROTATION` and reads the edges' cooldowns;
`EdgeEnds` is the end of one dial, with the effect on the cooldown;
`PathReturns` is the return of `connect_cf_with_path`. An edge serves, refuses
or is silent, and may change while it is being dialled. `outcomes`, `steady`,
`tries` and `slow` are history variables: what the dials met, which edges have
served and not been cooling since the call began, how often each domain was
tried and which of them ran out the clock at once.

**Session.** `up` and `down` count, for each direction, the units sent by its
source, read by the proxy, written by it and taken by its destination; the
client and the upstream send, take and hang up at will. The three bridges are
one model with the `kind` chosen by `Route`: only the WebSocket bridge buffers a
partial packet, flushes it and sends a close frame, only the TCP bridge connects
by itself.

**Splitter.** The fields of `MsgSplitter` are variables of the same names; the
header buffer keeps the bytes of earlier packets, as the array does. `Read` is a
call of `split_and_encrypt` with any next piece of the client's stream; `Tunnel`,
`Header`, `Body` and `Return` are the stretches of its loop. An encrypted byte
is the plaintext byte and the keystream position it was encrypted at. The
intermediate and the padded transport are framed alike and are one value.

**Framing** extends `Splitter` with where its input comes from and what other
sinks do with it. A path is a source (a plain or a FakeTLS client, a WebSocket,
a plain or a FakeTLS upstream) and a sink (packets, records, bytes). `phase`
goes through the handshake of the source; `wire` is what was taken off the
wire, `handshake_buf` the init, `pending` what the record that completed the
init held beyond it. What a source sends next is chosen when it is read, so
that every division into records and reads occurs.

**Server.** `pc` is where `run_with_listen` is; `permits` the semaphore,
`backlog` the kernel's queue, `routing` and `bridged` the handlers without and
with an outbound socket. `fd_limit` is what `soft_nofile_limit` returned to this
run, one of `FdLimits`. `auto_max_connections` is in saturating arithmetic with
`usize::MAX` a constant.

**AndroidApp.** `shutdown`, `thread` and `stopping` are the fields of
`ProxyState`; `worker` is the stage of each run's thread, from its start over
its announcement, its end and its report to its return. `running`, `tgLink` and
`error` are the bridge's flows. A run shows its link before it is running: the
banner of `run_with_listen` logs it and `ProxyBridge.onLog` picks it out, and
`onListening` writes the link first and the flag second. `LinkShown` is one such
write of the link, `Listening` that of the flag; what other threads do may fall
between them. `setRunning(false)` writes the flag and then clears the link and
is one step: nothing reads both, and the later write can only clear the link,
which the step does as well. The main thread takes the callbacks in `inbox` one after
another; `startProxy` is five steps (`StartNative` to `StartConfirmed`), between
which the worker's reports, the collector of `running` and the stop executor
run. `Kill` is the death of the process, after which a sticky service is
created again.

## What the runs check

| Run | Instance | Result |
|---|---|---|
| `ws_bucket` | 1 bucket, 2 clients, 2 tasks, pool size 2, clock to 2 | at most one refill per bucket (`SingleFlight`), never more connections and dials than `limits.rs` sets aside (`FdBudget`), and the whole is a pool of spares in which a refill delivers once and never overfills (`ImplementsSparePool`) |
| `ws_buckets` | 2 buckets, 1 client, warm-up concurrency 1 | a reservation is always released (`ReservationReleased`); a bucket that keeps being asked for, with leave to refill, keeps serving, unless its refills' dials fail or its idle connections are closed (`DemandServed`) |
| `ladder_routes` | 3 classes (2 pinned), 2 connections, 2 Workers, 1 domain, 1 upstream | nobody ends on raw TCP or is dropped past a tier that would have served (`ReachableTierServes`), no pinned connection to a DC with an address is dropped without a dial (`PinnedDropDialled`) |
| `ladder_liveness` | 1 class, 2 connections, 1 Worker | every connection is routed or dropped (`Routed`), an address in cooldown is found again without an expiry (`IpCooldownHeals`) |
| `cf_spares` | both tiers, with and without balancing, 2 domains, 2 clients | a pool of spares with at most one per key, being dialled or idle (`ImplementsSparePool`), without balancing always through a route that has worked (`SpareThroughProvenRoute`), reservations are released |
| `cf_record` | proxy tier, balancing | finding, see below |
| `ws_dial` | lists of two, one and no edges, two of them dialled directly; a list of domains with a duplicate; a walk or a direct connect beside a single name | an edge that serves all along is not missed (`SteadyEdgeServes`), every attempt dials (`AttemptDials`), each domain gets its attempts (`DomainsCovered`), the flags the ladder backs off on are right (`FlagsTell`), an edge that comes back is used again (`Recovers`) |
| `session_streams` | all bridges, 3 units each way, packets of 2 | the log line agrees with the streams (`LogMatchesStreams`), an end of file delivers everything read (`EofDeliversAll`), a hang-up of either side ends the session (`HangupEndsSession`) |
| `framing_streams` | all paths; on the plain one three packets, or a packet, an empty one and more; shorter streams in records; an init of 2 bytes, records of up to 3 | each byte is encrypted once and in order (`StreamInOrder`), each message is one packet as a parser of the whole stream would find it (`PacketsFramed`), sizes never underflow (`NoUnderflow`), the rest is flushed (`FlushedAll`), nothing is lost between the wire and the bridge (`NothingLost`), an honest source is served (`HonestSourceServed`), every record written can be read (`RecordsReadable`), every call returns (`CallReturns`), pending bytes need nothing more from the client (`PendingRead`), and the whole implements `Splitter` (`ImplementsSplitter`) |
| `server_run` | all modes; 48 descriptors, 20 (fewer than the reserve) and no limit; 2 in the backlog | permits are conserved, descriptors stay within the limit or, if that is too tight, within what the minimum of connections needs (`FdsWithinLimit`), the verdict is reported, a shutdown or a verdict ends the run |
| `android_app` | 3 taps, 1 death of the process | one worker at a time (`OneWorker`), a start is refused only while a run winds down (`RefusedOnlyWhileStopping`), the link on the screen is that of a run which has not reported its end (`LinkOfLiveRun`), a Stop clears the flag from every state (`StopClears`) and ends every run that was alive (`StopEndsRun`) |
| `android_stuck` | 1 tap | finding, see below |

Bounds. Two clients are enough for the races in the pools and the ladder, which
are between a holder of stale knowledge and one other actor; the second task of
`WsPool` exists so that a second refill of the same bucket could start if the
reservation let it. Pool size 2 tells "one more" from "full". The clock runs to
`MaxAge + 1`, the first time at which an entry is too old; in `ws_buckets` it
stands still, for `DemandServed` is about calls that come more often than
entries grow old. Three network changes
let a target go down, come back and go down again; the single change of
`ws_dial` is a recovery, or a loss during a dial, and two edges suffice for all
of them to cool down one after another. The domains of `ws_dial` begin in the
middle of a list with a duplicate, where skipping and wrapping around meet.
Three units in each direction, with packets of two, let a session end with a
packet delivered and part of another one buffered. The packets of
`framing_streams` have short and extended headers, with and without the
quick-ack bit, and payloads that read like headers, so that a splitter out of
step finds another packet. With an init of two bytes and records of up to three
(and the code's headroom for oversized ones) an init takes one record or two and
ends within one or with it. Three taps and a death allow start, stop and start again with
the system's restart in between. Clients, connections and tasks are
interchangeable, and symmetry is used where only safety is checked.

Fairness. A task that can run is polled; a dial, a handshake and a sleep end,
because each has a timeout; `select!` polls in random order, so a branch that
is ready round after round is taken (strong fairness in `Server`). One wait has
no timeout, that for the hello of a FakeTLS upstream (`proxy.rs:1532`):
`Framing` assumes nothing of it, `ladder_liveness` has no upstream, and
`Session` takes it to end. `Session` also assumes that an end that is open takes
what it is sent: the code has no write timeout, and `HangupEndsSession` does not
hold without that. `Ladder` assumes that clients keep coming and that a pool
which is no longer refilled is drained. `WsClient` assumes nothing of when
cooldowns expire, and `Recovers` does without. `split_and_encrypt` has no
`await`, so a call in progress goes on. Of the peers in `Framing` it is assumed
that a sink takes what it is sent (its `Write` is fair), and nothing of when a
source sends. In `AndroidApp` the threads run, the main looper serves its queue in
order, a worker that has shown its link goes on to serve, for it awaits nothing
in between, and a run told to stop returns, which is `ShutdownReturns` of
`Server`. `WsPool` assumes nothing of when clients call.
Nothing is assumed of when clients connect to `Server` or leave it.

## Findings

* `cf_record`: with `--cf-balance` the proxy tier's spare is dialled at the
  bare domain, not at its `kws{N}` record (`proxy.rs:908`).
* `android_stuck`: a run may report its end after `startProxy` has looked for an
  error and before its `setRunning(true)`, which overwrites the report;
  `nativeIsRunning` still answers true on the next line, because the report
  precedes the thread's return. "Running" stays up with no worker
  (`ProxyService.kt:108`). A Stop clears it: `StopClears` holds.

Other departures met while modelling, which no run states:

* A hit during a refill that has already counted the bucket is not made up for;
  the bucket rests below `pool_size` until its next hit (`pool.rs:413`).
* `get` judges an entry's age by the clock it read before it waited for the lock
  (`pool.rs:196`), so one may be handed out that is older than `max_age` by that
  wait, although `pool.rs:120` has it "discarded on next use rather than handed
  to a client".
* The argument of `cf_prefetch` ticks the balance counter even with the pool
  off (`proxy.rs:1013`), so that two Workers are not rotated at all
  (`docs/Fallbacks.md:219`).
* `ws_client.rs:125` says that every configured IP is tried before a failure;
  edges that are cooling are not, while another one is left.
* An empty Application Data record is read as the end of the stream
  (`faketls.rs:504`); the proxy itself never writes one (`RecordsReadable`).
* The stop task of `onDestroy` may stop a run started after it was queued
  (`ProxyService.kt:83`), and one that found nothing running may clear the flag
  of a run that has begun to listen since (`ProxyService.kt:218`).

## What is proved

TLAPS proves the following for every value of the constants allowed by the
modules' named assumptions (sizes are natural numbers; clients, tasks, keys and
domains are any sets or lists; streams have any length). Each inductive
invariant is preserved by one step per action; the theorems follow from it.

* `WsPoolProofs`: `TypeCorrect`, `SingleFlightHolds`, `FdBudgetHolds`,
  `FreshestFirstHolds`, `ImplementsSparePoolHolds`. A count read under the
  lock is stale when it is used, so the budget is not inductive. `IInv` adds
  what ties a task to its reservation (a task exists exactly for a reserved
  bucket, and it is alone there: `SingleFlight`), what a batch has started and
  finished, what a call of `get` holds (`ClientInv`), and the room: entries and
  what the refill may still add are at most `PoolSize` until the warm-up pushes,
  and at most twice that afterwards. For the refinement, what `SparePool` sees
  of a bucket's refill is where its one live task is (`LiveRefill`, from
  `SingleFlight`); each action then maps to one step of `SparePool` or to none
  (`NextMaps`). `FreshestFirst` ("the freshest connections are used first",
  `pool.rs:200`) is proved only, no run states it: a bucket is ordered by age
  (`OldestFirst`) because entries are stamped when they are pushed, under the
  lock, and not when their dials end.
* `CfPoolProofs`: `OneSpareHolds`, `SpareThroughProvenRouteHolds`,
  `ImplementsSparePoolHolds`. A refill looks at its bucket, dials without the
  lock and pushes. What it saw still holds when it pushes (`RoomInv`) because
  only it adds to the bucket, and it is alone because of the reservation
  (`TaskInv`). The route property needs that idle entries and the targets that
  calls carry are proven as well (`RouteInv`), and `Rotation`: every place in
  the rotation is a domain. The refinement uses the same facts: a push adds no
  spare, for the one pushed was counted since its dial began, and there still is
  room for it.
* `SessionProofs`: `LogMatchesStreamsHolds`, `EofDeliversAllHolds`. The log line
  is written from counters that two tasks advance at different times and that an
  abort may freeze at any of them. `UpInv`, `EndedInv` and `DownInv` say, for
  each place a task can be in, by how much its counter lags behind the stream;
  `MainInv` ties the log line to the counters.
* `FramingProofs`, the splitter: `TypeCorrect`, `StreamStaysInOrder`,
  `SizesNeverUnderflow`, `OnePacketPerMessageHolds`, `SplitterFlushesAll`, for
  any division into reads.
  `StreamInOrder` needs that the keystream is where the input is (`StreamInv`);
  the sizes need that an unfinished header is all a packet holds, and that a
  packet with a length is longer than what it holds (`FramingInv`), which rests
  on `ParsedLen`: every length the header parser returns, other than the 0 that
  ends the framing, exceeds the header's own size. The packets need `MInv`: the
  messages so far are the packets of the stream so far, the header buffer holds
  the bytes of the stream where the next one begins, although it also keeps
  bytes of earlier headers, and a length once known is the one a parser of the
  whole stream finds there.
* `FramingProofs`, the paths: `NothingLostHolds`, `EveryPathInOrder`,
  `HonestSourceServedHolds`, `RecordsReadableHolds`, `PacketsFramedHolds`,
  `FlushedAllHolds` and the refinement `ImplementsSplitterHolds`, for records,
  inits and reads of any size. `SInv` extends the splitter's invariant with what
  the wire has carried (`WireInv`: it is a front part of the init and the
  stream, and is made of the init's buffer, the bridge's input and the pending
  bytes), how far the init is in each phase (`PhaseInv`) and that the records
  written cover what was encrypted (`RecordsInv`). The refinement then is that a
  read of any source hands the splitter the next piece of one of its streams
  (`ChunkIsRead`), and by it the splitter's own `MInv` holds on every path that
  has a splitter; on the others, all of the input is written between two chunks
  (`WrittenInv`).
* `LadderProofs`: `LadderInvariant`, `ReachableTierServesHolds`,
  `PinnedDropDialledHolds`, `RouteAdvances`, for any classes, lists of targets
  and pins, and any number of connections. What has to serve a connection is
  fixed when it is accepted, but the cooldowns that decide whether it is dialled
  are written by all of them. `OwedInv` says that an address that still has to
  serve is ahead (`Ahead`): a rung before the terminal one leads to it, and if
  that is the rung being walked its turn has not passed. Where a cooldown would
  step over it, the address is `Clear`: it is not cooling, and every dial to it
  that is under way will connect. So no other connection can cool it down, for
  that takes a failed dial; the cooldowns of `direct_ws` are of other keys. A
  step of one connection (`StepOf`) keeps this for the others (`OthersKept`).
  `DialInv` is for the pins: until a connection has dialled, a rung is ahead
  that dials through any cooldown, or ends in TCP (`Certain`). The ladders have
  one by `LadderFacts`, for a pinned ladder the last of the tiers that are not
  skipped (`LastIn`, by the least-number principle). `RouteAdvances` is the
  descent behind `Routed`.
* `WsClientProofs`: `SteadyEdgeServesHolds`, `AttemptDialsHolds`,
  `DomainsCoveredHolds`, `FlagsTellHolds`, for any lists of edges and domains,
  with repetitions, and any number of calls that share the rotation and the
  cooldowns. An edge that serves all along is still ahead of the attempt, at its
  distance from the attempt's place in the rotation (`SteadyAhead`;
  `EdgeReached` says that every edge is at some distance), for it was not
  cooling when the attempt read the cooldowns. `DomainsCovered` needs that the
  domains behind the iterator have had their tries and the one just tried its
  first (`TriesInv`), and that every domain has a first place in the order the
  walk takes (`FirstOrdinal`, by the least-number principle).
* `ServerProofs`: `TypeCorrect`, `PermitsConservedHolds`, `FdsWithinLimitHolds`,
  `VerdictReportedHolds`. `PermitInv` extends the permit count to the whole run:
  all zero while starting, conserved while serving, and nothing or all of it
  once the run has ended. `LimitFits` is the arithmetic of
  `auto_max_connections`, including the saturating cases and a limit below the
  reserve; the descriptor bound follows from both.
* `AndroidAppProofs`: `OneWorkerHolds`, `RefusedOnlyWhileStoppingHolds`,
  `HiddenOnlyIfToldHolds`, `LinkOfLiveRunHolds`, for any number of taps and
  deaths. The invariant is that the handle of a live worker is kept
  (`HandleKept`), which is what `start_proxy`'s refusal and `stop_proxy`'s
  leaving the handle in place are for. The link needs nothing more: only the
  worker that is announcing itself sets it, and its report clears it.

Only model-checked: all liveness (`ReservationReleased`, `DemandServed`,
`Routed`, `IpCooldownHeals`, `ShutdownReturns`, `CheckRunEnds`,
`HangupEndsSession`, `CallReturns`, `PendingRead`, `Recovers`, `StopClears`,
`StopEndsRun`), which needs fairness and `ENABLED`. Of `Routed` the descent is
proved; that the next step comes is fairness. Every invariant and every action
property of the passing runs is stated by a theorem.

## What is not modelled

Times are abstracted to "expired or not" and "timed out or not", so races over
the length of a timeout are outside `Ladder` and `WsClient`. `Session` counts
bytes, and the cipher itself is nowhere computed: an encrypted byte remembers
its keystream position. The contents of the FakeTLS hellos and their signatures are
inputs of `Framing` (a hello is acceptable or not).
`PinnedDropDialled` is about DCs that have an address: for one that has
neither a `--dc-ip` target nor a built-in address `tier_attemptable_after`
counts `cfworker`, which `pinned_ladder` then skips, and a pin
`mtproto,cfworker` is dropped without a dial while `mtproto` is cooling down.
Network outcomes, the probes of `--check`, the outbound proxy's own handshake
and the decoding of the domain list are sequential code without shared state
and enter as inputs. Of the log output `AndroidApp` has the banner's lines with the link, which
`ProxyBridge.onLog` scans for; other lines, the log panel and JNI attachment are
left out. Parsing of the command line, installers and screens are not modelled:
they have no state that the rest of the system depends on.
