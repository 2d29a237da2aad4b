------------------------------- MODULE WsPool -------------------------------
(***************************************************************************)
(* The direct half of the pre-warmed WebSocket pool (src/src/pool.rs).     *)
(* Client tasks call `get`, one start-up task runs `warmup`, and detached  *)
(* refill tasks run `refill_reserved`.  They share the `idle` map (behind  *)
(* an async mutex) and the `refilling` set (behind a std mutex).  No       *)
(* critical section spans an await, so each one is a single step; all      *)
(* that happens between two of them interleaves.                           *)
(***************************************************************************)
EXTENDS Integers, Sequences, FiniteSets

CONSTANTS
    Keys,          \* the buckets, one per (dc, is_media) of `dc_redirects`
    WarmKeys,      \* the buckets `warmup` fills (class not pinned off ws)
    PoolSize,      \* --pool-size
    MaxAge,        \* --pool-max-age, in clock ticks
    Clients,       \* client tasks that call `get`
    Tasks,         \* slots for detached refill tasks
    PoolConnectConcurrency,
    WarmupBucketConcurrency,
    AllowRefill,   \* the verdicts the routing layer may pass to `get`
    DialResults,   \* the ways one pre-connect may end
    NoKey,         \* no bucket
    MaxTime        \* bound: the clock stops here

ASSUME ConstantsAssumption ==
    /\ WarmKeys \subseteq Keys
    /\ NoKey \notin Keys
    /\ PoolSize \in Nat
    /\ MaxAge \in Nat
    /\ MaxTime \in Nat
    /\ PoolConnectConcurrency \in Nat \ {0}
    /\ WarmupBucketConcurrency \in Nat \ {0}
    /\ AllowRefill \subseteq BOOLEAN
    /\ DialResults \subseteq {"connected", "failed"}

VARIABLES
    now,        \* the monotonic clock, `Instant::now()`
    idle,       \* PoolMap: the buckets, oldest entry first
    refilling,  \* the buckets with a refill reserved
    client,     \* the `get` call each client task is in
    task,       \* the refill tasks
    warm        \* warmup's job per bucket

vars == <<now, idle, refilling, client, task, warm>>

(***************************************************************************)
(* `open` is FALSE once the server has closed the connection or sent       *)
(* anything on it, which is what the non-blocking `next()` looks for.      *)
(***************************************************************************)
PoolEntry == [created : 0..MaxTime, open : BOOLEAN]

\* `ws` is the Option<TgWsStream> that `get` returns, as a set of at most one.
NoCall == [pc |-> "out", key |-> NoKey, now |-> 0, allow |-> FALSE, ws |-> {}]
NoTask == [pc |-> "free", key |-> NoKey, need |-> 0, got |-> 0]

Smaller(m, n) == IF m < n THEN m ELSE n

-----------------------------------------------------------------------------
(***************************************************************************)
(* connect_batch.  A batch that wants `need` connections keeps up to       *)
(* PoolConnectConcurrency dials in flight, stops at the first failure      *)
(* (dropping the dials still in flight) and returns what it has.           *)
(***************************************************************************)
Started(b, n) ==
    [b EXCEPT !.pc = IF n = 0 THEN "dialed" ELSE "dialing",
              !.need = n, !.got = 0]

DialsInFlight(b) ==
    IF b.pc = "dialing" THEN Smaller(PoolConnectConcurrency, b.need - b.got) ELSE 0

DialEnded(b, result) ==
    IF result = "connected"
    THEN [b EXCEPT !.got = @ + 1,
                   !.pc = IF b.got + 1 = b.need THEN "dialed" ELSE "dialing"]
    ELSE [b EXCEPT !.pc = "dialed"]

(***************************************************************************)
(* `n` fresh connections pushed on a bucket, stamped at the push.          *)
(***************************************************************************)
Pushed(bucket, n) ==
    bucket \o [i \in 1..n |-> [created |-> now, open |-> TRUE]]

-----------------------------------------------------------------------------
Init ==
    /\ now = 0
    /\ idle = [k \in Keys |-> <<>>]
    /\ refilling = {}
    /\ client = [c \in Clients |-> NoCall]
    /\ task = [t \in Tasks |-> NoTask]
    /\ warm = [k \in Keys |-> [pc |-> IF k \in WarmKeys THEN "todo" ELSE "done",
                               need |-> 0, got |-> 0]]

(***************************************************************************)
(* The environment: time passes, and a server closes an idle connection.   *)
(***************************************************************************)
Tick ==
    /\ now < MaxTime
    /\ now' = now + 1
    /\ UNCHANGED <<idle, refilling, client, task, warm>>

ServerClose(k, i) ==
    /\ idle[k][i].open
    /\ idle' = [idle EXCEPT ![k][i].open = FALSE]
    /\ UNCHANGED <<now, refilling, client, task, warm>>

(***************************************************************************)
(* get: the clock is read before the lock is awaited.                      *)
(***************************************************************************)
GetCall(c, k, allow) ==
    /\ client[c].pc = "out"
    /\ client' = [client EXCEPT ![c] = [pc |-> "locking", key |-> k, now |-> now,
                                        allow |-> allow, ws |-> {}]]
    /\ UNCHANGED <<now, idle, refilling, task, warm>>

Usable(entry, at) == at - entry.created <= MaxAge /\ entry.open

(***************************************************************************)
(* Under the lock: pop from the back, discarding every unusable entry on   *)
(* the way; the first usable one is returned, and a bucket without one is  *)
(* left empty.                                                             *)
(***************************************************************************)
GetPop(c) ==
    LET k == client[c].key
        bucket == idle[k]
        usable == {i \in 1..Len(bucket) : Usable(bucket[i], client[c].now)}
    IN  /\ client[c].pc = "locking"
        /\ \/ /\ usable = {}
              /\ idle' = [idle EXCEPT ![k] = <<>>]
              /\ client' = [client EXCEPT ![c] = [@ EXCEPT !.pc = "popped"]]
           \/ \E i \in usable :
                 /\ \A j \in usable : j <= i
                 /\ idle' = [idle EXCEPT ![k] = SubSeq(bucket, 1, i - 1)]
                 /\ client' = [client EXCEPT ![c] = [@ EXCEPT !.pc = "popped", !.ws = {bucket[i]}]]
        /\ UNCHANGED <<now, refilling, task, warm>>

\* Mutant: a bucket that is reserved is reserved again.
ReserveRefillMutTwice(k) == PoolSize # 0

(***************************************************************************)
(* After the unlock, on a hit and on a miss alike: schedule_refill unless  *)
(* the caller vetoed it, then return.  reserve_refill is the insertion     *)
(* into `refilling`; a bucket already reserved spawns nothing.             *)
(***************************************************************************)
ReserveRefill(k) == PoolSize # 0 /\ k \notin refilling

GetReturn(c) ==
    LET k == client[c].key IN
    /\ client[c].pc = "popped"
    /\ client' = [client EXCEPT ![c] = NoCall]
    /\ IF client[c].allow /\ ReserveRefill(k)
       THEN \E t \in Tasks :
               /\ task[t].pc = "free"
               /\ task' = [task EXCEPT ![t] = [NoTask EXCEPT !.pc = "spawned", !.key = k]]
               /\ refilling' = refilling \cup {k}
       ELSE UNCHANGED <<refilling, task>>
    /\ UNCHANGED <<now, idle, warm>>

(***************************************************************************)
(* refill_reserved: count the bucket under the lock, dial what is missing, *)
(* push what still fits under the lock, release the reservation last (the  *)
(* RefillGuard drops after the lock).                                      *)
(***************************************************************************)
Releasing(r) == [r EXCEPT !.pc = "release", !.need = 0, !.got = 0]

\* Mutant: a refill dials a whole bucket whatever is idle.
RefillCountMutWholeBucket(t) ==
    /\ task[t].pc = "spawned"
    /\ task' = [task EXCEPT ![t] = Started(@, PoolSize)]
    /\ UNCHANGED <<now, idle, refilling, client, warm>>

\* Mutant: the early return leaves the bucket reserved.
RefillCountMutKeepsReservation(t) ==
    LET current == Len(idle[task[t].key]) IN
    /\ task[t].pc = "spawned"
    /\ task' = [task EXCEPT ![t] = IF current >= PoolSize
                                   THEN NoTask
                                   ELSE Started(@, PoolSize - current)]
    /\ UNCHANGED <<now, idle, refilling, client, warm>>

RefillCount(t) ==
    LET current == Len(idle[task[t].key]) IN
    /\ task[t].pc = "spawned"
    /\ task' = [task EXCEPT ![t] = IF current >= PoolSize
                                   THEN Releasing(@)
                                   ELSE Started(@, PoolSize - current)]
    /\ UNCHANGED <<now, idle, refilling, client, warm>>

RefillDial(t, result) ==
    /\ task[t].pc = "dialing"
    /\ task' = [task EXCEPT ![t] = DialEnded(@, result)]
    /\ UNCHANGED <<now, idle, refilling, client, warm>>

\* Mutant: a slot of the bucket is kept free.
CanAddMutOneShort(bucket) == IF Len(bucket) + 1 < PoolSize THEN PoolSize - Len(bucket) - 1 ELSE 0

\* Mutant: the space counted before the dials is not counted again.
CanAddMutNoRecheck(bucket) == PoolSize

CanAdd(bucket) == IF Len(bucket) < PoolSize THEN PoolSize - Len(bucket) ELSE 0

RefillPush(t) ==
    LET k == task[t].key IN
    /\ task[t].pc = "dialed"
    /\ idle' = [idle EXCEPT ![k] = Pushed(@, Smaller(task[t].got, CanAdd(@)))]
    /\ task' = [task EXCEPT ![t] = Releasing(@)]
    /\ UNCHANGED <<now, refilling, client, warm>>

RefillRelease(t) ==
    /\ task[t].pc = "release"
    /\ refilling' = refilling \ {task[t].key}
    /\ task' = [task EXCEPT ![t] = NoTask]
    /\ UNCHANGED <<now, idle, client, warm>>

(***************************************************************************)
(* warmup: buffer_unordered holds at most WarmupBucketConcurrency batches, *)
(* and takes up no other while a finished one waits for its push; the push *)
(* does not look at the bucket.                                            *)
(***************************************************************************)
WarmStart(k) ==
    /\ warm[k].pc = "todo"
    /\ Cardinality({j \in WarmKeys : warm[j].pc \in {"dialing", "dialed"}})
          < WarmupBucketConcurrency
    /\ warm' = [warm EXCEPT ![k] = Started(@, PoolSize)]
    /\ UNCHANGED <<now, idle, refilling, client, task>>

WarmDial(k, result) ==
    /\ warm[k].pc = "dialing"
    /\ warm' = [warm EXCEPT ![k] = DialEnded(@, result)]
    /\ UNCHANGED <<now, idle, refilling, client, task>>

WarmPush(k) ==
    /\ warm[k].pc = "dialed"
    /\ idle' = [idle EXCEPT ![k] = Pushed(@, warm[k].got)]
    /\ warm' = [warm EXCEPT ![k] = [pc |-> "done", need |-> 0, got |-> 0]]
    /\ UNCHANGED <<now, refilling, client, task>>

-----------------------------------------------------------------------------
RefillStep(t) ==
    \/ RefillCount(t)
    \/ \E r \in DialResults : RefillDial(t, r)
    \/ RefillPush(t)
    \/ RefillRelease(t)

WarmStep(k) ==
    \/ WarmStart(k)
    \/ \E r \in DialResults : WarmDial(k, r)
    \/ WarmPush(k)

Next ==
    \/ Tick
    \/ \E k \in Keys : \E i \in 1..Len(idle[k]) : ServerClose(k, i)
    \/ \E c \in Clients, k \in Keys, allow \in AllowRefill : GetCall(c, k, allow)
    \/ \E c \in Clients : GetPop(c) \/ GetReturn(c)
    \/ \E t \in Tasks : RefillStep(t)
    \/ \E k \in WarmKeys : WarmStep(k)

(***************************************************************************)
(* Every task that can run is eventually polled, and every dial ends: the  *)
(* batch gives each one a timeout of eight seconds.                        *)
(***************************************************************************)
Fairness ==
    /\ \A c \in Clients : WF_vars(GetPop(c) \/ GetReturn(c))
    /\ \A t \in Tasks : WF_vars(RefillStep(t))
    /\ \A k \in WarmKeys : WF_vars(WarmStep(k))

Spec == Init /\ [][Next]_vars
FairSpec == Spec /\ Fairness

-----------------------------------------------------------------------------
Call == [pc : {"out", "locking", "popped"}, key : Keys \cup {NoKey},
         now : 0..MaxTime, allow : BOOLEAN, ws : SUBSET PoolEntry]

RefillTask == [pc : {"free", "spawned", "dialing", "dialed", "release"},
               key : Keys \cup {NoKey}, need : 0..PoolSize, got : 0..PoolSize]

WarmJob == [pc : {"todo", "dialing", "dialed", "done"},
            need : 0..PoolSize, got : 0..PoolSize]

TypeOK ==
    /\ now \in 0..MaxTime
    /\ idle \in [Keys -> Seq(PoolEntry)]
    /\ refilling \subseteq Keys
    /\ client \in [Clients -> Call]
    /\ task \in [Tasks -> RefillTask]
    /\ warm \in [Keys -> WarmJob]

(***************************************************************************)
(* A bucket never has two refills in flight, and is reserved exactly while *)
(* it has one: what `refilling` is there for ("Prevents a stampede of      *)
(* concurrent refill tasks").  A task that outlived its reservation, or a  *)
(* reservation that outlived its task, would break it.                     *)
(***************************************************************************)
Live(t) == task[t].pc # "free"

SingleFlight ==
    /\ refilling = {task[t].key : t \in {u \in Tasks : Live(u)}}
    /\ \A t, u \in Tasks : Live(t) /\ Live(u) /\ task[t].key = task[u].key => t = u

(***************************************************************************)
(* limits.rs budgets FDS_PER_POOL_SLOT = 2 descriptors per pool slot: "the *)
(* idle connection plus one in-flight refill".  The idle connections of a  *)
(* bucket, with all that its refill (one at most, by SingleFlight) and     *)
(* warmup hold or are dialling for it, stay within 2 * PoolSize: warmup's  *)
(* unchecked push, a refill counted before it, and gets in between         *)
(* included.                                                               *)
(***************************************************************************)
BatchFds(b) == b.got + DialsInFlight(b)

FdBudget ==
    \A k \in Keys :
        /\ Len(idle[k]) + BatchFds(warm[k]) <= 2 * PoolSize
        /\ \A t \in Tasks :
              task[t].key = k =>
                 Len(idle[k]) + BatchFds(warm[k]) + BatchFds(task[t]) <= 2 * PoolSize

(***************************************************************************)
(* The pool is a SparePool: however gets, refills and warmup interleave,   *)
(* a bucket grows only by the one delivery of the one refill that reserved *)
(* it, to at most --pool-size even when warmup filled the bucket while the *)
(* refill dialled ("Re-check available space"), or by warmup's one push.   *)
(***************************************************************************)
Delivered(k) == \E t \in Tasks : task[t].key = k /\ task[t].pc = "release"

Stock == [k \in Keys |-> Len(idle[k])]

Refill(k) ==
    IF k \notin refilling THEN "none" ELSE IF Delivered(k) THEN "delivered" ELSE "reserved"

Refills == [k \in Keys |-> Refill(k)]

Cold == {k \in WarmKeys : warm[k].pc # "done"}

Pool == INSTANCE SparePool WITH
    Limit <- PoolSize, stock <- Stock, refill <- Refills, cold <- Cold

ImplementsSparePool == Pool!Spec

(***************************************************************************)
(* A reserved bucket is always released again, so that it can be refilled  *)
(* later: RefillGuard covers "all exit paths".                             *)
(***************************************************************************)
ReservationReleased == \A k \in Keys : k \in refilling ~> k \notin refilling

(***************************************************************************)
(* A bucket in demand goes on being filled: if calls of `get` with leave   *)
(* to refill keep returning, some go on being hits, unless its dials keep  *)
(* failing or servers keep closing what is idle.  (Time is bounded, so     *)
(* that entries do not for ever grow too old between two calls.)  A call   *)
(* may find the bucket reserved by a refill that no longer counts, and is  *)
(* then not made up for; the property says that a later one is ("Schedules *)
(* a background refill either way").                                       *)
(***************************************************************************)
Demand(k) == \E c \in Clients : client[c].key = k /\ client[c].allow /\ GetReturn(c)
Hit(k) == \E c \in Clients : client[c].key = k /\ client[c].ws # {} /\ GetReturn(c)
RefillFails(k) == \E t \in Tasks : task[t].key = k /\ RefillDial(t, "failed")
IdleCloses(k) == \E i \in 1..Len(idle[k]) : ServerClose(k, i)

DemandServed ==
    \A k \in Keys : PoolSize # 0 /\ []<><<Demand(k)>>_vars =>
        []<><<Hit(k)>>_vars \/ []<><<RefillFails(k)>>_vars \/ []<><<IdleCloses(k)>>_vars

=============================================================================
