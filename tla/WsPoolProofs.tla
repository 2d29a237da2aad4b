---------------------------- MODULE WsPoolProofs ----------------------------
(***************************************************************************)
(* SingleFlight, FdBudget, FreshestFirst and the refinement of SparePool   *)
(* for every number of buckets, clients and refill tasks, every            *)
(* --pool-size, --pool-max-age and concurrency limit.                      *)
(***************************************************************************)
EXTENDS WsPool, SequenceTheorems, TLAPS

(***************************************************************************)
(* The strengthening of FdBudget.  A refill reserves room for `need`       *)
(* connections when it counts the bucket.  Gets only make more room; the   *)
(* one thing that may take it is the push of warmup, which happens once.   *)
(* So idle + need is at most PoolSize until that push and, because warmup  *)
(* dials at most PoolSize connections, at most 2 * PoolSize after it.      *)
(***************************************************************************)
BatchInv(b) ==
    /\ b.got <= b.need
    /\ b.pc = "dialing" => b.got < b.need
    /\ b.pc \notin {"dialing", "dialed"} => b.need = 0 /\ b.got = 0

Room(k) == IF warm[k].pc = "done" THEN 2 * PoolSize ELSE PoolSize

BudgetInv ==
    /\ \A k \in Keys : BatchInv(warm[k]) /\ Len(idle[k]) <= Room(k)
    /\ \A t \in Tasks :
          /\ BatchInv(task[t])
          /\ Live(t) => task[t].key \in Keys
          /\ Live(t) => Len(idle[task[t].key]) + task[t].need <= Room(task[t].key)
          /\ ~Live(t) => task[t] = NoTask

\* A client inside `get` names a real bucket.
ClientInv == \A c \in Clients : client[c].pc # "out" => client[c].key \in Keys

IInv == TypeOK /\ ClientInv /\ SingleFlight /\ BudgetInv

-----------------------------------------------------------------------------
(***************************************************************************)
(* What the steps of connect_batch keep, for a refill's batch and for      *)
(* warmup's.                                                               *)
(***************************************************************************)
LEMMA SmallerNat ==
    ASSUME NEW m \in Nat, NEW n \in Nat
    PROVE  /\ Smaller(m, n) \in Nat
           /\ Smaller(m, n) <= m
           /\ Smaller(m, n) <= n
BY DEF Smaller

LEMMA BatchFdsBound ==
    ASSUME NEW b, b.got \in Nat, b.need \in Nat, BatchInv(b)
    PROVE  BatchFds(b) \in Nat /\ BatchFds(b) <= b.need
BY ConstantsAssumption DEF BatchFds, DialsInFlight, BatchInv, Smaller

(***************************************************************************)
(* Pushing n entries lengthens a bucket by n.                              *)
(***************************************************************************)
LEMMA PushedLength ==
    ASSUME NEW bucket \in Seq(PoolEntry), NEW n \in Nat, now \in 0..MaxTime
    PROVE  /\ Pushed(bucket, n) \in Seq(PoolEntry)
           /\ Len(Pushed(bucket, n)) = Len(bucket) + n
<1> DEFINE new == [i \in 1..n |-> [created |-> now, open |-> TRUE]]
<1>1. [created |-> now, open |-> TRUE] \in PoolEntry
  BY DEF PoolEntry
<1>2. new \in Seq(PoolEntry) /\ Len(new) = n
  BY <1>1, IsASeq
<1> HIDE DEF new
<1>3. bucket \o new \in Seq(PoolEntry) /\ Len(bucket \o new) = Len(bucket) + Len(new)
  BY <1>2, ConcatProperties, Zenon
<1> QED
  BY <1>2, <1>3, Zenon DEF Pushed, new

(***************************************************************************)
(* Popping leaves a prefix of a bucket.                                    *)
(***************************************************************************)
LEMMA PoppedLength ==
    ASSUME NEW bucket \in Seq(PoolEntry), NEW i \in 1..Len(bucket)
    PROVE  /\ SubSeq(bucket, 1, i - 1) \in Seq(PoolEntry)
           /\ Len(SubSeq(bucket, 1, i - 1)) <= Len(bucket)
           /\ bucket[i] \in PoolEntry
<1>1. Len(bucket) \in Nat
  BY LenProperties
<1>2. i - 1 \in 0..Len(bucket)
  BY <1>1
<1> QED
  BY <1>1, <1>2, SubSeqProperties, ElementOfSeq

-----------------------------------------------------------------------------
LEMMA InitIInv == Init => IInv
<1> SUFFICES ASSUME Init PROVE IInv
  OBVIOUS
<1> USE ConstantsAssumption DEF Init, NoCall, NoTask
<1>1. TypeOK
  BY EmptySeq DEF TypeOK, Call, RefillTask, WarmJob
<1>2. ClientInv
  BY DEF ClientInv
<1>3. SingleFlight
  BY DEF SingleFlight, Live
<1>4. BudgetInv
  BY EmptySeq DEF BudgetInv, BatchInv, Room, Live
<1> QED
  BY <1>1, <1>2, <1>3, <1>4 DEF IInv

(***************************************************************************)
(* The steps that touch neither `task` nor `refilling` keep SingleFlight.  *)
(***************************************************************************)
LEMMA SingleFlightStutter ==
    ASSUME SingleFlight, UNCHANGED <<task, refilling>>
    PROVE  SingleFlight'
BY DEF SingleFlight, Live

(***************************************************************************)
(* BudgetInv survives any step that shortens buckets only.                 *)
(***************************************************************************)
LEMMA BudgetShrink ==
    ASSUME IInv, UNCHANGED <<task, warm>>,
           \A k \in Keys : idle'[k] \in Seq(PoolEntry) /\ Len(idle'[k]) <= Len(idle[k])
    PROVE  BudgetInv'
<1>1. \A k \in Keys : Len(idle[k]) \in Nat /\ Len(idle'[k]) \in Nat
  BY LenProperties DEF IInv, TypeOK
<1>2. \A k \in Keys : Room(k) \in Nat /\ Room(k)' = Room(k)
  BY ConstantsAssumption DEF Room
<1>3. \A k \in Keys : BatchInv(warm[k])' /\ Len(idle'[k]) <= Room(k)'
  BY <1>1, <1>2 DEF IInv, BudgetInv, BatchInv
<1>4. ASSUME NEW t \in Tasks
      PROVE  /\ BatchInv(task[t])'
             /\ Live(t)' => task'[t].key \in Keys
             /\ Live(t)' => Len(idle'[task'[t].key]) + task'[t].need <= Room(task[t].key)'
             /\ ~Live(t)' => task'[t] = NoTask
  BY <1>1, <1>2 DEF IInv, BudgetInv, BatchInv, Live, TypeOK, RefillTask
<1> QED
  BY <1>3, <1>4 DEF BudgetInv

-----------------------------------------------------------------------------
(***************************************************************************)
(* The steps of the environment and of the clients.                        *)
(***************************************************************************)
LEMMA TickStep == IInv /\ Tick => IInv'
<1> SUFFICES ASSUME IInv, Tick PROVE IInv'
  OBVIOUS
<1> USE DEF Tick, IInv
<1>1. TypeOK'
  BY ConstantsAssumption DEF TypeOK, Call, RefillTask, WarmJob
<1>2. ClientInv'
  BY DEF ClientInv
<1>3. BudgetInv'
  BY DEF BudgetInv, BatchInv, Room, Live
<1> QED
  BY <1>1, <1>2, <1>3, SingleFlightStutter

LEMMA ClosedEntry ==
    ASSUME NEW e \in PoolEntry
    PROVE  [e EXCEPT !.open = FALSE] \in PoolEntry
BY Zenon DEF PoolEntry

LEMMA ServerCloseStep ==
    ASSUME IInv, NEW k \in Keys, NEW i \in 1..Len(idle[k]), ServerClose(k, i)
    PROVE  IInv'
<1> DEFINE entry == [idle[k][i] EXCEPT !.open = FALSE]
<1> HIDE DEF entry
<1>1. idle \in [Keys -> Seq(PoolEntry)]
  BY DEF IInv, TypeOK
<1>2. entry \in PoolEntry
  BY <1>1, ElementOfSeq, ClosedEntry DEF entry
<1>3. idle' = [idle EXCEPT ![k] = [idle[k] EXCEPT ![i] = entry]]
  BY DEF ServerClose, entry
<1>4. /\ [idle[k] EXCEPT ![i] = entry] \in Seq(PoolEntry)
      /\ Len([idle[k] EXCEPT ![i] = entry]) = Len(idle[k])
  BY <1>1, <1>2, ExceptSeq
<1>5. \A j \in Keys : idle'[j] \in Seq(PoolEntry) /\ Len(idle'[j]) = Len(idle[j])
  BY <1>1, <1>3, <1>4
<1>6. \A j \in Keys : Len(idle'[j]) <= Len(idle[j])
  BY <1>1, <1>5, LenProperties
<1>7. TypeOK'
  BY <1>1, <1>3, <1>5, Zenon DEF IInv, TypeOK, ServerClose
<1>8. ClientInv'
  BY DEF IInv, ClientInv, ServerClose
<1>9. BudgetInv'
  BY <1>5, <1>6, BudgetShrink, Zenon DEF ServerClose
<1> QED
  BY <1>7, <1>8, <1>9, SingleFlightStutter DEF IInv, ServerClose

LEMMA GetCallStep ==
    ASSUME IInv, NEW c \in Clients, NEW k \in Keys, NEW allow \in AllowRefill,
           GetCall(c, k, allow)
    PROVE  IInv'
<1> USE DEF IInv, GetCall
<1>1. TypeOK'
  BY ConstantsAssumption DEF TypeOK, Call
<1>2. ClientInv'
  BY DEF ClientInv, TypeOK
<1>3. BudgetInv'
  BY DEF BudgetInv, BatchInv, Room, Live
<1> QED
  BY <1>1, <1>2, <1>3, SingleFlightStutter

LEMMA PoppedCall ==
    ASSUME NEW r \in Call, NEW w \in SUBSET PoolEntry
    PROVE  /\ [r EXCEPT !.pc = "popped"] \in Call
           /\ [r EXCEPT !.pc = "popped"].key = r.key
           /\ [r EXCEPT !.pc = "popped", !.ws = w] \in Call
           /\ [r EXCEPT !.pc = "popped", !.ws = w].key = r.key
BY ZenonT(30) DEF Call

LEMMA GetPopStep ==
    ASSUME IInv, NEW c \in Clients, GetPop(c)
    PROVE  IInv'
<1> DEFINE k == client[c].key
           usable == {i \in 1..Len(idle[k]) : Usable(idle[k][i], client[c].now)}
<1>1. /\ k \in Keys
      /\ idle \in [Keys -> Seq(PoolEntry)]
      /\ client \in [Clients -> Call]
      /\ client[c] \in Call
  BY Zenon DEF IInv, ClientInv, TypeOK, GetPop
<1>2. PICK b \in Seq(PoolEntry), r \in Call :
         /\ Len(b) <= Len(idle[k])
         /\ r.key = k
         /\ idle' = [idle EXCEPT ![k] = b]
         /\ client' = [client EXCEPT ![c] = r]
  <2>1. CASE /\ idle' = [idle EXCEPT ![k] = <<>>]
             /\ client' = [client EXCEPT ![c] = [@ EXCEPT !.pc = "popped"]]
    <3> DEFINE r == [client[c] EXCEPT !.pc = "popped"]
    <3>1. r \in Call /\ r.key = k
      BY <1>1, PoppedCall, Zenon
    <3>2. client' = [client EXCEPT ![c] = r]
      BY <2>1, Zenon
    <3>3. <<>> \in Seq(PoolEntry) /\ Len(<<>>) <= Len(idle[k])
      BY <1>1, LenProperties, EmptySeq
    <3>4. idle' = [idle EXCEPT ![k] = <<>>]
      BY <2>1, Zenon
    <3> HIDE DEF r
    <3> QED
      BY <3>1, <3>2, <3>3, <3>4, Zenon
  <2>2. CASE \E i \in usable :
                /\ idle' = [idle EXCEPT ![k] = SubSeq(idle[k], 1, i - 1)]
                /\ client' = [client EXCEPT ![c] = [@ EXCEPT !.pc = "popped",
                                                             !.ws = {idle[k][i]}]]
    <3>1. PICK i \in 1..Len(idle[k]) :
                /\ idle' = [idle EXCEPT ![k] = SubSeq(idle[k], 1, i - 1)]
                /\ client' = [client EXCEPT ![c] = [@ EXCEPT !.pc = "popped",
                                                             !.ws = {idle[k][i]}]]
      BY <2>2, Zenon
    <3> DEFINE w == {idle[k][i]}
               r == [client[c] EXCEPT !.pc = "popped", !.ws = w]
    <3>2. /\ SubSeq(idle[k], 1, i - 1) \in Seq(PoolEntry)
          /\ Len(SubSeq(idle[k], 1, i - 1)) <= Len(idle[k])
          /\ w \in SUBSET PoolEntry
      BY <1>1, PoppedLength
    <3>3. client' = [client EXCEPT ![c] = r]
      BY <3>1, Zenon
    <3> HIDE DEF w
    <3>4. r \in Call /\ r.key = k
      BY <1>1, <3>2, PoppedCall, Zenon
    <3> HIDE DEF r
    <3> QED
      BY <3>1, <3>2, <3>3, <3>4, Zenon
  <2> QED
    BY <2>1, <2>2, Zenon DEF GetPop
<1>3. \A j \in Keys : idle'[j] \in Seq(PoolEntry) /\ Len(idle'[j]) <= Len(idle[j])
  BY <1>1, <1>2, LenProperties, SMTT(30)
<1>4. TypeOK'
  BY <1>1, <1>2, Zenon DEF IInv, TypeOK, GetPop
<1>5. ClientInv'
  BY <1>1, <1>2, SMTT(30) DEF IInv, ClientInv
<1>6. BudgetInv'
  BY <1>3, BudgetShrink, Zenon DEF GetPop
<1> QED
  BY <1>4, <1>5, <1>6, SingleFlightStutter, Zenon DEF IInv, GetPop

-----------------------------------------------------------------------------
(***************************************************************************)
(* What connect_batch does to a refill task and to a warmup job.           *)
(***************************************************************************)
LEMMA StartedBatch ==
    ASSUME NEW n \in 0..PoolSize
    PROVE  /\ \A r \in RefillTask :
                 /\ Started(r, n) \in RefillTask
                 /\ Started(r, n).key = r.key
                 /\ Started(r, n).need = n
                 /\ Started(r, n).pc \in {"dialing", "dialed"}
                 /\ BatchInv(Started(r, n))
           /\ \A j \in WarmJob :
                 /\ Started(j, n) \in WarmJob
                 /\ Started(j, n).need = n
                 /\ Started(j, n).pc \in {"dialing", "dialed"}
                 /\ BatchInv(Started(j, n))
<1> DEFINE pc == IF n = 0 THEN "dialed" ELSE "dialing"
<1>1. pc \in {"dialing", "dialed"} /\ 0 \in 0..PoolSize
  BY ConstantsAssumption
<1>2. ASSUME NEW b, b.pc = pc, b.need = n, b.got = 0 PROVE BatchInv(b)
  BY <1>2, ConstantsAssumption DEF BatchInv
<1>3. ASSUME NEW r \in RefillTask
      PROVE  /\ Started(r, n) \in RefillTask
             /\ Started(r, n).key = r.key
             /\ Started(r, n).need = n /\ Started(r, n).got = 0 /\ Started(r, n).pc = pc
  BY <1>1, Zenon DEF Started, RefillTask
<1>4. ASSUME NEW j \in WarmJob
      PROVE  /\ Started(j, n) \in WarmJob
             /\ Started(j, n).need = n /\ Started(j, n).got = 0 /\ Started(j, n).pc = pc
  BY <1>1, Zenon DEF Started, WarmJob
<1> QED
  BY <1>1, <1>2, <1>3, <1>4, Zenon

LEMMA EndedDial ==
    ASSUME NEW result
    PROVE  /\ \A r \in RefillTask : r.pc = "dialing" /\ BatchInv(r) =>
                 /\ DialEnded(r, result) \in RefillTask
                 /\ DialEnded(r, result).key = r.key
                 /\ DialEnded(r, result).need = r.need
                 /\ DialEnded(r, result).pc \in {"dialing", "dialed"}
                 /\ BatchInv(DialEnded(r, result))
           /\ \A j \in WarmJob : j.pc = "dialing" /\ BatchInv(j) =>
                 /\ DialEnded(j, result) \in WarmJob
                 /\ DialEnded(j, result).need = j.need
                 /\ DialEnded(j, result).pc \in {"dialing", "dialed"}
                 /\ BatchInv(DialEnded(j, result))
<1> DEFINE pc(b) == IF result # "connected" \/ b.got + 1 = b.need THEN "dialed" ELSE "dialing"
           got(b) == IF result = "connected" THEN b.got + 1 ELSE b.got
<1>1. ASSUME NEW b, b.need \in 0..PoolSize, b.got \in 0..PoolSize, b.pc = "dialing", BatchInv(b)
      PROVE  /\ pc(b) \in {"dialing", "dialed"}
             /\ got(b) \in 0..PoolSize
             /\ \A d : d.pc = pc(b) /\ d.need = b.need /\ d.got = got(b) => BatchInv(d)
  BY <1>1, ConstantsAssumption DEF BatchInv
<1>2. ASSUME NEW r \in RefillTask, r.pc = "dialing", BatchInv(r)
      PROVE  /\ DialEnded(r, result) \in RefillTask
             /\ DialEnded(r, result).key = r.key
             /\ DialEnded(r, result).need = r.need
             /\ DialEnded(r, result).got = got(r) /\ DialEnded(r, result).pc = pc(r)
  <2>1. r.need \in 0..PoolSize /\ r.got \in 0..PoolSize
    BY DEF RefillTask
  <2>2. pc(r) \in {"dialing", "dialed"} /\ got(r) \in 0..PoolSize
    BY <1>1, <1>2, <2>1, Zenon
  <2> QED
    BY <2>2, Zenon DEF DialEnded, RefillTask
<1>3. ASSUME NEW j \in WarmJob, j.pc = "dialing", BatchInv(j)
      PROVE  /\ DialEnded(j, result) \in WarmJob
             /\ DialEnded(j, result).need = j.need
             /\ DialEnded(j, result).got = got(j) /\ DialEnded(j, result).pc = pc(j)
  <2>1. j.need \in 0..PoolSize /\ j.got \in 0..PoolSize
    BY DEF WarmJob
  <2>2. pc(j) \in {"dialing", "dialed"} /\ got(j) \in 0..PoolSize
    BY <1>1, <1>3, <2>1, Zenon
  <2> QED
    BY <2>2, Zenon DEF DialEnded, WarmJob
<1>4. /\ \A r \in RefillTask : r.need \in 0..PoolSize /\ r.got \in 0..PoolSize
      /\ \A j \in WarmJob : j.need \in 0..PoolSize /\ j.got \in 0..PoolSize
  BY DEF RefillTask, WarmJob
<1> HIDE DEF pc, got
<1> QED
  BY <1>1, <1>2, <1>3, <1>4, Zenon

LEMMA ReleasingTask ==
    ASSUME NEW r \in RefillTask
    PROVE  /\ Releasing(r) \in RefillTask
           /\ Releasing(r).key = r.key
           /\ Releasing(r).pc = "release"
           /\ Releasing(r).need = 0
           /\ BatchInv(Releasing(r))
<1>1. 0 \in 0..PoolSize /\ 0 <= 0
  BY ConstantsAssumption
<1> QED
  BY <1>1, Zenon DEF Releasing, RefillTask, BatchInv

(***************************************************************************)
(* A live task that stays live on its bucket keeps SingleFlight, and keeps *)
(* BudgetInv when what it needs still fits.                                *)
(***************************************************************************)
LEMMA SameFlight ==
    ASSUME IInv, NEW t \in Tasks, NEW r \in RefillTask, Live(t),
           r.pc # "free", r.key = task[t].key,
           task' = [task EXCEPT ![t] = r], refilling' = refilling
    PROVE  SingleFlight'
<1>1. \A u \in Tasks : (Live(u)' <=> Live(u)) /\ task'[u].key = task[u].key
  BY DEF IInv, TypeOK, Live
<1>2. {task'[u].key : u \in {v \in Tasks : Live(v)'}}
         = {task[u].key : u \in {v \in Tasks : Live(v)}}
  BY <1>1
<1> QED
  BY <1>1, <1>2 DEF IInv, SingleFlight

LEMMA BudgetTask ==
    ASSUME IInv, NEW t \in Tasks, NEW r \in RefillTask, Live(t),
           r.pc # "free", r.key = task[t].key, BatchInv(r),
           Len(idle[r.key]) + r.need <= Room(r.key),
           task' = [task EXCEPT ![t] = r], UNCHANGED <<idle, warm>>
    PROVE  BudgetInv'
<1>1. task'[t] = r /\ \A u \in Tasks \ {t} : task'[u] = task[u]
  BY DEF IInv, TypeOK
<1>2. \A k : Room(k)' = Room(k)
  BY DEF Room
<1>3. \A k \in Keys : BatchInv(warm[k])' /\ Len(idle'[k]) <= Room(k)'
  BY <1>2 DEF IInv, BudgetInv, BatchInv
<1>4. ASSUME NEW u \in Tasks
      PROVE  /\ BatchInv(task[u])'
             /\ Live(u)' => task'[u].key \in Keys
             /\ Live(u)' => Len(idle'[task'[u].key]) + task'[u].need <= Room(task[u].key)'
             /\ ~Live(u)' => task'[u] = NoTask
  BY <1>1, <1>2 DEF IInv, BudgetInv, BatchInv, Live
<1> QED
  BY <1>3, <1>4 DEF BudgetInv

-----------------------------------------------------------------------------
(***************************************************************************)
(* The return of `get`: a task is spawned only for a bucket that had no    *)
(* reservation, hence no live task.                                        *)
(***************************************************************************)
LEMMA GetReturnStep ==
    ASSUME IInv, NEW c \in Clients, GetReturn(c)
    PROVE  IInv'
<1> DEFINE k == client[c].key
<1>1. k \in Keys /\ client \in [Clients -> Call] /\ task \in [Tasks -> RefillTask]
  BY DEF IInv, ClientInv, TypeOK, GetReturn
<1>2. NoCall \in Call /\ client' = [client EXCEPT ![c] = NoCall]
  BY ConstantsAssumption DEF NoCall, Call, GetReturn
<1>3. ClientInv'
  BY <1>1, <1>2 DEF IInv, ClientInv, NoCall
<1>4. CASE UNCHANGED <<refilling, task>>
  <2>1. TypeOK'
    BY <1>1, <1>2, <1>4 DEF IInv, TypeOK, GetReturn
  <2>2. BudgetInv'
    BY <1>4 DEF IInv, BudgetInv, BatchInv, Room, Live, GetReturn
  <2> QED
    BY <1>3, <1>4, <2>1, <2>2, SingleFlightStutter DEF IInv
<1>5. CASE \E t \in Tasks :
              /\ task[t].pc = "free"
              /\ task' = [task EXCEPT ![t] = [NoTask EXCEPT !.pc = "spawned", !.key = k]]
              /\ refilling' = refilling \cup {k}
              /\ k \notin refilling
  <2> DEFINE r == [pc |-> "spawned", key |-> k, need |-> 0, got |-> 0]
  <2>1. PICK t \in Tasks : /\ task[t].pc = "free"
                           /\ task' = [task EXCEPT ![t] = r]
                           /\ refilling' = refilling \cup {k}
                           /\ k \notin refilling
    BY <1>5, ZenonT(30) DEF NoTask
  <2>2. r \in RefillTask
    BY <1>1, ConstantsAssumption DEF RefillTask
  <2>3. task'[t] = r /\ \A u \in Tasks \ {t} : task'[u] = task[u]
    BY <1>1, <2>1
  <2>4. TypeOK'
    BY <1>1, <1>2, <2>1, <2>2 DEF IInv, TypeOK, GetReturn
  <2>5. SingleFlight'
    <3>1. \A u \in Tasks : Live(u)' <=> (u = t \/ Live(u))
      BY <2>3 DEF Live
    <3>2. ~Live(t)
      BY <2>1 DEF Live
    <3>3. refilling' = {task'[u].key : u \in {v \in Tasks : Live(v)'}}
      BY <2>1, <2>3, <3>1, <3>2 DEF IInv, SingleFlight
    <3>4. \A u \in Tasks : Live(u) => task[u].key # k
      BY <2>1 DEF IInv, SingleFlight
    <3>5. \A u, v \in Tasks : Live(u)' /\ Live(v)' /\ task'[u].key = task'[v].key => u = v
      BY <2>3, <3>1, <3>4, SMTT(20), Zenon DEF IInv, SingleFlight
    <3> QED
      BY <3>3, <3>5 DEF SingleFlight
  <2>6. BudgetInv'
    <3>1. UNCHANGED <<idle, warm>>
      BY DEF GetReturn
    <3>2. Len(idle[k]) \in Nat /\ Len(idle[k]) <= Room(k)
      BY <1>1, LenProperties DEF IInv, TypeOK, BudgetInv
    <3>3. BatchInv(r)
      BY SMTT(30) DEF BatchInv
    <3>4. ASSUME NEW u \in Tasks
          PROVE  /\ BatchInv(task[u])'
                 /\ Live(u)' => task'[u].key \in Keys
                 /\ Live(u)' => Len(idle'[task'[u].key]) + task'[u].need
                                   <= Room(task[u].key)'
                 /\ ~Live(u)' => task'[u] = NoTask
      BY <1>1, <2>3, <3>1, <3>2, <3>3
      DEF IInv, BudgetInv, BatchInv, Live, Room
    <3> QED
      BY <3>1, <3>4 DEF IInv, BudgetInv, BatchInv, Room
  <2> QED
    BY <1>3, <2>4, <2>5, <2>6 DEF IInv
<1> QED
  BY <1>4, <1>5 DEF GetReturn, ReserveRefill

(***************************************************************************)
(* The steps of a refill task.                                             *)
(***************************************************************************)
LEMMA RefillCountStep ==
    ASSUME IInv, NEW t \in Tasks, RefillCount(t)
    PROVE  IInv'
<1> DEFINE k == task[t].key
           current == Len(idle[k])
           r == IF current >= PoolSize THEN Releasing(task[t])
                ELSE Started(task[t], PoolSize - current)
<1>1. task[t] \in RefillTask /\ task \in [Tasks -> RefillTask] /\ Live(t) /\ k \in Keys
  BY DEF IInv, TypeOK, RefillCount, Live, BudgetInv
<1>2. current \in Nat /\ current <= Room(k) /\ Room(k) \in Nat /\ PoolSize <= Room(k)
  BY <1>1, LenProperties, ConstantsAssumption DEF IInv, TypeOK, BudgetInv, Room
<1>3. task' = [task EXCEPT ![t] = r]
  BY Zenon DEF RefillCount
<1>4. /\ r \in RefillTask
      /\ r.pc # "free"
      /\ r.key = k
      /\ BatchInv(r)
      /\ current + r.need <= Room(k)
  <2>1. CASE current >= PoolSize
    BY <1>1, <1>2, <2>1, ReleasingTask, SMTT(30)
  <2>2. CASE ~(current >= PoolSize)
    <3>1. PoolSize - current \in 0..PoolSize
      BY <1>2, <2>2, ConstantsAssumption, SMTT(30)
    <3> QED
      BY <1>1, <1>2, <2>2, <3>1, StartedBatch, ConstantsAssumption
  <2> QED
    BY <2>1, <2>2
<1> HIDE DEF r
<1>5. TypeOK' /\ ClientInv'
  BY <1>1, <1>3, <1>4 DEF IInv, TypeOK, ClientInv, RefillCount
<1>6. SingleFlight'
  BY <1>1, <1>3, <1>4, SameFlight, Zenon DEF RefillCount
<1>7. BudgetInv'
  BY <1>1, <1>3, <1>4, BudgetTask, Zenon DEF RefillCount
<1> QED
  BY <1>5, <1>6, <1>7 DEF IInv

LEMMA RefillDialStep ==
    ASSUME IInv, NEW t \in Tasks, NEW result, RefillDial(t, result)
    PROVE  IInv'
<1> DEFINE r == DialEnded(task[t], result)
<1>1. task[t] \in RefillTask /\ task \in [Tasks -> RefillTask] /\ Live(t)
  BY DEF IInv, TypeOK, RefillDial, Live
<1>2. task' = [task EXCEPT ![t] = r]
  BY Zenon DEF RefillDial
<1>3. /\ r \in RefillTask
      /\ r.pc # "free"
      /\ r.key = task[t].key
      /\ r.need = task[t].need
      /\ BatchInv(r)
  BY <1>1, EndedDial DEF IInv, BudgetInv, RefillDial
<1> HIDE DEF r
<1>4. Len(idle[r.key]) + r.need <= Room(r.key)
  BY <1>1, <1>3 DEF IInv, BudgetInv
<1>5. TypeOK' /\ ClientInv'
  BY <1>1, <1>2, <1>3 DEF IInv, TypeOK, ClientInv, RefillDial
<1>6. SingleFlight'
  BY <1>1, <1>2, <1>3, SameFlight, Zenon DEF RefillDial
<1>7. BudgetInv'
  BY <1>1, <1>2, <1>3, <1>4, BudgetTask, Zenon DEF RefillDial
<1> QED
  BY <1>5, <1>6, <1>7 DEF IInv

LEMMA RefillPushStep ==
    ASSUME IInv, NEW t \in Tasks, RefillPush(t)
    PROVE  IInv'
<1> DEFINE k == task[t].key
           n == Smaller(task[t].got, CanAdd(idle[k]))
           b == Pushed(idle[k], n)
           r == Releasing(task[t])
<1>1. /\ task[t] \in RefillTask /\ task \in [Tasks -> RefillTask] /\ Live(t)
      /\ k \in Keys /\ idle \in [Keys -> Seq(PoolEntry)] /\ now \in 0..MaxTime
  BY DEF IInv, TypeOK, RefillPush, Live, BudgetInv
<1>2. Len(idle[k]) \in Nat /\ Room(k) \in Nat /\ CanAdd(idle[k]) \in Nat
  BY <1>1, LenProperties, ConstantsAssumption DEF Room, CanAdd
<1>3. n \in Nat /\ n <= task[t].need /\ Len(idle[k]) + task[t].need <= Room(k)
  <2>1. /\ task[t].got \in Nat /\ task[t].need \in Nat
        /\ task[t].got <= task[t].need
        /\ Len(idle[k]) + task[t].need <= Room(k)
    BY <1>1, ConstantsAssumption DEF RefillTask, IInv, BudgetInv, BatchInv
  <2>2. n \in Nat /\ n <= task[t].got
    BY <1>2, <2>1, SmallerNat, Zenon
  <2> HIDE DEF n
  <2> QED
    BY <1>2, <2>1, <2>2, SMTT(30)
<1>4. task' = [task EXCEPT ![t] = r] /\ idle' = [idle EXCEPT ![k] = b]
  BY Zenon DEF RefillPush
<1>5. b \in Seq(PoolEntry) /\ Len(b) <= Room(k) /\ Len(b) \in Nat
  <2>1. b \in Seq(PoolEntry) /\ Len(b) = Len(idle[k]) + n
    BY <1>1, <1>3, PushedLength, Zenon
  <2>2. task[t].need \in Nat
    BY <1>1, ConstantsAssumption DEF RefillTask
  <2> QED
    BY <1>2, <1>3, <2>1, <2>2, SMTT(30)
<1>6. r \in RefillTask /\ r.pc # "free" /\ r.key = k /\ r.need = 0 /\ BatchInv(r)
  BY <1>1, ReleasingTask, SMTT(20), Zenon
<1> HIDE DEF r, b, n
<1>7. TypeOK' /\ ClientInv'
  BY <1>1, <1>4, <1>5, <1>6 DEF IInv, TypeOK, ClientInv, RefillPush
<1>8. SingleFlight'
  BY <1>1, <1>4, <1>6, SameFlight, Zenon DEF RefillPush
<1>9. BudgetInv'
  <2>1. \A j : Room(j)' = Room(j)
    BY DEF Room, RefillPush
  <2>2. /\ task'[t] = r /\ \A u \in Tasks \ {t} : task'[u] = task[u]
        /\ idle'[k] = b /\ \A j \in Keys \ {k} : idle'[j] = idle[j]
    BY <1>1, <1>4, SMTT(20), Zenon
  <2>3. \A j \in Keys : BatchInv(warm[j])' /\ Len(idle'[j]) <= Room(j)'
    BY <1>5, <2>1, <2>2 DEF IInv, BudgetInv, BatchInv, RefillPush
  <2>4. ASSUME NEW u \in Tasks
        PROVE  /\ BatchInv(task[u])'
               /\ Live(u)' => task'[u].key \in Keys
               /\ Live(u)' => Len(idle'[task'[u].key]) + task'[u].need <= Room(task[u].key)'
               /\ ~Live(u)' => task'[u] = NoTask
    <3>1. CASE u = t
      <4>1. BatchInv(task[u])'
        BY <1>6, <2>2, <3>1, SMTT(30) DEF BatchInv
      <4> QED
        BY <1>1, <1>2, <1>5, <1>6, <2>1, <2>2, <3>1, <4>1, SMTT(30) DEF Live
    <3>2. CASE u # t
      <4>1. Live(u) => task[u].key # k
        BY <1>1, <3>2 DEF IInv, SingleFlight
      <4> QED
        BY <2>1, <2>2, <3>2, <4>1, SMTT(30) DEF IInv, BudgetInv, BatchInv, Live
    <3> QED
      BY <3>1, <3>2
  <2> QED
    BY <2>3, <2>4 DEF BudgetInv
<1> QED
  BY <1>7, <1>8, <1>9 DEF IInv

LEMMA RefillReleaseStep ==
    ASSUME IInv, NEW t \in Tasks, RefillRelease(t)
    PROVE  IInv'
<1> DEFINE k == task[t].key
<1>1. task \in [Tasks -> RefillTask] /\ Live(t) /\ NoTask \in RefillTask
  BY ConstantsAssumption DEF IInv, TypeOK, RefillRelease, Live, NoTask, RefillTask
<1>2. task'[t] = NoTask /\ \A u \in Tasks \ {t} : task'[u] = task[u]
  BY <1>1, SMTT(30) DEF RefillRelease
<1>3. TypeOK' /\ ClientInv'
  BY <1>1 DEF IInv, TypeOK, ClientInv, RefillRelease
<1>4. \A u \in Tasks : Live(u)' <=> (u # t /\ Live(u))
  BY <1>2 DEF Live, NoTask
<1>5. SingleFlight'
  <2>1. \A u \in Tasks : Live(u) /\ u # t => task[u].key # k
    BY <1>1 DEF IInv, SingleFlight
  <2>2. refilling' = {task'[u].key : u \in {v \in Tasks : Live(v)'}}
    BY <1>1, <1>2, <1>4, <2>1, SMTT(30) DEF IInv, SingleFlight, RefillRelease
  <2>3. \A u, v \in Tasks : Live(u)' /\ Live(v)' /\ task'[u].key = task'[v].key => u = v
    BY <1>2, <1>4 DEF IInv, SingleFlight
  <2> QED
    BY <2>2, <2>3 DEF SingleFlight
<1>6. BudgetInv'
  <2>1. NoTask.need = 0 /\ NoTask.got = 0 /\ NoTask.pc = "free"
    BY DEF NoTask
  <2>2. \A j \in Keys : BatchInv(warm[j])' /\ Len(idle'[j]) <= Room(j)'
    <3>1. idle' = idle /\ warm' = warm
      BY DEF RefillRelease
    <3>2. \A j \in Keys : BatchInv(warm[j]) /\ Len(idle[j]) <= Room(j)
      BY DEF IInv, BudgetInv
    <3> QED
      BY <3>1, <3>2 DEF BatchInv, Room
  <2>3. ASSUME NEW u \in Tasks
        PROVE  /\ BatchInv(task[u])'
               /\ Live(u)' => task'[u].key \in Keys
               /\ Live(u)' => Len(idle'[task'[u].key]) + task'[u].need <= Room(task[u].key)'
               /\ ~Live(u)' => task'[u] = NoTask
    <3>1. CASE u = t
      BY <1>2, <1>4, <2>1, <3>1, SMTT(30) DEF BatchInv
    <3>2. CASE u # t
      <4>1. idle' = idle /\ warm' = warm /\ task'[u] = task[u] /\ (Live(u)' <=> Live(u))
        BY <1>2, <1>4, <3>2 DEF RefillRelease
      <4> QED
        BY <4>1 DEF IInv, BudgetInv, BatchInv, Room
    <3> QED
      BY <3>1, <3>2
  <2> QED
    BY <2>2, <2>3 DEF BudgetInv
<1> QED
  BY <1>3, <1>5, <1>6 DEF IInv

(***************************************************************************)
(* The steps of warmup.  Before its push a job changes no bucket's room.   *)
(***************************************************************************)
LEMMA BudgetJob ==
    ASSUME IInv, NEW k \in Keys, NEW j \in WarmJob, warm[k].pc # "done", j.pc # "done",
           BatchInv(j), warm' = [warm EXCEPT ![k] = j], UNCHANGED <<idle, task>>
    PROVE  BudgetInv'
<1>1. warm'[k] = j /\ \A i \in Keys \ {k} : warm'[i] = warm[i]
  BY DEF IInv, TypeOK
<1>2. \A i \in Keys : Room(i)' = Room(i)
  BY <1>1 DEF Room
<1>3. \A i \in Keys : BatchInv(warm[i])' /\ Len(idle'[i]) <= Room(i)'
  BY <1>1, <1>2, SMTT(30) DEF IInv, BudgetInv, BatchInv
<1>4. ASSUME NEW u \in Tasks
      PROVE  /\ BatchInv(task[u])'
             /\ Live(u)' => task'[u].key \in Keys
             /\ Live(u)' => Len(idle'[task'[u].key]) + task'[u].need <= Room(task[u].key)'
             /\ ~Live(u)' => task'[u] = NoTask
  BY <1>2 DEF IInv, BudgetInv, BatchInv, Live
<1> QED
  BY <1>3, <1>4 DEF BudgetInv

LEMMA WarmStartStep ==
    ASSUME IInv, NEW k \in Keys, WarmStart(k)
    PROVE  IInv'
<1> DEFINE j == Started(warm[k], PoolSize)
<1>1. warm \in [Keys -> WarmJob] /\ PoolSize \in 0..PoolSize
  BY ConstantsAssumption DEF IInv, TypeOK
<1>2. j \in WarmJob /\ j.pc # "done" /\ BatchInv(j)
  BY <1>1, StartedBatch
<1>3. warm' = [warm EXCEPT ![k] = j]
  BY Zenon DEF WarmStart
<1> HIDE DEF j
<1>4. TypeOK' /\ ClientInv'
  BY <1>1, <1>2, <1>3 DEF IInv, TypeOK, ClientInv, WarmStart
<1>5. BudgetInv'
  BY <1>2, <1>3, BudgetJob, Zenon DEF WarmStart
<1> QED
  BY <1>4, <1>5, SingleFlightStutter DEF IInv, WarmStart

LEMMA WarmDialStep ==
    ASSUME IInv, NEW k \in Keys, NEW result, WarmDial(k, result)
    PROVE  IInv'
<1> DEFINE j == DialEnded(warm[k], result)
<1>1. warm \in [Keys -> WarmJob] /\ warm[k].pc = "dialing" /\ BatchInv(warm[k])
  BY DEF IInv, TypeOK, BudgetInv, WarmDial
<1>2. j \in WarmJob /\ j.pc # "done" /\ BatchInv(j)
  BY <1>1, EndedDial
<1>3. warm' = [warm EXCEPT ![k] = j]
  BY Zenon DEF WarmDial
<1> HIDE DEF j
<1>4. TypeOK' /\ ClientInv'
  BY <1>1, <1>2, <1>3 DEF IInv, TypeOK, ClientInv, WarmDial
<1>5. BudgetInv'
  BY <1>1, <1>2, <1>3, BudgetJob, Zenon DEF WarmDial
<1> QED
  BY <1>4, <1>5, SingleFlightStutter DEF IInv, WarmDial

(***************************************************************************)
(* The push: at most PoolSize connections on top of what was at most       *)
(* PoolSize, and from now on the bucket may hold 2 * PoolSize.             *)
(***************************************************************************)
LEMMA WarmPushStep ==
    ASSUME IInv, NEW k \in Keys, WarmPush(k)
    PROVE  IInv'
<1> DEFINE n == warm[k].got
           b == Pushed(idle[k], n)
           j == [pc |-> "done", need |-> 0, got |-> 0]
<1>1. /\ warm \in [Keys -> WarmJob] /\ idle \in [Keys -> Seq(PoolEntry)]
      /\ now \in 0..MaxTime /\ task \in [Tasks -> RefillTask]
  BY DEF IInv, TypeOK
<1>2. n \in Nat /\ n <= PoolSize /\ j \in WarmJob
  BY <1>1, ConstantsAssumption DEF WarmJob
<1>3. b \in Seq(PoolEntry) /\ Len(b) = Len(idle[k]) + n /\ Len(idle[k]) \in Nat
  BY <1>1, <1>2, PushedLength, LenProperties, Zenon
<1>4. /\ warm'[k] = j /\ \A i \in Keys \ {k} : warm'[i] = warm[i]
      /\ idle'[k] = b /\ \A i \in Keys \ {k} : idle'[i] = idle[i]
  BY <1>1 DEF WarmPush
<1>5. TypeOK' /\ ClientInv'
  <2>1. idle' \in [Keys -> Seq(PoolEntry)] /\ warm' \in [Keys -> WarmJob]
    BY <1>1, <1>2, <1>3 DEF WarmPush
  <2> QED
    BY <2>1 DEF IInv, TypeOK, ClientInv, WarmPush
<1> HIDE DEF b, n
<1>6. Room(k) = PoolSize /\ Room(k)' = 2 * PoolSize /\ \A i \in Keys \ {k} : Room(i)' = Room(i)
  BY <1>4 DEF Room, WarmPush
<1>7. BudgetInv'
  <2>1. BatchInv(j)
    BY DEF BatchInv
  <2>2. ASSUME NEW i \in Keys PROVE BatchInv(warm[i])' /\ Len(idle'[i]) <= Room(i)'
    <3>1. CASE i = k
      <4>1. Len(idle[k]) <= PoolSize
        BY <1>6 DEF IInv, BudgetInv
      <4>2. BatchInv(warm[k])'
        BY <1>4, <2>1, SMTT(30) DEF BatchInv
      <4> QED
        BY <1>2, <1>3, <1>4, <1>6, <3>1, <4>1, <4>2, ConstantsAssumption, SMTT(30)
    <3>2. CASE i # k
      BY <1>4, <1>6, <3>2, SMTT(30) DEF IInv, BudgetInv, BatchInv
    <3> QED
      BY <3>1, <3>2
  <2>3. ASSUME NEW u \in Tasks
        PROVE  /\ BatchInv(task[u])'
               /\ Live(u)' => task'[u].key \in Keys
               /\ Live(u)' => Len(idle'[task'[u].key]) + task'[u].need <= Room(task[u].key)'
               /\ ~Live(u)' => task'[u] = NoTask
    <3>1. task' = task
      BY SMTT(30) DEF WarmPush
    <3>2. CASE task[u].key = k
      <4>1. Live(u) => Len(idle[k]) + task[u].need <= PoolSize
        BY <1>6, <3>2 DEF IInv, BudgetInv
      <4>2. task[u].need \in Nat
        BY <1>1, ConstantsAssumption DEF RefillTask
      <4>3. Live(u) => Len(idle'[k]) + task[u].need <= Room(k)'
        BY <1>2, <1>3, <1>4, <1>6, <4>1, <4>2, ConstantsAssumption, SMTT(30)
      <4> QED
        BY <3>1, <3>2, <4>3, SMTT(30) DEF IInv, BudgetInv, BatchInv, Live
    <3>3. CASE task[u].key # k
      BY <1>4, <1>6, <3>1, <3>3 DEF IInv, BudgetInv, BatchInv, Live
    <3> QED
      BY <3>2, <3>3
  <2> QED
    BY <2>2, <2>3 DEF BudgetInv
<1> QED
  BY <1>5, <1>7, SingleFlightStutter DEF IInv, WarmPush

-----------------------------------------------------------------------------
(***************************************************************************)
(* IInv is inductive.                                                      *)
(***************************************************************************)
LEMMA NextIInv == IInv /\ [Next]_vars => IInv'
<1> SUFFICES ASSUME IInv, [Next]_vars PROVE IInv'
  OBVIOUS
<1>1. CASE Tick
  BY <1>1, TickStep
<1>2. CASE \E k \in Keys : \E i \in 1..Len(idle[k]) : ServerClose(k, i)
  BY <1>2, ServerCloseStep
<1>3. CASE \E c \in Clients, k \in Keys, allow \in AllowRefill : GetCall(c, k, allow)
  BY <1>3, GetCallStep
<1>4. CASE \E c \in Clients : GetPop(c) \/ GetReturn(c)
  BY <1>4, GetPopStep, GetReturnStep
<1>5. CASE \E t \in Tasks : RefillStep(t)
  BY <1>5, RefillCountStep, RefillDialStep, RefillPushStep, RefillReleaseStep DEF RefillStep
<1>6. CASE \E k \in WarmKeys : WarmStep(k)
  BY <1>6, WarmStartStep, WarmDialStep, WarmPushStep, ConstantsAssumption DEF WarmStep
<1>7. CASE UNCHANGED vars
  <2>1. TypeOK' /\ ClientInv'
    BY <1>7, SMTT(30) DEF IInv, TypeOK, ClientInv, vars
  <2>2. BudgetInv'
    BY <1>7 DEF IInv, BudgetInv, BatchInv, Room, Live, vars
  <2>3. SingleFlight'
    BY <1>7, SingleFlightStutter DEF IInv, vars
  <2> QED
    BY <2>1, <2>2, <2>3 DEF IInv
<1> QED
  BY <1>1, <1>2, <1>3, <1>4, <1>5, <1>6, <1>7 DEF Next

(***************************************************************************)
(* IInv bounds the descriptors: a batch holds or dials at most `need`.     *)
(***************************************************************************)
LEMMA IInvBudget == IInv => FdBudget
<1> SUFFICES ASSUME IInv, NEW k \in Keys
             PROVE  /\ Len(idle[k]) + BatchFds(warm[k]) <= 2 * PoolSize
                    /\ \A t \in Tasks : task[t].key = k =>
                          Len(idle[k]) + BatchFds(warm[k]) + BatchFds(task[t]) <= 2 * PoolSize
  BY DEF FdBudget
<1> USE ConstantsAssumption
<1>1. /\ warm[k] \in WarmJob /\ BatchInv(warm[k])
      /\ Len(idle[k]) \in Nat /\ Len(idle[k]) <= Room(k)
  BY LenProperties, SMTT(30) DEF IInv, TypeOK, BudgetInv
<1>2. /\ BatchFds(warm[k]) \in Nat
      /\ BatchFds(warm[k]) <= IF warm[k].pc = "done" THEN 0 ELSE PoolSize
  <2>1. warm[k].got \in Nat /\ warm[k].need \in Nat /\ warm[k].need <= PoolSize
    BY <1>1 DEF WarmJob
  <2>2. warm[k].pc = "done" => warm[k].need = 0
    BY <1>1 DEF BatchInv
  <2> QED
    BY <1>1, <2>1, <2>2, BatchFdsBound
<1>3. Len(idle[k]) + BatchFds(warm[k]) <= 2 * PoolSize
  BY <1>1, <1>2 DEF Room
<1>4. ASSUME NEW t \in Tasks, task[t].key = k
      PROVE  Len(idle[k]) + BatchFds(warm[k]) + BatchFds(task[t]) <= 2 * PoolSize
  <2>1. task[t] \in RefillTask /\ BatchInv(task[t])
    BY DEF IInv, TypeOK, BudgetInv
  <2>2. Live(t)
    BY <1>4 DEF IInv, BudgetInv, NoTask
  <2>3. Len(idle[k]) + task[t].need <= Room(k)
    BY <1>4, <2>2 DEF IInv, BudgetInv
  <2>4. task[t].got \in Nat /\ task[t].need \in Nat
    BY <2>1 DEF RefillTask
  <2>5. BatchFds(task[t]) \in Nat /\ BatchFds(task[t]) <= task[t].need
    BY <2>1, <2>4, BatchFdsBound
  <2> QED
    BY <1>1, <1>2, <2>3, <2>4, <2>5, SMTT(30) DEF Room
<1> QED
  BY <1>3, <1>4

-----------------------------------------------------------------------------
(***************************************************************************)
(* The pool's state keeps its types.                                       *)
(***************************************************************************)
THEOREM TypeCorrect == Spec => []TypeOK
<1>1. IInv => TypeOK
  BY DEF IInv
<1> QED
  BY <1>1, InitIInv, NextIInv, PTL DEF Spec

(***************************************************************************)
(* A bucket has a refill reserved exactly while it has one refill task, and*)
(* never has two (reserve_refill and RefillGuard).                         *)
(***************************************************************************)
THEOREM SingleFlightHolds == Spec => []SingleFlight
<1>1. IInv => SingleFlight
  BY DEF IInv
<1> QED
  BY <1>1, InitIInv, NextIInv, PTL DEF Spec

(***************************************************************************)
(* A bucket, its refill and warmup together never hold more descriptors    *)
(* than limits.rs reserves for it: FDS_PER_POOL_SLOT times --pool-size.    *)
(***************************************************************************)
THEOREM FdBudgetHolds == Spec => []FdBudget
  BY InitIInv, NextIInv, IInvBudget, PTL DEF Spec

-----------------------------------------------------------------------------
(***************************************************************************)
(* "Drain from the back (LIFO) so the freshest connections are used first":*)
(* nothing that a `get` leaves in the bucket is younger than what it takes.*)
(* It rests on the order of a bucket, which refills and warmup both write: *)
(* `created` is stamped at the push, under the lock, and not by the dial,  *)
(* which finishes in any order.                                            *)
(***************************************************************************)
FreshestTaken(c) ==
    LET left == idle'[client[c].key]
    IN  \A taken \in client'[c].ws, i \in 1..Len(left) : left[i].created <= taken.created

FreshestFirst ==
    [][\A c \in Clients : GetPop(c) => FreshestTaken(c)]_vars

\* A bucket from the oldest to the youngest, none from the future.
Oldest(bucket, at) ==
    \A i \in 1..Len(bucket) :
        /\ bucket[i].created <= at
        /\ \A j \in 1..i : bucket[j].created <= bucket[i].created

OldestFirst == \A k \in Keys : Oldest(idle[k], now)

LEMMA StampsNat ==
    ASSUME NEW bucket \in Seq(PoolEntry)
    PROVE  Len(bucket) \in Nat /\ \A i \in 1..Len(bucket) : bucket[i].created \in Nat
<1>1. \A e \in PoolEntry : e.created \in Nat
  BY ConstantsAssumption DEF PoolEntry
<1>2. \A i \in 1..Len(bucket) : bucket[i] \in PoolEntry
  BY ElementOfSeq, Zenon
<1> QED
  BY <1>1, <1>2, LenProperties, Zenon

LEMMA OldestPrefix ==
    ASSUME NEW bucket \in Seq(PoolEntry), NEW at \in Nat, Oldest(bucket, at),
           NEW i \in 1..Len(bucket)
    PROVE  Oldest(SubSeq(bucket, 1, i - 1), at)
<1> DEFINE s == SubSeq(bucket, 1, i - 1)
<1>1. Len(bucket) \in Nat
  BY LenProperties
<1>2. i - 1 \in 0..Len(bucket)
  BY <1>1
<1>3. Len(s) = i - 1 /\ \A j \in 1..(i - 1) : s[j] = bucket[j]
  BY <1>1, <1>2, SubSeqProperties
<1> HIDE DEF s
<1> QED
  BY <1>1, <1>3, SMTT(30) DEF Oldest

LEMMA OldestPushed ==
    ASSUME NEW bucket \in Seq(PoolEntry), now \in 0..MaxTime, Oldest(bucket, now), NEW n \in Nat
    PROVE  Oldest(Pushed(bucket, n), now)
<1> DEFINE new == [i \in 1..n |-> [created |-> now, open |-> TRUE]]
           b == bucket \o new
<1>1. new \in Seq(PoolEntry) /\ Len(new) = n /\ \A i \in 1..n : new[i].created = now
  <2>1. [created |-> now, open |-> TRUE] \in PoolEntry
    BY DEF PoolEntry
  <2> QED
    BY <2>1, IsASeq
<1>2. Len(bucket) \in Nat /\ \A i \in 1..Len(bucket) : bucket[i].created \in Nat
  BY StampsNat, Zenon
<1> HIDE DEF new
<1>3. /\ Len(b) = Len(bucket) + Len(new)
      /\ \A i \in 1..Len(b) : b[i] = IF i <= Len(bucket) THEN bucket[i] ELSE new[i - Len(bucket)]
  BY <1>1, ConcatProperties, Zenon
<1> HIDE DEF b
<1>4. \A i \in 1..Len(b) : i > Len(bucket) => b[i].created = now
  BY <1>1, <1>2, <1>3, SMTT(30)
<1>5. \A i \in 1..Len(b) : i <= Len(bucket) => i \in 1..Len(bucket) /\ b[i] = bucket[i]
  BY <1>2, <1>3, SMTT(30)
<1>6. now \in Nat /\ Len(b) \in Nat
  BY <1>1, <1>2, <1>3, ConstantsAssumption
<1>7. ASSUME NEW i \in 1..Len(b), NEW j \in 1..i
      PROVE  b[i].created <= now /\ b[j].created <= b[i].created
  <2>1. j \in 1..Len(b)
    BY <1>6
  <2>2. \A m \in 1..Len(b) : b[m].created <= now
    BY <1>2, <1>4, <1>5, <1>6, SMTT(30) DEF Oldest
  <2>3. CASE i > Len(bucket)
    BY <1>4, <2>1, <2>2, <2>3
  <2>4. CASE i <= Len(bucket)
    BY <1>2, <1>5, <1>6, <2>1, <2>2, <2>4, SMTT(30) DEF Oldest
  <2> QED
    BY <1>2, <2>3, <2>4
<1>8. Oldest(b, now)
  BY <1>6, <1>7 DEF Oldest
<1> QED
  BY <1>8, Zenon DEF Pushed, b, new

\* Every step leaves a bucket alone, closes one of its entries, cuts it or pushes on it.
LEMMA NextOldest == IInv /\ OldestFirst /\ [Next]_vars => OldestFirst'
<1> SUFFICES ASSUME IInv, OldestFirst, [Next]_vars PROVE OldestFirst'
  OBVIOUS
<1>1. /\ idle \in [Keys -> Seq(PoolEntry)] /\ now \in 0..MaxTime
      /\ \A k \in Keys : Len(idle[k]) \in Nat
  BY LenProperties DEF IInv, TypeOK
<1>2. now \in Nat
  BY <1>1, ConstantsAssumption
<1>3. CASE UNCHANGED <<idle, now>>
  BY <1>3 DEF OldestFirst, Oldest
<1>4. CASE Tick
  <2>1. \A k \in Keys : \A i \in 1..Len(idle[k]) : idle[k][i].created \in Nat
    BY <1>1, StampsNat, Zenon
  <2> QED
    BY <1>2, <1>4, <2>1, SMTT(30) DEF Tick, OldestFirst, Oldest
<1>5. ASSUME NEW k \in Keys, NEW b, Oldest(b, now), idle' = [idle EXCEPT ![k] = b], now' = now
      PROVE  OldestFirst'
  <2>1. \A j \in Keys : Oldest(idle'[j], now')
    BY <1>1, <1>5, SMTT(30) DEF OldestFirst
  <2> QED
    BY <2>1 DEF OldestFirst, Oldest
<1>6. ASSUME NEW k \in Keys, NEW i \in 1..Len(idle[k]), ServerClose(k, i)
      PROVE  OldestFirst'
  <2> DEFINE entry == [idle[k][i] EXCEPT !.open = FALSE]
             b == [idle[k] EXCEPT ![i] = entry]
  <2>1. idle' = [idle EXCEPT ![k] = b] /\ now' = now
    BY <1>6, Zenon DEF ServerClose
  <2>2. idle[k][i] \in PoolEntry /\ entry.created = idle[k][i].created
    <3>1. idle[k][i] \in PoolEntry
      BY <1>1, ElementOfSeq, Zenon
    <3> QED
      BY <3>1, SMTT(20), Zenon DEF PoolEntry
  <2> HIDE DEF entry
  <2>3. b \in Seq(PoolEntry) /\ Len(b) = Len(idle[k])
    <3>1. entry \in PoolEntry
      BY <2>2, ClosedEntry, Zenon DEF entry
    <3> QED
      BY <1>1, <3>1, ExceptSeq, SMTT(30), Zenon
  <2>4. \A j \in 1..Len(idle[k]) : b[j].created = idle[k][j].created
    BY <1>1, <2>2, ExceptSeq, SMTT(30)
  <2> HIDE DEF b
  <2>5. Oldest(b, now)
    BY <1>1, <2>3, <2>4, SMTT(30) DEF OldestFirst, Oldest
  <2> QED
    BY <1>5, <2>1, <2>5, Zenon
<1>7. ASSUME NEW c \in Clients, GetPop(c)
      PROVE  OldestFirst'
  <2> DEFINE k == client[c].key
  <2>1. k \in Keys /\ idle[k] \in Seq(PoolEntry) /\ Oldest(idle[k], now) /\ now' = now
    BY <1>7, Zenon DEF IInv, ClientInv, TypeOK, GetPop, OldestFirst
  <2>2. Oldest(<<>>, now)
    BY DEF Oldest
  <2>3. \A i \in 1..Len(idle[k]) : Oldest(SubSeq(idle[k], 1, i - 1), now)
    BY <1>2, <2>1, OldestPrefix
  <2>4. \/ idle' = [idle EXCEPT ![k] = <<>>]
        \/ \E i \in 1..Len(idle[k]) : idle' = [idle EXCEPT ![k] = SubSeq(idle[k], 1, i - 1)]
    BY <1>7, Zenon DEF GetPop
  <2> QED
    BY <1>5, <2>1, <2>2, <2>3, <2>4, Zenon
<1>8. ASSUME NEW k \in Keys, NEW n \in Nat, idle' = [idle EXCEPT ![k] = Pushed(idle[k], n)], now' = now
      PROVE  OldestFirst'
  <2>1. Oldest(Pushed(idle[k], n), now)
    BY <1>1, OldestPushed, Zenon DEF OldestFirst
  <2> QED
    BY <1>5, <1>8, <2>1, Zenon
<1>9. ASSUME NEW t \in Tasks, RefillPush(t)
      PROVE  OldestFirst'
  <2> DEFINE k == task[t].key
             n == Smaller(task[t].got, CanAdd(idle[k]))
  <2>1. task[t] \in RefillTask /\ k \in Keys
    BY <1>9 DEF IInv, TypeOK, RefillPush, Live, BudgetInv
  <2>2. CanAdd(idle[k]) \in Nat /\ task[t].got \in Nat
    BY <1>1, <2>1, ConstantsAssumption DEF CanAdd, RefillTask
  <2>3. n \in Nat
    BY <2>2, SmallerNat, Zenon
  <2>4. idle' = [idle EXCEPT ![k] = Pushed(idle[k], n)] /\ now' = now
    BY <1>9, Zenon DEF RefillPush
  <2> QED
    BY <1>8, <2>1, <2>3, <2>4, Zenon
<1>10. ASSUME NEW k \in Keys, WarmPush(k)
       PROVE  OldestFirst'
  <2>1. warm[k].got \in Nat
    BY ConstantsAssumption DEF IInv, TypeOK, WarmJob
  <2>2. idle' = [idle EXCEPT ![k] = Pushed(idle[k], warm[k].got)] /\ now' = now
    BY <1>10, Zenon DEF WarmPush
  <2> QED
    BY <1>8, <2>1, <2>2, Zenon
<1>11. \/ UNCHANGED <<idle, now>>
       \/ Tick
       \/ \E k \in Keys : \E i \in 1..Len(idle[k]) : ServerClose(k, i)
       \/ \E c \in Clients : GetPop(c)
       \/ \E t \in Tasks : RefillPush(t)
       \/ \E k \in Keys : WarmPush(k)
  <2>1. ASSUME NEW c \in Clients PROVE GetReturn(c) => UNCHANGED <<idle, now>>
    BY DEF GetReturn
  <2>2. ASSUME NEW t \in Tasks
        PROVE  RefillStep(t) => RefillPush(t) \/ UNCHANGED <<idle, now>>
    BY DEF RefillStep, RefillCount, RefillDial, RefillRelease
  <2>3. ASSUME NEW k \in Keys
        PROVE  WarmStep(k) => WarmPush(k) \/ UNCHANGED <<idle, now>>
    BY DEF WarmStep, WarmStart, WarmDial
  <2>4. ASSUME NEW c \in Clients, NEW k \in Keys, NEW allow \in AllowRefill
        PROVE  GetCall(c, k, allow) => UNCHANGED <<idle, now>>
    BY DEF GetCall
  <2>5. UNCHANGED vars => UNCHANGED <<idle, now>>
    BY DEF vars
  <2> QED
    BY <2>1, <2>2, <2>3, <2>4, <2>5, ConstantsAssumption, Zenon DEF Next
<1> QED
  BY <1>3, <1>4, <1>6, <1>7, <1>9, <1>10, <1>11, Zenon

LEMMA PopTakesFreshest ==
    ASSUME IInv, OldestFirst, NEW c \in Clients, GetPop(c)
    PROVE  FreshestTaken(c)
<1> DEFINE k == client[c].key
<1>1. /\ k \in Keys /\ idle \in [Keys -> Seq(PoolEntry)] /\ Oldest(idle[k], now)
      /\ client \in [Clients -> Call] /\ client[c] \in Call
  BY Zenon DEF IInv, ClientInv, TypeOK, GetPop, OldestFirst
<1>2. CASE idle' = [idle EXCEPT ![k] = <<>>]
  BY <1>1, <1>2 DEF FreshestTaken
<1>3. ASSUME NEW i \in 1..Len(idle[k]),
             idle' = [idle EXCEPT ![k] = SubSeq(idle[k], 1, i - 1)],
             client' = [client EXCEPT ![c] = [@ EXCEPT !.pc = "popped", !.ws = {idle[k][i]}]]
      PROVE  FreshestTaken(c)
  <2>1. client'[c].ws = {idle[k][i]}
    BY <1>1, <1>3 DEF Call
  <2>2. Len(idle[k]) \in Nat
    BY <1>1, LenProperties
  <2>3. i - 1 \in 0..Len(idle[k])
    BY <2>2
  <2>4. /\ idle'[k] = SubSeq(idle[k], 1, i - 1)
        /\ Len(idle'[k]) = i - 1
        /\ \A j \in 1..(i - 1) : idle'[k][j] = idle[k][j]
    BY <1>1, <1>3, <2>2, <2>3, SubSeqProperties, SMTT(30)
  <2>5. \A j \in 1..(i - 1) : idle[k][j].created <= idle[k][i].created
    BY <1>1, <2>2 DEF Oldest
  <2>6. ASSUME NEW taken \in client'[c].ws, NEW j \in 1..Len(idle'[k])
        PROVE  idle'[k][j].created <= taken.created
    <3>1. taken = idle[k][i]
      BY <2>1, Zenon
    <3>2. j \in 1..(i - 1) /\ idle'[k][j] = idle[k][j]
      BY <2>4, Zenon
    <3> QED
      BY <2>5, <3>1, <3>2, Zenon
  <2> QED
    BY <2>6, Zenon DEF FreshestTaken
<1> QED
  BY <1>2, <1>3, Zenon DEF GetPop

(***************************************************************************)
(* A `get` hands out the youngest connection that it leaves behind or      *)
(* takes, whatever order refills and warmup dialled and pushed in and      *)
(* however many callers wait for the lock.                                 *)
(***************************************************************************)
THEOREM FreshestFirstHolds == Spec => FreshestFirst
<1>1. Init => OldestFirst
  BY DEF Init, OldestFirst, Oldest
<1>2. IInv /\ OldestFirst /\ [Next]_vars => [\A c \in Clients : GetPop(c) => FreshestTaken(c)]_vars
  BY PopTakesFreshest
<1> QED
  BY <1>1, <1>2, InitIInv, NextIInv, NextOldest, PTL DEF Spec, FreshestFirst

-----------------------------------------------------------------------------
(***************************************************************************)
(* The refinement.  What the mapping shows of a bucket's refill is where   *)
(* its one live task is.                                                   *)
(***************************************************************************)
RefillsShown ==
    \A t \in Tasks :
        Live(t) => Refill(task[t].key) = IF task[t].pc = "release" THEN "delivered" ELSE "reserved"

LEMMA LiveRefill == IInv => RefillsShown
<1> SUFFICES ASSUME IInv, NEW t \in Tasks, Live(t)
             PROVE  Refill(task[t].key) = IF task[t].pc = "release" THEN "delivered" ELSE "reserved"
  BY DEF RefillsShown
<1>1. task[t].key \in refilling
  BY DEF IInv, SingleFlight
<1>2. Delivered(task[t].key) <=> task[t].pc = "release"
  BY DEF IInv, SingleFlight, Live, Delivered
<1> QED
  BY <1>1, <1>2, Zenon DEF Refill

LEMMA LiveRefillNext == IInv' => RefillsShown'
BY LiveRefill, PTL

\* The refill of a bucket looks the same while the tasks on it do.
LEMMA SameRefill ==
    ASSUME NEW k \in Keys, k \in refilling' <=> k \in refilling,
           \A t \in Tasks :
              (task'[t].key = k /\ task'[t].pc = "release") <=> (task[t].key = k /\ task[t].pc = "release")
    PROVE  Refill(k)' = Refill(k)
<1>1. Delivered(k)' <=> Delivered(k)
  BY DEF Delivered
<1> QED
  BY <1>1, Zenon DEF Refill

(***************************************************************************)
(* The mapped functions change where the buckets and refills do.           *)
(***************************************************************************)
LEMMA StockSame ==
    ASSUME \A j \in Keys : Len(idle'[j]) = Len(idle[j])
    PROVE  Stock' = Stock
BY DEF Stock

LEMMA StockUpdate ==
    ASSUME NEW k \in Keys, \A j \in Keys \ {k} : Len(idle'[j]) = Len(idle[j])
    PROVE  Stock' = [Stock EXCEPT ![k] = Len(idle'[k])] /\ Stock[k] = Len(idle[k])
BY Zenon DEF Stock

LEMMA RefillsSame ==
    ASSUME \A j \in Keys : Refill(j)' = Refill(j)
    PROVE  Refills' = Refills
BY DEF Refills

LEMMA RefillsUpdate ==
    ASSUME NEW k \in Keys, NEW v, Refill(k)' = v, \A j \in Keys \ {k} : Refill(j)' = Refill(j)
    PROVE  Refills' = [Refills EXCEPT ![k] = v] /\ Refills[k] = Refill(k)
BY Zenon DEF Refills

(***************************************************************************)
(* Every step of the pool is a step of SparePool, or none.  A step that    *)
(* leaves the buckets' lengths, the reservations and warmup's pushes alone *)
(* is none.                                                                *)
(***************************************************************************)
LEMMA Stutters ==
    ASSUME \A j \in Keys : Len(idle'[j]) = Len(idle[j]) /\ Refill(j)' = Refill(j), Cold' = Cold
    PROVE  [Pool!Next]_Pool!vars
<1>1. Stock' = Stock /\ Refills' = Refills
  BY StockSame, RefillsSame
<1> QED
  BY <1>1, Zenon DEF Pool!vars

LEMMA TickMaps ==
    ASSUME UNCHANGED <<idle, refilling, task, warm>>
    PROVE  [Pool!Next]_Pool!vars
<1>1. \A j \in Keys : Len(idle'[j]) = Len(idle[j]) /\ Refill(j)' = Refill(j)
  BY DEF Refill, Delivered
<1>2. Cold' = Cold
  BY DEF Cold
<1> QED
  BY <1>1, <1>2, Stutters

LEMMA ServerCloseMaps ==
    ASSUME IInv, NEW k \in Keys, NEW i \in 1..Len(idle[k]), ServerClose(k, i)
    PROVE  [Pool!Next]_Pool!vars
<1> DEFINE b == [idle[k] EXCEPT ![i] = [idle[k][i] EXCEPT !.open = FALSE]]
<1>1. idle \in [Keys -> Seq(PoolEntry)] /\ idle[k] \in Seq(PoolEntry)
  BY DEF IInv, TypeOK
<1>2. idle' = [idle EXCEPT ![k] = b] /\ UNCHANGED <<refilling, task, warm>>
  BY Zenon DEF ServerClose
<1>3. Len(b) = Len(idle[k])
  BY <1>1
<1> HIDE DEF b
<1>4. \A j \in Keys : Len(idle'[j]) = Len(idle[j])
  BY <1>1, <1>2, <1>3, SMTT(20), Zenon
<1>5. \A j \in Keys : Refill(j)' = Refill(j)
  BY <1>2, SMTT(20), Zenon DEF Refill, Delivered
<1>6. Cold' = Cold
  BY <1>2 DEF Cold
<1> QED
  BY <1>4, <1>5, <1>6, Stutters

\* A bucket that only shrinks had connections taken from it, or none.
LEMMA ShrinkMaps ==
    ASSUME IInv, IInv', NEW k \in Keys, NEW b, idle' = [idle EXCEPT ![k] = b],
           Len(b) <= Len(idle[k]), UNCHANGED <<refilling, task, warm>>
    PROVE  [Pool!Next]_Pool!vars
<1>1. /\ idle[k] \in Seq(PoolEntry) /\ idle'[k] \in Seq(PoolEntry) /\ idle'[k] = b
      /\ \A j \in Keys \ {k} : Len(idle'[j]) = Len(idle[j])
  BY DEF IInv, TypeOK
<1>2. Len(idle[k]) \in Nat /\ Len(b) \in Nat
  BY <1>1, LenProperties
<1>3. \A j \in Keys : Refill(j)' = Refill(j)
  BY DEF Refill, Delivered
<1>4. Refills' = Refills /\ Cold' = Cold
  BY <1>3, RefillsSame DEF Cold
<1>5. CASE Len(b) = Len(idle[k])
  <2>1. \A j \in Keys : Len(idle'[j]) = Len(idle[j])
    BY <1>1, <1>5
  <2> QED
    BY <1>3, <1>4, <2>1, Stutters
<1>6. CASE Len(b) < Len(idle[k])
  <2> DEFINE n == Len(idle[k]) - Len(b)
  <2>1. n \in 1..Len(idle[k]) /\ Len(idle[k]) - n = Len(b)
    BY <1>2, <1>6
  <2>2. Stock' = [Stock EXCEPT ![k] = Len(b)] /\ Stock[k] = Len(idle[k])
    BY <1>1, StockUpdate
  <2> HIDE DEF n
  <2>3. Stock' = [Stock EXCEPT ![k] = Stock[k] - n] /\ n \in 1..Stock[k]
    BY <2>1, <2>2, Zenon
  <2>4. Pool!Take(k)
    BY <1>4, <2>3, Zenon DEF Pool!Take
  <2> QED
    BY <2>4, Zenon DEF Pool!Next
<1> QED
  BY <1>2, <1>5, <1>6

LEMMA GetPopMaps ==
    ASSUME IInv, IInv', NEW c \in Clients, GetPop(c)
    PROVE  [Pool!Next]_Pool!vars
<1> DEFINE k == client[c].key
<1>1. k \in Keys /\ idle[k] \in Seq(PoolEntry) /\ Len(idle[k]) \in Nat
  BY LenProperties, Zenon DEF IInv, TypeOK, ClientInv, GetPop
<1>2. UNCHANGED <<refilling, task, warm>>
  BY Zenon DEF GetPop
<1> SUFFICES ASSUME NEW b, idle' = [idle EXCEPT ![k] = b],
                    b = <<>> \/ \E i \in 1..Len(idle[k]) : b = SubSeq(idle[k], 1, i - 1)
             PROVE  Len(b) <= Len(idle[k])
  BY <1>1, <1>2, ShrinkMaps, Zenon DEF GetPop
<1> QED
  BY <1>1, PoppedLength, EmptySeq

\* The buckets other than the one whose task steps.
LEMMA OtherRefills ==
    ASSUME IInv, IInv', NEW t \in Tasks, NEW r, task' = [task EXCEPT ![t] = r],
           NEW k \in Keys, task[t].key \in {k, NoKey}, r.key \in {k, NoKey},
           \A j \in Keys \ {k} : j \in refilling' <=> j \in refilling
    PROVE  \A j \in Keys \ {k} : Refill(j)' = Refill(j)
<1> SUFFICES ASSUME NEW j \in Keys \ {k} PROVE Refill(j)' = Refill(j)
  OBVIOUS
<1>1. j # NoKey /\ j # k
  BY ConstantsAssumption
<1>2. task'[t] = r /\ \A u \in Tasks \ {t} : task'[u] = task[u]
  BY DEF IInv, TypeOK
<1>3. ASSUME NEW u \in Tasks
      PROVE  (task'[u].key = j /\ task'[u].pc = "release") <=> (task[u].key = j /\ task[u].pc = "release")
  BY <1>1, <1>2
<1> QED
  BY <1>3, SameRefill

LEMMA GetReturnMaps ==
    ASSUME IInv, IInv', NEW c \in Clients, GetReturn(c)
    PROVE  [Pool!Next]_Pool!vars
<1>1. PICK k \in Keys : k = client[c].key
  BY DEF IInv, ClientInv, GetReturn
<1> DEFINE r == [NoTask EXCEPT !.pc = "spawned", !.key = k]
<1>2. UNCHANGED <<idle, warm>>
  BY Zenon DEF GetReturn
<1>3. CASE UNCHANGED <<refilling, task>>
  BY <1>2, <1>3, TickMaps
<1>4. CASE k \notin refilling /\ \E t \in Tasks :
              /\ task[t].pc = "free"
              /\ task' = [task EXCEPT ![t] = r]
              /\ refilling' = refilling \cup {k}
  <2>1. PICK t \in Tasks : /\ task[t].pc = "free"
                           /\ task' = [task EXCEPT ![t] = r]
                           /\ refilling' = refilling \cup {k}
    BY <1>4, Zenon
  <2>2. r.key = k /\ r.pc = "spawned"
    BY DEF NoTask
  <2>3. task[t].key = NoKey
    BY <2>1 DEF IInv, BudgetInv, Live, NoTask
  <2> HIDE DEF r
  <2>4. \A j \in Keys \ {k} : Refill(j)' = Refill(j)
    BY <1>1, <2>1, <2>2, <2>3, OtherRefills, Zenon
  <2>5. task'[t] = r
    BY <2>1 DEF IInv, TypeOK
  <2>6. Refill(k) = "none" /\ Refill(k)' = "reserved"
    <3>1. Live(t)' /\ task'[t].key = k /\ task'[t].pc # "release"
      BY <2>2, <2>5 DEF Live
    <3>2. Refill(task[t].key)' = "reserved"
      BY <3>1, LiveRefillNext DEF RefillsShown
    <3> QED
      BY <1>4, <3>1, <3>2 DEF Refill, Delivered
  <2>7. Stock' = Stock /\ Cold' = Cold
    BY <1>2 DEF Stock, Cold
  <2>8. Refills' = [Refills EXCEPT ![k] = "reserved"] /\ Refills[k] = "none"
    BY <1>1, <2>4, <2>6, RefillsUpdate
  <2>9. Pool!Reserve(k)
    BY <2>7, <2>8, Zenon DEF Pool!Reserve
  <2> QED
    BY <1>1, <2>9, Zenon DEF Pool!Next
<1> QED
  BY <1>1, <1>3, <1>4, Zenon DEF GetReturn, ReserveRefill

\* A refill that goes on changes nothing that shows.
LEMMA RefillGoesOn ==
    ASSUME IInv, IInv', NEW t \in Tasks, NEW r, task' = [task EXCEPT ![t] = r],
           task[t].pc \notin {"free", "release"}, r.pc \notin {"free", "release"},
           r.key = task[t].key, UNCHANGED <<idle, refilling, warm>>
    PROVE  [Pool!Next]_Pool!vars
<1>1. task'[t] = r /\ \A u \in Tasks \ {t} : task'[u] = task[u]
  BY DEF IInv, TypeOK
<1>2. ASSUME NEW j \in Keys PROVE Refill(j)' = Refill(j)
  <2>1. ASSUME NEW u \in Tasks
        PROVE  (task'[u].key = j /\ task'[u].pc = "release") <=> (task[u].key = j /\ task[u].pc = "release")
    BY <1>1
  <2> QED
    BY <2>1, SameRefill
<1>3. Cold' = Cold /\ \A j \in Keys : Len(idle'[j]) = Len(idle[j])
  BY DEF Cold
<1> QED
  BY <1>2, <1>3, Stutters

\* A refill that ends with n connections delivers them.
LEMMA DeliverMaps ==
    ASSUME IInv, IInv', NEW t \in Tasks, NEW r, task' = [task EXCEPT ![t] = r],
           task[t].pc \notin {"free", "release"}, r.pc = "release", r.key = task[t].key,
           NEW k \in Keys, k = task[t].key,
           NEW n \in 0..PoolSize, n = 0 \/ Len(idle[k]) + n <= PoolSize,
           Len(idle'[k]) = Len(idle[k]) + n,
           \A j \in Keys \ {k} : Len(idle'[j]) = Len(idle[j]),
           UNCHANGED <<refilling, warm>>
    PROVE  [Pool!Next]_Pool!vars
<1>1. task'[t] = r /\ Live(t) /\ Live(t)'
  BY DEF IInv, TypeOK, Live
<1>2. \A j \in Keys \ {k} : Refill(j)' = Refill(j)
  BY OtherRefills, Zenon
<1>3. Refill(k) = "reserved"
  BY <1>1, LiveRefill DEF RefillsShown
<1>4. Refill(k)' = "delivered"
  <2>1. Refill(task[t].key)' = "delivered"
    BY <1>1, LiveRefillNext DEF RefillsShown
  <2>2. task'[t].key = k
    BY <1>1
  <2> QED
    BY <2>1, <2>2 DEF Refill, Delivered
<1>5. Refills' = [Refills EXCEPT ![k] = "delivered"] /\ Refills[k] = "reserved"
  BY <1>2, <1>3, <1>4, RefillsUpdate
<1>6. Stock' = [Stock EXCEPT ![k] = Stock[k] + n] /\ (n = 0 \/ Stock[k] + n <= PoolSize)
  BY StockUpdate, Zenon
<1>7. Cold' = Cold
  BY DEF Cold
<1>8. Pool!Deliver(k)
  BY <1>5, <1>6, <1>7, Zenon DEF Pool!Deliver
<1> QED
  BY <1>8, Zenon DEF Pool!Next

LEMMA RefillCountMaps ==
    ASSUME IInv, IInv', NEW t \in Tasks, RefillCount(t)
    PROVE  [Pool!Next]_Pool!vars
<1>1. task[t] \in RefillTask /\ task[t].pc = "spawned" /\ UNCHANGED <<idle, refilling, warm>>
  BY DEF IInv, TypeOK, RefillCount
<1>2. PICK k \in Keys : k = task[t].key
  BY <1>1 DEF IInv, BudgetInv, Live
<1>3. Len(idle[k]) \in Nat
  BY LenProperties DEF IInv, TypeOK
<1>4. CASE Len(idle[k]) >= PoolSize
  <2> DEFINE r == Releasing(task[t])
  <2>1. task' = [task EXCEPT ![t] = r]
    BY <1>2, <1>4, Zenon DEF RefillCount
  <2>2. r.pc = "release" /\ r.key = task[t].key
    BY <1>1, ReleasingTask, SMTT(20), Zenon
  <2> HIDE DEF r
  <2>3. 0 \in 0..PoolSize /\ Len(idle'[k]) = Len(idle[k]) + 0 /\ \A j \in Keys \ {k} : Len(idle'[j]) = Len(idle[j])
    BY <1>1, <1>3, ConstantsAssumption
  <2>4. task[t].pc \notin {"free", "release"}
    BY <1>1
  <2> QED
    BY <1>1, <1>2, <2>1, <2>2, <2>3, <2>4, DeliverMaps, Zenon
<1>5. CASE ~(Len(idle[k]) >= PoolSize)
  <2> DEFINE r == Started(task[t], PoolSize - Len(idle[k]))
  <2>1. task' = [task EXCEPT ![t] = r]
    BY <1>2, <1>5, Zenon DEF RefillCount
  <2>2. PoolSize - Len(idle[k]) \in 0..PoolSize
    BY <1>3, <1>5, ConstantsAssumption
  <2>3. r.pc \notin {"free", "release"} /\ r.key = task[t].key
    BY <1>1, <2>2, StartedBatch, SMTT(20), Zenon
  <2> HIDE DEF r
  <2> QED
    BY <1>1, <2>1, <2>3, RefillGoesOn, Zenon
<1> QED
  BY <1>4, <1>5

LEMMA RefillDialMaps ==
    ASSUME IInv, IInv', NEW t \in Tasks, NEW result, RefillDial(t, result)
    PROVE  [Pool!Next]_Pool!vars
<1> DEFINE r == DialEnded(task[t], result)
<1>1. task[t] \in RefillTask /\ task[t].pc = "dialing" /\ UNCHANGED <<idle, refilling, warm>>
  BY DEF IInv, TypeOK, RefillDial
<1>2. task' = [task EXCEPT ![t] = r]
  BY Zenon DEF RefillDial
<1>3. r.pc \notin {"free", "release"} /\ r.key = task[t].key
  BY <1>1, EndedDial DEF IInv, BudgetInv
<1> HIDE DEF r
<1> QED
  BY <1>1, <1>2, <1>3, RefillGoesOn, Zenon

LEMMA RefillPushMaps ==
    ASSUME IInv, IInv', NEW t \in Tasks, RefillPush(t)
    PROVE  [Pool!Next]_Pool!vars
<1>1. task[t] \in RefillTask /\ task[t].pc = "dialed" /\ UNCHANGED <<refilling, warm>>
  BY SMTT(20), Zenon DEF IInv, TypeOK, RefillPush
<1>2. PICK k \in Keys : k = task[t].key
  BY <1>1, SMTT(20), Zenon DEF IInv, BudgetInv, Live
<1> DEFINE n == Smaller(task[t].got, CanAdd(idle[k]))
           r == Releasing(task[t])
<1>3. /\ idle \in [Keys -> Seq(PoolEntry)] /\ idle[k] \in Seq(PoolEntry)
      /\ Len(idle[k]) \in Nat /\ now \in 0..MaxTime
  BY LenProperties DEF IInv, TypeOK
<1>4. CanAdd(idle[k]) \in Nat /\ (CanAdd(idle[k]) = 0 \/ Len(idle[k]) + CanAdd(idle[k]) <= PoolSize)
  BY <1>3, ConstantsAssumption DEF CanAdd
<1>5. task[t].got \in 0..PoolSize /\ task[t].got \in Nat
  BY <1>1, ConstantsAssumption, SMTT(20), Zenon DEF RefillTask
<1>6. n \in Nat /\ n <= CanAdd(idle[k]) /\ n <= task[t].got
  BY <1>4, <1>5, SmallerNat, Zenon
<1>7. idle' = [idle EXCEPT ![k] = Pushed(idle[k], n)] /\ task' = [task EXCEPT ![t] = r]
  BY <1>2, Zenon DEF RefillPush
<1>8. r.pc = "release" /\ r.key = task[t].key
  BY <1>1, ReleasingTask
<1> HIDE DEF n, r
<1>9. n \in 0..PoolSize /\ (n = 0 \/ Len(idle[k]) + n <= PoolSize)
  BY <1>3, <1>4, <1>5, <1>6, ConstantsAssumption, SMTT(20), Zenon
<1>10. Len(Pushed(idle[k], n)) = Len(idle[k]) + n
  BY <1>3, <1>6, PushedLength, Zenon
<1>11. Len(idle'[k]) = Len(idle[k]) + n /\ \A j \in Keys \ {k} : Len(idle'[j]) = Len(idle[j])
  BY <1>3, <1>7, <1>10, SMTT(20), Zenon
<1>12. task[t].pc \notin {"free", "release"}
  BY <1>1
<1> QED
  BY <1>1, <1>2, <1>7, <1>8, <1>9, <1>11, <1>12, DeliverMaps, Zenon

LEMMA RefillReleaseMaps ==
    ASSUME IInv, IInv', NEW t \in Tasks, RefillRelease(t)
    PROVE  [Pool!Next]_Pool!vars
<1>1. task[t].pc = "release" /\ Live(t) /\ UNCHANGED <<idle, warm>>
  BY SMTT(20), Zenon DEF RefillRelease, Live
<1>2. PICK k \in Keys : k = task[t].key
  BY <1>1 DEF IInv, BudgetInv
<1>3. task' = [task EXCEPT ![t] = NoTask] /\ NoTask.key = NoKey /\ refilling' = refilling \ {k}
  BY <1>2 DEF RefillRelease, NoTask
<1>4. \A j \in Keys \ {k} : Refill(j)' = Refill(j)
  BY <1>2, <1>3, OtherRefills, Zenon
<1>5. Refill(k) = "delivered"
  BY <1>1, <1>2, LiveRefill DEF RefillsShown
<1>6. Refill(k)' = "none"
  BY <1>3 DEF Refill
<1>7. Refills' = [Refills EXCEPT ![k] = "none"] /\ Refills[k] = "delivered"
  BY <1>4, <1>5, <1>6, RefillsUpdate
<1>8. Stock' = Stock /\ Cold' = Cold
  BY <1>1, SMTT(20), Zenon DEF Stock, Cold
<1>9. Pool!Release(k)
  BY <1>7, <1>8, Zenon DEF Pool!Release
<1> QED
  BY <1>9, Zenon DEF Pool!Next

\* A warmup job that goes on: its bucket's first lot is still to come.
LEMMA WarmGoesOn ==
    ASSUME IInv, NEW k \in Keys, NEW j, warm' = [warm EXCEPT ![k] = j],
           warm[k].pc # "done", j.pc # "done", UNCHANGED <<idle, refilling, task>>
    PROVE  [Pool!Next]_Pool!vars
<1>1. \A i \in Keys : warm'[i].pc # "done" <=> warm[i].pc # "done"
  BY DEF IInv, TypeOK
<1>2. Cold' = Cold
  BY <1>1, ConstantsAssumption, SMTT(20), Zenon DEF Cold
<1>3. \A i \in Keys : Len(idle'[i]) = Len(idle[i]) /\ Refill(i)' = Refill(i)
  BY DEF Refill, Delivered
<1> QED
  BY <1>2, <1>3, Stutters

LEMMA WarmPushMaps ==
    ASSUME IInv, NEW k \in WarmKeys, WarmPush(k)
    PROVE  [Pool!Next]_Pool!vars
<1> DEFINE n == warm[k].got
<1>1. /\ k \in Keys /\ warm \in [Keys -> WarmJob] /\ idle \in [Keys -> Seq(PoolEntry)]
      /\ idle[k] \in Seq(PoolEntry) /\ now \in 0..MaxTime
  BY ConstantsAssumption DEF IInv, TypeOK
<1>2. n \in 0..PoolSize /\ n \in Nat
  BY <1>1, ConstantsAssumption DEF WarmJob
<1>3. /\ warm[k].pc = "dialed" /\ idle' = [idle EXCEPT ![k] = Pushed(idle[k], n)]
      /\ warm' = [warm EXCEPT ![k] = [pc |-> "done", need |-> 0, got |-> 0]]
      /\ UNCHANGED <<refilling, task>>
  BY Zenon DEF WarmPush
<1> HIDE DEF n
<1>4. Len(Pushed(idle[k], n)) = Len(idle[k]) + n
  BY <1>1, <1>2, PushedLength, Zenon
<1>5. Len(idle'[k]) = Len(idle[k]) + n /\ \A j \in Keys \ {k} : Len(idle'[j]) = Len(idle[j])
  BY <1>1, <1>3, <1>4
<1>6. Stock' = [Stock EXCEPT ![k] = Stock[k] + n]
  BY <1>1, <1>5, StockUpdate
<1>7. Refills' = Refills
  <2>1. \A j \in Keys : Refill(j)' = Refill(j)
    BY <1>3, SMTT(20), Zenon DEF Refill, Delivered
  <2> QED
    BY <2>1, RefillsSame, SMTT(20), Zenon
<1>8. k \in Cold /\ Cold' = Cold \ {k}
  <2>1. warm'[k].pc = "done" /\ \A j \in Keys \ {k} : warm'[j] = warm[j]
    BY <1>1, <1>3
  <2> QED
    BY <1>3, <2>1, ConstantsAssumption DEF Cold
<1>9. Pool!Warm(k)
  BY <1>2, <1>6, <1>7, <1>8, Zenon DEF Pool!Warm
<1> QED
  BY <1>1, <1>9, Zenon DEF Pool!Next

LEMMA WarmStartMaps ==
    ASSUME IInv, NEW k \in Keys, WarmStart(k)
    PROVE  [Pool!Next]_Pool!vars
<1> DEFINE j == Started(warm[k], PoolSize)
<1>1. warm[k] \in WarmJob /\ PoolSize \in 0..PoolSize
  BY ConstantsAssumption DEF IInv, TypeOK
<1>2. j.pc # "done" /\ warm[k].pc # "done"
  BY <1>1, StartedBatch, SMTT(20), Zenon DEF WarmStart
<1>3. warm' = [warm EXCEPT ![k] = j] /\ UNCHANGED <<idle, refilling, task>>
  BY Zenon DEF WarmStart
<1> HIDE DEF j
<1> QED
  BY <1>2, <1>3, WarmGoesOn, Zenon

LEMMA WarmDialMaps ==
    ASSUME IInv, NEW k \in Keys, NEW result, WarmDial(k, result)
    PROVE  [Pool!Next]_Pool!vars
<1> DEFINE j == DialEnded(warm[k], result)
<1>1. warm[k] \in WarmJob /\ warm[k].pc = "dialing" /\ BatchInv(warm[k])
  BY DEF IInv, TypeOK, BudgetInv, WarmDial
<1>2. j.pc # "done" /\ warm[k].pc # "done"
  BY <1>1, EndedDial
<1>3. warm' = [warm EXCEPT ![k] = j] /\ UNCHANGED <<idle, refilling, task>>
  BY Zenon DEF WarmDial
<1> HIDE DEF j
<1> QED
  BY <1>2, <1>3, WarmGoesOn, Zenon

LEMMA NextMaps == IInv /\ IInv' /\ [Next]_vars => [Pool!Next]_Pool!vars
<1> SUFFICES ASSUME IInv, IInv', [Next]_vars PROVE [Pool!Next]_Pool!vars
  OBVIOUS
<1>1. CASE Tick
  BY <1>1, TickMaps, Zenon DEF Tick
<1>2. CASE \E k \in Keys : \E i \in 1..Len(idle[k]) : ServerClose(k, i)
  BY <1>2, ServerCloseMaps, Zenon
<1>3. CASE \E c \in Clients, k \in Keys, allow \in AllowRefill : GetCall(c, k, allow)
  BY <1>3, TickMaps, Zenon DEF GetCall
<1>4. CASE \E c \in Clients : GetPop(c) \/ GetReturn(c)
  BY <1>4, GetPopMaps, GetReturnMaps, Zenon
<1>5. CASE \E t \in Tasks : RefillStep(t)
  BY <1>5, RefillCountMaps, RefillDialMaps, RefillPushMaps, RefillReleaseMaps, Zenon DEF RefillStep
<1>6. CASE \E k \in WarmKeys : WarmStep(k)
  BY <1>6, WarmStartMaps, WarmDialMaps, WarmPushMaps, ConstantsAssumption DEF WarmStep
<1>7. CASE UNCHANGED vars
  BY <1>7, TickMaps, Zenon DEF vars
<1> QED
  BY <1>1, <1>2, <1>3, <1>4, <1>5, <1>6, <1>7, Zenon DEF Next

(***************************************************************************)
(* The pool implements SparePool, for any number of buckets, clients and   *)
(* refill tasks and every --pool-size: a bucket is refilled by one task at *)
(* a time, which delivers once and never above --pool-size, whatever       *)
(* warmup and the gets did to the bucket while it was dialling.            *)
(***************************************************************************)
THEOREM ImplementsSparePoolHolds == Spec => ImplementsSparePool
<1>1. Init => Pool!Init
  <2> SUFFICES ASSUME Init PROVE Pool!Init
    OBVIOUS
  <2>1. \A k \in Keys : Len(idle[k]) = 0 /\ Refill(k) = "none"
    BY DEF Init, Refill
  <2>2. Stock = [k \in Keys |-> 0] /\ Refills = [k \in Keys |-> "none"]
    BY <2>1 DEF Stock, Refills
  <2>3. Cold \subseteq Keys
    BY ConstantsAssumption DEF Cold
  <2> QED
    BY <2>2, <2>3, Zenon DEF Pool!Init
<1> QED
  BY <1>1, InitIInv, NextIInv, NextMaps, PTL DEF Spec, ImplementsSparePool, Pool!Spec

=============================================================================
