---------------------------- MODULE CfPoolProofs ----------------------------
(***************************************************************************)
(* Proofs about the Cloudflare spares (module CfPool), for any number of   *)
(* buckets, clients and domains.  A refill looks at its bucket, dials      *)
(* without the lock and looks again: what it saw is still true when it     *)
(* pushes because it alone adds to the bucket, and it is alone because of  *)
(* the reservation.  The same facts make the steps map to SparePool's.     *)
(***************************************************************************)
EXTENDS CfPool, SequenceTheorems, TLAPS

Entry == [route : Route, usable : BOOLEAN]
RefillTask == [pc : {"spawned", "dialing", "push", "release"}, route : Route]
Call == [pc : {"out", "get", "walk", "prefetch"}, key : Keys \cup {NoKey},
         todo : Seq(Range(Domains)), target : SUBSET Route]

\* A call in progress is about a bucket of the tier.
CallInv == \A c \in Clients : client[c].pc # "out" => client[c].key \in Keys

\* A task exists exactly for a reserved bucket, and it is alone there.
TaskInv == \A k \in Keys : Len(task[k]) = (IF k \in cf_refilling THEN 1 ELSE 0)

\* What a task that dials or holds a connection saw of its bucket still holds.
RoomInv ==
    \A k \in Keys :
        /\ Len(cf_idle[k]) <= budget
        /\ \A i \in 1..Len(task[k]) :
              task[k][i].pc \in {"dialing", "push"} => Len(cf_idle[k]) < budget

\* Without --cf-balance every route in the tier has answered a client.
RouteInv ==
    ~CfBalance =>
        /\ \A k \in Keys : \A i \in 1..Len(task[k]) : task[k][i].route \in proven
        /\ \A k \in Keys : \A i \in 1..Len(cf_idle[k]) : cf_idle[k][i].route \in proven
        /\ \A c \in Clients : client[c].target \subseteq proven

IInv == TypeOK /\ CallInv /\ TaskInv /\ RoomInv /\ RouteInv

-----------------------------------------------------------------------------
LEMMA Budget == budget \in Nat /\ budget <= 1
BY CfPoolAssumption DEF budget

LEMMA DomainCount == Len(Domains) \in Nat \ {0} /\ \A i \in 1..Len(Domains) : Domains[i] \in Range(Domains)
<1>1. Domains \in Seq(Range(Domains)) /\ Domains # <<>>
  BY CfPoolAssumption
<1> QED
  BY <1>1, LenProperties, EmptySeq, ElementOfSeq

LEMMA Remainder == \A a \in Nat, n \in Nat \ {0} : a % n \in 0..(n - 1)
OBVIOUS

\* balance_offset stays within the list, and every place in the rotation is a domain.
LEMMA Rotation ==
    ASSUME counter \in 0..(Len(Domains) - 1)
    PROVE  /\ Ticked \in 0..(Len(Domains) - 1)
           /\ domain_order(Offset) \in Seq(Range(Domains))
           /\ domain_order(Offset)[1] \in Range(Domains)
<1> DEFINE n == Len(Domains)
           at(i) == ((Offset + i - 1) % n) + 1
<1>1. n \in Nat \ {0}
  BY DomainCount
<1>2. Offset \in Nat
  BY <1>1 DEF Offset
<1>3. Ticked \in 0..(n - 1)
  <2>0. counter + 1 \in Nat
    BY <1>1
  <2>1. (counter + 1) % n \in 0..(n - 1)
    BY <1>1, <2>0, Remainder, Zenon
  <2> QED
    BY <2>1 DEF Ticked
<1>4. \A i \in 1..n : at(i) \in 1..n
  <2> TAKE i \in 1..n
  <2>1. Offset + i - 1 \in Nat
    BY <1>1, <1>2
  <2>2. (Offset + i - 1) % n \in 0..(n - 1)
    BY <1>1, <2>1, Remainder, Zenon
  <2> QED
    BY <1>1, <2>2
<1>5. \A i \in 1..n : Domains[at(i)] \in Range(Domains)
  BY <1>4, DomainCount, Zenon
<1>6. domain_order(Offset) = [i \in 1..n |-> Domains[at(i)]]
  BY DEF domain_order
<1>7. [i \in 1..n |-> Domains[at(i)]] \in Seq(Range(Domains))
  BY <1>1, <1>5, IsASeq
<1>8. 1 \in 1..n
  BY <1>1
<1> QED
  BY <1>3, <1>5, <1>6, <1>7, <1>8

LEMMA Routes ==
    ASSUME counter \in 0..(Len(Domains) - 1), NEW d \in Range(Domains)
    PROVE  Inline(d) \in Route /\ cf_target(Inline(d)) \in Route
<1>1. Inline(d) \in Route
  BY DEF Inline, Route
<1> QED
  BY <1>1, Rotation DEF cf_target, Route

-----------------------------------------------------------------------------
LEMMA InitIInv ==
    ASSUME Init
    PROVE  IInv
<1>1. TypeOK
  <2>1. counter \in 0..(Len(Domains) - 1)
    BY DomainCount DEF Init
  <2>2. NoCall \in Call
    BY DEF NoCall, Call
  <2>3. client \in [Clients -> Call] /\ task \in [Keys -> Seq(RefillTask)] /\ cf_idle \in [Keys -> Seq(Entry)]
    BY <2>2 DEF Init
  <2> QED
    BY <2>1, <2>3 DEF Init, TypeOK, Call, RefillTask, Entry
<1>2. CallInv /\ TaskInv /\ RouteInv
  BY DEF Init, CallInv, TaskInv, RouteInv, NoCall
<1>3. RoomInv
  BY Budget DEF Init, RoomInv
<1> QED
  BY <1>1, <1>2, <1>3 DEF IInv

LEMMA TypeParts ==
    ASSUME TypeOK
    PROVE  /\ counter \in 0..(Len(Domains) - 1) /\ cf_refilling \subseteq Keys
           /\ cf_idle \in [Keys -> Seq(Entry)] /\ task \in [Keys -> Seq(RefillTask)]
           /\ client \in [Clients -> Call] /\ proven \subseteq Route
BY Zenon DEF TypeOK, Entry, RefillTask, Call

LEMMA TypeWhole ==
    ASSUME setup \in Setups, counter \in 0..(Len(Domains) - 1), cf_refilling \subseteq Keys,
           cf_idle \in [Keys -> Seq(Entry)], task \in [Keys -> Seq(RefillTask)],
           client \in [Clients -> Call], proven \subseteq Route
    PROVE  TypeOK
BY Zenon DEF TypeOK, Entry, RefillTask, Call

\* An entry that ages or is closed stays where it is.
LEMMA SpoilStep ==
    ASSUME IInv, NEW k \in Keys, NEW i \in 1..Len(cf_idle[k]), Spoil(k, i)
    PROVE  IInv'
<1> DEFINE e == [cf_idle[k][i] EXCEPT !.usable = FALSE]
           t == [cf_idle[k] EXCEPT ![i] = e]
<1>1. cf_idle \in [Keys -> Seq(Entry)] /\ cf_idle[k] \in Seq(Entry)
  BY TypeParts DEF IInv
<1>2. cf_idle[k][i] \in Entry /\ e \in Entry /\ e.route = cf_idle[k][i].route
  <2>1. cf_idle[k][i] \in Entry
    BY <1>1, ElementOfSeq
  <2> QED
    BY <2>1, Zenon DEF Entry
<1>3. cf_idle' = [cf_idle EXCEPT ![k] = t]
  BY DEF Spoil
<1>4. UNCHANGED <<setup, counter, cf_refilling, task, client, proven>>
  BY DEF Spoil
<1> HIDE DEF e
<1>5. /\ t \in Seq(Entry) /\ Len(t) = Len(cf_idle[k])
      /\ \A j \in 1..Len(cf_idle[k]) : t[j].route = cf_idle[k][j].route
  <2>1. /\ t \in Seq(Entry) /\ Len(t) = Len(cf_idle[k])
        /\ \A j \in 1..Len(cf_idle[k]) : t[j] = IF j = i THEN e ELSE cf_idle[k][j]
    BY <1>1, <1>2, ExceptSeq
  <2> QED
    BY <1>2, <2>1
<1> HIDE DEF t
<1>6. /\ cf_idle' \in [Keys -> Seq(Entry)]
      /\ \A q \in Keys : /\ Len(cf_idle'[q]) = Len(cf_idle[q])
                         /\ \A j \in 1..Len(cf_idle[q]) : cf_idle'[q][j].route = cf_idle[q][j].route
  BY <1>1, <1>3, <1>5
<1>7. TypeOK'
  BY <1>4, <1>6, TypeParts, TypeWhole, Zenon DEF IInv, TypeOK, Entry
<1>8. CallInv' /\ TaskInv' /\ RoomInv'
  BY <1>4, <1>6 DEF IInv, CallInv, TaskInv, RoomInv, budget
<1>9. RouteInv'
  BY <1>4, <1>6, ZenonT(30) DEF IInv, RouteInv, CfBalance
<1> QED
  BY <1>7, <1>8, <1>9 DEF IInv

\* A step of a client that leaves the buckets, the tasks and the reservations alone.
LEMMA CallStep ==
    ASSUME IInv, NEW c \in Clients, NEW v \in Call, client' = [client EXCEPT ![c] = v],
           v.pc # "out" => v.key \in Keys, ~CfBalance => v.target \subseteq proven',
           counter' \in 0..(Len(Domains) - 1), proven \subseteq proven', proven' \subseteq Route,
           UNCHANGED <<setup, cf_idle, cf_refilling, task>>
    PROVE  IInv'
<1>1. client \in [Clients -> Call]
  BY TypeParts DEF IInv
<1>2. client' \in [Clients -> Call] /\ \A b \in Clients : client'[b] = IF b = c THEN v ELSE client[b]
  BY <1>1
<1>3. TypeOK'
  BY <1>2, TypeParts, TypeWhole, Zenon DEF IInv, TypeOK, Call
<1>4. CallInv'
  BY <1>2 DEF IInv, CallInv
<1>5. TaskInv' /\ RoomInv'
  BY DEF IInv, TaskInv, RoomInv, budget
<1>6. RouteInv'
  BY <1>2 DEF IInv, RouteInv, CfBalance
<1> QED
  BY <1>3, <1>4, <1>5, <1>6 DEF IInv

LEMMA Answered ==
    \A u \in Call, target \in SUBSET Route :
        LET v == [u EXCEPT !.pc = "prefetch", !.todo = <<>>, !.target = target]
        IN  v \in Call /\ v.key = u.key /\ v.target = target
<1>1. <<>> \in Seq(Range(Domains))
  BY EmptySeq
<1> QED
  BY <1>1, Zenon DEF Call

LEMMA EnterStep ==
    ASSUME IInv, NEW c \in Clients, NEW k \in Keys, Enter(c, k)
    PROVE  IInv'
<1> DEFINE v == [NoCall EXCEPT !.pc = "get", !.key = k,
                    !.todo = IF Tier = "proxy" THEN domain_order(Offset) ELSE <<>>]
<1>1. counter \in 0..(Len(Domains) - 1) /\ proven \subseteq Route
  BY TypeParts DEF IInv
<1>2. domain_order(Offset) \in Seq(Range(Domains)) /\ Ticked \in 0..(Len(Domains) - 1)
  BY <1>1, Rotation
<1>3. (IF Tier = "proxy" THEN domain_order(Offset) ELSE <<>>) \in Seq(Range(Domains))
  BY <1>2
<1>4. v \in Call /\ v.pc = "get" /\ v.key = k /\ v.target = {}
  BY <1>3, Zenon DEF Call, NoCall
<1>5. client' = [client EXCEPT ![c] = v] /\ UNCHANGED <<setup, cf_idle, cf_refilling, task, proven>>
  BY DEF Enter
<1>6. counter' \in 0..(Len(Domains) - 1)
  BY <1>1, <1>2 DEF Enter
<1> HIDE DEF v
<1> QED
  BY <1>1, <1>4, <1>5, <1>6, CallStep, Zenon

LEMMA DialStep ==
    ASSUME IInv, NEW c \in Clients, NEW r \in DialResults, Dial(c, r)
    PROVE  IInv'
<1> DEFINE d == Head(client[c].todo)
<1>1. counter \in 0..(Len(Domains) - 1) /\ proven \subseteq Route /\ client[c] \in Call
  BY TypeParts DEF IInv
<1>2. client[c].todo \in Seq(Range(Domains)) /\ client[c].key \in Keys
  BY <1>1 DEF IInv, CallInv, Dial, Call
<1>3. d \in Range(Domains) /\ Tail(client[c].todo) \in Seq(Range(Domains))
  BY <1>2, HeadTailProperties DEF Dial
<1>4. UNCHANGED <<setup, cf_idle, cf_refilling, task>>
  BY DEF Dial
<1>5. CASE r = "connected"
  <2> DEFINE w == {cf_target(Inline(d))}
             v == [client[c] EXCEPT !.pc = "prefetch", !.todo = <<>>, !.target = w]
  <2>1. Inline(d) \in Route /\ cf_target(Inline(d)) \in Route /\ Ticked \in 0..(Len(Domains) - 1)
    BY <1>1, <1>3, Routes, Rotation
  <2>2. client' = [client EXCEPT ![c] = v] /\ counter' = Ticked /\ proven' = proven \cup {Inline(d)}
    BY <1>5, Zenon DEF Dial
  <2>3. ~CfBalance => cf_target(Inline(d)) = Inline(d)
    BY DEF cf_target
  <2> HIDE DEF d
  <2>4. v \in Call /\ v.key = client[c].key /\ v.target = w
    <3>1. client[c] \in Call /\ w \in SUBSET Route
      BY <1>1, <2>1
    <3>2. v = [client[c] EXCEPT !.pc = "prefetch", !.todo = <<>>, !.target = w]
      OBVIOUS
    <3> HIDE DEF v, w
    <3> QED
      BY <3>1, <3>2, Answered, Zenon
  <2> HIDE DEF v
  <2>5. ~CfBalance => v.target \subseteq proven'
    BY <2>2, <2>3, <2>4
  <2> QED
    BY <1>1, <1>2, <1>4, <2>1, <2>2, <2>4, <2>5, CallStep, Zenon
<1>6. CASE r # "connected"
  <2> DEFINE v == [client[c] EXCEPT !.todo = Tail(@)]
  <2>1. client' = [client EXCEPT ![c] = v] /\ UNCHANGED <<counter, proven>>
    BY <1>6 DEF Dial
  <2>2. v \in Call /\ v.key = client[c].key /\ v.target = client[c].target
    BY <1>1, <1>3, Zenon DEF Call
  <2> HIDE DEF v
  <2>3. ~CfBalance => v.target \subseteq proven'
    BY <2>1, <2>2 DEF IInv, RouteInv
  <2> QED
    BY <1>1, <1>2, <1>4, <2>1, <2>2, <2>3, CallStep, Zenon
<1> QED
  BY <1>5, <1>6

LEMMA FailStep ==
    ASSUME IInv, NEW c \in Clients, Fail(c)
    PROVE  IInv'
<1>1. counter \in 0..(Len(Domains) - 1) /\ proven \subseteq Route
  BY TypeParts DEF IInv
<1>2. NoCall \in Call /\ NoCall.pc = "out" /\ NoCall.target = {}
  BY DEF NoCall, Call
<1>3. /\ client' = [client EXCEPT ![c] = NoCall]
      /\ UNCHANGED <<setup, counter, cf_idle, cf_refilling, task, proven>>
  BY DEF Fail
<1> QED
  BY <1>1, <1>2, <1>3, CallStep, Zenon

\* cf_get only takes entries out of a bucket, and keeps a front part of it.
LEMMA GetIdle ==
    ASSUME IInv, NEW k \in Keys, NEW t \in Seq(Entry), cf_idle' = [cf_idle EXCEPT ![k] = t],
           Len(t) <= Len(cf_idle[k]), \A j \in 1..Len(t) : t[j].route = cf_idle[k][j].route,
           UNCHANGED <<setup, cf_refilling, task, proven>>
    PROVE  /\ cf_idle' \in [Keys -> Seq(Entry)] /\ TaskInv' /\ RoomInv'
           /\ ~CfBalance =>
                /\ \A q \in Keys : \A i \in 1..Len(task'[q]) : task'[q][i].route \in proven'
                /\ \A q \in Keys : \A i \in 1..Len(cf_idle'[q]) : cf_idle'[q][i].route \in proven'
<1>1. cf_idle \in [Keys -> Seq(Entry)] /\ Len(cf_idle[k]) \in Nat /\ Len(t) \in Nat
  BY TypeParts, LenProperties DEF IInv
<1>2. cf_idle' \in [Keys -> Seq(Entry)] /\ \A q \in Keys : cf_idle'[q] = IF q = k THEN t ELSE cf_idle[q]
  BY <1>1
<1>3. TaskInv'
  BY DEF IInv, TaskInv
<1>4. RoomInv'
  BY <1>1, <1>2, Budget DEF IInv, RoomInv, budget
<1>5. \A q \in Keys : \A i \in 1..Len(cf_idle'[q]) :
          i \in 1..Len(cf_idle[q]) /\ cf_idle'[q][i].route = cf_idle[q][i].route
  BY <1>1, <1>2
<1>6. ~CfBalance => \A q \in Keys : \A i \in 1..Len(cf_idle'[q]) : cf_idle'[q][i].route \in proven'
  BY <1>5 DEF IInv, RouteInv
<1> QED
  BY <1>2, <1>3, <1>4, <1>6 DEF IInv, RouteInv

LEMMA GetStep ==
    ASSUME IInv, NEW c \in Clients, cf_get(c)
    PROVE  IInv'
<1> DEFINE k == client[c].key
           usable == {i \in 1..Len(cf_idle[k]) : cf_idle[k][i].usable}
<1>1. counter \in 0..(Len(Domains) - 1) /\ client[c] \in Call /\ client \in [Clients -> Call]
  BY TypeParts, Zenon DEF IInv
<1>2. k \in Keys
  BY <1>1, Zenon DEF IInv, CallInv, cf_get
<1>3. cf_idle[k] \in Seq(Entry) /\ Len(cf_idle[k]) \in Nat
  BY <1>2, TypeParts, LenProperties DEF IInv
<1>4. UNCHANGED <<setup, cf_refilling, task, proven>>
  BY Zenon DEF cf_get
<1>5. PICK t \in Seq(Entry), v \in Call :
         /\ cf_idle' = [cf_idle EXCEPT ![k] = t] /\ client' = [client EXCEPT ![c] = v]
         /\ Len(t) <= Len(cf_idle[k]) /\ \A j \in 1..Len(t) : t[j].route = cf_idle[k][j].route
         /\ v.key = k /\ (~CfBalance => v.target \subseteq proven)
         /\ counter' \in 0..(Len(Domains) - 1)
  <2>1. CASE usable = {} /\ cf_idle' = [cf_idle EXCEPT ![k] = <<>>]
             /\ client' = [client EXCEPT ![c].pc = "walk",
                               ![c].todo = IF Tier = "proxy" THEN @ ELSE domain_order(Offset)]
             /\ counter' = IF Tier = "proxy" THEN counter ELSE Ticked
    <3> DEFINE todo == IF Tier = "proxy" THEN client[c].todo ELSE domain_order(Offset)
               v == [client[c] EXCEPT !.pc = "walk", !.todo = todo]
    <3>1. todo \in Seq(Range(Domains)) /\ counter' \in 0..(Len(Domains) - 1)
      BY <1>1, <2>1, Rotation DEF Call
    <3>2. client' = [client EXCEPT ![c] = v]
      BY <1>1, <2>1, Zenon
    <3> HIDE DEF todo
    <3>3. v \in Call /\ v.key = k /\ v.target = client[c].target
      BY <1>1, <3>1, Zenon DEF Call
    <3> HIDE DEF v
    <3>4. <<>> \in Seq(Entry) /\ Len(<<>>) <= Len(cf_idle[k])
      BY <1>3, EmptySeq
    <3>5. ~CfBalance => v.target \subseteq proven
      BY <3>3 DEF IInv, RouteInv
    <3>6. \A j \in 1..Len(<<>>) : <<>>[j].route = cf_idle[k][j].route
      BY EmptySeq
    <3> QED
      BY <2>1, <3>1, <3>2, <3>3, <3>4, <3>5, <3>6, Zenon
  <2>2. CASE \E i \in usable :
              /\ \A j \in usable : j <= i
              /\ cf_idle' = [cf_idle EXCEPT ![k] = SubSeq(@, 1, i - 1)]
              /\ client' = [client EXCEPT ![c].pc = "prefetch", ![c].todo = <<>>,
                                          ![c].target = {cf_idle[k][i].route}]
              /\ UNCHANGED counter
    <3>1. PICK i \in 1..Len(cf_idle[k]) :
              /\ cf_idle' = [cf_idle EXCEPT ![k] = SubSeq(@, 1, i - 1)]
              /\ client' = [client EXCEPT ![c].pc = "prefetch", ![c].todo = <<>>,
                                          ![c].target = {cf_idle[k][i].route}]
              /\ UNCHANGED counter
      BY <2>2, Zenon
    <3> DEFINE w == {cf_idle[k][i].route}
               v == [client[c] EXCEPT !.pc = "prefetch", !.todo = <<>>, !.target = w]
               t == SubSeq(cf_idle[k], 1, i - 1)
    <3>2. cf_idle[k][i] \in Entry
      BY <1>3, ElementOfSeq
    <3>3. w \in SUBSET Route /\ (~CfBalance => w \subseteq proven)
      BY <1>2, <3>2 DEF Entry, IInv, RouteInv
    <3>4. \A j \in 1..(i - 1) : cf_idle[k][j] \in Entry
      BY <1>3, ElementOfSeq
    <3>5. t \in Seq(Entry) /\ Len(t) = i - 1 /\ \A j \in 1..(i - 1) : t[j] = cf_idle[k][j]
      BY <1>3, <3>4, SubSeqProperties
    <3>6. cf_idle' = [cf_idle EXCEPT ![k] = t] /\ client' = [client EXCEPT ![c] = v]
      BY <1>1, <3>1, Zenon
    <3>7. v = [client[c] EXCEPT !.pc = "prefetch", !.todo = <<>>, !.target = w]
      OBVIOUS
    <3> HIDE DEF w, v, t
    <3>8. v \in Call /\ v.key = k /\ v.target = w
      BY <1>1, <3>3, <3>7, Answered, Zenon
    <3>9. Len(t) <= Len(cf_idle[k]) /\ \A j \in 1..Len(t) : t[j].route = cf_idle[k][j].route
      BY <1>3, <3>5
    <3>10. ~CfBalance => v.target \subseteq proven
      BY <3>3, <3>8
    <3>11. counter' \in 0..(Len(Domains) - 1)
      BY <1>1, <3>1
    <3> QED
      BY <3>5, <3>6, <3>8, <3>9, <3>10, <3>11, Zenon
  <2> QED
    BY <2>1, <2>2, Zenon DEF cf_get
<1>6. /\ cf_idle' \in [Keys -> Seq(Entry)] /\ TaskInv' /\ RoomInv'
      /\ ~CfBalance =>
           /\ \A q \in Keys : \A i \in 1..Len(task'[q]) : task'[q][i].route \in proven'
           /\ \A q \in Keys : \A i \in 1..Len(cf_idle'[q]) : cf_idle'[q][i].route \in proven'
  BY <1>2, <1>4, <1>5, GetIdle, Zenon
<1>7. client' \in [Clients -> Call] /\ \A b \in Clients : client'[b] = IF b = c THEN v ELSE client[b]
  BY <1>1, <1>5
<1>8. TypeOK'
  BY <1>4, <1>5, <1>6, <1>7, TypeParts, TypeWhole, Zenon DEF IInv, TypeOK, Call, Entry
<1>9. CallInv'
  BY <1>2, <1>5, <1>7 DEF IInv, CallInv
<1>10. RouteInv'
  BY <1>4, <1>5, <1>6, <1>7 DEF IInv, RouteInv, CfBalance
<1> QED
  BY <1>6, <1>8, <1>9, <1>10 DEF IInv

-----------------------------------------------------------------------------
\* A reservation comes with the only task of its bucket.
LEMMA PrefetchStep ==
    ASSUME IInv, NEW c \in Clients, cf_prefetch(c)
    PROVE  IInv'
<1> DEFINE k == client[c].key
<1>1. /\ counter \in 0..(Len(Domains) - 1) /\ client[c] \in Call /\ client \in [Clients -> Call]
      /\ task \in [Keys -> Seq(RefillTask)]
  BY TypeParts DEF IInv
<1>2. k \in Keys
  BY <1>1 DEF IInv, CallInv, cf_prefetch
<1>3. UNCHANGED <<setup, counter, cf_idle, proven>> /\ client' = [client EXCEPT ![c] = NoCall]
  BY DEF cf_prefetch
<1>4. NoCall \in Call /\ NoCall.pc = "out" /\ NoCall.target = {}
  BY DEF NoCall, Call
<1>5. client' \in [Clients -> Call] /\ \A b \in Clients : client'[b] = IF b = c THEN NoCall ELSE client[b]
  BY <1>1, <1>3, <1>4
<1>6. CallInv' /\ (~CfBalance => \A b \in Clients : client'[b].target \subseteq proven')
  BY <1>3, <1>4, <1>5 DEF IInv, CallInv, RouteInv
<1>7. CASE reserve_cf_refill(k)
  <2>1. /\ cf_refilling' = cf_refilling \cup {k} /\ k \notin cf_refilling
        /\ \E route \in client[c].target :
              task' = [task EXCEPT ![k] = Append(@, [pc |-> "spawned", route |-> route])]
    BY <1>7, Zenon DEF cf_prefetch, reserve_cf_refill
  <2>2. PICK route \in client[c].target :
              task' = [task EXCEPT ![k] = Append(@, [pc |-> "spawned", route |-> route])]
    BY <2>1, Zenon
  <2> DEFINE r == [pc |-> "spawned", route |-> route]
             t == Append(task[k], r)
  <2>3. route \in Route /\ r \in RefillTask /\ r.pc = "spawned" /\ r.route = route
    BY <1>1 DEF Call, RefillTask
  <2>4. task[k] \in Seq(RefillTask) /\ Len(task[k]) = 0
    BY <1>1, <1>2, <2>1 DEF IInv, TaskInv
  <2> HIDE DEF r
  <2>5. t \in Seq(RefillTask) /\ Len(t) = 1 /\ t[1] = r
    <3>1. t \in Seq(RefillTask) /\ Len(t) = Len(task[k]) + 1 /\ t[Len(task[k]) + 1] = r
      BY <2>3, <2>4, AppendProperties
    <3> QED
      BY <2>4, <3>1
  <2>6. task' = [task EXCEPT ![k] = t]
    BY <2>2 DEF r
  <2> HIDE DEF t
  <2>7. task' \in [Keys -> Seq(RefillTask)] /\ \A q \in Keys : task'[q] = IF q = k THEN t ELSE task[q]
    BY <1>1, <2>5, <2>6, Zenon
  <2>8. TypeOK'
    BY <1>2, <1>3, <1>5, <2>1, <2>7, TypeParts, TypeWhole, Zenon DEF IInv, TypeOK, RefillTask, Call
  <2>9. TaskInv'
    BY <2>1, <2>5, <2>7 DEF IInv, TaskInv
  <2>10. RoomInv'
    BY <1>3, <2>3, <2>5, <2>7, SMTT(30) DEF IInv, RoomInv, budget
  <2>11. RouteInv'
    BY <1>3, <1>6, <2>2, <2>3, <2>5, <2>7 DEF IInv, RouteInv, CfBalance
  <2> QED
    BY <1>6, <2>8, <2>9, <2>10, <2>11 DEF IInv
<1>8. CASE ~reserve_cf_refill(k)
  <2>1. UNCHANGED <<cf_refilling, task>>
    BY <1>8 DEF cf_prefetch
  <2>2. TypeOK'
    BY <1>3, <1>5, <2>1, TypeParts, TypeWhole, Zenon DEF IInv, TypeOK, Call
  <2>3. TaskInv' /\ RoomInv'
    BY <1>3, <2>1 DEF IInv, TaskInv, RoomInv, budget
  <2>4. RouteInv'
    BY <1>3, <1>6, <2>1 DEF IInv, RouteInv, CfBalance
  <2> QED
    BY <1>6, <2>2, <2>3, <2>4 DEF IInv
<1> QED
  BY <1>7, <1>8

LEMMA OnlyTask ==
    ASSUME IInv, NEW k \in Keys, NEW i \in 1..Len(task[k])
    PROVE  /\ k \in cf_refilling /\ Len(task[k]) = 1 /\ i = 1
           /\ task[k] \in Seq(RefillTask) /\ task[k][1] \in RefillTask /\ task \in [Keys -> Seq(RefillTask)]
<1>1. task \in [Keys -> Seq(RefillTask)] /\ task[k] \in Seq(RefillTask)
  BY TypeParts DEF IInv
<1>2. k \in cf_refilling /\ Len(task[k]) = 1 /\ i = 1
  <2> DEFINE n == Len(task[k])
  <2>1. n = (IF k \in cf_refilling THEN 1 ELSE 0) /\ i \in 1..n
    BY DEF IInv, TaskInv
  <2> HIDE DEF n
  <2>2. k \in cf_refilling /\ n = 1 /\ i = 1
    BY <2>1
  <2> QED
    BY <2>2 DEF n
<1> QED
  BY <1>1, <1>2, ElementOfSeq, Zenon

LEMMA ReplaceOnly ==
    \A s \in Seq(RefillTask), r \in RefillTask : Len(s) = 1 =>
        LET t == [s EXCEPT ![1] = r] IN t \in Seq(RefillTask) /\ Len(t) = 1 /\ t[1] = r
<1> TAKE s \in Seq(RefillTask), r \in RefillTask
<1> HAVE Len(s) = 1
<1>1. 1 \in 1..Len(s)
  OBVIOUS
<1> QED
  BY <1>1, ExceptSeq

\* A step of a refill that only moves it on.
LEMMA MoveOn ==
    ASSUME IInv, NEW k \in Keys, NEW i \in 1..Len(task[k]),
           NEW p \in {"spawned", "dialing", "push", "release"},
           task' = [task EXCEPT ![k][i].pc = p]
    PROVE  /\ task' \in [Keys -> Seq(RefillTask)]
           /\ \A q \in Keys \ {k} : task'[q] = task[q]
           /\ Len(task'[k]) = 1 /\ task'[k][1].pc = p /\ task'[k][1].route = task[k][1].route
<1> DEFINE r == [task[k][1] EXCEPT !.pc = p]
           t == [task[k] EXCEPT ![1] = r]
<1>1. /\ i = 1 /\ Len(task[k]) = 1 /\ task[k] \in Seq(RefillTask) /\ task[k][1] \in RefillTask
      /\ task \in [Keys -> Seq(RefillTask)]
  BY OnlyTask
<1>2. r \in RefillTask /\ r.pc = p /\ r.route = task[k][1].route
  BY <1>1 DEF RefillTask
<1>3. task' = [task EXCEPT ![k] = t]
  BY <1>1
<1> HIDE DEF r
<1>4. t \in Seq(RefillTask) /\ Len(t) = 1 /\ t[1] = r
  BY <1>1, <1>2, ReplaceOnly, Zenon
<1> HIDE DEF t
<1> QED
  BY <1>1, <1>2, <1>3, <1>4, ZenonT(30)

LEMMA MoveOnStep ==
    ASSUME IInv, NEW k \in Keys, NEW i \in 1..Len(task[k]),
           NEW p \in {"spawned", "dialing", "push", "release"},
           task' = [task EXCEPT ![k][i].pc = p],
           p \in {"dialing", "push"} => Len(cf_idle[k]) < budget,
           UNCHANGED <<setup, counter, cf_idle, cf_refilling, client, proven>>
    PROVE  IInv'
<1>1. /\ task' \in [Keys -> Seq(RefillTask)]
      /\ \A q \in Keys \ {k} : task'[q] = task[q]
      /\ Len(task'[k]) = 1 /\ task'[k][1].pc = p /\ task'[k][1].route = task[k][1].route
  BY MoveOn, Zenon
<1>2. k \in cf_refilling /\ Len(task[k]) = 1
  BY OnlyTask
<1>3. TypeOK'
  BY <1>1, TypeParts, TypeWhole, Zenon DEF IInv, TypeOK, RefillTask
<1>4. CallInv' /\ TaskInv'
  BY <1>1, <1>2, Zenon DEF IInv, CallInv, TaskInv
<1>5. RoomInv'
  BY <1>1 DEF IInv, RoomInv, budget
<1>6. RouteInv'
  BY <1>1, <1>2 DEF IInv, RouteInv, CfBalance
<1> QED
  BY <1>3, <1>4, <1>5, <1>6 DEF IInv

LEMMA LookStep ==
    ASSUME IInv, NEW k \in Keys, NEW i \in 1..Len(task[k]), RefillLook(k, i)
    PROVE  IInv'
<1> DEFINE p == IF Len(cf_idle[k]) >= budget THEN "release" ELSE "dialing"
<1>1. Len(cf_idle[k]) \in Nat /\ budget \in Nat
  BY TypeParts, LenProperties, Budget DEF IInv
<1>2. p \in {"spawned", "dialing", "push", "release"}
  OBVIOUS
<1>3. p \in {"dialing", "push"} => Len(cf_idle[k]) < budget
  BY <1>1
<1>4. /\ task' = [task EXCEPT ![k][i].pc = p]
      /\ UNCHANGED <<setup, counter, cf_idle, cf_refilling, client, proven>>
  BY DEF RefillLook
<1> HIDE DEF p
<1> QED
  BY <1>2, <1>3, <1>4, MoveOnStep, Zenon

LEMMA ConnectStep ==
    ASSUME IInv, NEW k \in Keys, NEW i \in 1..Len(task[k]), NEW r \in DialResults,
           cf_connect_one(k, i, r)
    PROVE  IInv'
<1> DEFINE p == IF r = "connected" THEN "push" ELSE "release"
<1>1. p \in {"spawned", "dialing", "push", "release"}
  OBVIOUS
<1>2. Len(cf_idle[k]) < budget
  BY DEF IInv, RoomInv, cf_connect_one
<1>3. /\ task' = [task EXCEPT ![k][i].pc = p]
      /\ UNCHANGED <<setup, counter, cf_idle, cf_refilling, client, proven>>
  BY DEF cf_connect_one
<1> HIDE DEF p
<1> QED
  BY <1>1, <1>2, <1>3, MoveOnStep, Zenon

LEMMA PushStep ==
    ASSUME IInv, NEW k \in Keys, NEW i \in 1..Len(task[k]), RefillPush(k, i)
    PROVE  IInv'
<1> DEFINE e == [route |-> task[k][i].route, usable |-> TRUE]
           t == Append(cf_idle[k], e)
<1>1. /\ k \in cf_refilling /\ Len(task[k]) = 1 /\ i = 1 /\ task[k][1] \in RefillTask
      /\ task[k][1].route \in Route
  BY OnlyTask DEF RefillTask
<1>2. /\ task' = [task EXCEPT ![k][i].pc = "release"]
      /\ UNCHANGED <<setup, counter, cf_refilling, client, proven>>
  BY DEF RefillPush
<1>3. /\ task' \in [Keys -> Seq(RefillTask)]
      /\ \A q \in Keys \ {k} : task'[q] = task[q]
      /\ Len(task'[k]) = 1 /\ task'[k][1].pc = "release" /\ task'[k][1].route = task[k][1].route
  BY <1>2, MoveOn, Zenon
<1>4. /\ cf_idle \in [Keys -> Seq(Entry)] /\ cf_idle[k] \in Seq(Entry) /\ Len(cf_idle[k]) \in Nat
      /\ Len(cf_idle[k]) < budget
  BY TypeParts, LenProperties DEF IInv, RoomInv, RefillPush
<1>5. cf_idle' = [cf_idle EXCEPT ![k] = t]
  BY <1>4 DEF RefillPush
<1>6. e \in Entry /\ e.route = task[k][1].route
  BY <1>1 DEF Entry
<1> HIDE DEF e
<1>7. /\ t \in Seq(Entry) /\ Len(t) = Len(cf_idle[k]) + 1 /\ t[Len(cf_idle[k]) + 1] = e
      /\ \A j \in 1..Len(cf_idle[k]) : t[j] = cf_idle[k][j]
  BY <1>4, <1>6, AppendProperties
<1> HIDE DEF t
<1>8. /\ cf_idle' \in [Keys -> Seq(Entry)] /\ cf_idle'[k] = t
      /\ \A q \in Keys \ {k} : cf_idle'[q] = cf_idle[q]
  BY <1>4, <1>5, <1>7
<1>9. TypeOK'
  BY <1>2, <1>3, <1>8, TypeParts, TypeWhole, Zenon DEF IInv, TypeOK, RefillTask, Entry
<1>10. CallInv' /\ TaskInv'
  BY <1>1, <1>2, <1>3, Zenon DEF IInv, CallInv, TaskInv
<1>11. RoomInv'
  <2>1. Len(t) <= budget
    BY <1>4, <1>7, Budget
  <2>2. budget' = budget
    BY DEF budget
  <2>3. ASSUME NEW q \in Keys \ {k}
        PROVE  /\ Len(cf_idle'[q]) <= budget
               /\ \A j \in 1..Len(task'[q]) :
                     task'[q][j].pc \in {"dialing", "push"} => Len(cf_idle'[q]) < budget
    BY <1>3, <1>8, Zenon DEF IInv, RoomInv
  <2>4. \A j \in 1..Len(task'[k]) : task'[k][j].pc = "release"
    BY <1>3
  <2>5. Len(cf_idle'[k]) <= budget
    BY <1>8, <2>1
  <2> QED
    BY <2>2, <2>3, <2>4, <2>5 DEF RoomInv
<1>12. RouteInv'
  <2>1. ~CfBalance => e.route \in proven
    BY <1>1, <1>6 DEF IInv, RouteInv
  <2>2. ~CfBalance => \A j \in 1..Len(t) : t[j].route \in proven
    <3> SUFFICES ASSUME ~CfBalance, NEW j \in 1..Len(t) PROVE t[j].route \in proven
      OBVIOUS
    <3>1. j \in 1..Len(cf_idle[k]) \/ j = Len(cf_idle[k]) + 1
      BY <1>4, <1>7
    <3>2. \A m \in 1..Len(cf_idle[k]) : cf_idle[k][m].route \in proven
      BY DEF IInv, RouteInv
    <3> QED
      BY <1>7, <2>1, <3>1, <3>2, Zenon
  <2>3. ~CfBalance => \A q \in Keys : \A j \in 1..Len(cf_idle'[q]) : cf_idle'[q][j].route \in proven
    BY <1>8, <2>2, SMTT(20) DEF IInv, RouteInv
  <2>4. ~CfBalance => \A q \in Keys : \A j \in 1..Len(task'[q]) : task'[q][j].route \in proven
    <3>1. ~CfBalance => \A q \in Keys : \A j \in 1..Len(task[q]) : task[q][j].route \in proven
      BY DEF IInv, RouteInv
    <3>2. 1..Len(task'[k]) = 1..Len(task[k]) /\ \A j \in 1..Len(task[k]) : j = 1
      BY <1>1, <1>3
    <3>3. \A j \in 1..Len(task'[k]) : task'[k][j].route = task[k][j].route
      BY <1>3, <3>2, Zenon
    <3> QED
      BY <1>3, <3>1, <3>2, <3>3, Zenon
  <2> QED
    BY <1>2, <2>3, <2>4 DEF IInv, RouteInv, CfBalance
<1> QED
  BY <1>9, <1>10, <1>11, <1>12 DEF IInv

\* The guard's drop ends the only task of the bucket and frees the reservation.
LEMMA ReleaseStep ==
    ASSUME IInv, NEW k \in Keys, NEW i \in 1..Len(task[k]), RefillRelease(k, i)
    PROVE  IInv'
<1>1. /\ Len(task[k]) = 1 /\ i = 1 /\ task \in [Keys -> Seq(RefillTask)]
  BY OnlyTask
<1>2. cf_refilling' = cf_refilling \ {k} /\ UNCHANGED <<setup, counter, cf_idle, client, proven>>
  BY DEF RefillRelease
<1>3. SubSeq(task[k], 1, 0) = <<>> /\ SubSeq(task[k], 2, 1) = <<>>
  BY SubSeqEmpty
<1>4. <<>> \o <<>> = <<>>
  BY ConcatEmptySeq, EmptySeq
<1>5. task' = [task EXCEPT ![k] = <<>>]
  <2>1. task' = [task EXCEPT ![k] = SubSeq(task[k], 1, i - 1) \o SubSeq(task[k], i + 1, Len(task[k]))]
    BY DEF RefillRelease, Ended
  <2>2. i - 1 = 0 /\ i + 1 = 2
    BY <1>1
  <2> QED
    BY <1>1, <1>3, <1>4, <2>1, <2>2, Zenon
<1>6. /\ task' \in [Keys -> Seq(RefillTask)] /\ Len(task'[k]) = 0
      /\ \A q \in Keys \ {k} : task'[q] = task[q]
  BY <1>1, <1>5, EmptySeq
<1>7. TypeOK'
  BY <1>2, <1>6, TypeParts, TypeWhole, Zenon DEF IInv, TypeOK, RefillTask
<1>8. CallInv' /\ TaskInv'
  BY <1>2, <1>6, Zenon DEF IInv, CallInv, TaskInv
<1>9. RoomInv'
  BY <1>2, <1>6, SMTT(20) DEF IInv, RoomInv, budget
<1>10. RouteInv'
  <2>1. ~CfBalance => \A q \in Keys : \A j \in 1..Len(task'[q]) : task'[q][j].route \in proven
    <3>1. \A j \in 1..Len(task'[k]) : FALSE
      BY <1>6
    <3>2. ~CfBalance => \A q \in Keys \ {k} : \A j \in 1..Len(task[q]) : task[q][j].route \in proven
      BY DEF IInv, RouteInv
    <3> QED
      BY <1>6, <3>1, <3>2
  <2> QED
    BY <1>2, <2>1 DEF IInv, RouteInv, CfBalance
<1> QED
  BY <1>7, <1>8, <1>9, <1>10 DEF IInv

-----------------------------------------------------------------------------
LEMMA NextIInv ==
    ASSUME IInv, [Next]_vars
    PROVE  IInv'
<1>1. CASE \E k \in Keys : RefillStep(k)
  BY <1>1, LookStep, ConnectStep, PushStep, ReleaseStep DEF RefillStep
<1>2. CASE \E k \in Keys : \E i \in 1..Len(cf_idle[k]) : Spoil(k, i)
  BY <1>2, SpoilStep
<1>3. CASE \E c \in Clients : ClientStep(c)
  BY <1>3, GetStep, DialStep, FailStep, PrefetchStep DEF ClientStep
<1>4. CASE \E c \in Clients, k \in Keys : Enter(c, k)
  BY <1>4, EnterStep
<1>5. CASE UNCHANGED vars
  BY <1>5, Zenon DEF vars, IInv, TypeOK, CallInv, TaskInv, RoomInv, RouteInv, budget, CfBalance
<1> QED
  BY <1>1, <1>2, <1>3, <1>4, <1>5 DEF Next

LEMMA Invariance == Spec => []IInv
<1>1. Init => IInv
  BY InitIInv
<1>2. IInv /\ [Next]_vars => IInv'
  BY NextIInv
<1> QED
  BY <1>1, <1>2, PTL DEF Spec

(***************************************************************************)
(* For any number of buckets and clients, a Cloudflare bucket has at most  *)
(* one refill, and what is idle and what the refill dials or holds are     *)
(* together at most CF_POOL_MAX.                                           *)
(***************************************************************************)
THEOREM OneSpareHolds == Spec => []OneSpare
<1>1. ASSUME IInv PROVE OneSpare
  <2> SUFFICES ASSUME NEW k \in Keys PROVE Len(task[k]) <= 1 /\ Spares(k) <= budget
    BY DEF OneSpare
  <2>1. Len(cf_idle[k]) \in Nat /\ budget \in Nat /\ Len(cf_idle[k]) <= budget
    BY <1>1, TypeParts, LenProperties, Budget DEF IInv, RoomInv
  <2>2. Len(task[k]) <= 1
    BY <1>1 DEF IInv, TaskInv
  <2> DEFINE held == {i \in 1..Len(task[k]) : task[k][i].pc \in {"dialing", "push"}}
  <2>3. held # {} => Len(cf_idle[k]) < budget
    BY <1>1 DEF IInv, RoomInv
  <2>4. Spares(k) = Len(cf_idle[k]) + (IF held = {} THEN 0 ELSE 1)
    BY DEF Spares
  <2> DEFINE n == Len(cf_idle[k])
             b == budget
  <2> HIDE DEF held, n, b
  <2>5. n + (IF held = {} THEN 0 ELSE 1) <= b
    <3>1. n \in Nat /\ b \in Nat /\ n <= b /\ (held # {} => n < b)
      BY <2>1, <2>3 DEF n, b
    <3> QED
      BY <3>1
  <2> QED
    BY <2>2, <2>4, <2>5, Zenon DEF n, b
<1> QED
  BY <1>1, Invariance, PTL

(***************************************************************************)
(* For any number of buckets, clients and domains, without --cf-balance a  *)
(* spare is only dialled through a route that has answered a client.       *)
(***************************************************************************)
THEOREM SpareThroughProvenRouteHolds == Spec => []SpareThroughProvenRoute
<1>1. IInv => SpareThroughProvenRoute
  BY DEF IInv, RouteInv, SpareThroughProvenRoute, SpareRoutes
<1> QED
  BY <1>1, Invariance, PTL

-----------------------------------------------------------------------------
(***************************************************************************)
(* The refinement.  What the mapping shows of a bucket, by its task.       *)
(***************************************************************************)
BucketShown(k) ==
    /\ Len(cf_idle[k]) \in Nat
    /\ Len(task[k]) = 0 => Refill(k) = "none" /\ Spares(k) = Len(cf_idle[k])
    /\ Len(task[k]) = 1 =>
          /\ Refill(k) = IF task[k][1].pc = "spawned" THEN "reserved" ELSE "delivered"
          /\ Spares(k) = Len(cf_idle[k]) + IF task[k][1].pc \in {"dialing", "push"} THEN 1 ELSE 0

BucketsShown == \A k \in Keys : BucketShown(k)

LEMMA Shown == IInv => BucketsShown
<1> SUFFICES ASSUME IInv, NEW k \in Keys PROVE BucketShown(k)
  BY DEF BucketsShown
<1> DEFINE held == {i \in 1..Len(task[k]) : task[k][i].pc \in {"dialing", "push"}}
<1>1. Len(cf_idle[k]) \in Nat
  BY TypeParts, LenProperties DEF IInv
<1>2. Spares(k) = Len(cf_idle[k]) + (IF held = {} THEN 0 ELSE 1)
  BY DEF Spares
<1>3. ASSUME Len(task[k]) = 0 PROVE Refill(k) = "none" /\ held = {}
  BY <1>3 DEF IInv, TaskInv, Refill
<1>4. ASSUME Len(task[k]) = 1
      PROVE  /\ Refill(k) = IF task[k][1].pc = "spawned" THEN "reserved" ELSE "delivered"
             /\ held = {} <=> task[k][1].pc \notin {"dialing", "push"}
  <2>1. k \in cf_refilling /\ 1 \in 1..Len(task[k]) /\ \A i \in 1..Len(task[k]) : i = 1
    BY <1>4 DEF IInv, TaskInv
  <2>2. Delivered(k) <=> task[k][1].pc # "spawned"
    BY <2>1, Zenon DEF Delivered
  <2> QED
    BY <2>1, <2>2, Zenon DEF Refill
<1> HIDE DEF held
<1>5. Len(cf_idle[k]) + 0 = Len(cf_idle[k])
  BY <1>1
<1> QED
  BY <1>1, <1>2, <1>3, <1>4, <1>5, Zenon DEF BucketShown

LEMMA ShownNext == IInv' => BucketsShown'
BY Shown, PTL

(***************************************************************************)
(* The mapped functions change where the buckets do.                       *)
(***************************************************************************)
LEMMA StockUpdate ==
    ASSUME NEW k \in Keys, \A j \in Keys \ {k} : Spares(j)' = Spares(j)
    PROVE  Stock' = [Stock EXCEPT ![k] = Spares(k)'] /\ Stock[k] = Spares(k)
BY Zenon DEF Stock

LEMMA RefillsUpdate ==
    ASSUME NEW k \in Keys, NEW v, Refill(k)' = v, \A j \in Keys \ {k} : Refill(j)' = Refill(j)
    PROVE  Refills' = [Refills EXCEPT ![k] = v] /\ Refills[k] = Refill(k)
BY Zenon DEF Refills

LEMMA Stutters ==
    ASSUME \A j \in Keys : Spares(j)' = Spares(j) /\ Refill(j)' = Refill(j)
    PROVE  [Pool!Next]_Pool!vars
<1>1. Stock' = Stock /\ Refills' = Refills
  BY DEF Stock, Refills
<1> QED
  BY <1>1, Zenon DEF Pool!vars

\* A bucket looks the same while its length, its task and its reservation do.
LEMMA SameBucket ==
    ASSUME NEW j \in Keys, Len(cf_idle'[j]) = Len(cf_idle[j]), task'[j] = task[j],
           j \in cf_refilling' <=> j \in cf_refilling
    PROVE  Spares(j)' = Spares(j) /\ Refill(j)' = Refill(j)
<1>1. Delivered(j)' <=> Delivered(j)
  BY DEF Delivered
<1>2. Refill(j)' = Refill(j)
  BY <1>1, Zenon DEF Refill
<1> QED
  BY <1>2 DEF Spares

LEMMA IdleMaps ==
    ASSUME \A j \in Keys : Len(cf_idle'[j]) = Len(cf_idle[j]), UNCHANGED <<task, cf_refilling>>
    PROVE  [Pool!Next]_Pool!vars
<1>1. \A j \in Keys : Spares(j)' = Spares(j) /\ Refill(j)' = Refill(j)
  BY SameBucket
<1> QED
  BY <1>1, Stutters

\* A bucket that only loses connections had them taken from it, or none.
LEMMA TakeMaps ==
    ASSUME NEW k \in Keys, Spares(k) \in Nat, Spares(k)' \in Nat, Spares(k)' <= Spares(k),
           \A j \in Keys \ {k} : Spares(j)' = Spares(j),
           \A j \in Keys : Refill(j)' = Refill(j)
    PROVE  [Pool!Next]_Pool!vars
<1>1. CASE Spares(k)' = Spares(k)
  BY <1>1, Stutters
<1>2. CASE Spares(k)' < Spares(k)
  <2> DEFINE before == Spares(k)
             after == Spares(k)'
             n == before - after
  <2> HIDE DEF before, after
  <2>1. before \in Nat /\ after \in Nat /\ after < before
    BY <1>2 DEF before, after
  <2>2. n \in 1..before /\ after = before - n
    BY <2>1
  <2>3. Stock' = [Stock EXCEPT ![k] = after] /\ Stock[k] = before
    BY StockUpdate DEF before, after
  <2> HIDE DEF n
  <2>4. Stock' = [Stock EXCEPT ![k] = Stock[k] - n] /\ n \in 1..Stock[k]
    BY <2>2, <2>3
  <2>5. Refills' = Refills
    BY DEF Refills
  <2>6. Pool!Take(k)
    BY <2>4, <2>5, Zenon DEF Pool!Take
  <2> QED
    BY <2>6, Zenon DEF Pool!Next
<1> QED
  BY <1>1, <1>2

LEMMA SpoilMaps ==
    ASSUME IInv, NEW k \in Keys, NEW i \in 1..Len(cf_idle[k]), Spoil(k, i)
    PROVE  [Pool!Next]_Pool!vars
<1> DEFINE t == [cf_idle[k] EXCEPT ![i] = [cf_idle[k][i] EXCEPT !.usable = FALSE]]
<1>1. cf_idle \in [Keys -> Seq(Entry)] /\ cf_idle[k] \in Seq(Entry)
  BY TypeParts DEF IInv
<1>2. cf_idle' = [cf_idle EXCEPT ![k] = t] /\ UNCHANGED <<task, cf_refilling>>
  BY Zenon DEF Spoil
<1>3. Len(t) = Len(cf_idle[k])
  BY <1>1
<1> HIDE DEF t
<1>4. \A j \in Keys : Len(cf_idle'[j]) = Len(cf_idle[j])
  BY <1>1, <1>2, <1>3
<1> QED
  BY <1>2, <1>4, IdleMaps

LEMMA GetMaps ==
    ASSUME IInv, IInv', NEW c \in Clients, cf_get(c)
    PROVE  [Pool!Next]_Pool!vars
<1>1. PICK k \in Keys : k = client[c].key
  BY Zenon DEF IInv, CallInv, cf_get
<1>2. /\ cf_idle \in [Keys -> Seq(Entry)] /\ cf_idle[k] \in Seq(Entry)
      /\ Len(cf_idle[k]) \in Nat /\ UNCHANGED <<task, cf_refilling>>
  BY TypeParts, LenProperties, Zenon DEF IInv, cf_get
<1>3. \E t : /\ cf_idle' = [cf_idle EXCEPT ![k] = t]
             /\ t = <<>> \/ \E i \in 1..Len(cf_idle[k]) : t = SubSeq(cf_idle[k], 1, i - 1)
  BY <1>1, Zenon DEF cf_get
<1>4. PICK t : /\ cf_idle' = [cf_idle EXCEPT ![k] = t]
               /\ t = <<>> \/ \E i \in 1..Len(cf_idle[k]) : t = SubSeq(cf_idle[k], 1, i - 1)
  BY <1>3, Zenon
<1>5. Len(t) <= Len(cf_idle[k])
  <2>1. CASE t = <<>>
    BY <1>2, <2>1, EmptySeq
  <2>2. CASE \E i \in 1..Len(cf_idle[k]) : t = SubSeq(cf_idle[k], 1, i - 1)
    <3>1. PICK i \in 1..Len(cf_idle[k]) : t = SubSeq(cf_idle[k], 1, i - 1)
      BY <2>2
    <3>2. i - 1 \in 0..Len(cf_idle[k]) /\ i - 1 <= Len(cf_idle[k])
      BY <1>2
    <3> QED
      BY <1>2, <3>1, <3>2, SubSeqProperties
  <2> QED
    BY <1>4, <2>1, <2>2
<1>6. cf_idle'[k] = t /\ \A j \in Keys \ {k} : Len(cf_idle'[j]) = Len(cf_idle[j])
  BY <1>2, <1>4
<1>7. \A j \in Keys \ {k} : Spares(j)' = Spares(j) /\ Refill(j)' = Refill(j)
  BY <1>2, <1>6, SameBucket
<1>8. Refill(k)' = Refill(k)
  BY <1>2 DEF Refill, Delivered
<1>9. Spares(k) \in Nat /\ Spares(k)' \in Nat /\ Spares(k)' <= Spares(k)
  <2> DEFINE held == {i \in 1..Len(task[k]) : task[k][i].pc \in {"dialing", "push"}}
             h == IF held = {} THEN 0 ELSE 1
             m == Len(cf_idle[k])
             n == Len(t)
  <2>1. h \in Nat
    BY Zenon
  <2>2. Spares(k) = m + h
    BY DEF Spares
  <2>3. Spares(k)' = n + h
    BY <1>2, <1>6 DEF Spares
  <2>4. n \in Nat
    BY <1>6, TypeParts, ShownNext DEF IInv, BucketsShown, BucketShown
  <2> HIDE DEF h, m, n
  <2>5. m \in Nat /\ n <= m
    BY <1>2, <1>5 DEF m, n
  <2>6. m + h \in Nat /\ n + h \in Nat /\ n + h <= m + h
    BY <2>1, <2>4, <2>5
  <2> QED
    BY <2>2, <2>3, <2>6
<1> QED
  BY <1>7, <1>8, <1>9, TakeMaps

LEMMA PrefetchMaps ==
    ASSUME IInv, IInv', NEW c \in Clients, cf_prefetch(c)
    PROVE  [Pool!Next]_Pool!vars
<1>1. PICK k \in Keys : k = client[c].key
  BY SMTT(20), Zenon DEF IInv, CallInv, cf_prefetch
<1>2. cf_idle' = cf_idle /\ task \in [Keys -> Seq(RefillTask)] /\ task' \in [Keys -> Seq(RefillTask)]
  BY TypeParts, Zenon DEF IInv, cf_prefetch, TypeOK, RefillTask
<1>3. CASE ~reserve_cf_refill(k)
  <2>1. UNCHANGED <<task, cf_refilling>>
    BY <1>1, <1>3 DEF cf_prefetch
  <2> QED
    BY <1>2, <2>1, IdleMaps
<1>4. CASE reserve_cf_refill(k)
  <2>1. PICK route \in client[c].target :
           task' = [task EXCEPT ![k] = Append(@, [pc |-> "spawned", route |-> route])]
    BY <1>1, <1>4, Zenon DEF cf_prefetch
  <2>2. cf_refilling' = cf_refilling \cup {k} /\ k \notin cf_refilling
    BY <1>1, <1>4, Zenon DEF cf_prefetch, reserve_cf_refill
  <2> DEFINE r == [pc |-> "spawned", route |-> route]
  <2>3. r.pc = "spawned"
    OBVIOUS
  <2>4. task'[k] = Append(task[k], r) /\ \A j \in Keys \ {k} : task'[j] = task[j]
    BY <1>2, <2>1
  <2> HIDE DEF r
  <2>5. Len(task[k]) = 0
    BY <2>2 DEF IInv, TaskInv
  <2>6. Len(task'[k]) = 1
    BY <2>2, Zenon DEF IInv, TaskInv
  <2>7. task'[k][1] = r
    <3>1. task[k] \in Seq(RefillTask)
      BY <1>2
    <3>2. Append(task[k], r)[Len(task[k]) + 1] = r
      BY <3>1
    <3> QED
      BY <2>4, <2>5, <3>2
  <2>8. Refill(k) = "none" /\ Spares(k) = Len(cf_idle[k])
    BY <2>5, Shown, Zenon DEF BucketsShown, BucketShown
  <2>9. Refill(k)' = "reserved" /\ Spares(k)' = Len(cf_idle[k]) + 0
    BY <1>2, <2>3, <2>6, <2>7, ShownNext, Zenon DEF BucketsShown, BucketShown
  <2>10. Spares(k)' = Spares(k)
    BY <2>8, <2>9, Shown, SMTT(20), Zenon DEF BucketsShown, BucketShown
  <2>11. \A j \in Keys \ {k} : Spares(j)' = Spares(j) /\ Refill(j)' = Refill(j)
    BY <1>2, <2>2, <2>4, SameBucket, Zenon
  <2>12. Stock' = Stock
    BY <2>10, <2>11, SMTT(20), Zenon DEF Stock
  <2>13. Refills' = [Refills EXCEPT ![k] = "reserved"] /\ Refills[k] = "none"
    BY <2>8, <2>9, <2>11, RefillsUpdate
  <2>14. Pool!Reserve(k)
    BY <2>12, <2>13, Zenon DEF Pool!Reserve
  <2> QED
    BY <2>14, Zenon DEF Pool!Next
<1> QED
  BY <1>3, <1>4

(***************************************************************************)
(* A refill moves on, its bucket with n entries now: what SparePool sees.  *)
(***************************************************************************)
LEMMA MovedBucket ==
    ASSUME IInv, IInv', NEW k \in Keys, NEW i \in 1..Len(task[k]),
           NEW p \in {"spawned", "dialing", "push", "release"},
           task' = [task EXCEPT ![k][i].pc = p], cf_refilling' = cf_refilling,
           \A j \in Keys \ {k} : Len(cf_idle'[j]) = Len(cf_idle[j])
    PROVE  /\ \A j \in Keys \ {k} : Spares(j)' = Spares(j) /\ Refill(j)' = Refill(j)
           /\ Refill(k) = IF task[k][1].pc = "spawned" THEN "reserved" ELSE "delivered"
           /\ Refill(k)' = IF p = "spawned" THEN "reserved" ELSE "delivered"
           /\ Spares(k) = Len(cf_idle[k]) + IF task[k][1].pc \in {"dialing", "push"} THEN 1 ELSE 0
           /\ Spares(k)' = Len(cf_idle'[k]) + IF p \in {"dialing", "push"} THEN 1 ELSE 0
           /\ Len(cf_idle[k]) \in Nat /\ Len(cf_idle'[k]) \in Nat /\ i = 1
<1>1. /\ \A j \in Keys \ {k} : task'[j] = task[j]
      /\ Len(task'[k]) = 1 /\ task'[k][1].pc = p
  BY MoveOn, Zenon
<1>2. \A j \in Keys \ {k} : Spares(j)' = Spares(j) /\ Refill(j)' = Refill(j)
  BY <1>1, SameBucket
<1>3. Len(task[k]) = 1 /\ i = 1
  BY OnlyTask
<1>4. BucketShown(k) /\ BucketShown(k)'
  BY Shown, ShownNext DEF BucketsShown
<1> QED
  BY <1>1, <1>2, <1>3, <1>4, Zenon DEF BucketShown

LEMMA LookMaps ==
    ASSUME IInv, IInv', NEW k \in Keys, NEW i \in 1..Len(task[k]), RefillLook(k, i)
    PROVE  [Pool!Next]_Pool!vars
<1> DEFINE p == IF Len(cf_idle[k]) >= budget THEN "release" ELSE "dialing"
           m == Len(cf_idle[k])
           n == IF Len(cf_idle[k]) >= budget THEN 0 ELSE 1
<1>1. p \in {"spawned", "dialing", "push", "release"} /\ p # "spawned"
  OBVIOUS
<1>2. /\ task[k][i].pc = "spawned" /\ task' = [task EXCEPT ![k][i].pc = p]
      /\ UNCHANGED <<cf_idle, cf_refilling>>
  BY DEF RefillLook
<1>3. m \in Nat /\ budget \in Nat /\ n \in {0, 1} /\ (n = 1 => m < budget)
  BY TypeParts, LenProperties, Budget DEF IInv
<1>4. (IF p \in {"dialing", "push"} THEN 1 ELSE 0) = n
  BY SMTT(20), Zenon
<1> HIDE DEF p, n
<1>5. /\ \A j \in Keys \ {k} : Spares(j)' = Spares(j) /\ Refill(j)' = Refill(j)
      /\ Refill(k) = IF task[k][1].pc = "spawned" THEN "reserved" ELSE "delivered"
      /\ Refill(k)' = IF p = "spawned" THEN "reserved" ELSE "delivered"
      /\ Spares(k) = Len(cf_idle[k]) + IF task[k][1].pc \in {"dialing", "push"} THEN 1 ELSE 0
      /\ Spares(k)' = Len(cf_idle'[k]) + IF p \in {"dialing", "push"} THEN 1 ELSE 0
      /\ i = 1
  BY <1>1, <1>2, MovedBucket, Zenon
<1>6. Refill(k) = "reserved" /\ Refill(k)' = "delivered"
  BY <1>1, <1>2, <1>5, Zenon
<1>7. Spares(k) = m + 0 /\ Spares(k)' = m + n
  <2>1. task[k][1].pc \notin {"dialing", "push"}
    BY <1>2, <1>5
  <2> QED
    BY <1>2, <1>4, <1>5, <2>1, Zenon
<1>8. Spares(k) = m
  BY <1>3, <1>7
<1> HIDE DEF m
<1>9. Stock' = [Stock EXCEPT ![k] = m + n] /\ Stock[k] = m
  BY <1>5, <1>7, <1>8, StockUpdate
<1>10. n \in 0..budget /\ (n = 0 \/ m + n <= budget)
  BY <1>3
<1>11. Refills' = [Refills EXCEPT ![k] = "delivered"] /\ Refills[k] = "reserved"
  BY <1>5, <1>6, RefillsUpdate
<1>12. Pool!Deliver(k)
  BY <1>9, <1>10, <1>11, Zenon DEF Pool!Deliver
<1> QED
  BY <1>12, Zenon DEF Pool!Next

LEMMA ConnectMaps ==
    ASSUME IInv, IInv', NEW k \in Keys, NEW i \in 1..Len(task[k]), NEW r \in DialResults,
           cf_connect_one(k, i, r)
    PROVE  [Pool!Next]_Pool!vars
<1> DEFINE p == IF r = "connected" THEN "push" ELSE "release"
           h == IF p \in {"dialing", "push"} THEN 1 ELSE 0
           m == Len(cf_idle[k])
<1>1. p \in {"spawned", "dialing", "push", "release"} /\ p # "spawned"
  OBVIOUS
<1>2. /\ task[k][i].pc = "dialing" /\ task' = [task EXCEPT ![k][i].pc = p]
      /\ UNCHANGED <<cf_idle, cf_refilling>>
  BY DEF cf_connect_one
<1> HIDE DEF p
<1>3. /\ \A j \in Keys \ {k} : Spares(j)' = Spares(j) /\ Refill(j)' = Refill(j)
      /\ Refill(k) = IF task[k][1].pc = "spawned" THEN "reserved" ELSE "delivered"
      /\ Refill(k)' = IF p = "spawned" THEN "reserved" ELSE "delivered"
      /\ Spares(k) = Len(cf_idle[k]) + IF task[k][1].pc \in {"dialing", "push"} THEN 1 ELSE 0
      /\ Spares(k)' = Len(cf_idle'[k]) + IF p \in {"dialing", "push"} THEN 1 ELSE 0
      /\ m \in Nat /\ i = 1
  BY <1>1, <1>2, MovedBucket, Zenon
<1>4. Refill(k)' = Refill(k)
  BY <1>1, <1>2, <1>3
<1>5. Spares(k) = m + 1 /\ Spares(k)' = m + h
  <2>1. task[k][1].pc \in {"dialing", "push"}
    BY <1>2, <1>3
  <2> QED
    BY <1>2, <1>3, <2>1, Zenon
<1>6. h \in {0, 1}
  BY Zenon
<1> HIDE DEF h, m
<1>7. Spares(k) \in Nat /\ Spares(k)' \in Nat /\ Spares(k)' <= Spares(k)
  <2>1. m \in Nat
    BY <1>3
  <2>2. m + 1 \in Nat /\ m + h \in Nat /\ m + h <= m + 1
    BY <1>6, <2>1
  <2> QED
    BY <1>5, <2>2, Zenon
<1>8. \A j \in Keys : Refill(j)' = Refill(j)
  BY <1>3, <1>4, SMTT(20), Zenon
<1> QED
  BY <1>3, <1>7, <1>8, TakeMaps, Zenon

LEMMA PushMaps ==
    ASSUME IInv, IInv', NEW k \in Keys, NEW i \in 1..Len(task[k]), RefillPush(k, i)
    PROVE  [Pool!Next]_Pool!vars
<1> DEFINE m == Len(cf_idle[k])
           e == [route |-> task[k][i].route, usable |-> TRUE]
<1>1. /\ task[k][i].pc = "push" /\ task' = [task EXCEPT ![k][i].pc = "release"]
      /\ cf_refilling' = cf_refilling
  BY DEF RefillPush
<1>2. /\ cf_idle \in [Keys -> Seq(Entry)] /\ cf_idle[k] \in Seq(Entry)
      /\ Len(cf_idle[k]) < budget
  BY <1>1, TypeParts DEF IInv, RoomInv
<1>3. cf_idle' = [cf_idle EXCEPT ![k] = Append(cf_idle[k], e)]
  BY <1>2 DEF RefillPush
<1> HIDE DEF e
<1>4. Len(Append(cf_idle[k], e)) = Len(cf_idle[k]) + 1
  BY <1>2
<1>5. Len(cf_idle'[k]) = Len(cf_idle[k]) + 1 /\ \A j \in Keys \ {k} : Len(cf_idle'[j]) = Len(cf_idle[j])
  BY <1>2, <1>3, <1>4
<1>6. /\ \A j \in Keys \ {k} : Spares(j)' = Spares(j) /\ Refill(j)' = Refill(j)
      /\ Refill(k) = IF task[k][1].pc = "spawned" THEN "reserved" ELSE "delivered"
      /\ Refill(k)' = "delivered"
      /\ Spares(k) = Len(cf_idle[k]) + IF task[k][1].pc \in {"dialing", "push"} THEN 1 ELSE 0
      /\ Spares(k)' = Len(cf_idle'[k]) + 0
      /\ m \in Nat /\ i = 1
  BY <1>1, <1>5, MovedBucket, Zenon
<1>7. Spares(k) = m + 1 /\ Spares(k)' = (m + 1) + 0
  BY <1>1, <1>5, <1>6, Zenon
<1>8. Spares(k)' = Spares(k) /\ Refill(k)' = Refill(k)
  <2>1. (m + 1) + 0 = m + 1
    BY <1>6
  <2> QED
    BY <1>1, <1>6, <1>7, <2>1, Zenon
<1> QED
  BY <1>6, <1>8, Stutters, Zenon

LEMMA ReleaseMaps ==
    ASSUME IInv, IInv', NEW k \in Keys, NEW i \in 1..Len(task[k]), RefillRelease(k, i)
    PROVE  [Pool!Next]_Pool!vars
<1>1. Len(task[k]) = 1 /\ i = 1 /\ task \in [Keys -> Seq(RefillTask)] /\ k \in cf_refilling
  BY OnlyTask
<1>2. task[k][1].pc = "release" /\ cf_idle' = cf_idle /\ cf_refilling' = cf_refilling \ {k}
  BY <1>1 DEF RefillRelease
<1>3. \A j \in Keys \ {k} : task'[j] = task[j]
  BY <1>1 DEF RefillRelease, Ended
<1>4. Len(task'[k]) = 0
  BY <1>2 DEF IInv, TaskInv
<1>5. Refill(k) = "delivered" /\ Spares(k) = Len(cf_idle[k]) + 0 /\ Len(cf_idle[k]) \in Nat
  <2>1. BucketShown(k)
    BY Shown DEF BucketsShown
  <2> QED
    BY <1>1, <1>2, <2>1 DEF BucketShown
<1>6. Refill(k)' = "none" /\ Spares(k)' = Len(cf_idle[k])
  <2>1. BucketShown(k)'
    BY ShownNext DEF BucketsShown
  <2> QED
    BY <1>2, <1>4, <2>1 DEF BucketShown
<1>7. Spares(k)' = Spares(k)
  BY <1>5, <1>6, SMTT(20), Zenon
<1>8. \A j \in Keys \ {k} : Spares(j)' = Spares(j) /\ Refill(j)' = Refill(j)
  BY <1>2, <1>3, SameBucket
<1>9. Stock' = Stock
  BY <1>7, <1>8 DEF Stock
<1>10. Refills' = [Refills EXCEPT ![k] = "none"] /\ Refills[k] = "delivered"
  BY <1>5, <1>6, <1>8, RefillsUpdate
<1>11. Pool!Release(k)
  BY <1>9, <1>10, Zenon DEF Pool!Release
<1> QED
  BY <1>11, Zenon DEF Pool!Next

LEMMA NextMaps == IInv /\ IInv' /\ [Next]_vars => [Pool!Next]_Pool!vars
<1> SUFFICES ASSUME IInv, IInv', [Next]_vars PROVE [Pool!Next]_Pool!vars
  OBVIOUS
<1>1. CASE UNCHANGED <<cf_idle, task, cf_refilling>>
  BY <1>1, IdleMaps
<1>2. CASE \E k \in Keys : RefillStep(k)
  BY <1>2, LookMaps, ConnectMaps, PushMaps, ReleaseMaps, Zenon DEF RefillStep
<1>3. CASE \E k \in Keys : \E i \in 1..Len(cf_idle[k]) : Spoil(k, i)
  BY <1>3, SpoilMaps, Zenon
<1>4. CASE \E c \in Clients : cf_get(c) \/ cf_prefetch(c)
  BY <1>4, GetMaps, PrefetchMaps, Zenon
<1>5. \/ UNCHANGED <<cf_idle, task, cf_refilling>>
      \/ \E k \in Keys : RefillStep(k)
      \/ \E k \in Keys : \E i \in 1..Len(cf_idle[k]) : Spoil(k, i)
      \/ \E c \in Clients : cf_get(c) \/ cf_prefetch(c)
  BY Zenon DEF Next, vars, ClientStep, Enter, Dial, Fail
<1> QED
  BY <1>1, <1>2, <1>3, <1>4, <1>5, Zenon

(***************************************************************************)
(* The Cloudflare half implements SparePool with a limit of CF_POOL_MAX or *)
(* --pool-size, for any number of buckets, clients and domains: a bucket   *)
(* is given a spare only by the one refill that reserved it, counted from  *)
(* the moment the refill decides to dial it.                               *)
(***************************************************************************)
THEOREM ImplementsSparePoolHolds == Spec => ImplementsSparePool
<1>1. Init => Pool!Init
  <2> SUFFICES ASSUME Init PROVE Pool!Init
    OBVIOUS
  <2>1. ASSUME NEW k \in Keys PROVE Spares(k) = 0 /\ Refill(k) = "none"
    <3>1. Len(cf_idle[k]) = 0 /\ Len(task[k]) = 0 /\ k \notin cf_refilling
      BY DEF Init
    <3>2. {i \in 1..Len(task[k]) : task[k][i].pc \in {"dialing", "push"}} = {}
      BY <3>1
    <3>3. Spares(k) = Len(cf_idle[k]) + 0
      BY <3>2, Zenon DEF Spares
    <3> QED
      BY <3>1, <3>3 DEF Refill
  <2>2. Stock = [k \in Keys |-> 0] /\ Refills = [k \in Keys |-> "none"]
    BY <2>1 DEF Stock, Refills
  <2> QED
    BY <2>2, Zenon DEF Pool!Init
<1>2. IInv /\ [Next]_vars => IInv'
  BY NextIInv
<1> QED
  BY <1>1, <1>2, Invariance, NextMaps, PTL DEF Spec, ImplementsSparePool, Pool!Spec

=============================================================================
