---------------------------- MODULE LadderProofs ----------------------------
(***************************************************************************)
(* ReachableTierServes and PinnedDropDialled for every configuration: any  *)
(* classes, addresses, pins and lists of targets, and any number of        *)
(* connections that set and clear one another's cooldowns.                 *)
(***************************************************************************)
EXTENDS Ladder, SequenceTheorems, WellFoundedInduction, TLAPS

(***************************************************************************)
(* The strengthening of ReachableTierServes.  An address that has to serve *)
(* is reachable, and is still ahead: a rung before the terminal one leads  *)
(* to it; if that is the rung being walked, its turn has not passed.  If a *)
(* cooldown would keep it from being dialled, then it has none, and every  *)
(* dial to it that is under way will connect.                              *)
(***************************************************************************)
Clear(a) ==
    /\ a \notin cooling
    /\ \A d \in Conns : conn[d].pc = "dialing" /\ Head(conn[d].todo) = a => conn[d].steady

Leads(r, i, a) ==
    /\ \A j \in 1..i : r.rungs[j].tier # "tcp"
    /\ a \in AddressesOf(r.class, r.rungs[i].tier)
    /\ Gated(r.rungs[i].tier) /\ ~r.rungs[i].force => Clear(a)
    /\ i = 1 => /\ r.pc # "wscool"
                /\ r.pc \in {"walk", "dialing"} => a \in Range(r.todo)

Ahead(c, a) == \E i \in 1..Len(conn[c].rungs) : Leads(conn[c], i, a)

Underway == {"rung", "walk", "dialing", "wstimer", "wsdialing", "wscool"}

OwedInv(c) ==
    /\ owed[c] \subseteq net
    /\ conn[c].pc \in Underway => \A a \in owed[c] : Ahead(c, a)
    /\ \A a \in owed[c] \cap DialledBy(c) : conn[c].steady
    /\ conn[c].pc = "done" /\ conn[c].via \in {"tcp", "dropped"} => owed[c] = {}

(***************************************************************************)
(* What a rung and the state of its walk have to do with one another.      *)
(***************************************************************************)
WsStages == {"wstimer", "wsdialing", "wsclear", "wscool"}

RungInv(c) ==
    /\ conn[c].pc # "out" =>
          \A i \in 1..Len(conn[c].rungs) : conn[c].rungs[i].tier = "ws" => HasTarget(conn[c].class)
    /\ conn[c].pc \in WsStages => Head(conn[c].rungs).tier = "ws"
    /\ conn[c].pc \in {"walk", "dialing"} =>
          /\ Head(conn[c].rungs).tier \notin {"ws", "tcp"}
          /\ conn[c].todo \in Seq(Range(Targets(Head(conn[c].rungs).tier)))

(***************************************************************************)
(* The strengthening of PinnedDropDialled: until something is dialled, a   *)
(* rung is ahead that dials whatever the cooldowns are, or is terminal.    *)
(***************************************************************************)
Certain(r) ==
    \/ r.tier \in {"ws", "tcp"}
    \/ r.tier # "skipped" /\ Targets(r.tier) # <<>> /\ (Gated(r.tier) => r.force)

Dials(r, i) == Certain(r.rungs[i]) /\ (i = 1 /\ r.pc = "walk" => r.todo # <<>>)

DialInv(c) ==
    LET r == conn[c] IN
    /\ r.pc \in {"rung", "walk"} /\ ~r.dialled /\ HasDestination(r.class) =>
          (\E i \in 1..Len(r.rungs) : Dials(r, i)) \/ AllSkipped(r.class)
    /\ r.pc \in {"dialing", "wsdialing", "wsclear", "wscool"} => r.dialled
    /\ r.pc = "done" /\ r.via = "dropped" /\ HasDestination(r.class) =>
          r.dialled \/ AllSkipped(r.class)

ConnInv(c) == RungInv(c) /\ OwedInv(c) /\ DialInv(c)

IInv == TypeOK /\ \A c \in Conns : ConnInv(c)

-----------------------------------------------------------------------------
(***************************************************************************)
(* Sequences, and the records of a routing.                                *)
(***************************************************************************)
LEMMA TailFacts ==
    ASSUME NEW S, NEW s \in Seq(S), s # <<>>
    PROVE  /\ Tail(s) \in Seq(S) /\ Len(Tail(s)) = Len(s) - 1 /\ Len(s) \in Nat \ {0}
           /\ Head(s) \in S /\ Head(s) = s[1]
           /\ \A i \in 1..(Len(s) - 1) : Tail(s)[i] = s[i + 1]
BY HeadTailProperties, LenProperties

LEMMA RangeTail ==
    ASSUME NEW S, NEW s \in Seq(S), s # <<>>, NEW a \in Range(s), a # Head(s)
    PROVE  a \in Range(Tail(s))
<1>1. PICK i \in 1..Len(s) : s[i] = a
  BY LenProperties DEF Range
<1>2. i # 1
  BY <1>1, TailFacts
<1>3. i - 1 \in 1..Len(Tail(s)) /\ Tail(s)[i - 1] = a
  BY <1>1, <1>2, TailFacts
<1>4. DOMAIN Tail(s) = 1..Len(Tail(s))
  BY TailFacts, LenProperties
<1> QED
  BY <1>3, <1>4, Zenon DEF Range

LEMMA HeadInRange ==
    ASSUME NEW S, NEW s \in Seq(S), s # <<>>
    PROVE  Head(s) \in Range(s)
<1>1. 1 \in DOMAIN s /\ Head(s) = s[1]
  BY TailFacts, LenProperties
<1> QED
  BY <1>1, Zenon DEF Range

LEMMA Fields ==
    ASSUME NEW r \in Routing
    PROVE  /\ r.pc \in Underway \cup {"out", "wsclear", "done"}
           /\ r.class \in Classes \cup {None} /\ r.rungs \in Seq(Rungs) /\ r.todo \in Seq(Addresses)
           /\ r.probing \in BOOLEAN /\ r.steady \in BOOLEAN /\ r.dialled \in BOOLEAN
           /\ r.via \in Tiers \cup {"none", "dropped"}
BY SMTT(30) DEF Routing, Underway

LEMMA TypeParts ==
    ASSUME TypeOK
    PROVE  /\ cooling \subseteq CooldownKeys /\ net \subseteq Addresses /\ changes \in 0..MaxChanges
           /\ conn \in [Conns -> Routing] /\ owed \in [Conns -> SUBSET Addresses]
           /\ \A c \in Conns :
                 /\ conn[c] \in Routing
                 /\ conn[c].pc # "out" => conn[c].class \in Classes
                 /\ conn[c].pc \notin {"out", "rung", "done"} => conn[c].rungs # <<>>
                 /\ conn[c].pc = "dialing" => conn[c].todo # <<>>
BY DEF TypeOK

LEMMA ServedFields ==
    ASSUME NEW r \in Routing, NEW tier \in Tiers \cup {"dropped"}
    PROVE  LET q == Served(r, tier) IN
           /\ q \in Routing /\ q.pc = "done" /\ q.class = r.class /\ q.rungs = r.rungs
           /\ q.todo = <<>> /\ q.dialled = r.dialled /\ q.via = tier
<1>1. <<>> \in Seq(Addresses)
  OBVIOUS
<1> QED
  BY <1>1, Zenon DEF Served, Routing

LEMMA NextRungFields ==
    ASSUME NEW r \in Routing, r.rungs # <<>>
    PROVE  LET q == NextRung(r) IN
           /\ q \in Routing /\ q.pc = "rung" /\ q.class = r.class /\ q.rungs = Tail(r.rungs)
           /\ q.todo = <<>> /\ q.dialled = r.dialled /\ q.via = r.via
<1>1. r.rungs \in Seq(Rungs) /\ Tail(r.rungs) \in Seq(Rungs) /\ <<>> \in Seq(Addresses)
  BY Fields, TailFacts
<1> QED
  BY <1>1, Zenon DEF NextRung, Routing

LEMMA NextTargetFields ==
    ASSUME NEW r \in Routing, r.todo # <<>>
    PROVE  LET q == NextTarget(r) IN
           /\ q \in Routing /\ q.pc = "walk" /\ q.class = r.class /\ q.rungs = r.rungs
           /\ q.todo = Tail(r.todo) /\ q.dialled = r.dialled /\ q.via = r.via
<1>1. r.todo \in Seq(Addresses) /\ Tail(r.todo) \in Seq(Addresses)
  BY Fields, TailFacts
<1> QED
  BY <1>1, Zenon DEF NextTarget, Routing

LEMMA DiallingFields ==
    ASSUME NEW r \in Routing, NEW pc \in {"dialing", "wsdialing"}
    PROVE  LET q == Dialling(r, pc) IN
           /\ q \in Routing /\ q.pc = pc /\ q.class = r.class /\ q.rungs = r.rungs
           /\ q.todo = r.todo /\ q.steady /\ q.dialled /\ q.via = r.via
BY Zenon DEF Dialling, Routing

-----------------------------------------------------------------------------
(***************************************************************************)
(* The targets of a tier, in the order they are walked.                    *)
(***************************************************************************)
LEMMA TargetsSeq ==
    ASSUME NEW tier \in Tiers \cup {"skipped"}
    PROVE  /\ Targets(tier) \in Seq(Addresses) /\ Range(Targets(tier)) \subseteq Addresses
           /\ Targets(tier) \in Seq(Range(Targets(tier)))
<1>1. Workers \in Seq(Range(Workers)) /\ CfDomains \in Seq(Range(CfDomains))
      /\ Upstreams \in Seq(Range(Upstreams))
  BY LadderAssumption DEF Targets, Tiers
<1>2. Workers \in Seq(Addresses) /\ CfDomains \in Seq(Addresses) /\ Upstreams \in Seq(Addresses)
      /\ <<>> \in Seq(Addresses)
  BY <1>1 DEF Addresses
<1>3. Targets(tier) \in Seq(Addresses)
  BY <1>2 DEF Targets, Tiers
<1> QED
  BY <1>3, RangeOfSeq, LenProperties DEF Range

LEMMA RotationFacts ==
    ASSUME NEW S, NEW s \in Seq(S), s # <<>>, NEW order \in Rotations(s)
    PROVE  order \in Seq(S) /\ order # <<>> /\ Range(s) \subseteq Range(order)
<1> DEFINE n == Len(s)
<1>1. n \in Nat \ {0} /\ DOMAIN s = 1..n /\ \A i \in 1..n : s[i] \in S
  BY TailFacts, LenProperties
<1>2. PICK o \in 0..(n - 1) : order = [i \in 1..n |-> s[((i - 1 + o) % n) + 1]]
  BY Zenon DEF Rotations
<1> HIDE DEF n
<1>3. ASSUME NEW i \in 1..n
      PROVE  ((i - 1 + o) % n) + 1 \in 1..n
  <2>1. i - 1 + o \in Nat
    BY <1>1
  <2> QED
    BY <1>1, <2>1
<1>4. order \in [1..n -> S]
  BY <1>1, <1>2, <1>3
<1>5. order \in Seq(S) /\ Len(order) = n /\ order # <<>>
  BY <1>1, <1>4
<1>6. ASSUME NEW a \in Range(s)
      PROVE  a \in Range(order)
  <2>1. PICK j \in 1..n : s[j] = a
    BY <1>1 DEF Range
  <2> DEFINE i == IF o < j THEN j - o ELSE j - o + n
  <2>2. i \in 1..n
    BY <1>1
  <2>3. (i - 1 + o) % n = j - 1
    <3>1. CASE o < j
      <4>1. i - 1 + o = j - 1 /\ j - 1 \in 0..(n - 1)
        BY <1>1, <3>1
      <4> QED
        BY <1>1, <4>1
    <3>2. CASE ~(o < j)
      <4>1. i - 1 + o = (j - 1) + n /\ j - 1 \in 0..(n - 1)
        BY <1>1, <3>2
      <4>2. ((j - 1) + n) % n = j - 1
        BY <1>1, <4>1
      <4> QED
        BY <4>1, <4>2
    <3> QED
      BY <3>1, <3>2
  <2> HIDE DEF i
  <2>4. order[i] = a
    BY <1>2, <2>1, <2>2, <2>3
  <2>5. DOMAIN order = 1..n
    BY <1>4
  <2> QED
    BY <2>2, <2>4, <2>5, Zenon DEF Range
<1> QED
  BY <1>5, <1>6

LEMMA OrderFacts ==
    ASSUME NEW tier \in Tiers \cup {"skipped"}, NEW order \in Orders(tier)
    PROVE  /\ order \in Seq(Addresses) /\ Range(Targets(tier)) \subseteq Range(order)
           /\ Targets(tier) # <<>> => order # <<>>
           /\ order \in Seq(Range(Targets(tier)))
<1>1. CASE order = Targets(tier)
  BY <1>1, TargetsSeq
<1>2. CASE order # Targets(tier)
  <2>1. Targets(tier) # <<>> /\ order \in Rotations(Targets(tier))
    BY <1>2 DEF Orders
  <2> QED
    BY <2>1, TargetsSeq, RotationFacts
<1> QED
  BY <1>1, <1>2

-----------------------------------------------------------------------------
(***************************************************************************)
(* The ladders: a rung is on direct_ws only where there is a target, and   *)
(* with an address for the DC a ladder has a certain rung, or a pin with   *)
(* nothing to dial at all.                                                 *)
(***************************************************************************)
LEMMA RungType ==
    ASSUME NEW tier \in Tiers \cup {"skipped"}, NEW force \in BOOLEAN
    PROVE  Rung(tier, force) \in Rungs /\ Rung(tier, force).tier = tier /\ Rung(tier, force).force = force
BY DEF Rung, Rungs

LEMMA DefaultLadder ==
    ASSUME NEW k \in Classes, Pins[k] = <<>>
    PROVE  LET L == select_upstream(k) IN
           /\ L \in Seq(Rungs)
           /\ \A i \in 1..Len(L) : L[i].tier = "ws" => HasTarget(k)
           /\ HasDestination(k) => Len(L) \in 1..Len(L) /\ L[Len(L)].tier = "tcp"
<1> DEFINE L == select_upstream(k)
           w == Rung("cfworker", FALSE)
           p == Rung("cfproxy", FALSE)
           m == Rung("mtproto", FALSE)
           ws == Rung("ws", FALSE)
           tcp == Rung("tcp", FALSE)
<1>1. /\ w \in Rungs /\ p \in Rungs /\ m \in Rungs /\ ws \in Rungs /\ tcp \in Rungs
      /\ w.tier = "cfworker" /\ p.tier = "cfproxy" /\ m.tier = "mtproto"
      /\ ws.tier = "ws" /\ tcp.tier = "tcp"
  BY DEF Rung, Rungs, Tiers
<1>2. fallback_chain = <<w, p, m>>
  BY Zenon DEF fallback_chain
<1>3. /\ ~HasTarget(k) /\ k \notin Builtin => L = <<>>
      /\ ~HasTarget(k) /\ k \in Builtin => L = Append(<<w, p, m>>, tcp)
      /\ HasTarget(k) => L \in {<<w, p, m>> \o <<ws, tcp>>, <<ws>> \o Append(<<w, p, m>>, tcp)}
  <2>0. ~HasTarget(k) => ~Reprobes(k)
    BY DEF Reprobes
  <2>1. ~HasTarget(k) /\ k \notin Builtin => L = <<>>
    BY <2>0, Zenon DEF select_upstream
  <2>2. ~HasTarget(k) /\ k \in Builtin => L = Append(<<w, p, m>>, tcp)
    BY <1>2, <2>0, Zenon DEF select_upstream
  <2>3. HasTarget(k) /\ Reprobes(k) => L = <<w, p, m>> \o <<ws, tcp>>
    BY <1>2, Zenon DEF select_upstream
  <2>4. HasTarget(k) /\ ~Reprobes(k) => L = <<ws>> \o Append(<<w, p, m>>, tcp)
    BY <1>2, Zenon DEF select_upstream
  <2> QED
    BY <2>1, <2>2, <2>3, <2>4, Zenon
<1> HIDE DEF L, w, p, m, ws, tcp
<1>4. CASE ~HasTarget(k) /\ k \notin Builtin
  BY <1>3, <1>4 DEF HasDestination, L
<1>5. CASE ~HasTarget(k) /\ k \in Builtin
  <2>1. L = <<w, p, m, tcp>>
    BY <1>3, <1>5
  <2> QED
    BY <1>1, <2>1 DEF L
<1>6. CASE HasTarget(k)
  <2>1. CASE L = <<w, p, m>> \o <<ws, tcp>>
    <3> DEFINE s == <<w, p, m>>
               t == <<ws, tcp>>
    <3>1. s \in Seq(Rungs) /\ t \in Seq(Rungs) /\ Len(s) = 3 /\ Len(t) = 2 /\ t[2] = tcp
      BY <1>1
    <3> HIDE DEF s, t
    <3>2. L \in Seq(Rungs) /\ Len(L) = 5 /\ L[5] = tcp
      BY <2>1, <3>1, ConcatProperties DEF s, t
    <3> QED
      BY <1>1, <1>6, <3>2 DEF L
  <2>2. CASE L = <<ws>> \o Append(<<w, p, m>>, tcp)
    <3> DEFINE s == <<ws>>
               t == Append(<<w, p, m>>, tcp)
    <3>1. s \in Seq(Rungs) /\ t \in Seq(Rungs) /\ Len(s) = 1 /\ Len(t) = 4 /\ t[4] = tcp
      BY <1>1
    <3> HIDE DEF s, t
    <3>2. L \in Seq(Rungs) /\ Len(L) = 5 /\ L[5] = tcp
      BY <2>2, <3>1, ConcatProperties DEF s, t
    <3> QED
      BY <1>1, <1>6, <3>2 DEF L
  <2> QED
    BY <1>3, <1>6, <2>1, <2>2
<1> QED
  BY <1>4, <1>5, <1>6

LEMMA PinnedType ==
    ASSUME NEW k \in Classes
    PROVE  /\ Pins[k] \in Seq(Tiers) /\ Len(Pins[k]) \in Nat
           /\ \A i \in 1..Len(Pins[k]) : Pins[k][i] \in Tiers
           /\ pinned_ladder(k) \in Seq(Rungs) /\ Len(pinned_ladder(k)) = Len(Pins[k])
           /\ \A i \in 1..Len(Pins[k]) :
                 /\ pinned_ladder(k)[i].tier =
                       (IF Skipped(k, Pins[k][i]) THEN "skipped" ELSE Pins[k][i])
                 /\ pinned_ladder(k)[i].force = ~tier_attemptable_after(k, i)
<1>1. Pins[k] \in Seq(Tiers) /\ Len(Pins[k]) \in Nat /\ \A i \in 1..Len(Pins[k]) : Pins[k][i] \in Tiers
  BY LadderAssumption, LenProperties
<1>2. ASSUME NEW i \in 1..Len(Pins[k])
      PROVE  /\ pinned_rung(k, i) \in Rungs
             /\ pinned_rung(k, i).tier = (IF Skipped(k, Pins[k][i]) THEN "skipped" ELSE Pins[k][i])
             /\ pinned_rung(k, i).force = ~tier_attemptable_after(k, i)
  <2>1. (~tier_attemptable_after(k, i)) \in BOOLEAN
    BY Zenon DEF tier_attemptable_after
  <2>2. (IF Skipped(k, Pins[k][i]) THEN "skipped" ELSE Pins[k][i]) \in Tiers \cup {"skipped"}
    BY <1>1
  <2> QED
    BY <2>1, <2>2, RungType, Zenon DEF pinned_rung
<1>3. pinned_ladder(k) \in [1..Len(Pins[k]) -> Rungs]
  BY <1>2, Zenon DEF pinned_ladder
<1>4. pinned_ladder(k) \in Seq(Rungs) /\ Len(pinned_ladder(k)) = Len(Pins[k])
  BY <1>1, <1>3
<1>5. \A i \in 1..Len(Pins[k]) : pinned_ladder(k)[i] = pinned_rung(k, i)
  BY Zenon DEF pinned_ladder
<1> QED
  BY <1>1, <1>2, <1>4, <1>5, Zenon

\* A set of indices with a member has a last one.
LEMMA LastIn ==
    ASSUME NEW n \in Nat, NEW S \in SUBSET (1..n), S # {}
    PROVE  \E i \in S : \A j \in S : j <= i
<1> DEFINE T == {n - i : i \in S}
           less == {p \in Nat \X Nat : p[1] < p[2]}
<1>1. IsWellFoundedOn(less, Nat)
  BY NatLessThanWellFounded DEF OpToRel
<1>2. T \in SUBSET Nat /\ T # {}
  <2>1. \A i \in S : n - i \in Nat
    OBVIOUS
  <2> QED
    BY <2>1, Zenon
<1>3. PICK m \in T : \A t \in T : ~(<<t, m>> \in less)
  BY <1>1, <1>2, WFMin, Zenon
<1>4. PICK i \in S : m = n - i
  BY <1>3
<1>5. ASSUME NEW j \in S PROVE j <= i
  <2>1. n - j \in T /\ n - j \in Nat /\ n - i \in Nat /\ i \in Nat /\ j \in Nat
    BY <1>2
  <2>2. ~(n - j < n - i)
    BY <1>3, <1>4, <2>1, Zenon
  <2> QED
    BY <2>1, <2>2
<1> QED
  BY <1>5

LEMMA PinnedCertain ==
    ASSUME NEW k \in Classes, HasDestination(k), ~AllSkipped(k)
    PROVE  \E i \in 1..Len(Pins[k]) : Certain(pinned_ladder(k)[i])
<1> DEFINE S == {i \in 1..Len(Pins[k]) : tier_attemptable(k, Pins[k][i])}
<1>1. S # {}
  <2>1. PICK i \in 1..Len(Pins[k]) : ~Skipped(k, Pins[k][i])
    BY DEF AllSkipped
  <2>2. Pins[k][i] \in Tiers
    BY PinnedType
  <2>3. tier_attemptable(k, Pins[k][i])
    BY <2>1, <2>2, LadderAssumption DEF tier_attemptable, Skipped, Tiers
  <2> QED
    BY <2>3
<1>2. PICK i \in S : \A j \in S : j <= i
  <2>1. S \in SUBSET (1..Len(Pins[k])) /\ Len(Pins[k]) \in Nat
    BY PinnedType
  <2> HIDE DEF S
  <2> QED
    BY <1>1, <2>1, LastIn, Zenon
<1>3. i \in 1..Len(Pins[k]) /\ tier_attemptable(k, Pins[k][i]) /\ Pins[k][i] \in Tiers
  BY PinnedType
<1>4. ~Skipped(k, Pins[k][i])
  BY <1>3 DEF Skipped, tier_attemptable
<1>5. ~tier_attemptable_after(k, i)
  <2> SUFFICES ASSUME NEW j \in (i + 1)..Len(Pins[k]), tier_attemptable(k, Pins[k][j]) PROVE FALSE
    BY DEF tier_attemptable_after
  <2>1. Len(Pins[k]) \in Nat /\ j \in 1..Len(Pins[k]) /\ j > i
    BY <1>3, PinnedType
  <2>2. j \in S
    BY <2>1
  <2> QED
    BY <1>2, <1>3, <2>1, <2>2
<1>6. pinned_ladder(k)[i].tier = Pins[k][i] /\ pinned_ladder(k)[i].force
  BY <1>3, <1>4, <1>5, PinnedType, Zenon
<1>7. Pins[k][i] \notin {"ws", "tcp"} => Targets(Pins[k][i]) # <<>>
  BY <1>3, LadderAssumption
<1>8. Certain(pinned_ladder(k)[i])
  BY <1>3, <1>6, <1>7 DEF Certain, Tiers
<1> QED
  BY <1>3, <1>8

LEMMA LadderFacts ==
    ASSUME NEW k \in Classes
    PROVE  LET L == select_upstream(k) IN
           /\ L \in Seq(Rungs)
           /\ \A i \in 1..Len(L) : L[i].tier = "ws" => HasTarget(k)
           /\ HasDestination(k) => (\E i \in 1..Len(L) : Certain(L[i])) \/ AllSkipped(k)
<1> DEFINE L == select_upstream(k)
<1>1. CASE Pins[k] = <<>>
  BY <1>1, DefaultLadder DEF Certain
<1>2. CASE Pins[k] # <<>>
  <2>1. L = pinned_ladder(k)
    BY <1>2, Zenon DEF select_upstream, Reprobes
  <2>2. ASSUME NEW i \in 1..Len(L), L[i].tier = "ws"
        PROVE  HasTarget(k)
    BY <2>1, <2>2, PinnedType DEF Skipped
  <2>3. HasDestination(k) => (\E i \in 1..Len(L) : Certain(L[i])) \/ AllSkipped(k)
    BY <2>1, PinnedType, PinnedCertain
  <2> QED
    BY <2>1, <2>2, <2>3, PinnedType
<1> QED
  BY <1>1, <1>2

-----------------------------------------------------------------------------
(***************************************************************************)
(* A step of one connection.  It may change the cooldowns, but starts none *)
(* for an address that is clear and owed to anybody.                       *)
(***************************************************************************)
GatedAddresses == Range(Workers) \cup Range(Upstreams)

StepOf(c, q) ==
    /\ conn' = [conn EXCEPT ![c] = q] /\ q \in Routing
    /\ UNCHANGED <<net, changes>>
    /\ q.pc = "dialing" => q.steady
    /\ \A y \in Conns : \A a \in owed[y] \cap GatedAddresses : Clear(a) => a \notin cooling'

LEMMA StepConn ==
    ASSUME TypeOK, NEW c \in Conns, NEW q, StepOf(c, q)
    PROVE  conn'[c] = q /\ \A x \in Conns : x # c => conn'[x] = conn[x]
BY TypeParts DEF StepOf

LEMMA StepType ==
    ASSUME TypeOK, NEW c \in Conns, NEW q, StepOf(c, q), cooling' \subseteq CooldownKeys,
           owed' \in [Conns -> SUBSET Addresses],
           q.pc # "out" => q.class \in Classes,
           q.pc \notin {"out", "rung", "done"} => q.rungs # <<>>,
           q.pc = "dialing" => q.todo # <<>>
    PROVE  TypeOK'
<1>1. conn' \in [Conns -> Routing] /\ UNCHANGED <<net, changes>>
  BY TypeParts DEF StepOf
<1>2. ASSUME NEW x \in Conns
      PROVE  /\ conn'[x].pc # "out" => conn'[x].class \in Classes
             /\ conn'[x].pc \notin {"out", "rung", "done"} => conn'[x].rungs # <<>>
             /\ conn'[x].pc = "dialing" => conn'[x].todo # <<>>
  <2>1. CASE x = c
    BY <2>1, StepConn
  <2>2. CASE x # c
    BY <2>2, StepConn, TypeParts
  <2> QED
    BY <2>1, <2>2
<1> QED
  BY <1>1, <1>2, TypeParts DEF TypeOK

LEMMA ClearKept ==
    ASSUME TypeOK, NEW c \in Conns, NEW q, StepOf(c, q),
           NEW y \in Conns, NEW a \in owed[y] \cap GatedAddresses, Clear(a)
    PROVE  Clear(a)'
<1>1. a \notin cooling'
  BY DEF StepOf
<1>2. ASSUME NEW d \in Conns, conn'[d].pc = "dialing", Head(conn'[d].todo) = a
      PROVE  conn'[d].steady
  <2>1. CASE d = c
    BY <1>2, <2>1, StepConn, Zenon DEF StepOf
  <2>2. CASE d # c
    BY <1>2, <2>2, StepConn DEF Clear
  <2> QED
    BY <2>1, <2>2
<1> QED
  BY <1>1, <1>2 DEF Clear

\* What keeps an address ahead, when the rungs stay or when the first one is passed.
LEMMA GatedAddress ==
    ASSUME NEW k, NEW tier, Gated(tier), NEW a \in AddressesOf(k, tier)
    PROVE  a \in GatedAddresses
BY DEF Gated, AddressesOf, Targets, GatedAddresses

LEMMA LeadsStill ==
    ASSUME TypeOK, NEW c \in Conns, NEW y \in Conns, NEW a \in owed[y],
           NEW x \in Conns, NEW q, StepOf(x, q),
           NEW i \in 1..Len(conn[c].rungs), Leads(conn[c], i, a),
           conn'[c].rungs = conn[c].rungs, conn'[c].class = conn[c].class,
           i = 1 => /\ conn'[c].pc # "wscool"
                    /\ conn'[c].pc \in {"walk", "dialing"} => a \in Range(conn'[c].todo)
    PROVE  Ahead(c, a)'
<1>1. Gated(conn[c].rungs[i].tier) /\ ~conn[c].rungs[i].force => Clear(a)'
  BY ClearKept, GatedAddress, Zenon DEF Leads
<1>2. Leads(conn[c], i, a)'
  BY <1>1, Zenon DEF Leads
<1> QED
  BY <1>2, Zenon DEF Ahead

LEMMA LeadsNext ==
    ASSUME TypeOK, NEW c \in Conns, NEW a \in owed[c], NEW q, StepOf(c, q),
           NEW i \in 1..Len(conn[c].rungs), Leads(conn[c], i, a), i # 1,
           conn[c].rungs # <<>>, q.rungs = Tail(conn[c].rungs), q.class = conn[c].class,
           q.pc = "rung"
    PROVE  Ahead(c, a)'
<1> DEFINE s == conn[c].rungs
           t == conn'[c].rungs
<1>1. t = Tail(s) /\ conn'[c].class = conn[c].class /\ conn'[c].pc = "rung"
  BY StepConn
<1>2. s \in Seq(Rungs)
  BY TypeParts, Fields
<1>3. /\ Len(t) = Len(s) - 1 /\ Len(s) \in Nat \ {0}
      /\ \A j \in 1..(Len(s) - 1) : t[j] = s[j + 1]
  BY <1>1, <1>2, TailFacts
<1>4. Gated(s[i].tier) /\ ~s[i].force => Clear(a)'
  BY ClearKept, GatedAddress, Zenon DEF Leads
<1>5. /\ \A j \in 1..i : s[j].tier # "tcp"
      /\ a \in AddressesOf(conn[c].class, s[i].tier)
  BY DEF Leads
<1> HIDE DEF s, t
<1>6. i - 1 \in 1..Len(t) /\ t[i - 1] = s[i]
  BY <1>3 DEF s
<1>7. \A j \in 1..(i - 1) : t[j].tier # "tcp"
  BY <1>3, <1>5 DEF s
<1>8. i - 1 = 1 => conn'[c].pc # "wscool" /\ conn'[c].pc \notin {"walk", "dialing"}
  BY <1>1
<1>9. Leads(conn[c], i - 1, a)'
  BY <1>1, <1>4, <1>5, <1>6, <1>7, <1>8, Zenon DEF Leads, t
<1> QED
  BY <1>6, <1>9, Zenon DEF Ahead, t

\* The step leaves the invariant of the other connections alone.
LEMMA OthersKept ==
    ASSUME IInv, NEW c \in Conns, NEW q, StepOf(c, q), NEW x \in Conns, x # c, owed'[x] = owed[x]
    PROVE  ConnInv(x)'
<1>1. conn'[x] = conn[x] /\ owed'[x] = owed[x] /\ net' = net /\ TypeOK /\ ConnInv(x)
  BY StepConn DEF IInv, StepOf
<1>2. RungInv(x)' /\ DialInv(x)'
  BY <1>1, Zenon DEF ConnInv, RungInv, DialInv, Dials
<1>3. ASSUME NEW a \in owed[x], conn[x].pc \in Underway
      PROVE  Ahead(x, a)'
  <2>1. PICK i \in 1..Len(conn[x].rungs) : Leads(conn[x], i, a)
    BY <1>1, <1>3, Zenon DEF ConnInv, OwedInv, Ahead
  <2>2. i = 1 => /\ conn'[x].pc # "wscool"
                 /\ conn'[x].pc \in {"walk", "dialing"} => a \in Range(conn'[x].todo)
    BY <1>1, <2>1, Zenon DEF Leads
  <2>3. conn'[x].rungs = conn[x].rungs /\ conn'[x].class = conn[x].class
    BY <1>1
  <2> QED
    BY <1>1, <1>3, <2>1, <2>2, <2>3, LeadsStill, Zenon
<1>4. DialledBy(x)' = DialledBy(x)
  BY <1>1, Zenon DEF DialledBy
<1>5. OwedInv(x)'
  BY <1>1, <1>3, <1>4, Zenon DEF ConnInv, OwedInv
<1> QED
  BY <1>2, <1>5 DEF ConnInv

LEMMA StepIInv ==
    ASSUME IInv, NEW c \in Conns, NEW q, StepOf(c, q), TypeOK', ConnInv(c)',
           \A x \in Conns : x # c => owed'[x] = owed[x]
    PROVE  IInv'
<1>1. ASSUME NEW x \in Conns PROVE ConnInv(x)'
  BY OthersKept, Zenon
<1> QED
  BY <1>1, Zenon DEF IInv

LEMMA NobodyDialled ==
    ASSUME NEW c \in Conns, conn[c].pc \notin {"dialing", "wsdialing"}
    PROVE  DialledBy(c) = {}
BY Zenon DEF DialledBy

(***************************************************************************)
(* The connection is served or dropped.                                    *)
(***************************************************************************)
LEMMA ServedStep ==
    ASSUME IInv, NEW c \in Conns, NEW tier \in Tiers \cup {"dropped"},
           StepOf(c, Served(conn[c], tier)), cooling' \subseteq CooldownKeys, owed' = owed,
           conn[c].pc # "out",
           tier \in {"tcp", "dropped"} => owed[c] = {},
           tier = "dropped" /\ HasDestination(conn[c].class) =>
              conn[c].dialled \/ AllSkipped(conn[c].class)
    PROVE  IInv'
<1> DEFINE r == conn[c]
           q == Served(r, tier)
<1>0. TypeOK /\ ConnInv(c) /\ r \in Routing /\ r.class \in Classes
  BY TypeParts DEF IInv
<1>1. /\ q \in Routing /\ q.pc = "done" /\ q.class = r.class /\ q.rungs = r.rungs
      /\ q.todo = <<>> /\ q.dialled = r.dialled /\ q.via = tier
  BY <1>0, ServedFields
<1> HIDE DEF q
<1>2. conn'[c] = q /\ StepOf(c, q)
  BY <1>0, StepConn DEF q
<1>3. TypeOK'
  BY <1>0, <1>1, <1>2, TypeParts, StepType, SMTT(20), Zenon
<1>4. RungInv(c)'
  BY <1>0, <1>1, <1>2 DEF ConnInv, RungInv, WsStages
<1>5. DialledBy(c)' = {}
  BY <1>1, <1>2, Zenon DEF DialledBy
<1>6. owed' = owed /\ net' = net
  BY <1>2 DEF StepOf
<1>7. OwedInv(c)'
  BY <1>0, <1>1, <1>2, <1>5, <1>6 DEF ConnInv, OwedInv, Underway
<1>8. DialInv(c)'
  BY <1>1, <1>2 DEF DialInv
<1> QED
  BY <1>2, <1>3, <1>4, <1>7, <1>8, StepIInv DEF ConnInv

(***************************************************************************)
(* The rung has failed, or had nothing to dial.                            *)
(***************************************************************************)
LEMMA NextRungStep ==
    ASSUME IInv, NEW c \in Conns, StepOf(c, NextRung(conn[c])), cooling' \subseteq CooldownKeys,
           owed' = owed,
           conn[c].pc \in Underway, conn[c].rungs # <<>>,
           \A a \in owed[c] : ~Leads(conn[c], 1, a),
           ~conn[c].dialled => ~Dials(conn[c], 1) /\ conn[c].pc = "walk"
    PROVE  IInv'
<1> DEFINE r == conn[c]
           q == NextRung(r)
<1>0. TypeOK /\ ConnInv(c) /\ r \in Routing /\ r.class \in Classes /\ r.rungs \in Seq(Rungs)
  BY TypeParts, Fields DEF IInv, Underway
<1>1. /\ q \in Routing /\ q.pc = "rung" /\ q.class = r.class /\ q.rungs = Tail(r.rungs)
      /\ q.todo = <<>> /\ q.dialled = r.dialled /\ q.via = r.via
  BY <1>0, NextRungFields
<1> HIDE DEF q
<1>2. conn'[c] = q /\ StepOf(c, q)
  BY <1>0, StepConn DEF q
<1>3. TypeOK'
  BY <1>0, <1>1, <1>2, TypeParts, StepType, SMTT(20), Zenon
<1>4. /\ Len(q.rungs) = Len(r.rungs) - 1 /\ Len(r.rungs) \in Nat \ {0}
      /\ \A i \in 1..(Len(r.rungs) - 1) : q.rungs[i] = r.rungs[i + 1]
  BY <1>0, <1>1, TailFacts
<1>5. RungInv(c)'
  <2>1. \A i \in 1..Len(r.rungs) : r.rungs[i].tier = "ws" => HasTarget(r.class)
    BY <1>0 DEF ConnInv, RungInv, Underway
  <2>2. \A i \in 1..Len(q.rungs) : q.rungs[i].tier = "ws" => HasTarget(q.class)
    BY <1>1, <1>4, <2>1
  <2> QED
    BY <1>1, <1>2, <2>2, Zenon DEF RungInv, WsStages
<1>6. ASSUME NEW a \in owed[c] PROVE Ahead(c, a)'
  <2>1. PICK i \in 1..Len(r.rungs) : Leads(r, i, a)
    BY <1>0, Zenon DEF ConnInv, OwedInv, Ahead
  <2>2. i # 1
    BY <2>1
  <2> QED
    BY <1>0, <1>1, <1>2, <2>1, <2>2, LeadsNext, Zenon
<1>7. DialledBy(c)' = {}
  BY <1>1, <1>2, Zenon DEF DialledBy
<1>8. OwedInv(c)'
  <2>1. owed' = owed /\ net' = net
    BY <1>2 DEF StepOf
  <2> QED
    BY <1>0, <1>1, <1>2, <1>6, <1>7, <2>1 DEF ConnInv, OwedInv
<1>9. DialInv(c)'
  <2>1. ASSUME ~r.dialled, HasDestination(r.class), ~AllSkipped(r.class)
        PROVE  \E i \in 1..Len(q.rungs) : Certain(q.rungs[i])
    <3>1. PICK i \in 1..Len(r.rungs) : Dials(r, i)
      BY <1>0, <2>1, Zenon DEF ConnInv, DialInv
    <3>2. i # 1 /\ Certain(r.rungs[i])
      BY <2>1, <3>1 DEF Dials
    <3>3. i - 1 \in 1..Len(q.rungs) /\ q.rungs[i - 1] = r.rungs[i]
      BY <1>4, <3>1, <3>2
    <3> QED
      BY <3>2, <3>3
  <2> QED
    BY <1>1, <1>2, <2>1, Zenon DEF DialInv, Dials
<1> QED
  BY <1>2, <1>3, <1>5, <1>8, <1>9, StepIInv DEF ConnInv

(***************************************************************************)
(* The connection stays on its rung.                                       *)
(***************************************************************************)
Reached(q, a) == q.pc # "wscool" /\ (q.pc \in {"walk", "dialing"} => a \in Range(q.todo))

LEMMA SameRungStep ==
    ASSUME IInv, NEW c \in Conns, NEW q, StepOf(c, q), cooling' \subseteq CooldownKeys,
           owed' = owed, conn[c].pc \in Underway, q.rungs = conn[c].rungs, q.class = conn[c].class,
           q.pc \in {"walk", "dialing"} \cup WsStages, q.pc = "dialing" => q.todo # <<>>,
           conn[c].rungs # <<>>,
           q.pc \in WsStages => Head(q.rungs).tier = "ws",
           q.pc \in {"walk", "dialing"} => /\ Head(q.rungs).tier \notin {"ws", "tcp"}
                                           /\ q.todo \in Seq(Range(Targets(Head(q.rungs).tier))),
           \A a \in owed[c] : Leads(conn[c], 1, a) => Reached(q, a),
           q.pc \in {"dialing", "wsdialing"} => q.steady,
           q.pc # "wstimer" => DialInv(c)'
    PROVE  IInv'
<1> DEFINE r == conn[c]
<1>0. TypeOK /\ ConnInv(c) /\ r \in Routing /\ r.class \in Classes /\ q \in Routing
  BY TypeParts DEF IInv, Underway, StepOf
<1>1. conn'[c] = q /\ owed' = owed /\ net' = net
  BY <1>0, StepConn, Zenon DEF StepOf
<1>2. TypeOK'
  BY <1>0, TypeParts, StepType, SMTT(20), Zenon
<1>3. RungInv(c)'
  BY <1>0, <1>1 DEF ConnInv, RungInv, Underway
<1>4. ASSUME NEW a \in owed[c] PROVE Ahead(c, a)'
  <2>1. PICK i \in 1..Len(r.rungs) : Leads(r, i, a)
    BY <1>0, Zenon DEF ConnInv, OwedInv, Ahead
  <2>2. i = 1 => /\ conn'[c].pc # "wscool"
                 /\ conn'[c].pc \in {"walk", "dialing"} => a \in Range(conn'[c].todo)
    BY <1>1, <2>1 DEF Reached
  <2>3. conn'[c].rungs = conn[c].rungs /\ conn'[c].class = conn[c].class
    BY <1>1
  <2> QED
    BY <1>0, <2>1, <2>2, <2>3, LeadsStill, Zenon
<1>5. DialledBy(c)' # {} => conn'[c].steady
  BY <1>1, Zenon DEF DialledBy
<1>6. OwedInv(c)'
  <2>1. conn'[c].pc # "done"
    BY <1>1, SMTT(20), Zenon DEF WsStages
  <2> QED
    BY <1>0, <1>1, <1>4, <1>5, <2>1, Zenon DEF ConnInv, OwedInv
<1>7. DialInv(c)'
  BY <1>1 DEF DialInv
<1> QED
  BY <1>2, <1>3, <1>6, <1>7, StepIInv, SMTT(20), Zenon DEF ConnInv

-----------------------------------------------------------------------------
(***************************************************************************)
(* The actions of a routing.                                               *)
(***************************************************************************)
LEMMA RoutingFacts ==
    ASSUME IInv, NEW c \in Conns
    PROVE  /\ TypeOK /\ ConnInv(c) /\ RungInv(c) /\ OwedInv(c) /\ DialInv(c)
           /\ conn[c] \in Routing /\ conn[c].rungs \in Seq(Rungs) /\ conn[c].todo \in Seq(Addresses)
           /\ conn[c].dialled \in BOOLEAN
           /\ conn[c].pc # "out" => conn[c].class \in Classes
           /\ cooling \subseteq CooldownKeys
BY TypeParts, Fields DEF IInv, ConnInv

\* A connection with an address ahead has a rung, and the rung does not end the ladder.
LEMMA AheadRung ==
    ASSUME IInv, NEW c \in Conns, conn[c].pc = "rung",
           conn[c].rungs = <<>> \/ Head(conn[c].rungs).tier = "tcp"
    PROVE  owed[c] = {}
<1> SUFFICES ASSUME NEW a \in owed[c] PROVE FALSE
  OBVIOUS
<1>1. PICK i \in 1..Len(conn[c].rungs) : Leads(conn[c], i, a)
  BY RoutingFacts DEF OwedInv, Underway, Ahead
<1>2. conn[c].rungs \in Seq(Rungs) /\ conn[c].rungs # <<>>
  BY <1>1, RoutingFacts
<1>3. Head(conn[c].rungs) = conn[c].rungs[1] /\ 1 \in 1..i
  BY <1>1, <1>2, TailFacts
<1> QED
  BY <1>1, <1>2, <1>3 DEF Leads

LEMMA CoolingLess ==
    ASSUME NEW c \in Conns, NEW q \in Routing, conn' = [conn EXCEPT ![c] = q],
           UNCHANGED <<net, changes>>, q.pc = "dialing" => q.steady, cooling' \subseteq cooling
    PROVE  StepOf(c, q)
BY DEF StepOf, Clear

LEMMA DropStep ==
    ASSUME IInv, NEW c \in Conns, Drop(c)
    PROVE  IInv'
<1>1. /\ conn[c].pc = "rung" /\ conn[c].rungs = <<>> /\ cooling' = cooling
      /\ conn' = [conn EXCEPT ![c] = Served(conn[c], "dropped")] /\ UNCHANGED <<net, changes, owed>>
  BY DEF Drop
<1>2. StepOf(c, Served(conn[c], "dropped"))
  BY <1>1, RoutingFacts, ServedFields, CoolingLess, Zenon
<1>3. HasDestination(conn[c].class) => conn[c].dialled \/ AllSkipped(conn[c].class)
  BY <1>1, RoutingFacts DEF DialInv
<1>4. owed[c] = {}
  BY <1>1, AheadRung
<1> QED
  BY <1>1, <1>2, <1>3, <1>4, RoutingFacts, ServedStep, Zenon

LEMMA TcpStep ==
    ASSUME IInv, NEW c \in Conns, tcp_fallback(c)
    PROVE  IInv'
<1>1. /\ conn[c].pc = "rung" /\ Head(conn[c].rungs).tier = "tcp" /\ cooling' = cooling
      /\ conn' = [conn EXCEPT ![c] = Served(conn[c], "tcp")] /\ UNCHANGED <<net, changes, owed>>
  BY DEF tcp_fallback
<1>2. StepOf(c, Served(conn[c], "tcp"))
  BY <1>1, RoutingFacts, ServedFields, CoolingLess, Zenon DEF Tiers
<1>3. owed[c] = {}
  BY <1>1, AheadRung
<1> QED
  BY <1>1, <1>2, <1>3, RoutingFacts, ServedStep DEF Tiers

LEMMA PoolHitStep ==
    ASSUME IInv, NEW c \in Conns, PoolHit(c)
    PROVE  IInv'
<1> DEFINE tier == Head(conn[c].rungs).tier
<1>1. /\ conn[c].pc = "rung" /\ tier \in {"ws", "cfworker", "cfproxy"} /\ cooling' = cooling
      /\ conn' = [conn EXCEPT ![c] = Served(conn[c], tier)] /\ UNCHANGED <<net, changes, owed>>
  BY DEF PoolHit
<1> HIDE DEF tier
<1>2. StepOf(c, Served(conn[c], tier))
  BY <1>1, RoutingFacts, ServedFields, CoolingLess, Zenon DEF Tiers
<1> QED
  BY <1>1, <1>2, RoutingFacts, ServedStep DEF Tiers

LEMMA EnterTierStep ==
    ASSUME IInv, NEW c \in Conns, EnterTier(c)
    PROVE  IInv'
<1> DEFINE r == conn[c]
           tier == Head(r.rungs).tier
<1>1. /\ r.pc = "rung" /\ r.rungs # <<>> /\ tier \in {"cfworker", "cfproxy", "mtproto", "skipped"}
      /\ UNCHANGED <<cooling, net, changes, owed>>
  BY DEF EnterTier
<1>2. PICK order \in Orders(tier) :
         conn' = [conn EXCEPT ![c] = [r EXCEPT !.pc = "walk", !.todo = order]]
  BY Zenon DEF EnterTier
<1>3. /\ order \in Seq(Addresses) /\ Range(Targets(tier)) \subseteq Range(order)
      /\ Targets(tier) # <<>> => order # <<>>
      /\ order \in Seq(Range(Targets(tier)))
  <2>1. tier \in Tiers \cup {"skipped"}
    BY <1>1 DEF Tiers
  <2> HIDE DEF tier
  <2> QED
    BY <2>1, OrderFacts, Zenon
<1> DEFINE q == [r EXCEPT !.pc = "walk", !.todo = order]
<1>4. /\ q \in Routing /\ q.pc = "walk" /\ q.todo = order /\ q.rungs = r.rungs /\ q.class = r.class
      /\ q.dialled = r.dialled
  BY <1>3, RoutingFacts, Zenon DEF Routing
<1>5. r.rungs \in Seq(Rungs) /\ Head(r.rungs) = r.rungs[1]
  BY <1>1, RoutingFacts, TailFacts
<1>6. conn' = [conn EXCEPT ![c] = q]
  BY <1>2
<1> HIDE DEF q
<1>7. StepOf(c, q)
  BY <1>1, <1>4, <1>6, CoolingLess, Zenon
<1>8. conn'[c] = q
  BY <1>7, RoutingFacts, StepConn, SMTT(20), Zenon
<1>9. ASSUME NEW a \in owed[c], Leads(r, 1, a)
      PROVE  Reached(q, a)
  <2>1. a \in AddressesOf(r.class, tier)
    BY <1>5, <1>9 DEF Leads
  <2>2. a \in Range(order)
    BY <1>1, <1>3, <2>1, SMTT(20), Zenon DEF AddressesOf
  <2> QED
    BY <1>4, <2>2, SMTT(20), Zenon DEF Reached
<1>10. DialInv(c)'
  <2>1. ASSUME ~r.dialled, HasDestination(r.class), ~AllSkipped(r.class)
        PROVE  \E i \in 1..Len(q.rungs) : Dials(q, i)
    <3>1. PICK i \in 1..Len(r.rungs) : Certain(r.rungs[i])
      BY <1>1, <2>1, RoutingFacts, Zenon DEF DialInv, Dials
    <3>2. i = 1 => order # <<>>
      BY <1>1, <1>3, <1>5, <3>1 DEF Certain
    <3>3. Dials(q, i)
      BY <1>4, <3>1, <3>2 DEF Dials
    <3> QED
      BY <1>4, <3>3
  <2> QED
    BY <1>4, <1>8, <2>1 DEF DialInv
<1> QED
  BY <1>1, <1>4, <1>7, <1>9, <1>10, <1>3, RoutingFacts, SameRungStep, Zenon DEF Underway, WsStages

LEMMA WalkStep ==
    ASSUME IInv, NEW c \in Conns, Walk(c)
    PROVE  IInv'
<1> DEFINE r == conn[c]
<1>1. r.pc = "walk" /\ UNCHANGED <<cooling, net, changes, owed>>
  BY DEF Walk
<1>2. /\ r.rungs \in Seq(Rungs) /\ r.rungs # <<>> /\ Head(r.rungs) = r.rungs[1]
      /\ Head(r.rungs).tier \notin {"ws", "tcp"} /\ r \in Routing /\ r.todo \in Seq(Addresses)
      /\ r.todo \in Seq(Range(Targets(Head(r.rungs).tier)))
  <2>1. r.rungs \in Seq(Rungs) /\ r.rungs # <<>>
    BY <1>1, RoutingFacts, TypeParts, SMTT(20), Zenon
  <2> QED
    BY <1>1, <2>1, RoutingFacts, TailFacts, SMTT(20), Zenon DEF RungInv
<1>3. CASE r.todo = <<>> /\ conn' = [conn EXCEPT ![c] = NextRung(r)]
  <2>1. StepOf(c, NextRung(r))
    BY <1>1, <1>2, <1>3, NextRungFields, CoolingLess, Zenon
  <2>2. \A a \in owed[c] : ~Leads(r, 1, a)
    BY <1>1, <1>3 DEF Leads, Range
  <2>3. ~Dials(r, 1)
    BY <1>1, <1>3 DEF Dials
  <2> QED
    BY <1>1, <1>2, <2>1, <2>2, <2>3, RoutingFacts, NextRungStep DEF Underway
<1>4. CASE r.todo # <<>> /\ InCooldown(c) /\ conn' = [conn EXCEPT ![c] = NextTarget(r)]
  <2> DEFINE q == NextTarget(r)
  <2>1. /\ q \in Routing /\ q.pc = "walk" /\ q.class = r.class /\ q.rungs = r.rungs
        /\ q.todo = Tail(r.todo) /\ q.dialled = r.dialled
    BY <1>2, <1>4, NextTargetFields
  <2>2. conn' = [conn EXCEPT ![c] = q]
    BY <1>4
  <2> HIDE DEF q
  <2>3. StepOf(c, q) /\ conn'[c] = q
    BY <1>1, <2>1, <2>2, CoolingLess, RoutingFacts, StepConn, Zenon
  <2>7. q.todo \in Seq(Range(Targets(Head(q.rungs).tier)))
    <3> DEFINE S == Range(Targets(Head(r.rungs).tier))
    <3>1. r.todo \in Seq(S) /\ r.todo # <<>>
      BY <1>2, <1>4
    <3> HIDE DEF S
    <3>2. Tail(r.todo) \in Seq(S)
      BY <3>1, TailFacts, SMTT(20), Zenon
    <3> QED
      BY <2>1, <3>2 DEF S
  <2>4. Gated(r.rungs[1].tier) /\ ~r.rungs[1].force /\ Head(r.todo) \in cooling
    BY <1>2, <1>4 DEF InCooldown
  <2>5. ASSUME NEW a \in owed[c], Leads(r, 1, a)
        PROVE  Reached(q, a)
    <3>1. a \notin cooling /\ a \in Range(r.todo)
      BY <1>1, <2>4, <2>5 DEF Leads, Clear
    <3>2. a \in Range(Tail(r.todo))
      BY <1>2, <1>4, <2>4, <3>1, RangeTail, Zenon
    <3> QED
      BY <2>1, <3>2 DEF Reached
  <2>6. DialInv(c)'
    <3>1. ASSUME ~r.dialled, HasDestination(r.class), ~AllSkipped(r.class)
          PROVE  \E i \in 1..Len(q.rungs) : Dials(q, i)
      <4>1. PICK i \in 1..Len(r.rungs) : Dials(r, i)
        BY <1>1, <3>1, RoutingFacts, Zenon DEF DialInv
      <4>2. ~Certain(r.rungs[1])
        BY <2>4 DEF Certain, Gated
      <4>3. Dials(q, i)
        BY <2>1, <4>1, <4>2 DEF Dials
      <4> QED
        BY <2>1, <4>3
    <3> QED
      BY <2>1, <2>3, <3>1 DEF DialInv
  <2> QED
    BY <1>1, <1>2, <2>1, <2>3, <2>5, <2>6, <2>7, RoutingFacts, SameRungStep, Zenon DEF Underway, WsStages
<1>5. CASE r.todo # <<>> /\ ~InCooldown(c) /\ conn' = [conn EXCEPT ![c] = Dialling(r, "dialing")]
  <2> DEFINE q == Dialling(r, "dialing")
  <2>1. /\ q \in Routing /\ q.pc = "dialing" /\ q.class = r.class /\ q.rungs = r.rungs
        /\ q.todo = r.todo /\ q.steady /\ q.dialled
    BY <1>2, DiallingFields
  <2>2. conn' = [conn EXCEPT ![c] = q]
    BY <1>5
  <2> HIDE DEF q
  <2>3. StepOf(c, q) /\ conn'[c] = q
    BY <1>1, <2>1, <2>2, CoolingLess, RoutingFacts, StepConn, Zenon
  <2>4. \A a \in owed[c] : Leads(r, 1, a) => Reached(q, a)
    BY <1>1, <2>1, SMTT(20), Zenon DEF Leads, Reached
  <2>5. DialInv(c)'
    BY <2>1, <2>3 DEF DialInv
  <2> QED
    BY <1>1, <1>2, <1>5, <2>1, <2>3, <2>4, <2>5, RoutingFacts, SameRungStep, Zenon DEF Underway, WsStages
<1> QED
  BY <1>3, <1>4, <1>5, Zenon DEF Walk

LEMMA DialEndStep ==
    ASSUME IInv, NEW c \in Conns, DialEnd(c)
    PROVE  IInv'
<1> DEFINE r == conn[c]
           tier == Head(r.rungs).tier
           b == Head(r.todo)
<1>1. r.pc = "dialing" /\ UNCHANGED <<net, changes, owed>>
  BY DEF DialEnd
<1>2. /\ r.rungs \in Seq(Rungs) /\ r.rungs # <<>> /\ r.todo \in Seq(Addresses) /\ r.todo # <<>>
      /\ tier \in Tiers \cup {"skipped"} /\ tier \notin {"ws", "tcp"} /\ r \in Routing /\ r.dialled
      /\ r.class \in Classes
  <2>1. r.rungs \in Seq(Rungs) /\ r.rungs # <<>> /\ r.todo # <<>>
    BY <1>1, RoutingFacts, TypeParts
  <2>2. Head(r.rungs) \in Rungs
    BY <2>1, TailFacts
  <2> QED
    BY <1>1, <2>1, <2>2, RoutingFacts, Zenon DEF RungInv, DialInv, Rungs
<1>3. PICK connected \in Ends(b, r.steady) :
         /\ conn' = [conn EXCEPT ![c] = IF connected THEN Served(r, tier) ELSE NextTarget(r)]
         /\ cooling' = IF ~Gated(tier) THEN cooling
                       ELSE IF connected THEN cooling \ {b} ELSE cooling \cup {b}
  BY Zenon DEF DialEnd
<1>4. b \in Range(r.todo)
  BY <1>2, HeadInRange
<1> HIDE DEF tier, b
<1>5. tier \in Tiers /\ b \in Range(Targets(tier)) /\ b \in DialledBy(c)
  <2>1. r.todo \in Seq(Range(Targets(tier))) /\ Head(r.todo) \in Range(Targets(tier))
    BY <1>1, <1>2, RoutingFacts, TailFacts DEF RungInv, tier
  <2>2. tier # "skipped"
    BY <2>1 DEF Targets, Range
  <2>3. DialledBy(c) = {b}
    BY <1>1, Zenon DEF DialledBy, b
  <2> QED
    BY <1>2, <2>1, <2>2, <2>3, SMTT(20), Zenon DEF b
<1>6. CASE connected
  <2>1. conn' = [conn EXCEPT ![c] = Served(r, tier)] /\ cooling' \subseteq cooling
    BY <1>3, <1>6
  <2>2. StepOf(c, Served(r, tier))
    BY <1>1, <1>2, <1>5, <2>1, ServedFields, CoolingLess, Zenon
  <2> QED
    BY <1>1, <1>2, <1>5, <2>1, <2>2, RoutingFacts, ServedStep, Zenon DEF Tiers
<1>7. CASE ~connected
  <2> DEFINE q == NextTarget(r)
  <2>1. /\ conn' = [conn EXCEPT ![c] = q]
        /\ cooling' = IF Gated(tier) THEN cooling \cup {b} ELSE cooling
    BY <1>3, <1>7
  <2>2. /\ q \in Routing /\ q.pc = "walk" /\ q.class = r.class /\ q.rungs = r.rungs
        /\ q.todo = Tail(r.todo) /\ q.dialled = r.dialled
    BY <1>2, NextTargetFields, Zenon
  <2> HIDE DEF q
  <2>3. b \notin net \/ ~r.steady
    BY <1>3, <1>7, Zenon DEF Ends
  <2>4. b \notin owed[c]
    BY <1>5, <2>3, RoutingFacts, SMTT(20), Zenon DEF OwedInv
  <2>5. ASSUME NEW y \in Conns, b \in owed[y] PROVE ~Clear(b)
    BY <1>1, <2>3, <2>5, RoutingFacts, SMTT(20), Zenon DEF OwedInv, Clear, b
  <2>6. StepOf(c, q)
    BY <1>1, <2>1, <2>2, <2>5 DEF StepOf, Clear
  <2>7. cooling' \subseteq CooldownKeys
    BY <1>5, <2>1, RoutingFacts DEF Gated, CooldownKeys, Targets
  <2>8. ASSUME NEW a \in owed[c], Leads(r, 1, a)
        PROVE  Reached(q, a)
    <3>1. a \in Range(r.todo) /\ a # Head(r.todo)
      BY <1>1, <2>4, <2>8 DEF Leads, b
    <3>2. a \in Range(Tail(r.todo))
      BY <1>2, <3>1, RangeTail, Zenon
    <3> QED
      BY <2>2, <3>2, SMTT(20), Zenon DEF Reached
  <2>9. DialInv(c)'
    <3>1. conn'[c] = q
      BY <2>6, RoutingFacts, StepConn, SMTT(20), Zenon
    <3> QED
      BY <1>2, <2>2, <3>1, Zenon DEF DialInv
  <2>10. q.todo \in Seq(Range(Targets(Head(q.rungs).tier)))
    <3> DEFINE S == Range(Targets(Head(r.rungs).tier))
    <3>1. r.todo \in Seq(S)
      BY <1>1, RoutingFacts DEF RungInv
    <3> HIDE DEF S
    <3>2. Tail(r.todo) \in Seq(S)
      BY <1>2, <3>1, TailFacts, SMTT(20), Zenon
    <3> QED
      BY <2>2, <3>2, SMTT(20), Zenon DEF S
  <2> QED
    BY <1>1, <1>2, <2>2, <2>6, <2>7, <2>8, <2>9, <2>10, RoutingFacts, SameRungStep, Zenon
    DEF Underway, WsStages, tier
<1> QED
  BY <1>6, <1>7

(***************************************************************************)
(* direct_ws.  The cooldowns it starts are those of a class and of an      *)
(* address that no gated tier dials.                                       *)
(***************************************************************************)
LEMMA WsFacts ==
    ASSUME IInv, NEW c \in Conns, conn[c].pc \in WsStages
    PROVE  /\ conn[c].rungs # <<>> /\ Head(conn[c].rungs) = conn[c].rungs[1]
           /\ conn[c].rungs[1].tier = "ws" /\ 1 \in 1..Len(conn[c].rungs)
           /\ conn[c].class \in Classes /\ TargetIp[conn[c].class] \in Ips
<1>1. conn[c].rungs # <<>> /\ conn[c].rungs \in Seq(Rungs) /\ conn[c].class \in Classes
  BY RoutingFacts, TypeParts DEF WsStages
<1>2. /\ Head(conn[c].rungs) = conn[c].rungs[1] /\ conn[c].rungs[1].tier = "ws"
      /\ 1 \in 1..Len(conn[c].rungs)
  <2>1. Head(conn[c].rungs).tier = "ws"
    BY RoutingFacts, Zenon DEF RungInv
  <2>2. Head(conn[c].rungs) = conn[c].rungs[1] /\ Len(conn[c].rungs) \in Nat \ {0}
    BY <1>1, TailFacts, Zenon
  <2> QED
    BY <2>1, <2>2
<1>3. HasTarget(conn[c].class)
  BY <1>1, <1>2, RoutingFacts DEF RungInv, WsStages
<1> QED
  BY <1>1, <1>2, <1>3, LadderAssumption, SMTT(20), Zenon DEF HasTarget

LEMMA WsCools ==
    ASSUME NEW c \in Conns, NEW q \in Routing, conn' = [conn EXCEPT ![c] = q],
           UNCHANGED <<net, changes>>, q.pc # "dialing", NEW x \in Classes \cup Ips,
           cooling' = cooling \cup {x}
    PROVE  StepOf(c, q)
<1>1. x \notin GatedAddresses
  BY KeysApart, SMTT(20), Zenon DEF GatedAddresses
<1> QED
  BY <1>1 DEF StepOf, Clear

LEMMA WsMissStep ==
    ASSUME IInv, NEW c \in Conns, WsMiss(c)
    PROVE  IInv'
<1> DEFINE r == conn[c]
           q == [r EXCEPT !.pc = "wstimer", !.probing = r.class \in cooling]
<1>1. /\ r.pc = "rung" /\ r.rungs # <<>> /\ Head(r.rungs).tier = "ws"
      /\ conn' = [conn EXCEPT ![c] = q] /\ UNCHANGED <<cooling, net, changes, owed>>
  BY DEF WsMiss
<1>2. (r.class \in cooling) \in BOOLEAN
  OBVIOUS
<1>3. q \in Routing /\ q.pc = "wstimer" /\ q.rungs = r.rungs /\ q.class = r.class
  BY <1>2, RoutingFacts, Zenon DEF Routing
<1> HIDE DEF q
<1>4. StepOf(c, q)
  BY <1>1, <1>3, CoolingLess, Zenon
<1>5. \A a \in owed[c] : Reached(q, a)
  BY <1>3 DEF Reached
<1> QED
  BY <1>1, <1>3, <1>4, <1>5, RoutingFacts, SameRungStep DEF Underway, WsStages

LEMMA WsDialStep ==
    ASSUME IInv, NEW c \in Conns, connect_ws(c)
    PROVE  IInv'
<1> DEFINE r == conn[c]
           q == Dialling(r, "wsdialing")
<1>1. /\ r.pc = "wstimer" /\ conn' = [conn EXCEPT ![c] = q]
      /\ UNCHANGED <<cooling, net, changes, owed>>
  BY SMTT(20), Zenon DEF connect_ws
<1>2. /\ q \in Routing /\ q.pc = "wsdialing" /\ q.rungs = r.rungs /\ q.class = r.class
      /\ q.steady /\ q.dialled
  BY RoutingFacts, DiallingFields
<1> HIDE DEF q
<1>3. StepOf(c, q) /\ conn'[c] = q
  BY <1>1, <1>2, CoolingLess, RoutingFacts, StepConn, Zenon
<1>4. DialInv(c)' /\ \A a \in owed[c] : Reached(q, a)
  BY <1>2, <1>3 DEF DialInv, Reached
<1>5. r.rungs # <<>> /\ Head(r.rungs).tier = "ws"
  BY <1>1, WsFacts DEF WsStages
<1> QED
  BY <1>1, <1>2, <1>3, <1>4, <1>5, RoutingFacts, SameRungStep, Zenon DEF Underway, WsStages

LEMMA WsConnectedStep ==
    ASSUME IInv, NEW c \in Conns, WsConnected(c)
    PROVE  IInv'
<1> DEFINE r == conn[c]
           q == [r EXCEPT !.pc = "wsclear"]
<1>1. /\ r.pc = "wsdialing" /\ conn' = [conn EXCEPT ![c] = q] /\ cooling' \subseteq cooling
      /\ UNCHANGED <<net, changes, owed>>
  BY DEF WsConnected
<1>2. /\ q \in Routing /\ q.pc = "wsclear" /\ q.rungs = r.rungs /\ q.class = r.class
      /\ q.dialled = r.dialled
  BY RoutingFacts DEF Routing
<1> HIDE DEF q
<1>3. StepOf(c, q) /\ conn'[c] = q
  BY <1>1, <1>2, CoolingLess, RoutingFacts, StepConn, Zenon
<1>4. DialInv(c)' /\ \A a \in owed[c] : Reached(q, a)
  BY <1>1, <1>2, <1>3, RoutingFacts, Zenon DEF DialInv, Reached
<1>5. r.rungs # <<>> /\ Head(r.rungs).tier = "ws"
  BY <1>1, WsFacts, Zenon DEF WsStages
<1> QED
  BY <1>1, <1>2, <1>3, <1>4, <1>5, RoutingFacts, SameRungStep, Zenon DEF Underway, WsStages

LEMMA WsClearIpStep ==
    ASSUME IInv, NEW c \in Conns, WsClearIp(c)
    PROVE  IInv'
<1>1. /\ conn[c].pc = "wsclear" /\ cooling' \subseteq cooling
      /\ conn' = [conn EXCEPT ![c] = Served(conn[c], "ws")] /\ UNCHANGED <<net, changes, owed>>
  BY DEF WsClearIp
<1>2. StepOf(c, Served(conn[c], "ws"))
  BY <1>1, RoutingFacts, ServedFields, CoolingLess, Zenon DEF Tiers
<1> QED
  BY <1>1, <1>2, RoutingFacts, ServedStep, SMTT(20), Zenon DEF Tiers

LEMMA WsFailedStep ==
    ASSUME IInv, NEW c \in Conns, NEW timed_out \in BOOLEAN, WsFailed(c, timed_out)
    PROVE  IInv'
<1> DEFINE r == conn[c]
           b == TargetIp[r.class]
<1>1. /\ r.pc = "wsdialing" /\ FALSE \in Ends(b, r.steady) /\ cooling' = cooling \cup {r.class}
      /\ UNCHANGED <<net, changes, owed>>
  BY Zenon DEF WsFailed
<1>2. /\ r.rungs # <<>> /\ Head(r.rungs).tier = "ws" /\ r.rungs[1].tier = "ws"
      /\ r.class \in Classes /\ r \in Routing /\ r.dialled
  BY <1>1, WsFacts, RoutingFacts, Zenon DEF WsStages, DialInv
<1>3. b \notin owed[c]
  <2>1. b \notin net \/ ~r.steady
    BY <1>1, Zenon DEF Ends
  <2>2. DialledBy(c) = {b}
    BY <1>1, Zenon DEF DialledBy
  <2> QED
    BY <2>1, <2>2, RoutingFacts, Zenon DEF OwedInv
<1>4. \A a \in owed[c] : ~Leads(r, 1, a)
  BY <1>2, <1>3, SMTT(20), Zenon DEF Leads, AddressesOf
<1>5. cooling' \subseteq CooldownKeys
  BY <1>1, <1>2, RoutingFacts, SMTT(20), Zenon DEF CooldownKeys
<1>6. CASE conn' = [conn EXCEPT ![c] = NextRung(r)]
  <2>1. StepOf(c, NextRung(r))
    BY <1>1, <1>2, <1>6, NextRungFields, WsCools, Zenon
  <2> QED
    BY <1>1, <1>2, <1>4, <1>5, <2>1, NextRungStep DEF Underway
<1>7. CASE conn' = [conn EXCEPT ![c] = [r EXCEPT !.pc = "wscool"]]
  <2> DEFINE q == [r EXCEPT !.pc = "wscool"]
  <2>1. /\ q \in Routing /\ q.pc = "wscool" /\ q.rungs = r.rungs /\ q.class = r.class
        /\ q.dialled = r.dialled
    BY <1>2, Zenon DEF Routing
  <2>2. conn' = [conn EXCEPT ![c] = q]
    BY <1>7
  <2> HIDE DEF q
  <2>3. StepOf(c, q) /\ conn'[c] = q
    BY <1>1, <1>2, <2>1, <2>2, WsCools, RoutingFacts, StepConn, Zenon
  <2>4. DialInv(c)'
    BY <1>2, <2>1, <2>3, Zenon DEF DialInv
  <2> QED
    BY <1>1, <1>2, <1>4, <1>5, <2>1, <2>3, <2>4, SameRungStep, Zenon DEF Underway, WsStages
<1> QED
  BY <1>6, <1>7, Zenon DEF WsFailed

LEMMA CoolDownIpStep ==
    ASSUME IInv, NEW c \in Conns, cool_down_ip(c)
    PROVE  IInv'
<1> DEFINE r == conn[c]
<1>1. /\ r.pc = "wscool" /\ cooling' = cooling \cup {TargetIp[r.class]}
      /\ conn' = [conn EXCEPT ![c] = NextRung(r)] /\ UNCHANGED <<net, changes, owed>>
  BY SMTT(20), Zenon DEF cool_down_ip
<1>2. r.rungs # <<>> /\ r \in Routing /\ r.dialled /\ TargetIp[r.class] \in Ips
  BY <1>1, WsFacts, RoutingFacts DEF WsStages, DialInv
<1>3. StepOf(c, NextRung(r))
  BY <1>1, <1>2, NextRungFields, WsCools, Zenon
<1>4. \A a \in owed[c] : ~Leads(r, 1, a)
  BY <1>1 DEF Leads
<1>5. cooling' \subseteq CooldownKeys
  BY <1>1, <1>2, RoutingFacts, Zenon DEF CooldownKeys
<1> QED
  BY <1>1, <1>2, <1>3, <1>4, <1>5, NextRungStep, SMTT(20), Zenon DEF Underway

LEMMA RouteStep ==
    ASSUME IInv, NEW c \in Conns, Route(c)
    PROVE  IInv'
BY DropStep, TcpStep, PoolHitStep, EnterTierStep, WalkStep, DialEndStep, WsMissStep, WsDialStep,
   WsConnectedStep, WsClearIpStep, WsFailedStep, CoolDownIpStep, Zenon DEF Route

-----------------------------------------------------------------------------
(***************************************************************************)
(* A connection starts and ends.  What it is owed when it is accepted is   *)
(* ahead of it, and clear where a cooldown could excuse a rung.            *)
(***************************************************************************)
LEMMA OwedAhead ==
    ASSUME TypeOK, NEW r \in Routing, r.pc = "rung", NEW a \in Owed(r.class, r.rungs)
    PROVE  /\ a \in net
           /\ \E i \in 1..Len(r.rungs) : Leads(r, i, a)
<1> DEFINE s == r.rungs
           before == {i \in 1..Len(s) : \A j \in 1..i : s[j].tier # "tcp"}
           excused(x) == IF Gated(x.tier) /\ ~x.force THEN cooling \cup BeingDialled ELSE {}
<1>1. a \in net /\ a \in UNION {AddressesOf(r.class, s[i].tier) \ excused(s[i]) : i \in before}
  BY DEF Owed
<1>2. PICK i \in before : a \in AddressesOf(r.class, s[i].tier) \ excused(s[i])
  BY <1>1
<1>3. ASSUME Gated(s[i].tier), ~s[i].force PROVE Clear(a)
  <2>1. a \notin cooling /\ a \notin BeingDialled
    BY <1>2, <1>3
  <2>2. ASSUME NEW d \in Conns, conn[d].pc = "dialing", Head(conn[d].todo) = a PROVE FALSE
    BY <2>1, <2>2 DEF BeingDialled
  <2> QED
    BY <2>1, <2>2 DEF Clear
<1>4. Leads(r, i, a)
  BY <1>2, <1>3, SMTT(20), Zenon DEF Leads
<1> QED
  BY <1>1, <1>2, <1>4, SMTT(20), Zenon

LEMMA AcceptStep ==
    ASSUME IInv, NEW c \in Conns, NEW k \in Classes, Accept(c, k)
    PROVE  IInv'
<1> DEFINE L == select_upstream(k)
           q == [Idle EXCEPT !.pc = "rung", !.class = k, !.rungs = L]
<1>1. /\ conn[c].pc = "out" /\ conn' = [conn EXCEPT ![c] = q] /\ UNCHANGED <<cooling, net, changes>>
      /\ owed' = [owed EXCEPT ![c] = Owed(k, L)]
  BY DEF Accept
<1>2. L \in Seq(Rungs) /\ <<>> \in Seq(Addresses)
  BY LadderFacts
<1>3. /\ q \in Routing /\ q.pc = "rung" /\ q.class = k /\ q.rungs = L /\ q.todo = <<>>
  BY <1>2, Zenon DEF Routing, Idle
<1>4. /\ \A i \in 1..Len(L) : L[i].tier = "ws" => HasTarget(k)
      /\ HasDestination(k) => (\E i \in 1..Len(L) : Certain(L[i])) \/ AllSkipped(k)
  BY LadderFacts
<1> HIDE DEF q, L
<1>5. StepOf(c, q) /\ conn'[c] = q
  BY <1>1, <1>3, CoolingLess, RoutingFacts, StepConn, Zenon
<1>6. Owed(k, L) \subseteq net /\ net \subseteq Addresses
  BY RoutingFacts, TypeParts, SMTT(20), Zenon DEF Owed
<1>7. /\ owed' \in [Conns -> SUBSET Addresses] /\ owed'[c] = Owed(k, L)
      /\ \A x \in Conns : x # c => owed'[x] = owed[x]
  BY <1>1, <1>6, RoutingFacts, TypeParts, SMTT(20), Zenon
<1>8. TypeOK'
  BY <1>1, <1>3, <1>5, <1>7, RoutingFacts, StepType, SMTT(20), Zenon
<1>9. RungInv(c)' /\ DialInv(c)'
  BY <1>3, <1>4, <1>5 DEF RungInv, DialInv, Dials, WsStages
<1>10. ASSUME NEW a \in Owed(k, L) PROVE Ahead(c, a)'
  <2>1. PICK i \in 1..Len(q.rungs) : Leads(q, i, a)
    BY <1>3, RoutingFacts, OwedAhead, Zenon
  <2>2. Clear(a) => Clear(a)'
    BY <1>1, <1>3, <1>5, RoutingFacts, StepConn, Zenon DEF Clear
  <2>3. Leads(conn[c], i, a)'
    BY <1>5, <2>1, <2>2, Zenon DEF Leads
  <2> QED
    BY <1>5, <2>1, <2>3, Zenon DEF Ahead
<1>11. DialledBy(c)' = {}
  BY <1>3, <1>5, Zenon DEF DialledBy
<1>12. OwedInv(c)'
  BY <1>1, <1>3, <1>5, <1>6, <1>7, <1>10, <1>11, SMTT(20), Zenon DEF OwedInv
<1> QED
  BY <1>5, <1>7, <1>8, <1>9, <1>12, StepIInv DEF ConnInv

LEMMA IdleFields ==
    Idle \in Routing /\ Idle.pc = "out" /\ Idle.todo = <<>> /\ Idle.rungs = <<>>
<1>1. <<>> \in Seq(Rungs) /\ <<>> \in Seq(Addresses)
  OBVIOUS
<1> QED
  BY <1>1 DEF Idle, Routing

LEMMA FinishStep ==
    ASSUME IInv, NEW c \in Conns, Finish(c)
    PROVE  IInv'
<1>1. /\ conn' = [conn EXCEPT ![c] = Idle] /\ owed' = [owed EXCEPT ![c] = {}]
      /\ UNCHANGED <<cooling, net, changes>>
  BY DEF Finish
<1>2. StepOf(c, Idle) /\ conn'[c] = Idle
  BY <1>1, IdleFields, CoolingLess, RoutingFacts, StepConn, Zenon
<1>3. /\ owed' \in [Conns -> SUBSET Addresses] /\ owed'[c] = {}
      /\ \A x \in Conns : x # c => owed'[x] = owed[x]
  BY <1>1, RoutingFacts, TypeParts, SMTT(20), Zenon
<1>4. TypeOK'
  BY <1>1, <1>2, <1>3, IdleFields, RoutingFacts, StepType
<1>5. RungInv(c)' /\ DialInv(c)' /\ OwedInv(c)'
  BY <1>2, <1>3, IdleFields, Zenon DEF RungInv, DialInv, OwedInv, WsStages, Underway
<1> QED
  BY <1>2, <1>3, <1>4, <1>5, StepIInv DEF ConnInv

(***************************************************************************)
(* The environment.  An address whose reachability changes is owed to      *)
(* nobody any more, and only dials to it are disturbed.                    *)
(***************************************************************************)
LEMMA NetChangeStep ==
    ASSUME IInv, NEW b \in Addresses, NetChange(b)
    PROVE  IInv'
<1>1. TypeOK /\ MaxChanges \in Nat
  BY LadderAssumption DEF IInv
<1>2. /\ changes < MaxChanges /\ changes' = changes + 1 /\ cooling' = cooling
      /\ net' = IF b \in net THEN net \ {b} ELSE net \cup {b}
      /\ conn' = [x \in Conns |-> [conn[x] EXCEPT !.steady = conn[x].steady /\ b \notin DialledBy(x)]]
      /\ owed' = [x \in Conns |-> owed[x] \ {b}]
  BY DEF NetChange
<1>3. ASSUME NEW x \in Conns
      PROVE  /\ conn'[x] \in Routing /\ conn'[x].pc = conn[x].pc /\ conn'[x].class = conn[x].class
             /\ conn'[x].rungs = conn[x].rungs /\ conn'[x].todo = conn[x].todo
             /\ conn'[x].dialled = conn[x].dialled /\ conn'[x].via = conn[x].via
             /\ conn'[x].steady = (conn[x].steady /\ b \notin DialledBy(x))
             /\ owed'[x] = owed[x] \ {b} /\ DialledBy(x)' = DialledBy(x)
  <2>1. conn[x] \in Routing /\ (conn[x].steady /\ b \notin DialledBy(x)) \in BOOLEAN
    BY <1>1, TypeParts
  <2>2. /\ conn'[x] \in Routing /\ conn'[x].pc = conn[x].pc /\ conn'[x].class = conn[x].class
        /\ conn'[x].rungs = conn[x].rungs /\ conn'[x].todo = conn[x].todo
        /\ conn'[x].dialled = conn[x].dialled /\ conn'[x].via = conn[x].via
        /\ conn'[x].steady = (conn[x].steady /\ b \notin DialledBy(x))
    BY <1>2, <2>1, Zenon DEF Routing
  <2>3. DialledBy(x)' = DialledBy(x)
    BY <2>2, Zenon DEF DialledBy
  <2> QED
    BY <1>2, <2>2, <2>3, SMTT(20), Zenon
<1>4. TypeOK'
  <2>1. conn' \in [Conns -> Routing]
    BY <1>2, <1>3, Zenon
  <2>2. owed' \in [Conns -> SUBSET Addresses] /\ net' \subseteq Addresses /\ changes' \in 0..MaxChanges
    BY <1>1, <1>2, TypeParts, SMTT(20), Zenon
  <2>3. \A x \in Conns : /\ conn'[x].pc # "out" => conn'[x].class \in Classes
                         /\ conn'[x].pc \notin {"out", "rung", "done"} => conn'[x].rungs # <<>>
                         /\ conn'[x].pc = "dialing" => conn'[x].todo # <<>>
    BY <1>1, <1>3, TypeParts
  <2> QED
    BY <1>1, <1>2, <2>1, <2>2, <2>3, TypeParts, Zenon DEF TypeOK
<1>5. ASSUME NEW a, a # b, Clear(a) PROVE Clear(a)'
  <2>1. ASSUME NEW d \in Conns, conn'[d].pc = "dialing", Head(conn'[d].todo) = a
        PROVE  conn'[d].steady
    <3>1. conn[d].pc = "dialing" /\ Head(conn[d].todo) = a
      BY <1>3, <2>1
    <3>2. DialledBy(d) = {a} /\ conn[d].steady
      BY <1>5, <3>1, Zenon DEF DialledBy, Clear
    <3> QED
      BY <1>3, <1>5, <3>2, Zenon
  <2> QED
    BY <1>2, <1>5, <2>1, Zenon DEF Clear
<1>6. ASSUME NEW x \in Conns PROVE ConnInv(x)'
  <2>1. RungInv(x)' /\ DialInv(x)'
    BY <1>3, RoutingFacts, Zenon DEF RungInv, DialInv, Dials
  <2>2. ASSUME NEW a \in owed[x], a # b, conn[x].pc \in Underway PROVE Ahead(x, a)'
    <3>1. PICK i \in 1..Len(conn[x].rungs) : Leads(conn[x], i, a)
      BY <2>2, RoutingFacts, Zenon DEF OwedInv, Ahead
    <3>2. Leads(conn[x], i, a)'
      BY <1>3, <1>5, <2>2, <3>1, Zenon DEF Leads
    <3> QED
      BY <1>3, <3>2, Zenon DEF Ahead
  <2>3. owed'[x] \subseteq net'
    BY <1>2, <1>3, RoutingFacts DEF OwedInv
  <2>4. ASSUME NEW a \in owed'[x] \cap DialledBy(x)' PROVE conn'[x].steady
    <3>1. a \in owed[x] \cap DialledBy(x) /\ a # b
      BY <1>3, <2>4
    <3>2. conn[x].steady
      BY <3>1, RoutingFacts, Zenon DEF OwedInv
    <3>3. DialledBy(x) \subseteq {a}
      BY <3>1 DEF DialledBy
    <3> QED
      BY <1>3, <3>1, <3>2, <3>3, Zenon
  <2>5. OwedInv(x)'
    BY <1>3, <2>2, <2>3, <2>4, RoutingFacts, Zenon DEF OwedInv
  <2> QED
    BY <2>1, <2>5 DEF ConnInv
<1> QED
  BY <1>4, <1>6 DEF IInv

LEMMA CooldownsEnd ==
    ASSUME IInv, cooling' \subseteq cooling, UNCHANGED <<net, changes, conn, owed>>
    PROVE  IInv'
<1>1. net' = net /\ changes' = changes /\ conn' = conn /\ owed' = owed
  OBVIOUS
<1>2. TypeOK'
  BY <1>1 DEF IInv, TypeOK
<1>3. \A a : Clear(a) => Clear(a)'
  BY <1>1 DEF Clear
<1>4. ASSUME NEW c \in Conns PROVE ConnInv(c)'
  <2>1. RungInv(c)' /\ DialInv(c)'
    <3>1. conn'[c] = conn[c] /\ RungInv(c) /\ DialInv(c)
      BY <1>1, RoutingFacts
    <3> QED
      BY <3>1, Zenon DEF RungInv, DialInv, Dials
  <2>2. \A a : Ahead(c, a) => Ahead(c, a)'
    BY <1>1, <1>3, Zenon DEF Ahead, Leads
  <2>3. DialledBy(c)' = DialledBy(c)
    BY <1>1, Zenon DEF DialledBy
  <2>4. OwedInv(c)'
    BY <1>1, <2>2, <2>3, RoutingFacts, Zenon DEF OwedInv
  <2> QED
    BY <2>1, <2>4 DEF ConnInv
<1> QED
  BY <1>2, <1>4, SMTT(20), Zenon DEF IInv

-----------------------------------------------------------------------------
LEMMA InitIInv == Init => IInv
<1> SUFFICES ASSUME Init PROVE IInv
  OBVIOUS
<1>1. conn = [c \in Conns |-> Idle] /\ owed = [c \in Conns |-> {}]
  BY DEF Init
<1>2. TypeOK
  <2>1. cooling \subseteq CooldownKeys /\ net \subseteq Addresses /\ changes \in 0..MaxChanges
    BY LadderAssumption DEF Init
  <2>2. conn \in [Conns -> Routing] /\ owed \in [Conns -> SUBSET Addresses]
    BY <1>1, IdleFields
  <2>3. \A c \in Conns : conn[c].pc = "out"
    BY <1>1, IdleFields
  <2> QED
    BY <2>1, <2>2, <2>3 DEF TypeOK
<1>3. ASSUME NEW c \in Conns PROVE ConnInv(c)
  BY <1>1, IdleFields, Zenon DEF ConnInv, RungInv, OwedInv, DialInv, Underway, WsStages
<1> QED
  BY <1>2, <1>3 DEF IInv

LEMMA NextIInv == IInv /\ [Next]_vars => IInv'
<1> SUFFICES ASSUME IInv, [Next]_vars PROVE IInv'
  OBVIOUS
<1>1. CASE UNCHANGED vars
  BY <1>1, CooldownsEnd DEF vars
<1>2. CASE Next
  <2>1. ASSUME NEW x \in Expiring, Expire(x) PROVE IInv'
    BY <2>1, CooldownsEnd DEF Expire
  <2> QED
    BY <1>2, <2>1, NetChangeStep, RouteStep, FinishStep, AcceptStep, Zenon DEF Next
<1> QED
  BY <1>1, <1>2

(***************************************************************************)
(* The inductive invariant holds in every reachable state.                 *)
(***************************************************************************)
THEOREM LadderInvariant == Spec => []IInv
<1> QED
  BY InitIInv, NextIInv, PTL DEF Spec

(***************************************************************************)
(* A connection ends on raw TCP, or is dropped, only when no address ahead *)
(* of it had to serve it: select_upstream and its rungs, whatever the      *)
(* other connections do to the shared cooldown maps in the meantime.       *)
(***************************************************************************)
THEOREM ReachableTierServesHolds == Spec => []ReachableTierServes
<1>1. IInv => ReachableTierServes
  BY SMTT(20), Zenon DEF IInv, ConnInv, OwedInv, ReachableTierServes
<1> QED
  BY <1>1, LadderInvariant, PTL

(***************************************************************************)
(* pinned_ladder never drops a connection without a dial, where there is   *)
(* an address for its DC and a pinned tier that is not skipped: the forced *)
(* last resort is dialled through any cooldown.                            *)
(***************************************************************************)
THEOREM PinnedDropDialledHolds == Spec => []PinnedDropDialled
<1>1. IInv => PinnedDropDialled
  BY DEF IInv, ConnInv, DialInv, PinnedDropDialled
<1> QED
  BY <1>1, LadderInvariant, PTL

(***************************************************************************)
(* A routing only moves down its ladder: each of its steps serves or drops *)
(* the connection, passes a rung, starts on the rung, or comes nearer to   *)
(* the rung's end.  This is a descent in a lexicographic order, so that no *)
(* cooldown, no network and no other connection makes a connection route   *)
(* for ever: with the fairness of Route, the reason for Routed.            *)
(***************************************************************************)
Stage(r) ==
    CASE r.pc = "walk"      -> 2 * Len(r.todo) + 1
      [] r.pc = "dialing"   -> 2 * Len(r.todo)
      [] r.pc = "wstimer"   -> 2
      [] r.pc = "wsdialing" -> 1
      [] OTHER              -> 0

Closer(r, q) ==
    \/ q.pc = "done"
    \/ q.class = r.class /\ Len(q.rungs) < Len(r.rungs)
    \/ q.class = r.class /\ q.rungs = r.rungs /\ r.pc = "rung" /\ q.pc # "rung"
    \/ q.class = r.class /\ q.rungs = r.rungs /\ r.pc # "rung" /\ q.pc # "rung"
          /\ Stage(q) < Stage(r)

Advances == \A c \in Conns : Route(c) => Closer(conn[c], conn'[c])

LEMMA NextRungCloser ==
    ASSUME NEW r \in Routing, r.rungs # <<>>
    PROVE  Closer(r, NextRung(r))
<1>1. Len(Tail(r.rungs)) < Len(r.rungs)
  BY Fields, TailFacts, SMTT(20), Zenon
<1> QED
  BY <1>1, NextRungFields, Zenon DEF Closer

LEMMA NextTargetCloser ==
    ASSUME NEW r \in Routing, r.todo # <<>>, r.pc \in {"walk", "dialing"}
    PROVE  Closer(r, NextTarget(r))
<1> DEFINE q == NextTarget(r)
<1>1. q.pc = "walk" /\ q.todo = Tail(r.todo) /\ q.class = r.class /\ q.rungs = r.rungs
  BY NextTargetFields
<1>2. Len(q.todo) = Len(r.todo) - 1 /\ Len(r.todo) \in Nat
  BY <1>1, Fields, TailFacts
<1> HIDE DEF q
<1>3. Stage(q) = 2 * Len(q.todo) + 1
  BY <1>1, Zenon DEF Stage
<1>4. Stage(r) = 2 * Len(r.todo) + 1 \/ Stage(r) = 2 * Len(r.todo)
  BY Zenon DEF Stage
<1>5. Stage(q) < Stage(r)
  BY <1>2, <1>3, <1>4
<1> QED
  BY <1>1, <1>5 DEF Closer, q

THEOREM RouteAdvances == Spec => [][Advances]_vars
<1>1. ASSUME IInv, NEW c \in Conns, Route(c) PROVE Closer(conn[c], conn'[c])
  <2> DEFINE r == conn[c]
             p == conn'[c]
  <2>1. r \in Routing /\ conn \in [Conns -> Routing] /\ r.todo \in Seq(Addresses) /\ Len(r.todo) \in Nat
    BY <1>1, RoutingFacts, TypeParts, LenProperties
  <2>2. ASSUME NEW tier \in Tiers \cup {"dropped", "skipped"}, conn' = [conn EXCEPT ![c] = Served(r, tier)]
        PROVE  Closer(r, p)
    BY <2>1, <2>2 DEF Closer, Served, Routing
  <2>3. ASSUME r.rungs # <<>>, conn' = [conn EXCEPT ![c] = NextRung(r)] PROVE Closer(r, p)
    BY <2>1, <2>3, NextRungCloser, SMTT(20), Zenon
  <2>4. ASSUME r.todo # <<>>, r.pc \in {"walk", "dialing"}, conn' = [conn EXCEPT ![c] = NextTarget(r)]
        PROVE  Closer(r, p)
    BY <2>1, <2>4, NextTargetCloser
  <2>5. r.rungs # <<>> => Head(r.rungs).tier \in Tiers \cup {"skipped"}
    <3>1. ASSUME r.rungs # <<>> PROVE Head(r.rungs) \in Rungs
      BY <1>1, <3>1, RoutingFacts, TailFacts, SMTT(20), Zenon
    <3> QED
      BY <3>1, SMTT(20), Zenon DEF Rungs
  <2>6. r.pc \notin {"out", "rung", "done"} => r.rungs # <<>>
    BY <1>1, RoutingFacts, TypeParts, SMTT(20), Zenon
  <2>7. CASE Drop(c) \/ tcp_fallback(c) \/ PoolHit(c) \/ WsClearIp(c)
    BY <2>2, <2>5, <2>7, SMTT(20), Zenon DEF Drop, tcp_fallback, PoolHit, WsClearIp, Tiers
  <2>8. CASE EnterTier(c) \/ WsMiss(c)
    <3>1. ASSUME EnterTier(c)
          PROVE  r.pc = "rung" /\ p.pc = "walk" /\ p.class = r.class /\ p.rungs = r.rungs
      <4>1. PICK order : conn' = [conn EXCEPT ![c] = [r EXCEPT !.pc = "walk", !.todo = order]]
        BY <3>1, Zenon DEF EnterTier
      <4> QED
        BY <2>1, <3>1, <4>1 DEF EnterTier, Routing
    <3>2. ASSUME WsMiss(c)
          PROVE  r.pc = "rung" /\ p.pc = "wstimer" /\ p.class = r.class /\ p.rungs = r.rungs
      BY <2>1, <3>2, SMTT(20), Zenon DEF WsMiss, Routing
    <3> QED
      BY <2>8, <3>1, <3>2 DEF Closer
  <2>9. CASE Walk(c)
    <3>1. CASE r.todo # <<>> /\ conn' = [conn EXCEPT ![c] = Dialling(r, "dialing")]
      <4>1. /\ p.pc = "dialing" /\ p.todo = r.todo /\ p.class = r.class /\ p.rungs = r.rungs
            /\ r.pc = "walk"
        BY <2>1, <2>9, <3>1, DiallingFields, Zenon DEF Walk
      <4> HIDE DEF r, p
      <4>2. Stage(p) = 2 * Len(p.todo) /\ Stage(r) = 2 * Len(r.todo) + 1
        BY <4>1, Zenon DEF Stage
      <4>3. Stage(p) < Stage(r)
        BY <2>1, <4>1, <4>2, SMTT(20), Zenon
      <4> QED
        BY <4>1, <4>3 DEF Closer, r, p
    <3> QED
      BY <2>3, <2>4, <2>6, <2>9, <3>1, SMTT(20), Zenon DEF Walk
  <2>10. CASE DialEnd(c)
    <3>1. r.todo # <<>> /\ r.pc = "dialing" /\ r.rungs # <<>>
      BY <1>1, <2>10, RoutingFacts, TypeParts, Zenon DEF DialEnd
    <3>2. \/ conn' = [conn EXCEPT ![c] = Served(r, Head(r.rungs).tier)]
          \/ conn' = [conn EXCEPT ![c] = NextTarget(r)]
      BY <2>10, Zenon DEF DialEnd
    <3> QED
      BY <2>2, <2>4, <2>5, <3>1, <3>2
  <2>11. CASE connect_ws(c)
    <3>1. /\ p.pc = "wsdialing" /\ p.class = r.class /\ p.rungs = r.rungs /\ r.pc = "wstimer"
      BY <2>1, <2>11, DiallingFields DEF connect_ws
    <3> HIDE DEF r, p
    <3>2. Stage(p) = 1 /\ Stage(r) = 2
      BY <3>1, Zenon DEF Stage
    <3> QED
      BY <3>1, <3>2, SMTT(20), Zenon DEF Closer, r, p
  <2>12. ASSUME r.pc = "wsdialing", NEW pc \in {"wsclear", "wscool"},
                conn' = [conn EXCEPT ![c] = [r EXCEPT !.pc = pc]]
         PROVE  Closer(r, p)
    <3>1. p.pc = pc /\ p.class = r.class /\ p.rungs = r.rungs
      BY <2>1, <2>12 DEF Routing
    <3> HIDE DEF r, p
    <3>2. p.pc \notin {"walk", "dialing", "wstimer", "wsdialing", "rung"}
      BY <3>1
    <3>3. Stage(p) = 0 /\ Stage(r) = 1
      BY <2>12, <3>2, Zenon DEF Stage
    <3> QED
      BY <2>12, <3>1, <3>2, <3>3 DEF Closer, r, p
  <2>13. CASE WsConnected(c)
    BY <2>12, <2>13 DEF WsConnected
  <2>14. CASE (\E timed_out \in BOOLEAN : WsFailed(c, timed_out)) \/ cool_down_ip(c)
    <3>1. \/ r.pc = "wsdialing" /\ conn' = [conn EXCEPT ![c] = [r EXCEPT !.pc = "wscool"]]
          \/ r.pc \in {"wsdialing", "wscool"} /\ conn' = [conn EXCEPT ![c] = NextRung(r)]
      BY <2>14, Zenon DEF WsFailed, cool_down_ip
    <3> QED
      BY <2>3, <2>6, <2>12, <3>1
  <2> QED
    BY <1>1, <2>7, <2>8, <2>9, <2>10, <2>11, <2>13, <2>14, Zenon DEF Route
<1>2. IInv => Advances
  BY <1>1 DEF Advances
<1> QED
  BY <1>2, LadderInvariant, PTL DEF Spec

=============================================================================
