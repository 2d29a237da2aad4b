--------------------------- MODULE WsClientProofs ---------------------------
(***************************************************************************)
(* Proofs about the Cloudflare and direct connects (module WsClient), for  *)
(* any lists of edges and domains and any number of calls that share the   *)
(* rotation and the cooldowns. What other calls cool or rotate is not in a *)
(* call's own state, so the invariant says of each call what it has left   *)
(* to dial and what it has already tried: these only it can change.        *)
(***************************************************************************)
EXTENDS WsClient, WellFoundedInduction, TLAPS

\* No attempt runs out of edges without having dialled one.
DialInv(c) ==
    pc[c] = "edge" => path[c].left # {} \/ path[c].last # None \/ path[c].redirected

\* Which of the three calls is at which place.
PlaceInv(c) ==
    /\ pc[c] \in {"attempt", "edge"} => kind[c] \in {"walk", "single"}
    /\ pc[c] = "direct" => kind[c] = "direct"

(***************************************************************************)
(* The iterator: ordinals before next_ordinal are dealt with, and a        *)
(* pending retry is of one of them.                                        *)
(***************************************************************************)
Walking(a) ==
    /\ a.first_domain < Len(Domains)
    /\ a.pending_retry # NoRetry => a.pending_retry < a.next_ordinal

WalkInv(c) ==
    kind[c] = "walk" =>
        /\ pc[c] \in {"attempt", "edge"} => Walking(attempts[c])
        /\ pc[c] = "edge" => attempts[c].next_ordinal > 0 /\ attempts[c].domain \in Range(Domains)

(***************************************************************************)
(* The flags a call has so far, and in an attempt the result so far, tell  *)
(* the outcomes so far.                                                    *)
(***************************************************************************)
FlagsInv(c) ==
    /\ kind[c] = "walk" /\ pc[c] = "attempt" =>
          /\ outcomes[c] \subseteq {"redirect", "other"}
          /\ flags[c].all_redirects <=> "other" \notin outcomes[c]
          /\ attempts[c].next_ordinal > 0 => outcomes[c] # {}
    /\ kind[c] = "walk" /\ pc[c] = "edge" =>
          /\ outcomes[c] \subseteq {"redirect", "other"}
          /\ flags[c].all_redirects /\ path[c].last = None <=> "other" \notin outcomes[c]
          /\ path[c].last # None \/ path[c].redirected => outcomes[c] # {}
    /\ pc[c] = "direct" =>
          /\ flags[c].all_redirects <=> outcomes[c] \subseteq {"redirect"}
          /\ flags[c].upgrade_timed_out <=> "timed_out" \in outcomes[c]
          /\ flags[c].connect_timed_out <=> "connect_timed_out" \in outcomes[c]

(***************************************************************************)
(* The tries of each domain: none before its first ordinal is reached, one *)
(* while its retry is pending, then two, or one that took the timeout.     *)
(***************************************************************************)
Before(first, d, n) == \E o \in 0..(n - 1) : DomainAt(first, o) = d

Settled(a, d, n, s) ==
    IF Before(a.first_domain, d, a.next_ordinal) THEN n = (IF d \in s THEN 1 ELSE 2)
    ELSE n = 0 /\ d \notin s

Retrying(a, d) == a.pending_retry # NoRetry /\ DomainAt(a.first_domain, a.pending_retry) = d

Tried(a, d, n, s) == IF Retrying(a, d) THEN n = 1 /\ d \notin s ELSE Settled(a, d, n, s)

Trying(a, d, n, s) ==
    IF a.domain # d THEN Settled(a, d, n, s)
    ELSE /\ Before(a.first_domain, d, a.next_ordinal)
         /\ d \notin s
         /\ IF a.pending_retry = NoRetry THEN n = 1 ELSE n = 0 /\ Retrying(a, d)

TriesInv(c) ==
    kind[c] = "walk" =>
        \A d \in Range(Domains) :
            /\ pc[c] = "attempt" => Tried(attempts[c], d, tries[c][d], slow[c])
            /\ pc[c] = "edge" =>
                  /\ Trying(attempts[c], d, tries[c][d], slow[c])
                  /\ Retrying(attempts[c], d) => attempts[c].domain = d

\* FlagsTell and DomainsCovered, of one call.
Told(c) ==
    Failed(c) =>
        /\ kind[c] # "single" => (flags[c].all_redirects <=> outcomes[c] = {"redirect"})
        /\ kind[c] = "direct" =>
              /\ flags[c].upgrade_timed_out <=> "timed_out" \in outcomes[c]
              /\ flags[c].connect_timed_out <=> "connect_timed_out" \in outcomes[c]

Covered(c) ==
    kind[c] = "walk" /\ Failed(c) =>
        \A d \in Range(Domains) : tries[c][d] = (IF d \in slow[c] THEN 1 ELSE 2)

CallInv(c) ==
    DialInv(c) /\ PlaceInv(c) /\ WalkInv(c) /\ FlagsInv(c) /\ TriesInv(c) /\ Told(c) /\ Covered(c)

(***************************************************************************)
(* An edge of `steady` serves now; while the call walks over its edges, it *)
(* is still ahead, and the dial of it, if it has begun, found it serving.  *)
(***************************************************************************)
SteadyNow(c) == \A e \in steady[c] : net[e] = "serves" /\ e \notin cooling

SteadyAhead(c) ==
    /\ pc[c] = "attempt" /\ kind[c] = "walk" /\ steady[c] # {} =>
          attempts[c].next_ordinal = 0 /\ attempts[c].pending_retry = NoRetry
    /\ pc[c] = "edge" =>
          \A e \in steady[c] :
              \E o \in path[c].left : EdgeFrom(cf_ips, path[c].first, o) = e
    /\ pc[c] = "edge" /\ path[c].left # {} /\ Dialled(c) \in steady[c] =>
          path[c].sent = "serves"
    /\ kind[c] # "direct" /\ Failed(c) => steady[c] = {}

IInv ==
    /\ TypeOK
    /\ rotation \in Offsets(cf_ips)
    /\ \A c \in Calls : CallInv(c) /\ SteadyNow(c) /\ SteadyAhead(c)

-----------------------------------------------------------------------------
LEMMA SmallestIn ==
    ASSUME NEW S \in SUBSET Nat, S # {}
    PROVE  Smallest(S) \in S /\ \A n \in S : Smallest(S) <= n
<1> DEFINE less == {p \in Nat \X Nat : p[1] < p[2]}
<1>1. IsWellFoundedOn(less, Nat)
  BY NatLessThanWellFounded DEF OpToRel
<1>2. PICK m \in S : \A n \in S : ~(<<n, m>> \in less)
  BY <1>1, WFMin, Zenon
<1>3. \A n \in S : m <= n
  <2> TAKE n \in S
  <2>1. n \in Nat /\ m \in Nat
    OBVIOUS
  <2>2. n < m => <<n, m>> \in less
    BY <2>1
  <2> QED
    BY <1>2, <2>1, <2>2
<1> HIDE DEF less
<1> QED
  BY <1>2, <1>3, Zenon DEF Smallest

LEMMA Remainder ==
    ASSUME NEW n \in Nat \ {0}, NEW x \in Nat
    PROVE  x % n \in 0..(n - 1)
OBVIOUS

LEMMA RemainderSmall ==
    ASSUME NEW n \in Nat \ {0}, NEW x \in 0..(n - 1)
    PROVE  x % n = x /\ (x + n) % n = x
<1>1. x % n = x
  OBVIOUS
<1>2. (x + n) % n = x
  OBVIOUS
<1> QED
  BY <1>1, <1>2

\* Every index is some number of places after the first, whichever that is.
LEMMA Reached ==
    ASSUME NEW n \in Nat \ {0}, NEW first \in 0..(n - 1), NEW i \in 0..(n - 1)
    PROVE  \E o \in 0..(n - 1) : (first + o) % n = i
<1>1. CASE first <= i
  <2>1. i - first \in 0..(n - 1) /\ first + (i - first) = i
    BY <1>1
  <2>2. (first + (i - first)) % n = i
    BY <2>1, RemainderSmall
  <2> QED
    BY <2>1, <2>2
<1>2. CASE i < first
  <2>1. (i + n) - first \in 0..(n - 1) /\ first + ((i + n) - first) = i + n
    BY <1>2
  <2>2. (first + ((i + n) - first)) % n = i
    BY <2>1, RemainderSmall
  <2> QED
    BY <2>1, <2>2
<1> QED
  BY <1>1, <1>2

LEMMA DomainCount == Len(Domains) \in Nat \ {0} /\ DOMAIN Domains = 1..Len(Domains)
BY WsClientAssumption

LEMMA DomainAtIn ==
    ASSUME NEW first \in Nat, NEW o \in Nat
    PROVE  DomainAt(first, o) \in Range(Domains)
<1>0. first + o \in Nat
  OBVIOUS
<1>1. (first + o) % Len(Domains) \in 0..(Len(Domains) - 1)
  BY <1>0, DomainCount, Remainder, Zenon
<1> QED
  BY <1>1, DomainCount DEF DomainAt, Range

LEMMA DomainReached ==
    ASSUME NEW first \in 0..(Len(Domains) - 1), NEW d \in Range(Domains)
    PROVE  \E o \in 0..(Len(Domains) - 1) : DomainAt(first, o) = d
<1>1. PICK i \in 1..Len(Domains) : Domains[i] = d
  BY DomainCount DEF Range
<1>2. i - 1 \in 0..(Len(Domains) - 1)
  BY DomainCount
<1>3. PICK o \in 0..(Len(Domains) - 1) : (first + o) % Len(Domains) = i - 1
  BY <1>2, DomainCount, Reached, Zenon
<1> QED
  BY <1>1, <1>3 DEF DomainAt

-----------------------------------------------------------------------------
\* The edges of a list.
EdgesOf(ips) == {EdgeFrom(ips, 0, o) : o \in Offsets(ips)}

LEMMA ListSize ==
    ASSUME NEW ips \in IpLists, ips # <<>>
    PROVE  Len(ips) \in Nat \ {0} /\ DOMAIN ips = 1..Len(ips)
BY WsClientAssumption

LEMMA OffsetsNat ==
    ASSUME NEW ips \in IpLists
    PROVE  Offsets(ips) \in SUBSET Nat /\ 0 \in Offsets(ips)
BY ListSize DEF Offsets

LEMMA EdgeReached ==
    ASSUME NEW ips \in IpLists, NEW first \in Offsets(ips), NEW e \in EdgesOf(ips)
    PROVE  \E o \in Offsets(ips) : EdgeFrom(ips, first, o) = e
<1>1. CASE ips = <<>>
  BY <1>1 DEF EdgesOf, EdgeFrom, Offsets
<1>2. CASE ips # <<>>
  <2>0. Len(ips) \in Nat \ {0}
    BY <1>2, ListSize
  <2>1. PICK i \in 0..(Len(ips) - 1) : e = EdgeFrom(ips, 0, i)
    BY <1>2 DEF EdgesOf, Offsets
  <2>2. (0 + i) % Len(ips) = i
    BY <2>0, RemainderSmall
  <2>3. PICK o \in 0..(Len(ips) - 1) : (first + o) % Len(ips) = i
    BY <2>0, <1>2, Reached, Zenon DEF Offsets
  <2> QED
    BY <1>2, <2>1, <2>2, <2>3 DEF EdgeFrom, Offsets
<1> QED
  BY <1>1, <1>2

LEMMA EdgeFromIn ==
    ASSUME NEW ips \in IpLists, NEW first \in Nat, NEW o \in Nat
    PROVE  EdgeFrom(ips, first, o) \in EdgesOf(ips)
<1>1. CASE ips = <<>>
  BY <1>1 DEF EdgesOf, EdgeFrom, Offsets
<1>2. CASE ips # <<>>
  <2>0. Len(ips) \in Nat \ {0}
    BY <1>2, ListSize
  <2> DEFINE r == (first + o) % Len(ips)
  <2>1. r \in 0..(Len(ips) - 1)
    <3>1. first + o \in Nat
      OBVIOUS
    <3> QED
      BY <2>0, <3>1, Remainder, Zenon
  <2>2. (0 + r) % Len(ips) = r
    BY <2>0, <2>1, RemainderSmall
  <2>3. EdgeFrom(ips, first, o) = EdgeFrom(ips, 0, r)
    BY <1>2, <2>2 DEF EdgeFrom
  <2> HIDE DEF r
  <2> QED
    BY <1>2, <2>1, <2>3 DEF EdgesOf, Offsets
<1> QED
  BY <1>1, <1>2

LEMMA InUseEdges == InUse = EdgesOf(cf_ips)
BY DEF InUse, EdgesOf

-----------------------------------------------------------------------------
(***************************************************************************)
(* Types.                                                                  *)
(***************************************************************************)
LEMMA AnycastEdge == Anycast \in Edges
BY Zenon DEF Edges

LEMMA InitType ==
    ASSUME Init
    PROVE  TypeOK
<1>1. NoAttempts \in Attempts /\ NoPath \in Path /\ NoFlags \in Flags
  BY DEF NoAttempts, NoPath, NoFlags, Attempts, Path, Flags, NoRetry, None
<1>2. NoTries \in [Range(Domains) -> Nat]
  BY DEF NoTries
<1>3. net \in [InUse -> Behaviours]
  <2>1. PICK n \in Networks : net = [e \in InUse |-> n[e]]
    BY DEF Init
  <2>2. n \in [Edges -> Behaviours]
    BY WsClientAssumption
  <2>3. InUse \subseteq Edges
    <3> SUFFICES ASSUME NEW e \in InUse PROVE e \in Edges
      OBVIOUS
    <3>0. cf_ips \in IpLists
      BY DEF Init
    <3>1. CASE cf_ips = <<>>
      <4>1. e = Anycast
        BY <3>1 DEF InUse, EdgeFrom
      <4> QED
        BY <4>1, AnycastEdge
    <3>2. CASE cf_ips # <<>>
      <4>1. PICK o \in 0..(Len(cf_ips) - 1) : e = cf_ips[((0 + o) % Len(cf_ips)) + 1]
        BY <3>2 DEF InUse, EdgeFrom, Offsets
      <4>2. Len(cf_ips) \in Nat \ {0} /\ DOMAIN cf_ips = 1..Len(cf_ips)
        BY <3>0, <3>2, ListSize
      <4>3. (0 + o) % Len(cf_ips) = o
        BY <4>2, RemainderSmall
      <4>4. e \in Range(cf_ips)
        BY <4>1, <4>2, <4>3 DEF Range
      <4> QED
        BY <4>4, <3>0, Zenon DEF Edges
    <3> QED
      BY <3>1, <3>2
  <2> QED
    BY <2>1, <2>2, <2>3
<1>4. MaxChanges \in Nat
  BY WsClientAssumption
<1> QED
  BY <1>1, <1>2, <1>3, <1>4 DEF Init, TypeOK

LEMMA AttemptLeft ==
    ASSUME NEW ips \in IpLists, NEW first \in Nat
    PROVE  cf_ip_attempts(ips, first) \in SUBSET Offsets(ips) /\ cf_ip_attempts(ips, first) # {}
BY OffsetsNat DEF cf_ip_attempts

LEMMA NextSentType ==
    ASSUME TypeOK, NEW first \in Nat, NEW left \in SUBSET Nat
    PROVE  NextSent(first, left) \in Behaviours \cup {None}
<1>1. CASE left = {}
  BY <1>1 DEF NextSent
<1>2. CASE left # {}
  <2>1. Smallest(left) \in Nat
    BY <1>2, SmallestIn, Zenon
  <2>2. EdgeFrom(cf_ips, first, Smallest(left)) \in InUse
    BY <2>1, EdgeFromIn, InUseEdges, Zenon DEF TypeOK
  <2> QED
    BY <1>2, <2>2 DEF NextSent, TypeOK
<1> QED
  BY <1>1, <1>2

LEMMA FreshIn ==
    ASSUME NEW a \in Attempts, Fresh(a) # {}
    PROVE  Smallest(Fresh(a)) \in Fresh(a) /\ Smallest(Fresh(a)) \in a.next_ordinal..(Len(Domains) - 1)
           /\ Smallest(Fresh(a)) \in Nat
<1>1. Fresh(a) \in SUBSET Nat
  BY DomainCount DEF Fresh, Attempts
<1>2. Smallest(Fresh(a)) \in Fresh(a)
  BY <1>1, SmallestIn
<1> QED
  BY <1>1, <1>2 DEF Fresh

LEMMA AttemptsUpdate ==
    \A a \in Attempts, d \in Range(Domains), n \in Nat, p \in Nat \cup {NoRetry} :
        [a EXCEPT !.domain = d, !.next_ordinal = n, !.pending_retry = p] \in Attempts
<1> TAKE a \in Attempts, d \in Range(Domains), n \in Nat, p \in Nat \cup {NoRetry}
<1> QED
  BY Zenon DEF Attempts

LEMMA NextDomainType ==
    ASSUME NEW a \in Attempts, HasNext(a)
    PROVE  next_domain(a) \in Attempts
<1> DEFINE m == Smallest(Fresh(a))
           d == DomainAt(a.first_domain, m)
<1>0. a.first_domain \in Nat /\ a.pending_retry \in Nat \cup {NoRetry}
  BY DEF Attempts
<1>1. CASE a.pending_retry # NoRetry
  <2>1. DomainAt(a.first_domain, a.pending_retry) \in Range(Domains)
    BY <1>0, <1>1, DomainAtIn
  <2>2. next_domain(a) = [a EXCEPT !.domain = DomainAt(a.first_domain, a.pending_retry),
                                   !.pending_retry = NoRetry]
    BY <1>1 DEF next_domain
  <2> QED
    BY <2>1, <2>2, Zenon DEF Attempts
<1>2. CASE a.pending_retry = NoRetry
  <2>1. m \in Nat
    BY <1>2, FreshIn DEF HasNext
  <2>2. d \in Range(Domains)
    BY <1>0, <2>1, DomainAtIn
  <2>3. next_domain(a) = [a EXCEPT !.domain = d, !.next_ordinal = m + 1, !.pending_retry = m]
    BY <1>2 DEF next_domain
  <2> HIDE DEF m, d
  <2>4. m + 1 \in Nat /\ m \in Nat \cup {NoRetry}
    BY <2>1
  <2> QED
    <3>1. [a EXCEPT !.domain = d, !.next_ordinal = m + 1, !.pending_retry = m] \in Attempts
      BY <2>2, <2>4, AttemptsUpdate, Zenon
    <3> QED
      BY <2>3, <3>1
<1> QED
  BY <1>1, <1>2

LEMMA TypeParts ==
    ASSUME TypeOK
    PROVE  /\ cf_ips \in IpLists /\ direct \in DirectSets
           /\ net \in [InUse -> Behaviours] /\ rotation \in Nat
           /\ pc \in [Calls -> {"out", "attempt", "edge", "direct", "done"}]
           /\ kind \in [Calls -> {"walk", "single", "direct", None}]
           /\ attempts \in [Calls -> Attempts] /\ path \in [Calls -> Path]
           /\ flags \in [Calls -> Flags]
           /\ outcomes \in [Calls -> SUBSET (Outcomes \cup {"other"})]
           /\ steady \in [Calls -> SUBSET InUse]
           /\ tries \in [Calls -> [Range(Domains) -> Nat]]
           /\ slow \in [Calls -> SUBSET Range(Domains)]
BY DEF TypeOK

LEMMA ReturnType ==
    ASSUME TypeOK, NEW c \in Calls, NEW result \in Flags, Return(c, result)
    PROVE  /\ pc' \in [Calls -> {"out", "attempt", "edge", "direct", "done"}]
           /\ kind' \in [Calls -> {"walk", "single", "direct", None}]
           /\ attempts' \in [Calls -> Attempts] /\ path' \in [Calls -> Path]
           /\ flags' \in [Calls -> Flags]
<1>1. NoAttempts \in Attempts /\ NoPath \in Path
  BY DEF NoAttempts, NoPath, Attempts, Path, NoRetry, None
<1> QED
  BY <1>1, TypeParts DEF Return

LEMMA NetChangeType ==
    ASSUME TypeOK, NEW e \in InUse, NEW b \in Behaviours, NetChange(e, b)
    PROVE  TypeOK'
<1>1. InUse' = InUse
  BY DEF NetChange, config, InUse
<1>2. changes' \in 0..MaxChanges
  BY WsClientAssumption DEF NetChange, TypeOK
<1>3. net' \in [InUse -> Behaviours] /\ steady' \in [Calls -> SUBSET InUse]
  BY TypeParts DEF NetChange
<1> QED
  BY <1>1, <1>2, <1>3 DEF NetChange, TypeOK, config, calls

LEMMA ExpireType ==
    ASSUME TypeOK, NEW e \in Edges, Expire(e)
    PROVE  TypeOK'
<1>1. InUse' = InUse
  BY DEF Expire, config, InUse
<1> QED
  BY <1>1 DEF Expire, TypeOK, config, calls, history

LEMMA BeginType ==
    ASSUME TypeOK, NEW c \in Calls, NEW k \in Kinds[c], NEW first \in FirstDomains,
           Begin(c, k, first)
    PROVE  TypeOK'
<1> DEFINE a == [NoAttempts EXCEPT !.first_domain = first % Len(Domains)]
<1>1. InUse' = InUse
  BY DEF Begin, config, InUse
<1>2. k \in {"walk", "single", "direct"}
  BY WsClientAssumption
<1>3. a \in Attempts
  <2>1. first % Len(Domains) \in Nat
    <3>1. first \in Nat
      BY WsClientAssumption
    <3>2. first % Len(Domains) \in 0..(Len(Domains) - 1)
      BY <3>1, DomainCount, Remainder, Zenon
    <3> QED
      BY <3>2, DomainCount
  <2> QED
    BY <2>1 DEF NoAttempts, Attempts, NoRetry, None
<1>4. NoFlags \in Flags /\ NoTries \in [Range(Domains) -> Nat]
  BY DEF NoFlags, Flags, NoTries
<1>5. attempts' = [attempts EXCEPT ![c] = a]
  BY DEF Begin
<1> HIDE DEF a
<1>6. attempts' \in [Calls -> Attempts]
  BY <1>3, <1>5, TypeParts
<1>7. pc' \in [Calls -> {"out", "attempt", "edge", "direct", "done"}]
      /\ kind' \in [Calls -> {"walk", "single", "direct", None}] /\ flags' \in [Calls -> Flags]
  BY <1>2, <1>4, TypeParts DEF Begin
<1>8. outcomes' \in [Calls -> SUBSET (Outcomes \cup {"other"})] /\ steady' \in [Calls -> SUBSET InUse]
  BY TypeParts DEF Begin
<1>9. tries' \in [Calls -> [Range(Domains) -> Nat]] /\ slow' \in [Calls -> SUBSET Range(Domains)]
  BY <1>4, TypeParts DEF Begin
<1> QED
  BY <1>1, <1>6, <1>7, <1>8, <1>9 DEF Begin, TypeOK, config

\* What a call that begins an attempt has then.
BegunPath(first, left) ==
    [NoPath EXCEPT !.first = first, !.left = left, !.sent = NextSent(first, left)]

LEMMA BegunPathType ==
    ASSUME TypeOK, NEW first \in Nat, NEW left \in SUBSET Nat
    PROVE  /\ BegunPath(first, left) \in Path
           /\ BegunPath(first, left).first = first /\ BegunPath(first, left).left = left
           /\ BegunPath(first, left).sent = NextSent(first, left)
           /\ BegunPath(first, left).last = None /\ ~BegunPath(first, left).redirected
<1> DEFINE sent == NextSent(first, left)
<1>1. sent \in Behaviours \cup {None}
  BY NextSentType
<1>2. BegunPath(first, left) = [NoPath EXCEPT !.first = first, !.left = left, !.sent = sent]
  BY DEF BegunPath
<1> HIDE DEF sent
<1>3. BegunPath(first, left) =
         [first |-> first, left |-> left, sent |-> sent, last |-> None, redirected |-> FALSE]
  BY <1>2, Zenon DEF NoPath
<1>4. BegunPath(first, left).sent = NextSent(first, left)
  BY <1>3 DEF sent
<1> QED
  BY <1>1, <1>3, <1>4 DEF Path

LEMMA AttemptStep ==
    ASSUME TypeOK, NEW c \in Calls, Attempt(c)
    PROVE  \E left \in SUBSET Offsets(cf_ips) :
              /\ left = cf_ip_attempts(cf_ips, cf_ip_start(cf_ips)) /\ left # {}
              /\ path' = [path EXCEPT ![c] = BegunPath(cf_ip_start(cf_ips), left)]
              /\ BegunPath(cf_ip_start(cf_ips), left) \in Path
              /\ cf_ip_start(cf_ips) \in Nat
<1>1. cf_ip_start(cf_ips) \in Nat
  BY TypeParts DEF cf_ip_start
<1>2. cf_ips \in IpLists
  BY TypeParts
<1> DEFINE left == cf_ip_attempts(cf_ips, cf_ip_start(cf_ips))
<1>3. left \in SUBSET Offsets(cf_ips) /\ left # {}
  BY <1>1, <1>2, AttemptLeft
<1>4. left \in SUBSET Nat
  BY <1>2, <1>3, OffsetsNat
<1>5. path' = [path EXCEPT ![c] = BegunPath(cf_ip_start(cf_ips), left)]
  BY DEF Attempt, BegunPath
<1> HIDE DEF left
<1>6. BegunPath(cf_ip_start(cf_ips), left) \in Path
  BY <1>1, <1>4, BegunPathType
<1> QED
  BY <1>1, <1>3, <1>5, <1>6, Zenon DEF left

LEMMA AttemptType ==
    ASSUME TypeOK, NEW c \in Calls, Attempt(c)
    PROVE  TypeOK'
<1>1. InUse' = InUse
  BY DEF Attempt, config, InUse
<1>2. path' \in [Calls -> Path]
  BY AttemptStep, TypeParts
<1>3. attempts' \in [Calls -> Attempts]
  <2>1. CASE kind[c] = "walk"
    <3>1. HasNext(attempts[c]) /\ attempts' = [attempts EXCEPT ![c] = next_domain(attempts[c])]
      BY <2>1 DEF Attempt
    <3>2. next_domain(attempts[c]) \in Attempts
      BY <3>1, TypeParts, NextDomainType
    <3> QED
      BY <3>1, <3>2, TypeParts
  <2>2. CASE kind[c] # "walk"
    BY <2>2, TypeParts DEF Attempt
  <2> QED
    BY <2>1, <2>2
<1>4. rotation' \in Nat
  <2>1. CASE Len(cf_ips) <= 1
    BY <2>1, TypeParts DEF Attempt
  <2>2. CASE ~(Len(cf_ips) <= 1)
    <3>1. Len(cf_ips) \in Nat \ {0}
      BY <2>2, TypeParts, ListSize
    <3>2. rotation + 1 \in Nat
      BY TypeParts
    <3>3. (rotation + 1) % Len(cf_ips) \in 0..(Len(cf_ips) - 1)
      BY <3>1, <3>2, Remainder, Zenon
    <3> QED
      BY <2>2, <3>1, <3>3 DEF Attempt
  <2> QED
    BY <2>1, <2>2
<1>5. pc' \in [Calls -> {"out", "attempt", "edge", "direct", "done"}]
  BY TypeParts DEF Attempt
<1> QED
  BY <1>1, <1>2, <1>3, <1>4, <1>5 DEF Attempt, TypeOK, config, history

LEMMA FailedDialType ==
    ASSUME NEW p \in Path, NEW outcome \in Outcomes, outcome # "connected",
           NEW sent \in Behaviours \cup {None}
    PROVE  LET q == FailedDial(p, outcome, sent) IN
           /\ q \in Path
           /\ q.first = p.first /\ q.left = p.left \ {Smallest(p.left)} /\ q.sent = sent
           /\ q.last = (IF outcome = "redirect" THEN p.last ELSE outcome)
           /\ q.redirected = (p.redirected \/ outcome = "redirect")
<1> DEFINE q == FailedDial(p, outcome, sent)
           left == p.left \ {Smallest(p.left)}
           last == IF outcome = "redirect" THEN p.last ELSE outcome
           redirected == p.redirected \/ outcome = "redirect"
<1>1. q = [p EXCEPT !.left = left, !.last = last, !.redirected = redirected, !.sent = sent]
  BY DEF FailedDial
<1>2. left \in SUBSET Nat
  BY DEF Path
<1>3. last \in (Outcomes \ {"connected", "redirect"}) \cup {None}
  BY DEF Path
<1>4. redirected \in BOOLEAN
  OBVIOUS
<1>5. p = [first |-> p.first, left |-> p.left, sent |-> p.sent, last |-> p.last,
           redirected |-> p.redirected] /\ p.first \in Nat
  BY DEF Path
<1> HIDE DEF q, left, last, redirected
<1>6. q = [first |-> p.first, left |-> left, sent |-> sent, last |-> last,
           redirected |-> redirected]
  BY <1>1, <1>5, Zenon
<1>7. q \in Path
  BY <1>2, <1>3, <1>4, <1>5, <1>6 DEF Path
<1>8. q.first = p.first /\ q.left = left /\ q.sent = sent /\ q.last = last
      /\ q.redirected = redirected
  BY <1>6
<1> QED
  BY <1>7, <1>8 DEF q, left, last, redirected

LEMMA DialledType ==
    ASSUME TypeOK, NEW c \in Calls, path[c].left # {}
    PROVE  /\ Smallest(path[c].left) \in path[c].left /\ Smallest(path[c].left) \in Nat
           /\ \A o \in path[c].left : Smallest(path[c].left) <= o
           /\ path[c].first \in Nat /\ Dialled(c) \in InUse
<1>1. path[c].left \in SUBSET Nat /\ path[c].first \in Nat
  BY TypeParts DEF Path
<1>2. Smallest(path[c].left) \in path[c].left /\ \A o \in path[c].left : Smallest(path[c].left) <= o
  BY <1>1, SmallestIn
<1>3. Dialled(c) \in InUse
  BY <1>1, <1>2, TypeParts, EdgeFromIn, InUseEdges, Zenon DEF Dialled
<1> QED
  BY <1>1, <1>2, <1>3

LEMMA EdgeFails ==
    ASSUME TypeOK, NEW c \in Calls, NEW outcome \in Outcomes, outcome # "connected",
           EdgeEnds(c, outcome)
    PROVE  LET left == path[c].left \ {Smallest(path[c].left)}
               sent == NextSent(path[c].first, left)
               q == FailedDial(path[c], outcome, sent) IN
           /\ left \in SUBSET Nat
           /\ sent \in Behaviours \cup {None}
           /\ q \in Path
           /\ path' = [path EXCEPT ![c] = q]
           /\ UNCHANGED <<pc, kind, attempts, flags>>
<1> DEFINE left == path[c].left \ {Smallest(path[c].left)}
           sent == NextSent(path[c].first, left)
<1>1. path[c] \in Path /\ path[c].left \in SUBSET Nat /\ path[c].first \in Nat
  BY TypeParts DEF Path
<1>2. left \in SUBSET Nat
  BY <1>1
<1>3. sent \in Behaviours \cup {None}
  BY <1>1, <1>2, NextSentType
<1>4. FailedDial(path[c], outcome, sent) \in Path
  BY <1>1, <1>3, FailedDialType
<1>5. path' = [path EXCEPT ![c] = FailedDial(path[c], outcome, sent)]
  BY <1>1, TypeParts, SMTT(20), Zenon DEF EdgeEnds, FailedDial
<1>6. UNCHANGED <<pc, kind, attempts, flags>>
  BY DEF EdgeEnds
<1> QED
  BY <1>2, <1>3, <1>4, <1>5, <1>6

LEMMA ForgottenType ==
    ASSUME TypeOK, NEW c \in Calls, NEW outcome \in Outcomes, Forgotten(c, outcome)
    PROVE  tries' \in [Calls -> [Range(Domains) -> Nat]] /\ slow' \in [Calls -> SUBSET Range(Domains)]
<1>1. NoTries \in [Range(Domains) -> Nat]
  BY DEF NoTries
<1> QED
  BY <1>1, TypeParts, ZenonT(30) DEF Forgotten

LEMMA RememberedType ==
    ASSUME TypeOK, NEW c \in Calls, NEW outcome \in Outcomes
    PROVE  Remembered(c, outcome) \in SUBSET (Outcomes \cup {"other"})
BY TypeParts DEF Remembered, Outcomes

LEMMA EdgeEndsType ==
    ASSUME TypeOK, NEW c \in Calls, NEW outcome \in Outcomes, EdgeEnds(c, outcome)
    PROVE  TypeOK'
<1>1. InUse' = InUse
  BY Zenon DEF EdgeEnds, config, InUse
<1>2. cooling' \subseteq direct
  BY SMTT(20), Zenon DEF EdgeEnds, Cooled, TypeOK
<1>3. outcomes' \in [Calls -> SUBSET (Outcomes \cup {"other"})]
  BY RememberedType, TypeParts, SMTT(20), Zenon DEF EdgeEnds
<1>4. steady' \in [Calls -> SUBSET InUse]
  BY TypeParts, SMTT(20), Zenon DEF EdgeEnds
<1>5. tries' \in [Calls -> [Range(Domains) -> Nat]] /\ slow' \in [Calls -> SUBSET Range(Domains)]
  BY ForgottenType DEF EdgeEnds
<1>6. /\ pc' \in [Calls -> {"out", "attempt", "edge", "direct", "done"}]
      /\ kind' \in [Calls -> {"walk", "single", "direct", None}]
      /\ attempts' \in [Calls -> Attempts] /\ path' \in [Calls -> Path]
      /\ flags' \in [Calls -> Flags]
  <2>1. CASE outcome = "connected"
    <3>1. Connected \in Flags
      BY DEF Connected, Flags
    <3> QED
      BY <2>1, <3>1, ReturnType DEF EdgeEnds
  <2>2. CASE outcome # "connected"
    BY <2>2, EdgeFails, TypeParts, ZenonT(30)
  <2> QED
    BY <2>1, <2>2, SMTT(20), Zenon
<1> QED
  BY <1>1, <1>2, <1>3, <1>4, <1>5, <1>6, Zenon DEF EdgeEnds, TypeOK, config

LEMMA NotedType ==
    ASSUME NEW a \in Attempts, NEW result
    PROVE  LET b == note_timed_out(a, result) IN
           /\ b \in Attempts
           /\ b.first_domain = a.first_domain /\ b.next_ordinal = a.next_ordinal
           /\ b.pending_retry = (IF result \in TimedOut THEN NoRetry ELSE a.pending_retry)
<1> DEFINE b == note_timed_out(a, result)
           retry == IF result \in TimedOut THEN NoRetry ELSE a.pending_retry
<1>1. b = [a EXCEPT !.domain = None, !.pending_retry = retry]
  BY DEF note_timed_out
<1>2. retry \in Nat \cup {NoRetry}
  BY DEF Attempts
<1> HIDE DEF b, retry
<1>3. b \in Attempts /\ b.first_domain = a.first_domain /\ b.next_ordinal = a.next_ordinal
      /\ b.pending_retry = retry
  BY <1>1, <1>2, Zenon DEF Attempts
<1> QED
  BY <1>3 DEF b, retry

LEMMA PathReturnsType ==
    ASSUME TypeOK, NEW c \in Calls, WalkInv(c), PathReturns(c)
    PROVE  TypeOK'
<1>1. InUse' = InUse
  BY DEF PathReturns, config, InUse
<1>2. CASE kind[c] = "single" /\ Return(c, flags[c]) /\ UNCHANGED <<tries, slow>>
  <2>1. flags[c] \in Flags
    BY TypeParts
  <2>2. /\ pc' \in [Calls -> {"out", "attempt", "edge", "direct", "done"}]
        /\ kind' \in [Calls -> {"walk", "single", "direct", None}]
        /\ attempts' \in [Calls -> Attempts] /\ path' \in [Calls -> Path]
        /\ flags' \in [Calls -> Flags]
    BY <1>2, <2>1, ReturnType, SMTT(20), Zenon
  <2> QED
    BY <1>1, <1>2, <2>2 DEF PathReturns, TypeOK, config
<1>3. CASE kind[c] = "walk" /\ WalkGoesOn(c)
  <2>1. attempts[c].domain \in Range(Domains)
    BY <1>3 DEF WalkInv, PathReturns
  <2>2. attempts' \in [Calls -> Attempts]
    BY <1>3, TypeParts, NotedType DEF WalkGoesOn
  <2>3. NoPath \in Path
    BY DEF NoPath, Path, None
  <2>4. pc' \in [Calls -> {"out", "attempt", "edge", "direct", "done"}] /\ path' \in [Calls -> Path]
        /\ kind' \in [Calls -> {"walk", "single", "direct", None}]
    BY <1>3, <2>3, TypeParts DEF WalkGoesOn
  <2>5. flags' \in [Calls -> Flags]
    <3> DEFINE r == flags[c].all_redirects /\ PathResult(c) = "redirect"
               f == [flags[c] EXCEPT !.all_redirects = r]
    <3>1. flags' = [flags EXCEPT ![c] = f]
      BY <1>3, TypeParts DEF WalkGoesOn
    <3>2. flags[c] \in Flags /\ r \in BOOLEAN
      BY TypeParts
    <3> HIDE DEF r
    <3>3. f \in Flags
      BY <3>2 DEF Flags
    <3> HIDE DEF f
    <3> QED
      BY <3>1, <3>3, TypeParts
  <2>6. tries' \in [Calls -> [Range(Domains) -> Nat]]
    BY <1>3, <2>1, TypeParts DEF WalkGoesOn
  <2>7. slow' \in [Calls -> SUBSET Range(Domains)]
    BY <1>3, <2>1, TypeParts DEF WalkGoesOn
  <2> QED
    BY <1>1, <2>2, <2>4, <2>5, <2>6, <2>7, SMTT(20), Zenon DEF PathReturns, TypeOK, config
<1> QED
  BY <1>2, <1>3 DEF PathReturns

LEMMA WalkFailsType ==
    ASSUME TypeOK, NEW c \in Calls, WalkFails(c)
    PROVE  TypeOK'
<1>1. InUse' = InUse
  BY DEF WalkFails, config, InUse
<1>2. flags[c] \in Flags
  BY TypeParts
<1>3. /\ pc' \in [Calls -> {"out", "attempt", "edge", "direct", "done"}]
      /\ kind' \in [Calls -> {"walk", "single", "direct", None}]
      /\ attempts' \in [Calls -> Attempts] /\ path' \in [Calls -> Path]
      /\ flags' \in [Calls -> Flags]
  BY <1>2, ReturnType DEF WalkFails
<1> QED
  BY <1>1, <1>3 DEF WalkFails, TypeOK, config, history

LEMMA FlaggedType ==
    ASSUME NEW f \in Flags, NEW outcome \in Outcomes
    PROVE  LET g == Flagged(f, outcome) IN
           /\ g \in Flags /\ g.ws = f.ws
           /\ g.all_redirects = (f.all_redirects /\ outcome = "redirect")
           /\ g.upgrade_timed_out = (f.upgrade_timed_out \/ outcome = "timed_out")
           /\ g.connect_timed_out = (f.connect_timed_out \/ outcome = "connect_timed_out")
BY Zenon DEF Flagged, Flags

LEMMA DirectEndsType ==
    ASSUME TypeOK, NEW c \in Calls, NEW outcome \in Outcomes, DirectEnds(c, outcome)
    PROVE  TypeOK'
<1>1. InUse' = InUse
  BY DEF DirectEnds, config, InUse
<1>2. outcomes' \in [Calls -> SUBSET (Outcomes \cup {"other"})]
  BY RememberedType, TypeParts DEF DirectEnds
<1>3. steady' \in [Calls -> SUBSET InUse]
  BY TypeParts DEF DirectEnds
<1>4. tries' \in [Calls -> [Range(Domains) -> Nat]] /\ slow' \in [Calls -> SUBSET Range(Domains)]
  BY ForgottenType DEF DirectEnds
<1>5. flags[c] \in Flags /\ Flagged(flags[c], outcome) \in Flags /\ Connected \in Flags
  BY TypeParts, FlaggedType DEF Connected, Flags
<1>6. /\ pc' \in [Calls -> {"out", "attempt", "edge", "direct", "done"}]
      /\ kind' \in [Calls -> {"walk", "single", "direct", None}]
      /\ attempts' \in [Calls -> Attempts] /\ path' \in [Calls -> Path]
      /\ flags' \in [Calls -> Flags]
  <2>1. CASE Return(c, Connected)
    BY <2>1, <1>5, ReturnType
  <2>2. CASE Return(c, Flagged(flags[c], outcome))
    BY <2>2, <1>5, ReturnType
  <2>3. CASE /\ attempts' = [attempts EXCEPT ![c].next_ordinal = @ + 1]
             /\ flags' = [flags EXCEPT ![c] = Flagged(@, outcome)]
             /\ UNCHANGED <<pc, kind, path>>
    <3>1. flags' \in [Calls -> Flags]
      BY <2>3, <1>5, TypeParts
    <3>2. attempts' \in [Calls -> Attempts]
      <4> DEFINE n == attempts[c].next_ordinal + 1
                 a == [attempts[c] EXCEPT !.next_ordinal = n]
      <4>1. attempts' = [attempts EXCEPT ![c] = a]
        BY <2>3, TypeParts
      <4>2. attempts[c] \in Attempts /\ n \in Nat
        BY TypeParts DEF Attempts
      <4> HIDE DEF n
      <4>3. a \in Attempts
        BY <4>2 DEF Attempts
      <4> HIDE DEF a
      <4> QED
        BY <4>1, <4>3, TypeParts
    <3> QED
      BY <2>3, <3>1, <3>2, TypeParts
  <2> QED
    BY <2>1, <2>2, <2>3 DEF DirectEnds
<1> QED
  BY <1>1, <1>2, <1>3, <1>4, <1>6 DEF DirectEnds, TypeOK, config

-----------------------------------------------------------------------------
(***************************************************************************)
(* A step of one call leaves the others as they are, but for the edges     *)
(* they can rely on.                                                       *)
(***************************************************************************)
Same(c) ==
    /\ pc'[c] = pc[c] /\ kind'[c] = kind[c] /\ attempts'[c] = attempts[c] /\ path'[c] = path[c]
    /\ flags'[c] = flags[c] /\ outcomes'[c] = outcomes[c]
    /\ tries'[c] = tries[c] /\ slow'[c] = slow[c]
    /\ steady'[c] \subseteq steady[c]

LEMMA SameCallInv ==
    ASSUME NEW c \in Calls, CallInv(c), Same(c)
    PROVE  CallInv(c)'
<1>1. DialInv(c)' /\ PlaceInv(c)' /\ WalkInv(c)'
  BY DEF CallInv, Same, DialInv, PlaceInv, WalkInv
<1>2. FlagsInv(c)'
  BY Zenon DEF CallInv, Same, FlagsInv
<1>3. TriesInv(c)'
  BY Zenon DEF CallInv, Same, TriesInv
<1>4. Told(c)' /\ Covered(c)'
  BY DEF CallInv, Same, Told, Covered, Failed
<1> QED
  BY <1>1, <1>2, <1>3, <1>4, SMTT(20), Zenon DEF CallInv

LEMMA SameSteadyAhead ==
    ASSUME NEW c \in Calls, SteadyAhead(c), Same(c), cf_ips' = cf_ips
    PROVE  SteadyAhead(c)'
BY Zenon DEF SteadyAhead, Same, Dialled, Failed

\* A call that has connected owes nothing.
LEMMA ConnectedCall ==
    ASSUME TypeOK, NEW c \in Calls, Return(c, Connected)
    PROVE  CallInv(c)' /\ SteadyAhead(c)'
<1>1. pc'[c] = "done" /\ flags'[c].ws
  BY TypeParts DEF Return, Connected
<1>2. ~Failed(c)'
  BY <1>1 DEF Failed
<1>3. CallInv(c)'
  BY <1>1, <1>2, ZenonT(30) DEF CallInv, DialInv, PlaceInv, WalkInv, FlagsInv, TriesInv, Told, Covered
<1> QED
  BY <1>1, <1>2, <1>3 DEF SteadyAhead

LEMMA CallStepOthers ==
    ASSUME TypeOK, NEW c \in Calls, CallStep(c) \/ Start(c), NEW x \in Calls, x # c
    PROVE  Same(x) /\ UNCHANGED <<cf_ips, direct, net>>
<1>1. CASE Attempt(c)
  BY <1>1, TypeParts DEF Attempt, Same, config, history
<1>2. CASE PathReturns(c)
  BY <1>2, TypeParts, SMTT(20), Zenon DEF PathReturns, Return, WalkGoesOn, Same, config
<1>3. CASE WalkFails(c)
  BY <1>3, TypeParts DEF WalkFails, Return, Same, config, history
<1>4. ASSUME NEW outcome \in Outcomes, EdgeEnds(c, outcome)
      PROVE  Same(x) /\ UNCHANGED <<cf_ips, direct, net>>
  <2>1. /\ outcomes'[x] = outcomes[x] /\ steady'[x] = steady[x] \ cooling'
        /\ UNCHANGED <<cf_ips, direct, net>>
    BY <1>4, TypeParts, ZenonT(30) DEF EdgeEnds, config
  <2>2. tries'[x] = tries[x] /\ slow'[x] = slow[x]
    <3>1. Forgotten(c, outcome)
      BY <1>4, SMTT(20), Zenon DEF EdgeEnds
    <3> QED
      BY <3>1, TypeParts, SMTT(20), Zenon DEF Forgotten
  <2>3. /\ pc'[x] = pc[x] /\ kind'[x] = kind[x] /\ attempts'[x] = attempts[x]
        /\ path'[x] = path[x] /\ flags'[x] = flags[x]
    <3>1. CASE outcome = "connected"
      <4>1. Return(c, Connected)
        BY <1>4, <3>1 DEF EdgeEnds
      <4> QED
        BY <4>1, TypeParts, SMTT(20), Zenon DEF Return
    <3>2. CASE outcome # "connected"
      BY <1>4, <3>2, EdgeFails, TypeParts, ZenonT(30)
    <3> QED
      BY <3>1, <3>2
  <2> QED
    BY <2>1, <2>2, <2>3, Zenon DEF Same
<1>5. ASSUME NEW outcome \in Outcomes, DirectEnds(c, outcome)
      PROVE  Same(x) /\ UNCHANGED <<cf_ips, direct, net>>
  BY <1>5, TypeParts DEF DirectEnds, Return, Forgotten, Same, config
<1>6. ASSUME NEW k \in Kinds[c], NEW first \in FirstDomains, Begin(c, k, first)
      PROVE  Same(x) /\ UNCHANGED <<cf_ips, direct, net>>
  BY <1>6, TypeParts DEF Begin, Same, config
<1> QED
  BY <1>1, <1>2, <1>3, <1>4, <1>5, <1>6 DEF CallStep, Start

-----------------------------------------------------------------------------
(***************************************************************************)
(* The iterator over the domains.                                          *)
(***************************************************************************)
LEMMA NextDomainFields ==
    ASSUME NEW a \in Attempts
    PROVE  LET b == next_domain(a)
               m == Smallest(Fresh(a)) IN
           /\ b.first_domain = a.first_domain
           /\ a.pending_retry # NoRetry =>
                 /\ b.domain = DomainAt(a.first_domain, a.pending_retry)
                 /\ b.next_ordinal = a.next_ordinal /\ b.pending_retry = NoRetry
           /\ a.pending_retry = NoRetry =>
                 /\ b.domain = DomainAt(a.first_domain, m)
                 /\ b.next_ordinal = m + 1 /\ b.pending_retry = m
<1> DEFINE m == Smallest(Fresh(a))
           d == DomainAt(a.first_domain, m)
           e == DomainAt(a.first_domain, a.pending_retry)
<1>1. CASE a.pending_retry # NoRetry
  <2>1. next_domain(a) = [a EXCEPT !.domain = e, !.pending_retry = NoRetry]
    BY <1>1 DEF next_domain
  <2> HIDE DEF e
  <2>2. /\ next_domain(a).first_domain = a.first_domain /\ next_domain(a).domain = e
        /\ next_domain(a).next_ordinal = a.next_ordinal /\ next_domain(a).pending_retry = NoRetry
    BY <2>1 DEF Attempts
  <2> QED
    BY <1>1, <2>2 DEF e
<1>2. CASE a.pending_retry = NoRetry
  <2>1. next_domain(a) = [a EXCEPT !.domain = d, !.next_ordinal = m + 1, !.pending_retry = m]
    BY <1>2 DEF next_domain
  <2> HIDE DEF m, d
  <2>2. /\ next_domain(a).first_domain = a.first_domain /\ next_domain(a).domain = d
        /\ next_domain(a).next_ordinal = m + 1 /\ next_domain(a).pending_retry = m
    BY <2>1 DEF Attempts
  <2> QED
    BY <1>2, <2>2 DEF m, d
<1> QED
  BY <1>1, <1>2, SMTT(20), Zenon

(***************************************************************************)
(* A domain that occurs has a first ordinal, which is fresh unless it has  *)
(* been passed.                                                            *)
(***************************************************************************)
LEMMA FirstOrdinal ==
    ASSUME NEW a \in Attempts, NEW d, NEW o \in 0..(Len(Domains) - 1),
           DomainAt(a.first_domain, o) = d
    PROVE  \/ Before(a.first_domain, d, a.next_ordinal)
           \/ \E m \in Fresh(a) : m <= o /\ DomainAt(a.first_domain, m) = d
<1> DEFINE S == {n \in 0..(Len(Domains) - 1) : DomainAt(a.first_domain, n) = d}
           m == Smallest(S)
<1>1. S \in SUBSET Nat /\ o \in S /\ S # {}
  BY DomainCount
<1>2. m \in S /\ \A n \in S : m <= n
  BY <1>1, SmallestIn, Zenon
<1>3. m \in 0..(Len(Domains) - 1) /\ DomainAt(a.first_domain, m) = d /\ m <= o
  BY <1>1, <1>2
<1>4. \A prior \in 0..(m - 1) : DomainAt(a.first_domain, prior) # DomainAt(a.first_domain, m)
  <2> SUFFICES ASSUME NEW prior \in 0..(m - 1), DomainAt(a.first_domain, prior) = d
               PROVE  FALSE
    BY <1>3
  <2>1. prior \in S
    BY <1>3, DomainCount
  <2> QED
    BY <1>2, <1>3, <2>1
<1>5. a.next_ordinal \in Nat
  BY DEF Attempts
<1> HIDE DEF m
<1>6. CASE m < a.next_ordinal
  <2>1. m \in 0..(a.next_ordinal - 1)
    BY <1>3, <1>5, <1>6
  <2> QED
    BY <1>3, <2>1 DEF Before
<1>7. CASE ~(m < a.next_ordinal)
  <2>1. m \in a.next_ordinal..(Len(Domains) - 1)
    BY <1>3, <1>5, <1>7, DomainCount
  <2>2. m \in Fresh(a)
    BY <1>4, <2>1 DEF Fresh
  <2> QED
    BY <1>3, <2>2
<1> QED
  BY <1>6, <1>7

\* At the end every domain has been passed.
LEMMA WalkedAll ==
    ASSUME NEW a \in Attempts, Walking(a), ~HasNext(a), NEW d \in Range(Domains)
    PROVE  Before(a.first_domain, d, a.next_ordinal) /\ ~Retrying(a, d)
<1>1. a.first_domain \in 0..(Len(Domains) - 1)
  BY DomainCount DEF Walking, Attempts
<1>2. PICK o \in 0..(Len(Domains) - 1) : DomainAt(a.first_domain, o) = d
  BY <1>1, DomainReached, Zenon
<1> QED
  BY <1>2, FirstOrdinal DEF HasNext, Retrying

\* At the beginning there is a domain.
LEMMA WalkBegins ==
    ASSUME NEW a \in Attempts, a.next_ordinal = 0
    PROVE  HasNext(a)
<1>1. 0 \in a.next_ordinal..(Len(Domains) - 1)
  BY DomainCount
<1>2. 0 \in Fresh(a)
  BY <1>1, SMTT(20), Zenon DEF Fresh
<1> QED
  BY <1>2 DEF HasNext

\* The next domain has not been tried, and no other is passed over.
LEMMA NextFresh ==
    ASSUME NEW a \in Attempts, Fresh(a) # {}, NEW d \in Range(Domains)
    PROVE  LET m == Smallest(Fresh(a)) IN
           IF DomainAt(a.first_domain, m) = d
           THEN /\ ~Before(a.first_domain, d, a.next_ordinal)
                /\ Before(a.first_domain, d, m + 1)
           ELSE Before(a.first_domain, d, m + 1) <=> Before(a.first_domain, d, a.next_ordinal)
<1> DEFINE m == Smallest(Fresh(a))
           first == a.first_domain
<1>1. m \in Fresh(a) /\ m \in a.next_ordinal..(Len(Domains) - 1) /\ m \in Nat
      /\ a.next_ordinal \in Nat
  BY FreshIn DEF Attempts
<1>2. \A n \in Fresh(a) : m <= n
  <2>1. Fresh(a) \in SUBSET Nat
    BY DomainCount DEF Fresh, Attempts
  <2> QED
    BY <2>1, SmallestIn
<1>3. \A prior \in 0..(m - 1) : DomainAt(first, prior) # DomainAt(first, m)
  BY <1>1 DEF Fresh
<1> HIDE DEF m
<1>4. CASE DomainAt(first, m) = d
  <2>1. ~Before(first, d, a.next_ordinal)
    <3> SUFFICES ASSUME NEW o \in 0..(a.next_ordinal - 1), DomainAt(first, o) = d
                 PROVE  FALSE
      BY DEF Before
    <3>1. o \in 0..(m - 1)
      BY <1>1
    <3> QED
      BY <3>1, <1>3, <1>4
  <2>2. m \in 0..((m + 1) - 1)
    BY <1>1
  <2>3. Before(first, d, m + 1)
    BY <1>4, <2>2 DEF Before
  <2> QED
    BY <1>4, <2>1, <2>3 DEF m
<1>5. CASE DomainAt(first, m) # d
  <2>1. ASSUME Before(first, d, a.next_ordinal)
        PROVE  Before(first, d, m + 1)
    <3>1. PICK o \in 0..(a.next_ordinal - 1) : DomainAt(first, o) = d
      BY <2>1 DEF Before
    <3>2. o \in 0..((m + 1) - 1)
      BY <1>1
    <3> QED
      BY <3>1, <3>2 DEF Before
  <2>2. ASSUME Before(first, d, m + 1)
        PROVE  Before(first, d, a.next_ordinal)
    <3>1. PICK o \in 0..((m + 1) - 1) : DomainAt(first, o) = d
      BY <2>2 DEF Before
    <3>2. o \in 0..(Len(Domains) - 1) /\ o # m /\ o < m
      BY <1>1, <1>5, <3>1
    <3>3. \A n \in Fresh(a) : ~(n <= o)
      BY <1>1, <1>2, <3>2, DomainCount, SMTT(20), Zenon DEF Fresh
    <3> QED
      BY <3>1, <3>2, <3>3, FirstOrdinal
  <2> QED
    BY <1>5, <2>1, <2>2 DEF m
<1> QED
  BY <1>4, <1>5

-----------------------------------------------------------------------------
(***************************************************************************)
(* What each step of a call does to it.                                    *)
(***************************************************************************)
LEMMA BeginCall ==
    ASSUME TypeOK, NEW c \in Calls, NEW k \in Kinds[c], NEW first \in FirstDomains,
           Begin(c, k, first)
    PROVE  CallInv(c)' /\ SteadyAhead(c)' /\ SteadyNow(c)'
<1> DEFINE f == first % Len(Domains)
           a == [NoAttempts EXCEPT !.first_domain = f]
<1>1. f \in 0..(Len(Domains) - 1)
  <2>1. first \in Nat
    BY WsClientAssumption
  <2> QED
    BY <2>1, DomainCount, Remainder, Zenon
<1>2. attempts'[c] = a
  BY TypeParts DEF Begin
<1> HIDE DEF f
<1>3. a.first_domain = f /\ a.next_ordinal = 0 /\ a.pending_retry = NoRetry
  BY DEF NoAttempts
<1> HIDE DEF a
<1>4. k \in {"walk", "single", "direct"}
  BY WsClientAssumption
<1>5. /\ kind'[c] = k /\ pc'[c] = (IF k = "direct" THEN "direct" ELSE "attempt")
      /\ flags'[c] = NoFlags /\ outcomes'[c] = {} /\ tries'[c] = NoTries /\ slow'[c] = {}
      /\ steady'[c] = {e \in InUse : net[e] = "serves" /\ e \notin cooling}
      /\ UNCHANGED <<net, cooling>>
  BY TypeParts, SMTT(20), Zenon DEF Begin
<1>6. DialInv(c)' /\ PlaceInv(c)' /\ Told(c)' /\ Covered(c)'
  BY <1>4, <1>5, SMTT(20), Zenon DEF DialInv, PlaceInv, Told, Covered, Failed
<1>7. WalkInv(c)'
  BY <1>1, <1>2, <1>3, <1>4, <1>5, DomainCount, SMTT(20), Zenon DEF WalkInv, Walking
<1>8. FlagsInv(c)'
  BY <1>2, <1>3, <1>4, <1>5, SMTT(20), Zenon DEF FlagsInv, NoFlags
<1>9. TriesInv(c)'
  <2> SUFFICES ASSUME NEW d \in Range(Domains)
               PROVE  Tried(a, d, NoTries[d], {})
    BY <1>2, <1>4, <1>5, SMTT(20), Zenon DEF TriesInv
  <2> QED
    BY <1>3, SMTT(20), Zenon DEF Tried, Retrying, Settled, Before, NoTries
<1>10. SteadyAhead(c)' /\ SteadyNow(c)'
  BY <1>2, <1>3, <1>4, <1>5 DEF SteadyAhead, SteadyNow, Failed
<1> QED
  BY <1>6, <1>7, <1>8, <1>9, <1>10 DEF CallInv

LEMMA AttemptCall ==
    ASSUME TypeOK, NEW c \in Calls, CallInv(c), Attempt(c)
    PROVE  CallInv(c)'
<1> DEFINE a == attempts[c]
           m == Smallest(Fresh(a))
           first == cf_ip_start(cf_ips)
<1>1. PICK left \in SUBSET Offsets(cf_ips) :
         left # {} /\ path' = [path EXCEPT ![c] = BegunPath(first, left)] /\ first \in Nat
  BY AttemptStep
<1>2. path'[c].left # {} /\ path'[c].last = None /\ ~path'[c].redirected
  <2>1. left \in SUBSET Nat
    BY OffsetsNat, TypeParts
  <2>2. path'[c] = BegunPath(first, left)
    BY <1>1, TypeParts, Zenon
  <2>3. BegunPath(first, left).left = left /\ BegunPath(first, left).last = None
        /\ ~BegunPath(first, left).redirected
    <3> HIDE DEF first
    <3> QED
      BY <1>1, <2>1, BegunPathType, Zenon
  <2> QED
    BY <1>1, <2>2, <2>3, Zenon
<1>3. /\ pc[c] = "attempt" /\ pc'[c] = "edge" /\ kind'[c] = kind[c] /\ flags'[c] = flags[c]
      /\ outcomes'[c] = outcomes[c] /\ tries'[c] = tries[c] /\ slow'[c] = slow[c]
  BY TypeParts DEF Attempt, history
<1>4. DialInv(c)' /\ PlaceInv(c)' /\ Told(c)' /\ Covered(c)'
  BY <1>2, <1>3 DEF DialInv, PlaceInv, Told, Covered, Failed, CallInv
<1>5. FlagsInv(c)'
  BY <1>2, <1>3, ZenonT(30) DEF FlagsInv, CallInv
<1>6. CASE kind[c] = "walk"
  <2>1. HasNext(a) /\ attempts'[c] = next_domain(a) /\ a \in Attempts /\ next_domain(a) \in Attempts
    BY <1>6, TypeParts, NextDomainType DEF Attempt
  <2>2. Walking(a) /\ a.first_domain \in Nat /\ a.next_ordinal \in Nat
        /\ a.pending_retry \in Nat \cup {NoRetry}
    BY <1>3, <1>6, <2>1, ZenonT(30) DEF CallInv, WalkInv, Attempts
  <2>3. \A d \in Range(Domains) : Tried(a, d, tries[c][d], slow[c])
    BY <1>3, <1>6, ZenonT(30) DEF CallInv, TriesInv
  <2> DEFINE b == next_domain(a)
  <2>4. SUFFICES /\ Walking(b) /\ b.next_ordinal > 0 /\ b.domain \in Range(Domains)
                 /\ \A d \in Range(Domains) : /\ Trying(b, d, tries[c][d], slow[c])
                                              /\ Retrying(b, d) => b.domain = d
    BY <1>3, <1>4, <1>5, <1>6, <2>1, ZenonT(30) DEF CallInv, WalkInv, TriesInv
  <2>5. CASE a.pending_retry # NoRetry
    <3>1. /\ b.first_domain = a.first_domain /\ b.pending_retry = NoRetry
          /\ b.domain = DomainAt(a.first_domain, a.pending_retry)
          /\ b.next_ordinal = a.next_ordinal
      BY <2>1, <2>5, NextDomainFields, SMTT(20), Zenon
    <3> HIDE DEF b
    <3>2. Walking(b) /\ b.next_ordinal > 0
      BY <2>2, <2>5, <3>1, SMTT(20), Zenon DEF Walking
    <3>3. b.domain \in Range(Domains)
      BY <2>2, <2>5, <3>1, DomainAtIn, SMTT(20), Zenon
    <3>4. a.pending_retry \in 0..(a.next_ordinal - 1)
      BY <2>2, <2>5, SMTT(20), Zenon DEF Walking
    <3>5. ASSUME NEW d \in Range(Domains)
          PROVE  Trying(b, d, tries[c][d], slow[c]) /\ ~Retrying(b, d)
      <4>1. ~Retrying(b, d)
        BY <3>1, SMTT(20), Zenon DEF Retrying
      <4>2. CASE b.domain = d
        <5>1. Before(b.first_domain, d, b.next_ordinal)
          BY <3>1, <3>4, <4>2, Zenon DEF Before
        <5> QED
          BY <2>3, <2>5, <3>1, <4>1, <4>2, <5>1 DEF Trying, Tried, Retrying
      <4>3. CASE b.domain # d
        BY <2>3, <2>5, <3>1, <4>1, <4>3, SMTT(20), Zenon DEF Trying, Tried, Retrying, Settled
      <4> QED
        BY <4>1, <4>2, <4>3, SMTT(20), Zenon
    <3> QED
      BY <3>2, <3>3, <3>5, ZenonT(30)
  <2>6. CASE a.pending_retry = NoRetry
    <3>0. Fresh(a) # {}
      BY <2>1, <2>6, SMTT(20), Zenon DEF HasNext
    <3>1. m \in Nat
      BY <2>1, <3>0, FreshIn, SMTT(20), Zenon
    <3>2. /\ b.first_domain = a.first_domain /\ b.pending_retry = m
          /\ b.domain = DomainAt(a.first_domain, m) /\ b.next_ordinal = m + 1
      BY <2>1, <2>6, NextDomainFields
    <3>3. \A d \in Range(Domains) :
             IF DomainAt(a.first_domain, m) = d
             THEN /\ ~Before(a.first_domain, d, a.next_ordinal)
                  /\ Before(a.first_domain, d, m + 1)
             ELSE Before(a.first_domain, d, m + 1) <=> Before(a.first_domain, d, a.next_ordinal)
      BY <2>1, <3>0, NextFresh, Zenon
    <3> HIDE DEF b, m
    <3>4. Walking(b) /\ b.next_ordinal > 0
      BY <2>2, <3>1, <3>2, SMTT(20), Zenon DEF Walking
    <3>5. b.domain \in Range(Domains)
      BY <2>2, <3>1, <3>2, DomainAtIn, SMTT(20), Zenon
    <3>6. ASSUME NEW d \in Range(Domains)
          PROVE  Trying(b, d, tries[c][d], slow[c]) /\ (Retrying(b, d) => b.domain = d)
      <4>1. Settled(a, d, tries[c][d], slow[c])
        BY <2>3, <2>6 DEF Tried, Retrying
      <4>2. m # NoRetry
        BY <3>1 DEF NoRetry
      <4>3. CASE b.domain = d
        BY <3>2, <3>3, <4>1, <4>2, <4>3, Zenon DEF Trying, Settled, Retrying
      <4>4. CASE b.domain # d
        BY <3>2, <3>3, <4>1, <4>2, <4>4 DEF Trying, Settled, Retrying
      <4> QED
        BY <4>3, <4>4, SMTT(20), Zenon
    <3> QED
      BY <3>4, <3>5, <3>6, SMTT(20), Zenon
  <2> QED
    BY <2>5, <2>6, Zenon
<1>7. CASE kind[c] # "walk"
  BY <1>3, <1>4, <1>5, <1>7, ZenonT(30) DEF CallInv, WalkInv, TriesInv
<1> QED
  BY <1>6, <1>7

\* The edges an attempt begins with include each that serves and is not cooling.
LEMMA AttemptSteady ==
    ASSUME TypeOK, rotation \in Offsets(cf_ips), NEW c \in Calls, SteadyNow(c), Attempt(c)
    PROVE  SteadyAhead(c)' /\ SteadyNow(c)' /\ rotation' \in Offsets(cf_ips')
<1> DEFINE first == cf_ip_start(cf_ips)
<1>0. cf_ips \in IpLists /\ UNCHANGED <<cf_ips, net, cooling>> /\ steady'[c] = steady[c]
      /\ pc'[c] = "edge" /\ steady[c] \in SUBSET InUse
  BY TypeParts, SMTT(20), Zenon DEF Attempt, config, history
<1>1. first \in Offsets(cf_ips)
  BY <1>0, OffsetsNat DEF cf_ip_start
<1>2. rotation' \in Offsets(cf_ips)
  <2>1. CASE Len(cf_ips) <= 1
    BY <2>1 DEF Attempt
  <2>2. CASE ~(Len(cf_ips) <= 1)
    <3>1. Len(cf_ips) \in Nat \ {0} /\ cf_ips # <<>>
      BY <2>2, <1>0, ListSize, SMTT(30)
    <3>2. rotation + 1 \in Nat
      BY TypeParts
    <3>3. (rotation + 1) % Len(cf_ips) \in 0..(Len(cf_ips) - 1)
      BY <3>1, <3>2, Remainder, Zenon
    <3> QED
      BY <2>2, <3>1, <3>3, SMTT(20), Zenon DEF Attempt, Offsets
  <2> QED
    BY <2>1, <2>2
<1>3. PICK left \in SUBSET Offsets(cf_ips) :
         /\ left = cf_ip_attempts(cf_ips, first) /\ left # {}
         /\ path' = [path EXCEPT ![c] = BegunPath(first, left)] /\ first \in Nat
  BY AttemptStep, SMTT(20), Zenon
<1> HIDE DEF first
<1>4. path'[c].left = left /\ path'[c].first = first /\ path'[c].sent = NextSent(first, left)
  <2>1. left \in SUBSET Nat
    BY OffsetsNat, <1>0
  <2> QED
    BY <1>3, <2>1, BegunPathType, TypeParts, SMTT(20), Zenon
<1>5. ASSUME NEW e \in steady[c]
      PROVE  \E o \in left : EdgeFrom(cf_ips, first, o) = e
  <2>1. e \in EdgesOf(cf_ips) /\ e \notin cooling
    BY <1>0, InUseEdges, SMTT(20), Zenon DEF SteadyNow
  <2>2. PICK o \in Offsets(cf_ips) : EdgeFrom(cf_ips, first, o) = e
    BY <1>0, <1>1, <2>1, EdgeReached, SMTT(20), Zenon
  <2>3. ~CoolingAt(cf_ips, first, o)
    BY <2>1, <2>2, SMTT(20), Zenon DEF CoolingAt
  <2>4. o \in left
    BY <1>3, <2>2, <2>3, SMTT(20), Zenon DEF cf_ip_attempts
  <2> QED
    BY <2>2, <2>4, SMTT(20), Zenon
<1>6. Dialled(c)' \in steady[c] => path'[c].sent = "serves"
  BY <1>0, <1>3, <1>4, SMTT(20), Zenon DEF Dialled, NextSent, SteadyNow
<1>7. SteadyAhead(c)'
  BY <1>0, <1>4, <1>5, <1>6 DEF SteadyAhead, Failed
<1> QED
  BY <1>0, <1>2, <1>7, Zenon DEF SteadyNow

LEMMA EdgeEndsCall ==
    ASSUME TypeOK, NEW c \in Calls, CallInv(c), NEW outcome \in Outcomes, EdgeEnds(c, outcome)
    PROVE  CallInv(c)'
<1>1. CASE outcome = "connected"
  BY <1>1, ConnectedCall, Zenon DEF EdgeEnds
<1>2. CASE outcome # "connected"
  <2> DEFINE sent == NextSent(path[c].first, path[c].left \ {Smallest(path[c].left)})
             q == FailedDial(path[c], outcome, sent)
  <2>1. /\ sent \in Behaviours \cup {None} /\ path' = [path EXCEPT ![c] = q]
        /\ UNCHANGED <<pc, kind, attempts, flags>>
    BY <1>2, EdgeFails, ZenonT(30)
  <2>2. path[c] \in Path /\ path'[c] = q
    BY <2>1, TypeParts, Zenon
  <2> HIDE DEF sent
  <2>3. /\ q.last = (IF outcome = "redirect" THEN path[c].last ELSE outcome)
        /\ q.redirected = (path[c].redirected \/ outcome = "redirect")
    BY <1>2, <2>1, <2>2, FailedDialType, SMTT(30)
  <2>4. UNCHANGED <<tries, slow>> /\ outcomes'[c] = Remembered(c, outcome) /\ pc[c] = "edge"
    BY <1>2, TypeParts, Zenon DEF EdgeEnds, Forgotten
  <2> HIDE DEF q
  <2>5. path'[c].last # None \/ path'[c].redirected
    BY <2>2, <2>3, ZenonT(30) DEF Outcomes, None
  <2>6. DialInv(c)' /\ PlaceInv(c)' /\ WalkInv(c)' /\ TriesInv(c)'
    BY <2>1, <2>4, <2>5, Zenon DEF CallInv, DialInv, PlaceInv, WalkInv, TriesInv
  <2>7. Told(c)' /\ Covered(c)'
    BY <2>1, <2>4, Zenon DEF Told, Covered, Failed
  <2>8. FlagsInv(c)'
    <3> SUFFICES ASSUME kind[c] = "walk"
                 PROVE  /\ outcomes'[c] \subseteq {"redirect", "other"}
                        /\ flags[c].all_redirects /\ q.last = None <=> "other" \notin outcomes'[c]
                        /\ outcomes'[c] # {}
      BY <2>1, <2>2, <2>4 DEF FlagsInv
    <3>1. /\ outcomes[c] \subseteq {"redirect", "other"}
          /\ flags[c].all_redirects /\ path[c].last = None <=> "other" \notin outcomes[c]
      BY <2>4, Zenon DEF CallInv, FlagsInv
    <3>2. outcomes'[c] = outcomes[c] \cup {IF outcome = "redirect" THEN "redirect" ELSE "other"}
      BY <1>2, <2>4 DEF Remembered
    <3>3. outcome # None
      BY DEF Outcomes, None
    <3> QED
      BY <2>3, <3>1, <3>2, <3>3, Zenon
  <2> QED
    BY <2>6, <2>7, <2>8 DEF CallInv
<1> QED
  BY <1>1, <1>2

\* A dial that began while the edge served and ends while it serves connects.
LEMMA EdgeEndsSteady ==
    ASSUME TypeOK, NEW c \in Calls, SteadyNow(c), SteadyAhead(c), NEW outcome \in Outcomes,
           EdgeEnds(c, outcome)
    PROVE  SteadyAhead(c)'
<1>1. CASE outcome = "connected"
  BY <1>1, ConnectedCall, ZenonT(30) DEF EdgeEnds
<1>2. CASE outcome # "connected"
  <2> DEFINE left == path[c].left \ {Smallest(path[c].left)}
             sent == NextSent(path[c].first, left)
             q == FailedDial(path[c], outcome, sent)
  <2>1. /\ sent \in Behaviours \cup {None} /\ path' = [path EXCEPT ![c] = q]
        /\ UNCHANGED <<pc, kind, attempts, flags>> /\ left \in SUBSET Nat
    BY <1>2, EdgeFails, ZenonT(30)
  <2>2. path[c] \in Path /\ path'[c] = q
    BY <2>1, TypeParts, ZenonT(30)
  <2>3. q.first = path[c].first /\ q.left = left /\ q.sent = sent
    <3> HIDE DEF sent
    <3> QED
      BY <1>2, <2>1, <2>2, FailedDialType, SMTT(30)
  <2>4. /\ pc[c] = "edge" /\ path[c].left # {} /\ UNCHANGED <<cf_ips, net>>
        /\ steady'[c] \subseteq steady[c]
        /\ outcome \in connect_ws_with_path(Dialled(c), path[c].sent)
                         \cup connect_ws_with_path(Dialled(c), net[Dialled(c)])
    BY <1>2, TypeParts, ZenonT(30) DEF EdgeEnds, config
  <2>5. Dialled(c) \notin steady[c]
    <3> SUFFICES ASSUME Dialled(c) \in steady[c] PROVE FALSE
      OBVIOUS
    <3>1. path[c].sent = "serves" /\ net[Dialled(c)] = "serves"
      BY <2>4, Zenon DEF SteadyAhead, SteadyNow
    <3>2. connect_ws_with_path(Dialled(c), "serves") = {"connected"}
      BY DEF connect_ws_with_path
    <3> QED
      BY <1>2, <2>4, <3>1, <3>2, ZenonT(30)
  <2> HIDE DEF q
  <2>6. ASSUME NEW e \in steady[c]
        PROVE  \E o \in left : EdgeFrom(cf_ips, path[c].first, o) = e
    <3>1. PICK o \in path[c].left : EdgeFrom(cf_ips, path[c].first, o) = e
      BY <2>4, ZenonT(30) DEF SteadyAhead
    <3>2. o # Smallest(path[c].left)
      BY <2>5, <3>1 DEF Dialled
    <3> QED
      BY <3>1, <3>2, Zenon
  <2>7. left # {} /\ Dialled(c)' \in steady[c] => sent = "serves"
    BY <2>2, <2>3, <2>4, ZenonT(30) DEF Dialled, NextSent, SteadyNow
  <2> HIDE DEF left, sent
  <2> QED
    BY <2>1, <2>2, <2>3, <2>4, <2>6, <2>7, ZenonT(30) DEF SteadyAhead, Failed
<1> QED
  BY <1>1, <1>2

LEMMA PathReturnsCall ==
    ASSUME TypeOK, NEW c \in Calls, CallInv(c), SteadyAhead(c), PathReturns(c)
    PROVE  CallInv(c)' /\ SteadyAhead(c)'
<1>0. pc[c] = "edge" /\ path[c].left = {} /\ steady' = steady /\ outcomes' = outcomes
  BY ZenonT(30) DEF PathReturns
<1>1. steady'[c] = {}
  BY <1>0, ZenonT(30) DEF SteadyAhead
<1>2. CASE kind[c] = "single" /\ Return(c, flags[c]) /\ UNCHANGED <<tries, slow>>
  <2>1. pc'[c] = "done" /\ kind'[c] = "single"
    BY <1>2, TypeParts DEF Return
  <2>2. CallInv(c)'
    BY <2>1, Zenon DEF CallInv, DialInv, PlaceInv, WalkInv, FlagsInv, TriesInv, Told, Covered
  <2> QED
    BY <1>1, <2>1, <2>2, Zenon DEF SteadyAhead
<1>3. CASE kind[c] = "walk" /\ WalkGoesOn(c)
  <2> DEFINE a == attempts[c]
             result == PathResult(c)
             d == a.domain
             b == note_timed_out(a, result)
             late == result \in TimedOut
  <2>1. /\ pc'[c] = "attempt" /\ kind'[c] = "walk" /\ attempts'[c] = b /\ a \in Attempts
        /\ flags'[c].all_redirects = (flags[c].all_redirects /\ result = "redirect")
        /\ slow'[c] = (IF late /\ tries[c][d] = 0 THEN slow[c] \cup {d} ELSE slow[c])
    BY <1>3, TypeParts DEF WalkGoesOn, Flags
  <2>2. \A x \in Range(Domains) : tries'[c][x] = (IF x = d THEN tries[c][x] + 1 ELSE tries[c][x])
    BY <1>3, TypeParts DEF WalkGoesOn
  <2>3. /\ b.first_domain = a.first_domain /\ b.next_ordinal = a.next_ordinal
        /\ b.pending_retry = (IF late THEN NoRetry ELSE a.pending_retry)
    BY <2>1, NotedType, Zenon
  <2>4. Walking(a) /\ a.next_ordinal > 0 /\ d \in Range(Domains)
    BY <1>0, <1>3, Zenon DEF CallInv, WalkInv
  <2>5. \A x \in Range(Domains) :
           Trying(a, x, tries[c][x], slow[c]) /\ (Retrying(a, x) => d = x)
    BY <1>0, <1>3, Zenon DEF CallInv, TriesInv
  <2>6. result = "redirect" <=> path[c].last = None
    BY TypeParts, SMTT(20), Zenon DEF PathResult, Path, None
  <2>7. path[c].last # None \/ path[c].redirected
    BY <1>0 DEF CallInv, DialInv
  <2>8. FlagsInv(c)'
    <3>1. /\ outcomes[c] \subseteq {"redirect", "other"} /\ outcomes[c] # {}
          /\ flags[c].all_redirects /\ path[c].last = None <=> "other" \notin outcomes[c]
      BY <1>0, <1>3, <2>7, Zenon DEF CallInv, FlagsInv
    <3> HIDE DEF b, result
    <3> QED
      BY <1>0, <2>1, <2>6, <3>1, ZenonT(30) DEF FlagsInv
  <2> HIDE DEF b, result
  <2>9. DialInv(c)' /\ PlaceInv(c)' /\ Told(c)' /\ Covered(c)'
    BY <2>1, ZenonT(30) DEF DialInv, PlaceInv, Told, Covered, Failed
  <2>10. WalkInv(c)'
    BY <2>1, <2>3, <2>4, ZenonT(30) DEF WalkInv, Walking
  <2>11. ASSUME NEW x \in Range(Domains)
         PROVE  Tried(b, x, tries'[c][x], slow'[c])
    <3> DEFINE n == tries[c][x]
    <3>0. n \in Nat
      BY TypeParts, SMTT(20), Zenon
    <3> HIDE DEF late
    <3>1. CASE x # d
      <4>1. Settled(a, x, n, slow[c]) /\ ~Retrying(a, x)
        BY <2>5, <3>1, Zenon DEF Trying
      <4>2. ~Retrying(b, x)
        BY <2>3, <4>1 DEF Retrying
      <4>3. tries'[c][x] = n /\ (x \in slow'[c] <=> x \in slow[c])
        BY <2>1, <2>2, <3>1, Zenon
      <4> QED
        BY <2>3, <4>1, <4>2, <4>3 DEF Tried, Settled
    <3>2. CASE x = d
      <4>1. /\ Before(a.first_domain, x, a.next_ordinal) /\ x \notin slow[c]
            /\ IF a.pending_retry = NoRetry THEN n = 1 ELSE n = 0 /\ Retrying(a, x)
        BY <2>5, <3>2, ZenonT(30) DEF Trying
      <4>2. tries'[c][x] = n + 1
        BY <2>2, <3>2
      <4>0. slow'[c] = (IF late /\ n = 0 THEN slow[c] \cup {x} ELSE slow[c])
        BY <2>1, <3>2, Zenon
      <4>3. CASE a.pending_retry = NoRetry
        <5>0. n = 1 /\ n # 0 /\ b.pending_retry = NoRetry
          <6>1. n = 1
            BY <4>1, <4>3, Zenon
          <6>2. b.pending_retry = NoRetry
            BY <2>3, <4>3, Zenon
          <6> QED
            BY <6>1, <6>2
        <5>1. ~Retrying(b, x) /\ x \notin slow'[c] /\ tries'[c][x] = 2
          <6>1. ~Retrying(b, x)
            BY <5>0, Zenon DEF Retrying
          <6>2. x \notin slow'[c]
            BY <4>0, <4>1, <5>0, Zenon
          <6>3. tries'[c][x] = 2
            BY <4>2, <5>0, SMTT(20), Zenon
          <6> QED
            BY <6>1, <6>2, <6>3
        <5> QED
          BY <2>3, <4>1, <5>1, ZenonT(30) DEF Tried, Settled
      <4>4. CASE a.pending_retry # NoRetry /\ late
        <5>0. n = 0 /\ b.pending_retry = NoRetry
          BY <2>3, <4>1, <4>4, SMTT(20), Zenon
        <5>1. ~Retrying(b, x) /\ x \in slow'[c] /\ tries'[c][x] = 1
          <6>1. ~Retrying(b, x)
            BY <5>0, Zenon DEF Retrying
          <6>2. x \in slow'[c]
            BY <4>0, <4>4, <5>0, Zenon
          <6>3. tries'[c][x] = 1
            BY <4>2, <5>0, SMTT(20), Zenon
          <6> QED
            BY <6>1, <6>2, <6>3
        <5> QED
          BY <2>3, <4>1, <5>1, SMTT(20), Zenon DEF Tried, Settled
      <4>5. CASE a.pending_retry # NoRetry /\ ~late
        <5>0. n = 0 /\ b.pending_retry = a.pending_retry /\ Retrying(a, x)
          BY <2>3, <4>1, <4>5, SMTT(20), Zenon
        <5>1. Retrying(b, x) /\ x \notin slow'[c] /\ tries'[c][x] = 1
          <6>1. Retrying(b, x)
            BY <2>3, <5>0, Zenon DEF Retrying
          <6>2. x \notin slow'[c]
            BY <4>0, <4>1, <4>5, Zenon
          <6>3. tries'[c][x] = 1
            BY <4>2, <5>0
          <6> QED
            BY <6>1, <6>2, <6>3
        <5> QED
          BY <5>1, SMTT(20), Zenon DEF Tried
      <4> QED
        BY <4>3, <4>4, <4>5
    <3> QED
      BY <3>1, <3>2
  <2>12. TriesInv(c)'
    BY <2>1, <2>11, ZenonT(30) DEF TriesInv
  <2>13. SteadyAhead(c)'
    BY <1>1, <2>1, Zenon DEF SteadyAhead, Failed
  <2> QED
    BY <2>8, <2>9, <2>10, <2>12, <2>13, SMTT(20), Zenon DEF CallInv
<1> QED
  BY <1>2, <1>3, ZenonT(30) DEF PathReturns

LEMMA WalkFailsCall ==
    ASSUME TypeOK, NEW c \in Calls, CallInv(c), SteadyAhead(c), WalkFails(c)
    PROVE  CallInv(c)' /\ SteadyAhead(c)'
<1> DEFINE a == attempts[c]
<1>1. /\ pc[c] = "attempt" /\ kind[c] = "walk" /\ ~HasNext(a) /\ a \in Attempts
      /\ pc'[c] = "done" /\ kind'[c] = "walk" /\ flags'[c] = flags[c]
      /\ UNCHANGED <<outcomes, steady, tries, slow>>
  BY TypeParts DEF WalkFails, Return, history
<1>2. Walking(a) /\ a.next_ordinal # 0 /\ a.next_ordinal \in Nat
  BY <1>1, WalkBegins, ZenonT(30) DEF CallInv, WalkInv, Attempts
<1>3. Covered(c)'
  <2>1. \A d \in Range(Domains) : Tried(a, d, tries[c][d], slow[c])
    BY <1>1, ZenonT(30) DEF CallInv, TriesInv
  <2>2. \A d \in Range(Domains) : Before(a.first_domain, d, a.next_ordinal) /\ ~Retrying(a, d)
    BY <1>1, <1>2, WalkedAll, ZenonT(30)
  <2> QED
    BY <1>1, <2>1, <2>2, ZenonT(30) DEF Covered, Tried, Settled
<1>4. Told(c)'
  <2>1. /\ outcomes[c] \subseteq {"redirect", "other"} /\ outcomes[c] # {}
        /\ flags[c].all_redirects <=> "other" \notin outcomes[c]
    <3>1. FlagsInv(c) /\ a.next_ordinal > 0
      BY <1>2 DEF CallInv
    <3> QED
      BY <1>1, <3>1, ZenonT(30) DEF FlagsInv
  <2> QED
    BY <1>1, <2>1, ZenonT(30) DEF Told
<1>5. DialInv(c)' /\ PlaceInv(c)' /\ WalkInv(c)' /\ FlagsInv(c)' /\ TriesInv(c)'
  BY <1>1, Zenon DEF DialInv, PlaceInv, WalkInv, FlagsInv, TriesInv
<1>6. SteadyAhead(c)'
  BY <1>1, <1>2, Zenon DEF SteadyAhead
<1> QED
  BY <1>3, <1>4, <1>5, <1>6, SMTT(20), Zenon DEF CallInv

LEMMA DirectEndsCall ==
    ASSUME TypeOK, NEW c \in Calls, CallInv(c), NEW outcome \in Outcomes, DirectEnds(c, outcome)
    PROVE  CallInv(c)' /\ SteadyAhead(c)'
<1>1. CASE outcome = "connected"
  BY <1>1, ConnectedCall DEF DirectEnds
<1>2. CASE outcome # "connected"
  <2> DEFINE f == Flagged(flags[c], outcome)
  <2>1. /\ pc[c] = "direct" /\ kind[c] = "direct" /\ kind'[c] = "direct" /\ flags'[c] = f
        /\ pc'[c] \in {"direct", "done"} /\ outcomes'[c] = outcomes[c] \cup {outcome}
    BY <1>2, TypeParts, SMTT(20), Zenon DEF DirectEnds, Return, CallInv, PlaceInv, Remembered
  <2>2. /\ f.all_redirects = (flags[c].all_redirects /\ outcome = "redirect")
        /\ f.upgrade_timed_out = (flags[c].upgrade_timed_out \/ outcome = "timed_out")
        /\ f.connect_timed_out = (flags[c].connect_timed_out \/ outcome = "connect_timed_out")
    BY TypeParts, FlaggedType
  <2>3. /\ flags[c].all_redirects <=> outcomes[c] \subseteq {"redirect"}
        /\ flags[c].upgrade_timed_out <=> "timed_out" \in outcomes[c]
        /\ flags[c].connect_timed_out <=> "connect_timed_out" \in outcomes[c]
    BY <2>1, ZenonT(30) DEF CallInv, FlagsInv
  <2> HIDE DEF f
  <2>4. /\ f.all_redirects <=> outcomes'[c] \subseteq {"redirect"}
        /\ f.upgrade_timed_out <=> "timed_out" \in outcomes'[c]
        /\ f.connect_timed_out <=> "connect_timed_out" \in outcomes'[c]
        /\ outcomes'[c] # {}
    BY <2>1, <2>2, <2>3, Zenon
  <2>5. FlagsInv(c)' /\ Told(c)'
    BY <2>1, <2>4, Zenon DEF FlagsInv, Told
  <2>6. DialInv(c)' /\ PlaceInv(c)' /\ WalkInv(c)' /\ TriesInv(c)' /\ Covered(c)'
    BY <2>1, Zenon DEF DialInv, PlaceInv, WalkInv, TriesInv, Covered
  <2>7. SteadyAhead(c)'
    BY <2>1 DEF SteadyAhead
  <2> QED
    BY <2>5, <2>6, <2>7 DEF CallInv
<1> QED
  BY <1>1, <1>2

-----------------------------------------------------------------------------
LEMMA InitIInv ==
    ASSUME Init
    PROVE  IInv
<1>1. TypeOK
  BY InitType
<1>2. rotation \in Offsets(cf_ips)
  BY OffsetsNat, SMTT(20), Zenon DEF Init
<1>3. ASSUME NEW c \in Calls
      PROVE  CallInv(c) /\ SteadyNow(c) /\ SteadyAhead(c)
  <2>1. pc[c] = "out" /\ steady[c] = {}
    BY DEF Init
  <2>2. CallInv(c)
    BY <2>1, Zenon DEF CallInv, DialInv, PlaceInv, WalkInv, FlagsInv, TriesInv, Told, Covered, Failed
  <2> QED
    BY <2>1, <2>2 DEF SteadyNow, SteadyAhead
<1> QED
  BY <1>1, <1>2, <1>3 DEF IInv

LEMMA CallStepIInv ==
    ASSUME IInv, NEW c \in Calls, CallStep(c) \/ Start(c)
    PROVE  IInv'
<1>0. /\ TypeOK /\ rotation \in Offsets(cf_ips) /\ CallInv(c) /\ SteadyNow(c) /\ SteadyAhead(c)
      /\ WalkInv(c)
  BY DEF IInv, CallInv
<1> DEFINE Kept == /\ TypeOK' /\ CallInv(c)' /\ SteadyAhead(c)'
                   /\ rotation' \in Offsets(cf_ips') /\ net' = net /\ cf_ips' = cf_ips
<1>1. Kept
  <2>1. CASE Attempt(c)
    BY <1>0, <2>1, AttemptType, AttemptCall, AttemptSteady, ZenonT(30) DEF Attempt, config
  <2>2. CASE PathReturns(c)
    BY <1>0, <2>2, PathReturnsType, PathReturnsCall, Zenon DEF PathReturns, config
  <2>3. CASE WalkFails(c)
    BY <1>0, <2>3, WalkFailsType, WalkFailsCall, ZenonT(30) DEF WalkFails, config
  <2>4. ASSUME NEW outcome \in Outcomes, EdgeEnds(c, outcome)
        PROVE  Kept
    BY <1>0, <2>4, EdgeEndsType, EdgeEndsCall, EdgeEndsSteady, Zenon DEF EdgeEnds, config
  <2>5. ASSUME NEW outcome \in Outcomes, DirectEnds(c, outcome)
        PROVE  Kept
    BY <1>0, <2>5, DirectEndsType, DirectEndsCall, ZenonT(30) DEF DirectEnds, config
  <2>6. ASSUME NEW k \in Kinds[c], NEW first \in FirstDomains, Begin(c, k, first)
        PROVE  Kept
    BY <1>0, <2>6, BeginType, BeginCall, Zenon DEF Begin, config
  <2> QED
    BY <2>1, <2>2, <2>3, <2>4, <2>5, <2>6, Zenon DEF CallStep, Start
<1>2. ASSUME NEW x \in Calls
      PROVE  SteadyNow(x)'
  <2>0. SteadyNow(x)
    BY DEF IInv
  <2>1. CASE \E outcome \in Outcomes : EdgeEnds(c, outcome)
    <3>1. PICK outcome \in Outcomes : EdgeEnds(c, outcome)
      BY <2>1
    <3>2. steady'[x] = (IF x = c /\ outcome = "connected" THEN {} ELSE steady[x] \ cooling')
      BY <3>1, Zenon DEF EdgeEnds
    <3>3. \A e \in steady'[x] : e \in steady[x] /\ e \notin cooling'
      BY <3>2, Zenon
    <3> QED
      BY <1>1, <2>0, <3>3, Zenon DEF SteadyNow
  <2>2. CASE \E k \in Kinds[c], first \in FirstDomains : Begin(c, k, first)
    <3>1. CASE x = c
      BY <1>0, <2>2, <3>1, BeginCall, Zenon
    <3>2. CASE x # c
      BY <1>0, <2>0, <2>2, <3>2, TypeParts, SMTT(20), Zenon DEF Begin, SteadyNow
    <3> QED
      BY <3>1, <3>2
  <2>3. CASE Attempt(c) \/ WalkFails(c) \/ PathReturns(c)
    BY <2>0, <2>3 DEF Attempt, WalkFails, PathReturns, SteadyNow, history
  <2>4. CASE \E outcome \in Outcomes : DirectEnds(c, outcome)
    BY <1>0, <2>0, <2>4, TypeParts DEF DirectEnds, SteadyNow
  <2> QED
    BY <2>1, <2>2, <2>3, <2>4, Zenon DEF CallStep, Start
<1>3. ASSUME NEW x \in Calls, x # c
      PROVE  CallInv(x)' /\ SteadyAhead(x)'
  <2>1. Same(x) /\ cf_ips' = cf_ips
    BY <1>0, <1>3, CallStepOthers
  <2>2. CallInv(x) /\ SteadyAhead(x)
    BY DEF IInv
  <2> QED
    BY <2>1, <2>2, SameCallInv, SameSteadyAhead
<1> QED
  BY <1>1, <1>2, <1>3 DEF IInv

LEMMA OutsideIInv ==
    ASSUME IInv,
           \/ \E e \in Edges : Expire(e)
           \/ \E e \in InUse, b \in Behaviours : NetChange(e, b)
    PROVE  IInv'
<1>0. TypeOK /\ rotation \in Offsets(cf_ips)
  BY DEF IInv
<1>1. TypeOK'
  BY <1>0, NetChangeType, ExpireType, SMTT(20), Zenon
<1>2. cf_ips' = cf_ips /\ rotation' = rotation
  BY DEF NetChange, Expire, config
<1>3. ASSUME NEW c \in Calls
      PROVE  Same(c) /\ SteadyNow(c)'
  <2>0. SteadyNow(c)
    BY SMTT(20), Zenon DEF IInv
  <2>1. ASSUME NEW e \in Edges, Expire(e)
        PROVE  Same(c) /\ SteadyNow(c)'
    BY <2>0, <2>1, SMTT(20), Zenon DEF Expire, Same, SteadyNow, calls, history
  <2>2. ASSUME NEW e \in InUse, NEW b \in Behaviours, NetChange(e, b)
        PROVE  Same(c) /\ SteadyNow(c)'
    <3>1. Same(c)
      BY <1>0, <2>2, TypeParts, SMTT(20), Zenon DEF NetChange, Same, calls
    <3>2. ASSUME NEW x \in steady'[c]
          PROVE  net'[x] = "serves" /\ x \notin cooling'
      <4>1. x \in steady[c] /\ x \in InUse /\ (x = e => b = "serves")
        BY <1>0, <2>2, <3>2, TypeParts DEF NetChange
      <4> QED
        BY <1>0, <2>0, <2>2, <4>1, TypeParts, SMTT(20), Zenon DEF NetChange, SteadyNow
    <3> QED
      BY <3>1, <3>2, SMTT(20), Zenon DEF SteadyNow
  <2> QED
    BY <2>1, <2>2
<1>4. ASSUME NEW c \in Calls
      PROVE  CallInv(c)' /\ SteadyAhead(c)'
  <2>1. CallInv(c) /\ SteadyAhead(c) /\ Same(c)
    BY <1>3 DEF IInv
  <2> QED
    BY <1>2, <2>1, SameCallInv, SameSteadyAhead
<1> QED
  BY <1>0, <1>1, <1>2, <1>3, <1>4, SMTT(20), Zenon DEF IInv

LEMMA NextIInv ==
    ASSUME IInv, [Next]_vars
    PROVE  IInv'
<1>1. CASE Next
  BY <1>1, CallStepIInv, OutsideIInv DEF Next
<1>2. CASE UNCHANGED vars
  <2>0. TypeOK' /\ rotation' \in Offsets(cf_ips')
    <3>1. InUse' = InUse
      BY <1>2 DEF vars, InUse
    <3> QED
      BY <1>2, <3>1, SMTT(20), Zenon DEF IInv, TypeOK, vars, calls, history
  <2>1. ASSUME NEW c \in Calls
        PROVE  CallInv(c)' /\ SteadyNow(c)' /\ SteadyAhead(c)'
    <3>1. Same(c) /\ UNCHANGED <<cf_ips, net, cooling, steady>>
      BY <1>2, Zenon DEF Same, vars, calls, history
    <3>2. CallInv(c) /\ SteadyNow(c) /\ SteadyAhead(c)
      BY DEF IInv
    <3> QED
      BY <3>1, <3>2, SameCallInv, SameSteadyAhead, ZenonT(30) DEF SteadyNow
  <2> QED
    BY <2>0, <2>1, SMTT(20), Zenon DEF IInv
<1> QED
  BY <1>1, <1>2

\* The inductive invariant holds of all connects, in any interleaving.
THEOREM Inductive == Spec => []IInv
BY InitIInv, NextIInv, PTL DEF Spec

(***************************************************************************)
(* connect_cf_with_path: the walk over the edges in the order of the       *)
(* shared rotation misses none that serves and is not cooling, whatever    *)
(* the other calls do to the rotation and the cooldowns meanwhile.         *)
(***************************************************************************)
THEOREM SteadyEdgeServesHolds == Spec => []SteadyEdgeServes
<1>1. IInv => SteadyEdgeServes
  BY ZenonT(30) DEF IInv, SteadyAhead, SteadyEdgeServes
<1> QED
  BY <1>1, Inductive, PTL

(***************************************************************************)
(* cf_ip_attempts: expect("non-empty CF IP list attempted") cannot fail,   *)
(* for any list of edges and any of them cooling.                          *)
(***************************************************************************)
THEOREM AttemptDialsHolds == Spec => []AttemptDials
<1>1. IInv => AttemptDials
  BY Zenon DEF IInv, CallInv, DialInv, AttemptDials
<1> QED
  BY <1>1, Inductive, PTL

(***************************************************************************)
(* CfAttempts: any list of domains, with any repetitions and from any      *)
(* place, is covered, each name twice unless its first try was slow.       *)
(***************************************************************************)
THEOREM DomainsCoveredHolds == Spec => []DomainsCovered
<1>1. IInv => DomainsCovered
  BY Zenon DEF IInv, CallInv, Covered, DomainsCovered
<1> QED
  BY <1>1, Inductive, PTL

(***************************************************************************)
(* WsAttempt: the flags that the routing ladder backs off on tell what     *)
(* the dials of the call met, and nothing else.                            *)
(***************************************************************************)
THEOREM FlagsTellHolds == Spec => []FlagsTell
<1>1. IInv => FlagsTell
  BY DEF IInv, CallInv, Told, FlagsTell
<1> QED
  BY <1>1, Inductive, PTL

=============================================================================
