--------------------------- MODULE FramingProofs ----------------------------
(***************************************************************************)
(* The path from the wire to the sink for every stream, of any length, cut *)
(* into records and reads in any way.  First the splitter on its own:      *)
(* StreamInOrder, NoUnderflow and OnePacketPerMessage for every way to     *)
(* read the stream, and that its end leaves nothing in the splitter.  Then *)
(* the whole path: nothing is lost, the splitter is used as module         *)
(* Splitter says, so that messages are packets and the end of the stream   *)
(* flushes all; an honest source is served, and every record written can   *)
(* be read.                                                                *)
(***************************************************************************)
EXTENDS Framing, SequenceTheorems, TLAPS

Encrypted == [byte : 0..255, at : Nat]

\* The encryption of the first n bytes of s, and of the n bytes after the first m.
Enc(s, n) == [i \in 1..n |-> [byte |-> s[i], at |-> i]]
Slice(s, m, n) == [i \in 1..n |-> [byte |-> s[m + i], at |-> m + i]]

(***************************************************************************)
(* The strengthening.  The keystream is where the input is; while the      *)
(* length of a packet is not known the packet holds its header only, which *)
(* is not complete; once it is known the packet is not complete; nothing   *)
(* is kept once framing is given up.                                       *)
(***************************************************************************)
StreamInv == StreamInOrder /\ keystream = offset

FramingInv ==
    /\ disabled => packet = <<>> /\ packet_len = Unknown
    /\ packet_len = Unknown => Len(packet) = header_len /\ header_len < required_header_len
    /\ packet_len # Unknown => Len(packet) < packet_len

IInv == TypeOK /\ StreamInv /\ FramingInv

-----------------------------------------------------------------------------
(***************************************************************************)
(* The encryption of a stream, piece by piece.                             *)
(***************************************************************************)
LEMMA SliceSeq ==
    ASSUME NEW s \in Seq(0..255), NEW m \in Nat, NEW n \in Nat, m + n <= Len(s)
    PROVE  /\ Slice(s, m, n) \in Seq(Encrypted)
           /\ Len(Slice(s, m, n)) = n
<1>1. ASSUME NEW i \in 1..n PROVE s[m + i] \in 0..255 /\ m + i \in Nat
  <2>1. m + i \in 1..Len(s)
    OBVIOUS
  <2> QED
    BY <2>1, ElementOfSeq, SMTT(30)
<1>2. \A i \in 1..n : [byte |-> s[m + i], at |-> m + i] \in Encrypted
  BY <1>1, Zenon DEF Encrypted
<1>3. Slice(s, m, n) \in [1..n -> Encrypted]
  BY <1>2, Zenon DEF Slice
<1> QED
  BY <1>3, SeqDef, LenProperties, SMTT(20)

LEMMA EncIsSlice ==
    ASSUME NEW s \in Seq(0..255), NEW n \in Nat, n <= Len(s)
    PROVE  Enc(s, n) = Slice(s, 0, n)
<1>1. \A i \in 1..n : 0 + i = i
  OBVIOUS
<1> QED
  BY <1>1 DEF Enc, Slice

LEMMA EncExtended ==
    ASSUME NEW s \in Seq(0..255), NEW m \in Nat, NEW n \in Nat, m + n <= Len(s)
    PROVE  Enc(s, m) \o Slice(s, m, n) = Enc(s, m + n)
<1> DEFINE a == Enc(s, m)
           b == Slice(s, m, n)
           c == Enc(s, m + n)
<1>1. a \in Seq(Encrypted) /\ Len(a) = m
  <2>1. m <= Len(s) /\ 0 + m <= Len(s) /\ 0 \in Nat
    OBVIOUS
  <2> QED
    BY <2>1, EncIsSlice, SliceSeq
<1>2. b \in Seq(Encrypted) /\ Len(b) = n
  BY SliceSeq
<1>3. c \in Seq(Encrypted) /\ Len(c) = m + n
  BY EncIsSlice, SliceSeq
<1>4. a \o b \in Seq(Encrypted) /\ Len(a \o b) = m + n
  BY <1>1, <1>2, ConcatProperties, ZenonT(30)
<1>5. ASSUME NEW i \in 1..(m + n) PROVE (a \o b)[i] = c[i]
  <2>1. (a \o b)[i] = IF i <= m THEN a[i] ELSE b[i - m]
    BY <1>1, <1>2, ConcatProperties
  <2>2. c[i] = [byte |-> s[i], at |-> i]
    BY DEF Enc
  <2>3. i <= m => a[i] = [byte |-> s[i], at |-> i]
    BY DEF Enc
  <2>4. ~(i <= m) => b[i - m] = [byte |-> s[i], at |-> i]
    <3> SUFFICES ASSUME ~(i <= m) PROVE b[i - m] = [byte |-> s[i], at |-> i]
      OBVIOUS
    <3>1. i - m \in 1..n /\ m + (i - m) = i
      OBVIOUS
    <3> QED
      BY <3>1 DEF Slice
  <2> QED
    BY <2>1, <2>2, <2>3, <2>4
<1> HIDE DEF a, b, c
<1>6. a \o b = c
  BY <1>3, <1>4, <1>5, SeqEqual, SMTT(30)
<1> QED
  BY <1>6 DEF a, b, c

LEMMA ConcatEncrypted ==
    ASSUME NEW a \in Seq(Encrypted), NEW b \in Seq(Encrypted)
    PROVE  /\ a \o b \in Seq(Encrypted)
           /\ Len(a \o b) = Len(a) + Len(b)
           /\ a \o <<>> = a
BY ConcatProperties, ConcatEmptySeq

LEMMA ConcatEncryptedAssoc ==
    \A a, b, c \in Seq(Encrypted) : (a \o b) \o c = a \o (b \o c)
BY ConcatAssociative

(***************************************************************************)
(* What the loop needs of apply_keystream: the next n bytes extend what    *)
(* was encrypted so far.                                                   *)
(***************************************************************************)
LEMMA Applied ==
    ASSUME IInv, NEW n \in Nat, offset + n <= Len(input)
    PROVE  /\ apply_keystream(n) \in Seq(Encrypted)
           /\ Len(apply_keystream(n)) = n
           /\ packet \o apply_keystream(n) \in Seq(Encrypted)
           /\ Len(packet \o apply_keystream(n)) = Len(packet) + n
           /\ sent \o (packet \o apply_keystream(n)) = Enc(input, offset + n)
           /\ offset + n \in Nat
<1>1. /\ input \in Seq(0..255) /\ offset \in Nat /\ keystream = offset
      /\ packet \in Seq(Encrypted) /\ sent \in Seq(Encrypted)
  BY DEF IInv, TypeOK, StreamInv, Encrypted
<1> DEFINE next == Slice(input, offset, n)
<1>2. apply_keystream(n) = next
  BY <1>1 DEF apply_keystream, Slice
<1>3. sent \o packet = Enc(input, offset)
  BY DEF IInv, StreamInv, StreamInOrder, Enc
<1>4. next \in Seq(Encrypted) /\ Len(next) = n
  BY <1>1, SliceSeq
<1>5. Enc(input, offset) \o next = Enc(input, offset + n)
  BY <1>1, EncExtended
<1> HIDE DEF next
<1>6. /\ packet \o next \in Seq(Encrypted)
      /\ Len(packet \o next) = Len(packet) + Len(next)
  BY <1>1, <1>4, ConcatEncrypted, Zenon
<1>7. sent \o (packet \o next) = (sent \o packet) \o next
  BY <1>1, <1>4, ConcatEncryptedAssoc, Zenon
<1>8. offset + n \in Nat
  BY <1>1
<1>9. sent \o (packet \o next) = Enc(input, offset + n)
  BY <1>3, <1>5, <1>7
<1>10. Len(packet \o next) = Len(packet) + n
  BY <1>4, <1>6
<1> QED
  BY <1>2, <1>4, <1>6, <1>8, <1>9, <1>10

(***************************************************************************)
(* Push of a message that leaves nothing in assembly keeps the order.      *)
(***************************************************************************)
LEMMA Pushed ==
    ASSUME NEW message \in Seq(Encrypted), sent \in Seq(Encrypted), ends \in Seq(Nat),
           Push(message), packet' = <<>>
    PROVE  /\ sent' \in Seq(Encrypted) /\ ends' \in Seq(Nat)
           /\ sent' \o packet' = sent \o message
<1>1. sent \o message \in Seq(Encrypted)
  BY ConcatEncrypted
<1>2. Len(sent) + Len(message) \in Nat
  BY LenProperties
<1>3. ends' \in Seq(Nat)
  BY <1>2, AppendProperties DEF Push
<1>4. (sent \o message) \o <<>> = sent \o message
  BY <1>1, ConcatEncrypted
<1> QED
  BY <1>1, <1>3, <1>4 DEF Push

LEMMA InitIInv == Init => IInv
<1> SUFFICES ASSUME Init PROVE IInv
  OBVIOUS
<1>1. TypeOK
  <2>1. /\ proto \in Protos /\ input \in Seq(0..255) /\ Len(input) = 0
        /\ packet \in Seq([byte : 0..255, at : Nat]) /\ sent \in Seq([byte : 0..255, at : Nat])
        /\ ends \in Seq(Nat)
    BY DEF Init
  <2>2. header \in [1..MaxHeaderLen -> 0..255]
    BY DEF Init
  <2>3. /\ offset \in 0..Len(input) /\ keystream \in Nat
        /\ header_len \in 0..MaxHeaderLen /\ packet_len \in Nat
    BY <2>1 DEF Init, Unknown, MaxHeaderLen
  <2>4. disabled \in BOOLEAN /\ pc \in {"read", "split", "eof"}
    BY Zenon DEF Init
  <2> QED
    BY <2>1, <2>2, <2>3, <2>4 DEF TypeOK
<1>2. StreamInv
  <2>1. sent \o packet = <<>> /\ offset = 0
    BY DEF Init
  <2>2. [i \in 1..0 |-> [byte |-> input[i], at |-> i]] = <<>>
    OBVIOUS
  <2> QED
    BY <2>1, <2>2 DEF Init, StreamInv, StreamInOrder
<1>3. FramingInv
  BY DEF Init, FramingInv, required_header_len, Unknown
<1> QED
  BY <1>1, <1>2, <1>3 DEF IInv

LEMMA PrefixOf ==
    ASSUME NEW s \in Seq(0..255), NEW k \in Nat, k <= Len(s)
    PROVE  /\ SubSeq(s, 1, k) \in Seq(0..255)
           /\ Len(SubSeq(s, 1, k)) = k
           /\ \A i \in 1..k : SubSeq(s, 1, k)[i] = s[i]
<1>1. \A i \in 1..k : s[i] \in 0..255
  <2> TAKE i \in 1..k
  <2>1. i \in 1..Len(s)
    OBVIOUS
  <2> QED
    BY <2>1, ElementOfSeq
<1>2. Len(SubSeq(s, 1, k)) = k
  OBVIOUS
<1>3. \A i \in 1..k : SubSeq(s, 1, k)[i] = s[i]
  OBVIOUS
<1>4. SubSeq(s, 1, k) \in Seq(0..255)
  BY <1>1, SubSeqProperties, k \in Int, 1 \in Int, Zenon
<1> QED
  BY <1>2, <1>3, <1>4

(***************************************************************************)
(* A read extends the input and leaves what was consumed as it is.         *)
(***************************************************************************)
LEMMA ReadStep ==
    ASSUME IInv, NEW s \in Streams[proto], NEW n \in 1..Len(s), Read(s, n)
    PROVE  IInv'
<1>1. s \in Seq(0..255) /\ input \in Seq(0..255) /\ Len(input) \in Nat
  BY SplitterAssumption, LenProperties DEF IInv, TypeOK
<1>2. /\ input' \in Seq(0..255) /\ Len(input') = Len(input) + n
      /\ \A i \in 1..Len(input) : input'[i] = s[i]
  <2>1. Len(input) + n \in Nat /\ Len(input) + n <= Len(s)
    BY <1>1 DEF Read
  <2> QED
    BY <1>1, <2>1, PrefixOf DEF Read
<1>3. \A i \in 1..Len(input) : input[i] = s[i]
  <2>1. Len(input) <= Len(s)
    BY <1>1 DEF Read
  <2> QED
    BY <1>1, <2>1, PrefixOf DEF Read
<1>4. offset \in 0..Len(input)
  BY DEF IInv, TypeOK
<1>5. TypeOK'
  BY <1>1, <1>2, <1>4, SMTT(30) DEF IInv, TypeOK, Read, splitter, output
<1>6. StreamInv'
  <2>1. \A i \in 1..offset : input[i] = input'[i]
    BY <1>2, <1>3, <1>4, <1>1
  <2>2. Enc(input, offset) = Enc(input', offset)
    BY <2>1 DEF Enc
  <2> QED
    BY <2>2, Zenon DEF IInv, StreamInv, StreamInOrder, Enc, Read, splitter, output
<1>7. FramingInv'
  BY DEF IInv, FramingInv, required_header_len, Extended, Read, splitter, output
<1> QED
  BY <1>5, <1>6, <1>7 DEF IInv

LEMMA TunnelStep ==
    ASSUME IInv, Tunnel
    PROVE  IInv'
<1> DEFINE n == Len(input) - offset
<1>1. /\ n \in Nat /\ offset + n = Len(input) /\ offset \in Nat /\ Len(input) \in Nat
      /\ keystream = offset /\ sent \in Seq(Encrypted) /\ ends \in Seq(Nat)
  BY LenProperties DEF IInv, TypeOK, StreamInv, Encrypted
<1>0. offset + n <= Len(input)
  BY <1>1
<1> HIDE DEF n
<1>2. /\ apply_keystream(n) \in Seq(Encrypted)
      /\ sent \o (packet \o apply_keystream(n)) = Enc(input, offset + n)
  BY <1>0, <1>1, Applied, Zenon
<1>3. packet = <<>> /\ packet' = <<>>
  BY DEF IInv, FramingInv, Tunnel, splitter
<1>4. packet \o apply_keystream(n) = apply_keystream(n)
  BY <1>2, <1>3, ConcatEmptySeq
<1>5. Push(apply_keystream(n)) /\ offset' = offset + n /\ keystream' = keystream + n
  BY DEF Tunnel, Consume, n
<1>6. /\ sent' \in Seq(Encrypted) /\ ends' \in Seq(Nat)
      /\ sent' \o packet' = sent \o apply_keystream(n)
  BY <1>1, <1>2, <1>3, <1>5, Pushed
<1>7. TypeOK'
  <2>1. offset' \in 0..Len(input) /\ keystream' \in Nat
    BY <1>1, <1>5
  <2> QED
    BY <1>6, <2>1, SMTT(30) DEF IInv, TypeOK, Tunnel, splitter, Encrypted
<1>8. StreamInv'
  <2>1. input' = input
    BY DEF Tunnel
  <2>2. sent' \o packet' = Enc(input', offset')
    BY <1>2, <1>4, <1>5, <1>6, <2>1
  <2>3. keystream' = offset'
    BY <1>1, <1>5
  <2> QED
    BY <2>2, <2>3 DEF StreamInv, StreamInOrder, Enc
<1>9. FramingInv'
  BY DEF IInv, FramingInv, required_header_len, Extended, Tunnel, splitter
<1> QED
  BY <1>7, <1>8, <1>9 DEF IInv

LEMMA ReturnStep ==
    ASSUME IInv, Return
    PROVE  IInv'
<1>1. TypeOK'
  BY SMTT(30) DEF IInv, TypeOK, Return, splitter, output
<1>2. StreamInv'
  BY DEF IInv, StreamInv, StreamInOrder, Return, splitter, output
<1>3. FramingInv'
  BY DEF IInv, FramingInv, required_header_len, Extended, Return, splitter, output
<1> QED
  BY <1>1, <1>2, <1>3 DEF IInv

(***************************************************************************)
(* The partial packet goes out, and an empty one starts.                   *)
(***************************************************************************)
LEMMA FlushStep ==
    ASSUME IInv, flush
    PROVE  IInv'
<1>1. CASE packet = <<>>
  <2>1. TypeOK'
    BY <1>1, SMTT(30) DEF IInv, TypeOK, flush, splitter, output
  <2>2. StreamInv'
    BY <1>1 DEF IInv, StreamInv, StreamInOrder, flush, splitter, output
  <2>3. FramingInv'
    BY <1>1 DEF IInv, FramingInv, required_header_len, Extended, flush, splitter, output
  <2> QED
    BY <2>1, <2>2, <2>3 DEF IInv
<1>2. CASE packet # <<>>
  <2>1. /\ Push(packet) /\ packet' = <<>> /\ header_len' = 0 /\ packet_len' = Unknown
        /\ UNCHANGED <<header, disabled, proto, input, offset, keystream>> /\ pc' = "eof"
    BY <1>2 DEF flush
  <2>2. packet \in Seq(Encrypted) /\ sent \in Seq(Encrypted) /\ ends \in Seq(Nat)
    BY DEF IInv, TypeOK, Encrypted
  <2>3. /\ sent' \in Seq(Encrypted) /\ ends' \in Seq(Nat)
        /\ sent' \o packet' = sent \o packet
    BY <2>1, <2>2, Pushed, SMTT(30)
  <2>4. TypeOK'
    BY <2>1, <2>3 DEF IInv, TypeOK, Encrypted, Unknown, MaxHeaderLen
  <2>5. StreamInv'
    BY <2>1, <2>3 DEF IInv, StreamInv, StreamInOrder
  <2>6. FramingInv'
    BY <2>1 DEF FramingInv, required_header_len, Unknown
  <2> QED
    BY <2>4, <2>5, <2>6 DEF IInv
<1> QED
  BY <1>1, <1>2

LEMMA Smaller ==
    ASSUME NEW i \in Nat, NEW j \in Nat
    PROVE  /\ smaller(i, j) \in Nat
           /\ smaller(i, j) <= i /\ smaller(i, j) <= j
           /\ i > 0 /\ j > 0 => smaller(i, j) > 0
BY DEF smaller

(***************************************************************************)
(* A piece of a packet's body: either it completes the packet, which is    *)
(* sent whole, or the packet still falls short of its length.              *)
(***************************************************************************)
LEMMA BodyStep ==
    ASSUME IInv, Body
    PROVE  IInv'
<1> DEFINE n == smaller(packet_len - Len(packet), Len(input) - offset)
<1>1. /\ offset \in Nat /\ Len(input) \in Nat /\ offset <= Len(input) /\ keystream = offset
      /\ Len(packet) \in Nat /\ packet_len \in Nat /\ Len(packet) < packet_len
      /\ packet \in Seq(Encrypted) /\ sent \in Seq(Encrypted) /\ ends \in Seq(Nat)
  BY LenProperties DEF IInv, TypeOK, StreamInv, FramingInv, Body, Encrypted
<1>2. /\ n \in Nat /\ offset + n <= Len(input)
      /\ Len(packet) + n = packet_len \/ Len(packet) + n < packet_len
  <2>1. packet_len - Len(packet) \in Nat /\ Len(input) - offset \in Nat
    BY <1>1
  <2>2. n \in Nat /\ n <= packet_len - Len(packet) /\ n <= Len(input) - offset
    BY <2>1, Smaller
  <2>3. ASSUME NEW a \in Nat, NEW b \in Nat, NEW c \in Nat, NEW d \in Nat, NEW k \in Nat,
               k <= a - b, k <= d - c
        PROVE  c + k <= d /\ (b + k = a \/ b + k < a)
    BY <2>3
  <2> HIDE DEF n
  <2> QED
    BY <1>1, <2>2, <2>3, Zenon
<1>0. n = smaller(packet_len - Len(packet), Len(input) - offset)
  OBVIOUS
<1> HIDE DEF n
<1> DEFINE body == apply_keystream(n)
<1>3. /\ body \in Seq(Encrypted) /\ Len(body) = n
      /\ packet \o body \in Seq(Encrypted)
      /\ Len(packet \o body) = Len(packet) + n
      /\ sent \o (packet \o body) = Enc(input, offset + n)
  BY <1>2, Applied, Zenon
<1>4. /\ Consume(Len(body)) /\ ~disabled /\ packet_len # Unknown
      /\ IF Len(packet) + Len(body) = packet_len
         THEN Push(packet \o body) /\ packet' = <<>> /\ header_len' = 0 /\ packet_len' = Unknown
         ELSE packet' = packet \o body /\ UNCHANGED <<header_len, packet_len, output>>
      /\ UNCHANGED <<proto, input, header, disabled, pc>>
  BY <1>0 DEF Body
<1> HIDE DEF body
<1>5. /\ offset' = offset + n /\ keystream' = offset'
      /\ offset' \in 0..Len(input') /\ keystream' \in Nat
  BY <1>1, <1>2, <1>3, <1>4 DEF Consume
<1>6. CASE Len(packet) + n = packet_len
  <2>1. Push(packet \o body) /\ packet' = <<>> /\ header_len' = 0 /\ packet_len' = Unknown
    BY <1>3, <1>4, <1>6
  <2>2. /\ sent' \in Seq(Encrypted) /\ ends' \in Seq(Nat)
        /\ sent' \o packet' = sent \o (packet \o body)
    BY <1>1, <1>3, <2>1, Pushed, Zenon
  <2>3. TypeOK'
    <3>1. /\ packet' \in Seq(Encrypted) /\ packet_len' \in Nat /\ header_len' \in 0..MaxHeaderLen
      BY <2>1 DEF Unknown, MaxHeaderLen
    <3>2. UNCHANGED <<proto, input, header, disabled, pc>> /\ TypeOK
      BY <1>4 DEF IInv
    <3> QED
      BY <1>5, <2>2, <3>1, <3>2 DEF TypeOK, Encrypted
  <2>4. StreamInv'
    BY <1>3, <1>4, <1>5, <2>2 DEF StreamInv, StreamInOrder, Enc
  <2>5. FramingInv'
    BY <1>4, <2>1 DEF FramingInv, required_header_len, Unknown
  <2> QED
    BY <2>3, <2>4, <2>5 DEF IInv
<1>7. CASE Len(packet) + n < packet_len
  <2>1. packet' = packet \o body /\ UNCHANGED <<header_len, packet_len, sent, ends>>
    BY <1>1, <1>2, <1>3, <1>4, <1>7, SMTT(30) DEF output
  <2>2. TypeOK'
    BY <1>3, <1>4, <1>5, <2>1, SMTT(30) DEF IInv, TypeOK, Encrypted
  <2>3. StreamInv'
    BY <1>3, <1>4, <1>5, <2>1 DEF StreamInv, StreamInOrder, Enc
  <2>4. FramingInv'
    BY <1>3, <1>4, <1>7, <2>1 DEF FramingInv
  <2> QED
    BY <2>2, <2>3, <2>4 DEF IInv
<1> QED
  BY <1>2, <1>6, <1>7

(***************************************************************************)
(* A packet that has a length is longer than its header.                   *)
(***************************************************************************)
FullHeaderLen(h) == IF proto = "Abridged" /\ ~Extended(h) THEN 1 ELSE 4

LEMMA ParsedLen ==
    ASSUME proto \in Protos, NEW h \in [1..MaxHeaderLen -> 0..255]
    PROVE  /\ parsed_packet_len(h) \in Nat
           /\ parsed_packet_len(h) # 0 => parsed_packet_len(h) > FullHeaderLen(h)
<1> USE DEF MaxHeaderLen
<1>1. /\ h[1] \in 0..255 /\ h[2] \in 0..255 /\ h[3] \in 0..255 /\ h[4] \in 0..255
  OBVIOUS
<1>2. \A b \in 0..255 : b % 128 \in Nat
  OBVIOUS
<1>3. CASE proto = "Intermediate"
  <2> DEFINE payload == h[1] + 256 * h[2] + 65536 * h[3] + 16777216 * (h[4] % 128)
  <2>1. payload \in Nat
    <3>1. \A a, b, c, d \in Nat : a + 256 * b + 65536 * c + 16777216 * d \in Nat
      OBVIOUS
    <3>2. h[1] \in Nat /\ h[2] \in Nat /\ h[3] \in Nat /\ h[4] % 128 \in Nat
      BY <1>1, <1>2, SMTT(30)
    <3> QED
      BY <3>1, <3>2
  <2>2. parsed_packet_len(h) = IF payload = 0 THEN 0 ELSE payload + 4
    BY <1>3 DEF parsed_packet_len
  <2> HIDE DEF payload
  <2> QED
    BY <1>3, <2>1, <2>2 DEF FullHeaderLen
<1>4. CASE proto = "Abridged" /\ Extended(h)
  <2> DEFINE words == h[2] + 256 * h[3] + 65536 * h[4]
  <2>1. words \in Nat
    <3>1. \A a, b, c \in Nat : a + 256 * b + 65536 * c \in Nat
      OBVIOUS
    <3>2. h[2] \in Nat /\ h[3] \in Nat /\ h[4] \in Nat
      BY <1>1, SMTT(30)
    <3> QED
      BY <3>1, <3>2
  <2>2. parsed_packet_len(h) = IF words = 0 THEN 0 ELSE 4 * words + 4
    BY <1>4 DEF parsed_packet_len, WordsBytes
  <2> HIDE DEF words
  <2> QED
    BY <1>4, <2>1, <2>2 DEF FullHeaderLen
<1>5. CASE proto = "Abridged" /\ ~Extended(h)
  <2> DEFINE words == h[1] % 128
  <2>1. words \in Nat
    BY <1>1, <1>2
  <2>2. parsed_packet_len(h) = IF words = 0 THEN 0 ELSE 4 * words + 1
    BY <1>5 DEF parsed_packet_len, WordsBytes
  <2> HIDE DEF words
  <2> QED
    BY <1>5, <2>1, <2>2, SMTT(20) DEF FullHeaderLen
<1> QED
  BY <1>3, <1>4, <1>5, SMTT(20) DEF Protos

(***************************************************************************)
(* The header after a piece of it was copied: its first byte tells how     *)
(* long it has to be, and a byte that was already there stays.             *)
(***************************************************************************)
HeaderAfter(take) ==
    [i \in 1..MaxHeaderLen |-> IF i \in header_len + 1 .. header_len + take
                               THEN input[offset + i - header_len] ELSE header[i]]

LEMMA HeaderFilled ==
    ASSUME IInv, packet_len = Unknown,
           NEW take \in Nat, take > 0, header_len + take <= required_header_len,
           offset + take <= Len(input)
    PROVE  /\ HeaderAfter(take) \in [1..MaxHeaderLen -> 0..255]
           /\ header_len + take = required_header_len
                => header_len + take <= FullHeaderLen(HeaderAfter(take))
           /\ header_len + take # required_header_len
                => header_len + take < FullHeaderLen(HeaderAfter(take))
           /\ header_len + take \in 1..MaxHeaderLen
<1> DEFINE h == HeaderAfter(take)
<1>1. /\ input \in Seq(0..255) /\ offset \in Nat /\ Len(input) \in Nat /\ proto \in Protos
      /\ header \in [1..MaxHeaderLen -> 0..255] /\ header_len \in 0..MaxHeaderLen
      /\ header_len < required_header_len
  BY LenProperties, SMTT(30) DEF IInv, TypeOK, FramingInv
<1>2. required_header_len \in {1, 4}
  BY DEF required_header_len
<1>3. header_len + take \in 1..MaxHeaderLen
  BY <1>1, <1>2 DEF MaxHeaderLen
<1>4. h \in [1..MaxHeaderLen -> 0..255]
  <2>1. ASSUME NEW i \in 1..MaxHeaderLen, i \in header_len + 1 .. header_len + take
        PROVE  input[offset + i - header_len] \in 0..255
    <3>1. offset + i - header_len \in 1..Len(input)
      BY <1>1, <2>1 DEF MaxHeaderLen
    <3> QED
      BY <1>1, <3>1, ElementOfSeq, ZenonT(30)
  <2> QED
    BY <1>1, <2>1, ZenonT(30) DEF HeaderAfter
<1>5. header_len # 0 => h[1] = header[1]
  BY <1>1 DEF HeaderAfter, MaxHeaderLen
<1>6. header_len # 0 => (Extended(h) <=> Extended(header))
  BY <1>5 DEF Extended
<1> HIDE DEF h
<1>7. CASE header_len = 0
  <2>1. proto = "Abridged" => required_header_len = 1
    BY <1>7 DEF required_header_len
  <2>2. proto # "Abridged" => required_header_len = 4 /\ FullHeaderLen(h) = 4
    BY DEF required_header_len, FullHeaderLen
  <2>3. FullHeaderLen(h) \in {1, 4}
    BY DEF FullHeaderLen
  <2> QED
    BY <1>1, <1>3, <1>4, <1>7, <2>1, <2>2, <2>3, SMTT(30) DEF h
<1>8. CASE header_len # 0
  <2>1. required_header_len = FullHeaderLen(h)
    BY <1>6, <1>8 DEF required_header_len, FullHeaderLen
  <2>2. FullHeaderLen(h) \in Nat /\ header_len + take <= FullHeaderLen(h)
    BY <1>2, <2>1
  <2>3. header_len + take # required_header_len => header_len + take < FullHeaderLen(h)
    BY <1>3, <2>1, <2>2
  <2> QED
    BY <1>3, <1>4, <2>2, <2>3, SMTT(30) DEF h
<1> QED
  BY <1>7, <1>8, SMTT(20)

(***************************************************************************)
(* A piece of the header: the header stays incomplete, or it is complete   *)
(* and either gives a length or ends the framing with all of the chunk.    *)
(***************************************************************************)
LEMMA HeaderStep ==
    ASSUME IInv, Header
    PROVE  IInv'
<1> DEFINE take == smaller(required_header_len - header_len, Len(input) - offset)
           len == header_len + take
           h == HeaderAfter(take)
           complete == len = required_header_len /\ ~Unparsed(h, len)
<1>1. /\ offset \in Nat /\ Len(input) \in Nat /\ offset < Len(input) /\ keystream = offset
      /\ Len(packet) = header_len /\ header_len \in Nat /\ header_len < required_header_len
      /\ sent \in Seq(Encrypted) /\ ends \in Seq(Nat) /\ proto \in Protos
      /\ packet_len = Unknown /\ ~disabled /\ required_header_len \in Nat
  <2>1. packet_len = Unknown /\ ~disabled /\ offset < Len(input)
    BY DEF Header
  <2>2. /\ offset \in Nat /\ Len(input) \in Nat /\ keystream = offset /\ proto \in Protos
        /\ sent \in Seq(Encrypted) /\ ends \in Seq(Nat) /\ header_len \in Nat
    BY LenProperties DEF IInv, TypeOK, StreamInv, Encrypted, MaxHeaderLen
  <2>3. required_header_len \in Nat
    BY DEF required_header_len
  <2> QED
    BY <2>1, <2>2, <2>3 DEF IInv, FramingInv
<1>2. take \in Nat /\ take > 0 /\ len <= required_header_len /\ offset + take <= Len(input)
  <2>1. /\ required_header_len - header_len \in Nat /\ required_header_len - header_len > 0
        /\ Len(input) - offset \in Nat /\ Len(input) - offset > 0
    BY <1>1
  <2>2. /\ take \in Nat /\ take > 0
        /\ take <= required_header_len - header_len /\ take <= Len(input) - offset
    BY <2>1, Smaller, SMTT(30)
  <2> HIDE DEF take
  <2> QED
    BY <1>1, <2>2
<1>3. /\ header' = h
      /\ IF complete /\ parsed_packet_len(h) = 0
         THEN GiveUp
         ELSE /\ header_len' = len
              /\ packet' = packet \o apply_keystream(take)
              /\ packet_len' = IF complete THEN parsed_packet_len(h) ELSE Unknown
              /\ Consume(take)
              /\ UNCHANGED <<disabled, output>>
      /\ UNCHANGED <<proto, input, pc>>
  BY DEF Header, HeaderAfter
<1> HIDE DEF take
<1>4. /\ h \in [1..MaxHeaderLen -> 0..255] /\ len \in 1..MaxHeaderLen
      /\ len = required_header_len => len <= FullHeaderLen(h)
      /\ len # required_header_len => len < FullHeaderLen(h)
  BY <1>1, <1>2, HeaderFilled, ZenonT(30)
<1>5. /\ parsed_packet_len(h) \in Nat
      /\ parsed_packet_len(h) # 0 => parsed_packet_len(h) > FullHeaderLen(h)
  BY <1>1, <1>4, ParsedLen
<1>6. Unparsed(h, len) <=> len < FullHeaderLen(h)
  BY DEF Unparsed, FullHeaderLen
<1> HIDE DEF h
<1>7. CASE complete /\ parsed_packet_len(h) = 0
  <2> DEFINE n == Len(input) - offset
  <2>1. n \in Nat /\ offset + n = Len(input) /\ offset + n <= Len(input)
    BY <1>1
  <2>2. /\ Push(packet \o apply_keystream(n)) /\ offset' = offset + n
        /\ keystream' = keystream + n /\ packet' = <<>> /\ disabled' = TRUE
        /\ header_len' = 0 /\ packet_len' = Unknown
    BY <1>1, <1>3, <1>7 DEF GiveUp, Consume
  <2> HIDE DEF n
  <2>3. /\ packet \o apply_keystream(n) \in Seq(Encrypted)
        /\ sent \o (packet \o apply_keystream(n)) = Enc(input, offset + n)
    BY <2>1, Applied
  <2>4. /\ sent' \in Seq(Encrypted) /\ ends' \in Seq(Nat)
        /\ sent' \o packet' = sent \o (packet \o apply_keystream(n))
    BY <1>1, <2>2, <2>3, Pushed, Zenon
  <2>5. offset' \in 0..Len(input') /\ keystream' \in Nat /\ keystream' = offset'
    BY <1>1, <1>3, <2>1, <2>2
  <2>6. TypeOK'
    <3>1. header_len' \in 0..MaxHeaderLen /\ packet_len' \in Nat /\ disabled' \in BOOLEAN
      BY <2>2 DEF Unknown, MaxHeaderLen
    <3>2. packet' \in Seq([byte : 0..255, at : Nat])
      BY <2>2
    <3>3. sent' \in Seq([byte : 0..255, at : Nat]) /\ ends' \in Seq(Nat)
      BY <2>4 DEF Encrypted
    <3>4. /\ proto' \in Protos /\ input' \in Seq(0..255) /\ header' \in [1..MaxHeaderLen -> 0..255]
          /\ pc' \in {"read", "split", "eof"}
      BY <1>3, <1>4, SMTT(30) DEF IInv, TypeOK
    <3> QED
      BY <2>5, <3>1, <3>2, <3>3, <3>4 DEF TypeOK
  <2>7. StreamInv'
    BY <1>3, <2>2, <2>3, <2>4, <2>5 DEF StreamInv, StreamInOrder, Enc
  <2>8. FramingInv'
    BY <2>2 DEF FramingInv, required_header_len, Unknown
  <2> QED
    BY <2>6, <2>7, <2>8 DEF IInv
<1>8. CASE ~(complete /\ parsed_packet_len(h) = 0)
  <2>1. /\ header_len' = len
        /\ packet' = packet \o apply_keystream(take)
        /\ packet_len' = IF complete THEN parsed_packet_len(h) ELSE Unknown
        /\ offset' = offset + take /\ keystream' = keystream + take
        /\ UNCHANGED <<disabled, sent, ends>>
    BY <1>3, <1>8 DEF Consume, output
  <2>2. /\ packet \o apply_keystream(take) \in Seq(Encrypted)
        /\ Len(packet \o apply_keystream(take)) = Len(packet) + take
        /\ sent \o (packet \o apply_keystream(take)) = Enc(input, offset + take)
    BY <1>2, Applied, SMTT(30)
  <2>3. offset' \in 0..Len(input') /\ keystream' \in Nat /\ keystream' = offset'
    BY <1>1, <1>2, <1>3, <2>1
  <2>4. packet_len' \in Nat
    BY <1>5, <2>1 DEF Unknown
  <2>5. TypeOK'
    <3>1. header_len' \in 0..MaxHeaderLen
      BY <1>4, <2>1 DEF MaxHeaderLen
    <3>2. packet' \in Seq([byte : 0..255, at : Nat])
      BY <2>1, <2>2, SMTT(30) DEF Encrypted
    <3>3. /\ proto' \in Protos /\ input' \in Seq(0..255) /\ header' \in [1..MaxHeaderLen -> 0..255]
          /\ disabled' \in BOOLEAN /\ sent' \in Seq([byte : 0..255, at : Nat])
          /\ ends' \in Seq(Nat) /\ pc' \in {"read", "split", "eof"}
      BY <1>3, <1>4, <2>1, SMTT(30) DEF IInv, TypeOK
    <3> QED
      BY <2>3, <2>4, <3>1, <3>2, <3>3, SMTT(30) DEF TypeOK
  <2>6. StreamInv'
    BY <1>3, <2>1, <2>2, <2>3 DEF StreamInv, StreamInOrder, Enc
  <2>7. Len(packet') = len /\ len # 0
    BY <1>1, <1>4, <2>1, <2>2
  <2>8. required_header_len' = FullHeaderLen(h)
    BY <1>3, <2>1, <2>7 DEF required_header_len, FullHeaderLen, Extended
  <2>9. FramingInv'
    <3>1. CASE complete
      <4>1. packet_len' = parsed_packet_len(h) /\ packet_len' # 0
        BY <1>8, <2>1, <3>1
      <4>2. len < packet_len'
        BY <1>4, <1>5, <3>1, <4>1 DEF FullHeaderLen
      <4> QED
        BY <1>1, <2>1, <2>7, <4>1, <4>2 DEF FramingInv, Unknown
    <3>2. CASE ~complete
      <4>1. len < FullHeaderLen(h)
        BY <1>4, <1>6, <3>2
      <4> QED
        BY <1>1, <2>1, <2>7, <2>8, <3>2, <4>1 DEF FramingInv, Unknown
    <3> QED
      BY <3>1, <3>2
  <2> QED
    BY <2>5, <2>6, <2>9 DEF IInv
<1> QED
  BY <1>7, <1>8

LEMMA NextIInv == IInv /\ [Next]_vars => IInv'
<1> SUFFICES ASSUME IInv, [Next]_vars PROVE IInv'
  OBVIOUS
<1>1. CASE \E s \in Streams[proto] : \E n \in 1..Len(s) : Read(s, n)
  BY <1>1, ReadStep
<1>2. CASE Tunnel
  BY <1>2, TunnelStep
<1>3. CASE Header
  BY <1>3, HeaderStep
<1>4. CASE Body
  BY <1>4, BodyStep
<1>5. CASE Return
  BY <1>5, ReturnStep
<1>6. CASE flush
  BY <1>6, FlushStep
<1>7. CASE UNCHANGED vars
  <2>1. TypeOK'
    BY <1>7, SMTT(30) DEF IInv, TypeOK, vars
  <2>2. StreamInv'
    BY <1>7 DEF IInv, StreamInv, StreamInOrder, vars
  <2>3. FramingInv'
    BY <1>7 DEF IInv, FramingInv, required_header_len, Extended, vars
  <2> QED
    BY <2>1, <2>2, <2>3 DEF IInv
<1> QED
  BY <1>1, <1>2, <1>3, <1>4, <1>5, <1>6, <1>7 DEF Next, Split

LEMMA Invariance == Spec => []IInv
BY InitIInv, NextIInv, PTL DEF Spec

-----------------------------------------------------------------------------
(***************************************************************************)
(* The fields of MsgSplitter stay in their types: the header buffer of     *)
(* four bytes is never overrun.                                            *)
(***************************************************************************)
THEOREM TypeCorrect == Spec => []TypeOK
<1>1. IInv => TypeOK
  BY DEF IInv
<1> QED
  BY <1>1, Invariance, PTL

(***************************************************************************)
(* split_and_encrypt and flush lose, repeat and reorder nothing, and       *)
(* encrypt each byte once, at its own place: for every stream, transport   *)
(* and division into reads.                                                *)
(***************************************************************************)
THEOREM StreamStaysInOrder == Spec => []StreamInOrder
<1>1. IInv => StreamInOrder
  BY DEF IInv, StreamInv
<1> QED
  BY <1>1, Invariance, PTL

(***************************************************************************)
(* The size subtractions of split_and_encrypt never go below zero.         *)
(***************************************************************************)
THEOREM SizesNeverUnderflow == Spec => []NoUnderflow
<1>1. IInv => NoUnderflow
  <2>1. IInv => header_len \in Int /\ required_header_len \in Int
    BY DEF IInv, TypeOK, MaxHeaderLen, required_header_len
  <2> QED
    BY <2>1 DEF IInv, FramingInv, NoUnderflow
<1> QED
  BY <1>1, Invariance, PTL

-----------------------------------------------------------------------------
(***************************************************************************)
(* The messages.  The reference of OnePacketPerMessage as constant-level   *)
(* operators of the transport p, the stream s and the ends e.              *)
(***************************************************************************)
HdrLen(p, b) == IF p = "Abridged" /\ b \notin {127, 255} THEN 1 ELSE 4

LenOf(p, h) ==
    CASE p = "Intermediate" ->
            LET payload == h[1] + 256 * h[2] + 65536 * h[3] + 16777216 * (h[4] % 128)
            IN  IF payload = 0 THEN 0 ELSE payload + 4
      [] p = "Abridged" /\ Extended(h) -> WordsBytes(h[2] + 256 * h[3] + 65536 * h[4], 4)
      [] OTHER -> WordsBytes(h[1] % 128, 1)

LenAt(p, s, i) == LenOf(p, [j \in 1..HdrLen(p, s[i + 1]) |-> s[i + j]])

HeaderAt(p, s, i) == i < Len(s) /\ i + HdrLen(p, s[i + 1]) <= Len(s)

PacketAt(p, s, i, j) == HeaderAt(p, s, i) /\ LenAt(p, s, i) # 0 /\ j = i + LenAt(p, s, i)

From(e, m) == IF m = 1 THEN 0 ELSE e[m - 1]

Rising(e) == \A m \in 1..Len(e) : From(e, m) < e[m]

Packets(p, s, e, n) == \A m \in 1..n : PacketAt(p, s, From(e, m), e[m])

GivenUp(p, s, e) ==
    \E k \in 1..Len(e) :
        /\ Packets(p, s, e, k - 1)
        /\ HeaderAt(p, s, From(e, k)) /\ LenAt(p, s, From(e, k)) = 0

(***************************************************************************)
(* The strengthening.  The messages cover what was sent; between two calls *)
(* all of the input is consumed.  Up to the flush, the messages are the    *)
(* packets so far, the header holds the bytes at the start of the next one *)
(* and packet_len is its length.                                           *)
(***************************************************************************)
SentInv == Rising(ends) /\ Len(sent) = From(ends, Len(ends) + 1)

CallInv ==
    /\ pc = "read" => offset = Len(input)
    /\ pc = "eof" => offset = Len(input) /\ packet = <<>>

AssemblyInv ==
    /\ Packets(proto, input, ends, Len(ends))
    /\ packet_len = Unknown => \A i \in 1..header_len : header[i] = input[Len(sent) + i]
    /\ packet_len # Unknown =>
          HeaderAt(proto, input, Len(sent)) /\ packet_len = LenAt(proto, input, Len(sent))

PacketInv ==
    pc # "eof" => IF disabled THEN GivenUp(proto, input, ends) ELSE AssemblyInv

MInv == SentInv /\ CallInv /\ PacketInv

LEMMA EncSeq ==
    ASSUME NEW s \in Seq(0..255), NEW n \in Nat, n <= Len(s)
    PROVE  Enc(s, n) \in Seq(Encrypted) /\ Len(Enc(s, n)) = n
<1>1. Len(s) \in Nat /\ 0 \in Nat /\ 0 + n <= Len(s)
  BY LenProperties
<1>2. Slice(s, 0, n) \in Seq(Encrypted) /\ Len(Slice(s, 0, n)) = n
  BY <1>1, SliceSeq
<1> QED
  BY <1>2, EncIsSlice

\* What was consumed was sent or is in assembly.
LEMMA Consumed ==
    ASSUME IInv
    PROVE  /\ offset = Len(sent) + Len(packet)
           /\ offset \in Nat /\ Len(sent) \in Nat /\ Len(packet) \in Nat /\ Len(input) \in Nat
           /\ Len(ends) \in Nat
<1>1. /\ input \in Seq(0..255) /\ sent \in Seq(Encrypted) /\ ends \in Seq(Nat)
      /\ packet \in Seq(Encrypted) /\ offset \in Nat /\ offset <= Len(input)
  BY LenProperties DEF IInv, TypeOK, Encrypted
<1>2. sent \o packet = Enc(input, offset)
  BY DEF IInv, StreamInv, StreamInOrder, Enc
<1>3. Len(sent \o packet) = Len(sent) + Len(packet)
  BY <1>1, ConcatEncrypted
<1>4. Len(Enc(input, offset)) = offset
  BY <1>1, EncSeq
<1> QED
  BY <1>1, <1>2, <1>3, <1>4, LenProperties, ZenonT(30)

LEMMA MInvFlushed == IInv /\ MInv => FlushedAll
<1> SUFFICES ASSUME IInv, MInv, pc = "eof"
             PROVE  Len(sent) = Len(input) /\ (input # <<>> => ends[Len(ends)] = Len(input))
  BY DEF FlushedAll
<1>1. /\ input \in Seq(0..255) /\ sent \in Seq(Encrypted) /\ ends \in Seq(Nat)
      /\ offset \in Nat /\ Len(input) \in Nat /\ Len(ends) \in Nat
  BY LenProperties DEF IInv, TypeOK, Encrypted
<1>2. packet = <<>> /\ offset = Len(input)
  BY DEF MInv, CallInv
<1>4. Len(sent) = Len(input)
  BY <1>2, Consumed, EmptySeq
<1>5. ASSUME input # <<>> PROVE ends[Len(ends)] = Len(input)
  <2>1. Len(input) # 0
    BY <1>1, <1>5, EmptySeq
  <2>2. Len(input) = From(ends, Len(ends) + 1)
    BY <1>4 DEF MInv, SentInv
  <2> QED
    BY <1>1, <2>1, <2>2 DEF From
<1> QED
  BY <1>4, <1>5

LEMMA MInvPackets == IInv /\ MInv => OnePacketPerMessage
<1> SUFFICES ASSUME IInv, MInv, pc = "read" PROVE OnePacketPerMessage
  BY DEF OnePacketPerMessage
<1>1. \A h : parsed_packet_len(h) = LenOf(proto, h)
  BY DEF parsed_packet_len, LenOf
<1>2. \A x, i : HeaderBytes(x, i) = HdrLen(proto, x[i + 1])
  BY DEF HeaderBytes, HdrLen
<1>3. \A x, i : PacketLen(x, i) = LenAt(proto, x, i) /\ (HasHeader(x, i) <=> HeaderAt(proto, x, i))
  BY <1>1, <1>2, Zenon DEF PacketLen, LenAt, HasHeader, HeaderAt
<1>4. \A x, i, j : IsPacket(x, i, j) <=> PacketAt(proto, x, i, j)
  BY <1>3, Zenon DEF IsPacket, PacketAt
<1>5. \A m : Begins(m) = From(ends, m)
  BY Zenon DEF Begins, From
<1>6. \A m \in 1..Len(ends) : Begins(m) < ends[m]
  BY <1>5, Zenon DEF MInv, SentInv, Rising
<1>7. CASE disabled
  <2>1. packet = <<>>
    BY <1>7 DEF IInv, FramingInv
  <2>2. \E k \in 1..Len(ends) :
           /\ \A m \in 1..(k - 1) : IsPacket(input, Begins(m), ends[m])
           /\ HasHeader(input, Begins(k)) /\ PacketLen(input, Begins(k)) = 0
    <3>1. GivenUp(proto, input, ends)
      BY <1>7 DEF MInv, PacketInv
    <3> QED
      BY <3>1, <1>3, <1>4, <1>5, Zenon DEF GivenUp, Packets
  <2> QED
    BY <1>6, <1>7, <2>1, <2>2, Zenon DEF OnePacketPerMessage
<1>8. CASE ~disabled
  <2>1. AssemblyInv
    BY <1>8 DEF MInv, PacketInv
  <2>2. \A m \in 1..Len(ends) : IsPacket(input, Begins(m), ends[m])
    BY <1>4, <1>5, <2>1, Zenon DEF AssemblyInv, Packets
  <2>3. ~HasPacket(input, Begins(Len(ends) + 1))
    <3> SUFFICES ASSUME HeaderAt(proto, input, Len(sent)),
                        Len(sent) + LenAt(proto, input, Len(sent)) <= Len(input)
                 PROVE  FALSE
      BY <1>3, <1>5, Zenon DEF HasPacket, MInv, SentInv
    <3>1. /\ Len(input) = Len(sent) + Len(packet)
          /\ Len(sent) \in Nat /\ Len(packet) \in Nat /\ Len(input) \in Nat
      BY Consumed DEF MInv, CallInv
    <3>2. CASE packet_len # Unknown
      <4>1. Len(packet) < packet_len /\ packet_len = LenAt(proto, input, Len(sent))
        BY <2>1, <3>2 DEF IInv, FramingInv, AssemblyInv
      <4>2. packet_len \in Nat
        BY DEF IInv, TypeOK
      <4> QED
        BY <3>1, <4>1, <4>2
    <3>3. CASE packet_len = Unknown
      <4>1. /\ Len(packet) = header_len /\ header_len < required_header_len /\ header_len \in Nat
        BY <3>1, <3>3 DEF IInv, FramingInv
      <4>2. header_len # 0
        BY <3>1, <4>1 DEF HeaderAt
      <4>3. 1 \in 1..header_len
        BY <4>1, <4>2
      <4>4. header[1] = input[Len(sent) + 1]
        BY <2>1, <3>3, <4>3 DEF AssemblyInv
      <4>5. required_header_len = HdrLen(proto, input[Len(sent) + 1])
        BY <4>2, <4>4 DEF required_header_len, HdrLen, Extended
      <4>6. HdrLen(proto, input[Len(sent) + 1]) \in Nat
        BY DEF HdrLen
      <4> QED
        BY <3>1, <4>1, <4>5, <4>6 DEF HeaderAt
    <3> QED
      BY <3>2, <3>3
  <2> QED
    BY <1>6, <1>8, <2>2, <2>3, Zenon DEF OnePacketPerMessage
<1> QED
  BY <1>7, <1>8

-----------------------------------------------------------------------------
(***************************************************************************)
(* Packets stay packets when the stream grows, and when a message follows. *)
(***************************************************************************)
LEMMA HeaderStays ==
    ASSUME NEW p, NEW s \in Seq(0..255), NEW t \in Seq(0..255), Len(s) <= Len(t),
           \A j \in 1..Len(s) : t[j] = s[j], NEW i \in Nat, HeaderAt(p, s, i)
    PROVE  HeaderAt(p, t, i) /\ LenAt(p, t, i) = LenAt(p, s, i)
<1> DEFINE n == HdrLen(p, s[i + 1])
<1>1. n \in Nat /\ Len(s) \in Nat /\ Len(t) \in Nat /\ i < Len(s) /\ i + n <= Len(s)
  BY LenProperties DEF HdrLen, HeaderAt
<1>2. i + 1 \in 1..Len(s)
  BY <1>1
<1>3. HdrLen(p, t[i + 1]) = n
  BY <1>2
<1>4. \A j \in 1..n : t[i + j] = s[i + j]
  <2> SUFFICES ASSUME NEW j \in 1..n PROVE t[i + j] = s[i + j]
    OBVIOUS
  <2>1. i + j \in 1..Len(s)
    BY <1>1
  <2> QED
    BY <2>1
<1> HIDE DEF n
<1>5. [j \in 1..n |-> t[i + j]] = [j \in 1..n |-> s[i + j]]
  BY <1>4, Zenon
<1>6. HeaderAt(p, t, i)
  BY <1>1, <1>3 DEF HeaderAt
<1>7. LenAt(p, t, i) = LenAt(p, s, i)
  BY <1>3, <1>5, Zenon DEF LenAt, n
<1> QED
  BY <1>6, <1>7

LEMMA PacketsStay ==
    ASSUME NEW p, NEW s \in Seq(0..255), NEW t \in Seq(0..255), Len(s) <= Len(t),
           \A j \in 1..Len(s) : t[j] = s[j], NEW e \in Seq(Nat), NEW n \in Nat, n <= Len(e)
    PROVE  /\ Packets(p, s, e, n) => Packets(p, t, e, n)
           /\ GivenUp(p, s, e) => GivenUp(p, t, e)
<1>1. ASSUME NEW m \in 1..Len(e) PROVE From(e, m) \in Nat
  <2>1. m # 1 => m - 1 \in 1..Len(e)
    BY LenProperties
  <2> QED
    BY <2>1, ElementOfSeq DEF From
<1>2. ASSUME NEW m \in 1..Len(e), PacketAt(p, s, From(e, m), e[m])
      PROVE  PacketAt(p, t, From(e, m), e[m])
  <2>1. HeaderAt(p, s, From(e, m))
    BY <1>2 DEF PacketAt
  <2>2. HeaderAt(p, t, From(e, m)) /\ LenAt(p, t, From(e, m)) = LenAt(p, s, From(e, m))
    BY <1>1, <2>1, HeaderStays, ZenonT(30)
  <2> QED
    BY <1>2, <2>2, Zenon DEF PacketAt
<1>3. ASSUME NEW k \in Nat, k <= Len(e), Packets(p, s, e, k) PROVE Packets(p, t, e, k)
  <2>1. \A m \in 1..k : m \in 1..Len(e)
    BY <1>3, LenProperties
  <2> QED
    BY <1>2, <1>3, <2>1, Zenon DEF Packets
<1>4. ASSUME GivenUp(p, s, e) PROVE GivenUp(p, t, e)
  <2>1. PICK k \in 1..Len(e) : /\ Packets(p, s, e, k - 1)
                              /\ HeaderAt(p, s, From(e, k)) /\ LenAt(p, s, From(e, k)) = 0
    BY <1>4, Zenon DEF GivenUp
  <2>2. k - 1 \in Nat /\ k - 1 <= Len(e)
    BY LenProperties
  <2>3. Packets(p, t, e, k - 1)
    BY <1>3, <2>1, <2>2
  <2>4. HeaderAt(p, t, From(e, k)) /\ LenAt(p, t, From(e, k)) = LenAt(p, s, From(e, k))
    BY <1>1, <2>1, HeaderStays, ZenonT(30)
  <2> QED
    BY <2>1, <2>3, <2>4, Zenon DEF GivenUp
<1> QED
  BY <1>3, <1>4

Follows(e, x, f) ==
    /\ f \in Seq(Nat) /\ Len(f) = Len(e) + 1
    /\ \A m \in 1..Len(e) : f[m] = e[m] /\ From(f, m) = From(e, m)
    /\ f[Len(f)] = x /\ From(f, Len(f)) = From(e, Len(e) + 1)
    /\ From(f, Len(f) + 1) = x

LEMMA OneMoreMessage ==
    ASSUME NEW e \in Seq(Nat), NEW x \in Nat
    PROVE  Follows(e, x, Append(e, x))
<1> DEFINE f == Append(e, x)
<1>1. Len(e) \in Nat /\ f \in Seq(Nat) /\ Len(f) = Len(e) + 1 /\ f[Len(f)] = x
      /\ \A m \in 1..Len(e) : f[m] = e[m]
  BY LenProperties, AppendProperties
<1>2. ASSUME NEW m \in 1..Len(e) PROVE From(f, m) = From(e, m)
  <2>1. m # 1 => m - 1 \in 1..Len(e)
    BY <1>1
  <2> QED
    BY <1>1, <2>1 DEF From
<1>3. From(f, Len(f)) = From(e, Len(e) + 1)
  <2>1. Len(e) # 0 => Len(e) \in 1..Len(e)
    BY <1>1
  <2> QED
    BY <1>1, <2>1 DEF From
<1>4. From(f, Len(f) + 1) = x
  BY <1>1 DEF From
<1> HIDE DEF f
<1>5. Follows(e, x, f)
  BY <1>1, <1>2, <1>3, <1>4, Zenon DEF Follows
<1> QED
  BY <1>5 DEF f

LEMMA PacketsFollowed ==
    ASSUME NEW p, NEW s, NEW e \in Seq(Nat), NEW x, NEW f, Follows(e, x, f)
    PROVE  /\ \A n \in Nat : n <= Len(e) /\ Packets(p, s, e, n) => Packets(p, s, f, n)
           /\ GivenUp(p, s, e) => GivenUp(p, s, f)
           /\ Rising(e) /\ From(e, Len(e) + 1) < x => Rising(f)
           /\ Packets(p, s, e, Len(e)) /\ PacketAt(p, s, From(e, Len(e) + 1), x)
                => Packets(p, s, f, Len(f))
<1>1. /\ f \in Seq(Nat) /\ Len(f) = Len(e) + 1
      /\ \A m \in 1..Len(e) : f[m] = e[m] /\ From(f, m) = From(e, m)
      /\ f[Len(f)] = x /\ From(f, Len(f)) = From(e, Len(e) + 1)
  BY Zenon DEF Follows
<1>2. Len(e) \in Nat /\ \A m \in 1..Len(f) : m \in 1..Len(e) \/ m = Len(f)
  BY <1>1, LenProperties
<1>3. ASSUME NEW n \in Nat, n <= Len(e), Packets(p, s, e, n) PROVE Packets(p, s, f, n)
  <2>1. \A m \in 1..n : m \in 1..Len(e)
    BY <1>2, <1>3
  <2> QED
    BY <1>1, <1>3, <2>1, Zenon DEF Packets
<1>4. ASSUME GivenUp(p, s, e) PROVE GivenUp(p, s, f)
  <2>1. PICK k \in 1..Len(e) : /\ Packets(p, s, e, k - 1)
                              /\ HeaderAt(p, s, From(e, k)) /\ LenAt(p, s, From(e, k)) = 0
    BY <1>4, Zenon DEF GivenUp
  <2>2. k - 1 \in Nat /\ k - 1 <= Len(e) /\ k \in 1..Len(f)
    BY <1>1, <1>2
  <2>3. Packets(p, s, f, k - 1)
    BY <1>3, <2>1, <2>2
  <2> QED
    BY <1>1, <2>1, <2>2, <2>3, Zenon DEF GivenUp
<1>5. Rising(e) /\ From(e, Len(e) + 1) < x => Rising(f)
  BY <1>1, <1>2, Zenon DEF Rising
<1>6. Packets(p, s, e, Len(e)) /\ PacketAt(p, s, From(e, Len(e) + 1), x) => Packets(p, s, f, Len(f))
  BY <1>1, <1>2, Zenon DEF Packets
<1> QED
  BY <1>3, <1>4, <1>5, <1>6

LEMMA PushedMessage ==
    ASSUME IInv, SentInv, NEW message \in Seq(Encrypted), Len(message) > 0, Push(message)
    PROVE  /\ Follows(ends, Len(sent'), ends') /\ SentInv'
           /\ Len(sent') = Len(sent) + Len(message)
           /\ From(ends, Len(ends) + 1) = Len(sent)
<1>1. sent \in Seq(Encrypted) /\ ends \in Seq(Nat)
  BY DEF IInv, TypeOK, Encrypted
<1>2. Len(sent') = Len(sent) + Len(message) /\ Len(sent) \in Nat /\ Len(message) \in Nat
  BY <1>1, ConcatEncrypted, LenProperties DEF Push
<1>3. ends' = Append(ends, Len(sent')) /\ Len(sent') \in Nat
  BY <1>2 DEF Push
<1>4. Follows(ends, Len(sent'), ends')
  <2>1. Follows(ends, Len(sent'), Append(ends, Len(sent')))
    BY <1>1, <1>3, OneMoreMessage
  <2> QED
    BY <1>3, <2>1
<1>5. From(ends, Len(ends) + 1) = Len(sent) /\ Rising(ends)
  BY DEF SentInv
<1>6. Rising(ends')
  <2>1. From(ends, Len(ends) + 1) < Len(sent')
    BY <1>2, <1>5
  <2> QED
    BY <1>1, <1>4, <1>5, <2>1, PacketsFollowed, Zenon
<1>7. Len(sent') = From(ends', Len(ends') + 1)
  BY <1>4, Zenon DEF Follows
<1> QED
  BY <1>2, <1>4, <1>5, <1>6, <1>7 DEF SentInv

(***************************************************************************)
(* A read leaves the messages and the packet in assembly as they are.      *)
(***************************************************************************)
LEMMA ReadExtends ==
    ASSUME IInv, NEW s \in Streams[proto], NEW n \in 1..Len(s), Read(s, n)
    PROVE  /\ input \in Seq(0..255) /\ input' \in Seq(0..255) /\ Len(input) <= Len(input')
           /\ \A j \in 1..Len(input) : input'[j] = input[j]
<1>1. s \in Seq(0..255) /\ input \in Seq(0..255) /\ Len(input) \in Nat /\ Len(s) \in Nat
  BY SplitterAssumption, LenProperties DEF IInv, TypeOK
<1>2. Len(input) + n \in Nat /\ Len(input) + n <= Len(s) /\ Len(input) <= Len(s)
  BY <1>1 DEF Read
<1>3. /\ input' \in Seq(0..255) /\ Len(input') = Len(input) + n
      /\ \A i \in 1..(Len(input) + n) : input'[i] = s[i]
  BY <1>1, <1>2, PrefixOf DEF Read
<1>4. \A i \in 1..Len(input) : input[i] = s[i]
  BY <1>1, <1>2, PrefixOf DEF Read
<1>5. \A i \in 1..Len(input) : i \in 1..(Len(input) + n)
  BY <1>1
<1> QED
  BY <1>1, <1>3, <1>4, <1>5, SMTT(30)

LEMMA ReadMessages ==
    ASSUME IInv, MInv, NEW s \in Streams[proto], NEW n \in 1..Len(s), Read(s, n)
    PROVE  MInv'
<1>1. /\ input \in Seq(0..255) /\ input' \in Seq(0..255) /\ Len(input) <= Len(input')
      /\ \A j \in 1..Len(input) : input'[j] = input[j]
  BY ReadExtends
<1>2. /\ pc = "read" /\ pc' = "split"
      /\ UNCHANGED <<proto, header, header_len, packet, packet_len, disabled, sent, ends>>
  BY DEF Read, splitter, output
<1>3. ends \in Seq(Nat) /\ Len(ends) \in Nat /\ Len(ends) <= Len(ends)
  BY LenProperties DEF IInv, TypeOK
<1>4. SentInv' /\ CallInv'
  BY <1>2 DEF MInv, SentInv, CallInv
<1>5. CASE disabled
  <2>1. GivenUp(proto, input, ends)
    BY <1>2, <1>5 DEF MInv, PacketInv
  <2>2. GivenUp(proto, input', ends)
    BY <1>1, <1>3, <2>1, PacketsStay, Zenon
  <2> QED
    BY <1>2, <1>4, <1>5, <2>2 DEF MInv, PacketInv
<1>6. CASE ~disabled
  <2>1. AssemblyInv
    BY <1>2, <1>6 DEF MInv, PacketInv
  <2>2. Packets(proto, input', ends, Len(ends))
    <3>1. Packets(proto, input, ends, Len(ends))
      BY <2>1 DEF AssemblyInv
    <3> QED
      BY <1>1, <1>3, <3>1, PacketsStay, Zenon
  <2>3. ASSUME packet_len = Unknown, NEW i \in 1..header_len
        PROVE  header[i] = input'[Len(sent) + i]
    <3>1. header[i] = input[Len(sent) + i]
      BY <2>1, <2>3 DEF AssemblyInv
    <3>2. header_len = Len(packet)
      BY <2>3 DEF IInv, FramingInv
    <3>3. offset \in 0..Len(input)
      BY DEF IInv, TypeOK
    <3>4. Len(sent) + i \in 1..Len(input)
      BY <3>2, <3>3, Consumed
    <3> QED
      BY <1>1, <3>1, <3>4, SMTT(20)
  <2>4. ASSUME packet_len # Unknown
        PROVE  HeaderAt(proto, input', Len(sent)) /\ packet_len = LenAt(proto, input', Len(sent))
    <3>1. HeaderAt(proto, input, Len(sent)) /\ packet_len = LenAt(proto, input, Len(sent))
      BY <2>1, <2>4, SMTT(20) DEF AssemblyInv
    <3>2. Len(sent) \in Nat
      BY Consumed
    <3> QED
      BY <1>1, <3>1, <3>2, HeaderStays, ZenonT(30)
  <2>5. AssemblyInv'
    BY <1>2, <2>2, <2>3, <2>4, Zenon DEF AssemblyInv
  <2> QED
    BY <1>2, <1>4, <1>6, <2>5 DEF MInv, PacketInv
<1> QED
  BY <1>5, <1>6

LEMMA TunnelMessages ==
    ASSUME IInv, MInv, Tunnel
    PROVE  MInv'
<1> DEFINE n == Len(input) - offset
           message == apply_keystream(n)
<1>1. n \in Nat /\ n > 0 /\ offset + n <= Len(input)
  BY Consumed DEF Tunnel
<1>2. message \in Seq(Encrypted) /\ Len(message) = n
  BY <1>1, Applied
<1>3. Push(message) /\ disabled /\ pc = "split"
      /\ UNCHANGED <<proto, input, disabled, pc>>
  BY DEF Tunnel, splitter
<1> HIDE DEF n, message
<1>4. Follows(ends, Len(sent'), ends') /\ SentInv'
  BY <1>1, <1>2, <1>3, PushedMessage DEF MInv
<1>5. GivenUp(proto, input, ends) /\ ends \in Seq(Nat)
  BY <1>3 DEF MInv, PacketInv, IInv, TypeOK
<1>6. GivenUp(proto, input, ends')
  BY <1>4, <1>5, PacketsFollowed, Zenon
<1> QED
  BY <1>3, <1>4, <1>6 DEF MInv, PacketInv, CallInv

LEMMA ReturnMessages ==
    ASSUME IInv, MInv, Return
    PROVE  MInv'
<1>1. /\ pc = "split" /\ pc' = "read" /\ offset = Len(input)
      /\ UNCHANGED <<proto, input, offset, header, header_len, packet, packet_len, disabled, sent, ends>>
  BY DEF Return, splitter, output
<1>2. SentInv' /\ CallInv'
  BY <1>1, SMTT(20) DEF MInv, SentInv, CallInv
<1>3. PacketInv'
  BY <1>1 DEF MInv, PacketInv, AssemblyInv
<1> QED
  BY <1>2, <1>3 DEF MInv

LEMMA FlushMessages ==
    ASSUME IInv, MInv, flush
    PROVE  MInv'
<1>1. pc = "read" /\ pc' = "eof" /\ UNCHANGED <<proto, input, offset>>
  BY DEF flush
<1>2. PacketInv'
  BY <1>1 DEF PacketInv
<1>3. offset' = Len(input')
  BY <1>1 DEF MInv, CallInv
<1>4. CASE packet = <<>>
  <2>1. UNCHANGED <<packet, sent, ends>>
    BY <1>4 DEF flush, splitter, output
  <2> QED
    BY <1>1, <1>2, <1>3, <1>4, <2>1 DEF MInv, SentInv, CallInv
<1>5. CASE packet # <<>>
  <2>1. Push(packet) /\ packet' = <<>>
    BY <1>5 DEF flush
  <2>2. packet \in Seq(Encrypted) /\ Len(packet) \in Nat
    BY LenProperties DEF IInv, TypeOK, Encrypted
  <2>3. Len(packet) > 0
    BY <1>5, <2>2, EmptySeq
  <2>4. SentInv'
    BY <2>1, <2>2, <2>3, PushedMessage DEF MInv
  <2> QED
    BY <1>1, <1>2, <1>3, <2>1, <2>4 DEF MInv, CallInv
<1> QED
  BY <1>4, <1>5

(***************************************************************************)
(* A piece of a body: a packet that it completes is the next message.      *)
(***************************************************************************)
LEMMA BodyMessages ==
    ASSUME IInv, MInv, Body
    PROVE  MInv'
<1> DEFINE n == smaller(packet_len - Len(packet), Len(input) - offset)
           body == apply_keystream(n)
<1>1. /\ pc = "split" /\ ~disabled /\ packet_len # Unknown
      /\ UNCHANGED <<proto, input, header, disabled, pc>>
      /\ IF Len(packet) + Len(body) = packet_len
         THEN Push(packet \o body) /\ packet' = <<>> /\ header_len' = 0 /\ packet_len' = Unknown
         ELSE packet' = packet \o body /\ UNCHANGED <<header_len, packet_len, output>>
  BY DEF Body
<1>2. /\ packet_len \in Nat /\ Len(packet) < packet_len /\ Len(packet) \in Nat
      /\ offset \in Nat /\ Len(input) \in Nat /\ offset < Len(input) /\ packet_len # 0
  <2>1. packet_len \in Nat /\ Len(packet) < packet_len
    BY <1>1 DEF IInv, TypeOK, FramingInv
  <2> QED
    BY <1>1, <2>1, Consumed, SMTT(20) DEF Body, Unknown
<1>3. n \in Nat /\ n > 0 /\ offset + n <= Len(input)
  <2>1. /\ packet_len - Len(packet) \in Nat /\ Len(input) - offset \in Nat
        /\ packet_len - Len(packet) > 0 /\ Len(input) - offset > 0
    BY <1>2
  <2>2. n \in Nat /\ n > 0 /\ n <= Len(input) - offset
    BY <2>1, Smaller
  <2> HIDE DEF n
  <2> QED
    BY <1>2, <2>2
<1> HIDE DEF n
<1>4. /\ packet \o body \in Seq(Encrypted) /\ Len(packet \o body) = Len(packet) + Len(body)
      /\ Len(body) = n
  BY <1>3, Applied
<1> HIDE DEF body
<1>5. AssemblyInv /\ ends \in Seq(Nat)
  BY <1>1 DEF MInv, PacketInv, IInv, TypeOK
<1>6. CallInv'
  BY <1>1 DEF CallInv
<1>7. CASE Len(packet) + Len(body) = packet_len
  <2>1. Push(packet \o body) /\ header_len' = 0 /\ packet_len' = Unknown
    BY <1>1, <1>7
  <2>2. Len(packet \o body) > 0
    BY <1>2, <1>4, <1>7
  <2>3. /\ Follows(ends, Len(sent'), ends') /\ SentInv'
        /\ Len(sent') = Len(sent) + packet_len
        /\ From(ends, Len(ends) + 1) = Len(sent)
    BY <1>4, <1>7, <2>1, <2>2, PushedMessage, Zenon DEF MInv
  <2>4. PacketAt(proto, input, From(ends, Len(ends) + 1), Len(sent'))
    BY <1>1, <1>2, <1>5, <2>3 DEF AssemblyInv, PacketAt
  <2>5. Packets(proto, input, ends', Len(ends'))
    <3>1. Packets(proto, input, ends, Len(ends))
      BY <1>5, SMTT(20) DEF AssemblyInv
    <3> QED
      BY <1>5, <2>3, <2>4, <3>1, PacketsFollowed, Zenon
  <2>6. AssemblyInv'
    BY <1>1, <2>1, <2>5, SMTT(20) DEF AssemblyInv
  <2> QED
    BY <1>1, <1>6, <2>3, <2>6 DEF MInv, PacketInv
<1>8. CASE Len(packet) + Len(body) # packet_len
  <2>1. UNCHANGED <<header_len, packet_len, sent, ends>>
    BY <1>1, <1>8, SMTT(20) DEF output
  <2>2. AssemblyInv'
    BY <1>1, <1>5, <2>1, SMTT(20) DEF AssemblyInv
  <2>3. SentInv'
    BY <2>1 DEF MInv, SentInv
  <2> QED
    BY <1>1, <1>6, <2>2, <2>3 DEF MInv, PacketInv
<1> QED
  BY <1>7, <1>8

(***************************************************************************)
(* The header: the bytes copied are those of the stream, so that a         *)
(* complete one is the header at the start of the packet.                  *)
(***************************************************************************)
LEMMA HeaderCopied ==
    ASSUME IInv, AssemblyInv, packet_len = Unknown, NEW take \in Nat, offset + take <= Len(input),
           NEW i \in 1..(header_len + take), i \in 1..MaxHeaderLen
    PROVE  HeaderAfter(take)[i] = input[Len(sent) + i]
<1>1. /\ header_len = Len(packet) /\ offset = Len(sent) + Len(packet)
      /\ Len(sent) \in Nat /\ Len(packet) \in Nat
  BY Consumed DEF IInv, FramingInv
<1>2. CASE i \in header_len + 1 .. header_len + take
  <2>1. HeaderAfter(take)[i] = input[offset + i - header_len]
    BY <1>2 DEF HeaderAfter
  <2>2. offset + i - header_len = Len(sent) + i
    BY <1>1, SMTT(20)
  <2> QED
    BY <2>1, <2>2
<1>3. CASE i \notin header_len + 1 .. header_len + take
  <2>1. HeaderAfter(take)[i] = header[i]
    BY <1>3 DEF HeaderAfter
  <2>2. i \in 1..header_len
    BY <1>1, <1>3
  <2> QED
    BY <2>1, <2>2 DEF AssemblyInv
<1> QED
  BY <1>2, <1>3

LEMMA CompleteHeader ==
    ASSUME NEW p \in Protos, NEW s \in Seq(0..255), NEW h \in [1..MaxHeaderLen -> 0..255],
           NEW i \in Nat, NEW n \in Nat, n = IF p = "Abridged" /\ ~Extended(h) THEN 1 ELSE 4,
           \A j \in 1..n : h[j] = s[i + j], i + n <= Len(s)
    PROVE  HeaderAt(p, s, i) /\ LenAt(p, s, i) = LenOf(p, h)
<1>1. h[1] = s[i + 1]
  OBVIOUS
<1>2. HdrLen(p, s[i + 1]) = n
  BY <1>1 DEF HdrLen, Extended
<1>3. HeaderAt(p, s, i)
  <2>1. Len(s) \in Nat
    BY LenProperties
  <2> QED
    BY <1>2, <2>1 DEF HeaderAt
<1> DEFINE g == [j \in 1..n |-> s[i + j]]
<1>4. LenAt(p, s, i) = LenOf(p, g)
  BY <1>2 DEF LenAt
<1>5. \A j \in 1..n : g[j] = h[j]
  OBVIOUS
<1>6. g[1] = h[1] /\ (Extended(g) <=> Extended(h))
  BY <1>5 DEF Extended
<1> HIDE DEF g
<1>7. CASE n = 1
  <2>1. p = "Abridged" /\ ~Extended(h) /\ ~Extended(g)
    BY <1>6, <1>7
  <2> QED
    BY <1>3, <1>4, <1>6, <2>1 DEF LenOf
<1>8. CASE n = 4
  <2>1. g[2] = h[2] /\ g[3] = h[3] /\ g[4] = h[4]
    BY <1>5, <1>8
  <2>2. LenOf(p, g) = LenOf(p, h)
    BY <1>6, <2>1 DEF LenOf
  <2> QED
    BY <1>3, <1>4, <2>2
<1> QED
  BY <1>7, <1>8

LEMMA HeaderMessages ==
    ASSUME IInv, MInv, Header
    PROVE  MInv'
<1> DEFINE take == smaller(required_header_len - header_len, Len(input) - offset)
           len == header_len + take
           h == HeaderAfter(take)
           complete == len = required_header_len /\ ~Unparsed(h, len)
<1>1. /\ header' = h
      /\ IF complete /\ parsed_packet_len(h) = 0
         THEN GiveUp
         ELSE /\ header_len' = len
              /\ packet_len' = IF complete THEN parsed_packet_len(h) ELSE Unknown
              /\ UNCHANGED <<disabled, output>>
      /\ UNCHANGED <<proto, input, pc>>
      /\ pc = "split" /\ ~disabled /\ packet_len = Unknown /\ offset < Len(input)
  BY Zenon DEF Header, HeaderAfter
<1>2. /\ header_len = Len(packet) /\ header_len < required_header_len
      /\ required_header_len \in Nat /\ header_len \in Nat
      /\ offset \in Nat /\ Len(input) \in Nat
  <2>1. header_len = Len(packet) /\ header_len < required_header_len
    BY <1>1 DEF IInv, FramingInv
  <2>2. required_header_len \in Nat
    BY DEF required_header_len
  <2> QED
    BY <2>1, <2>2, Consumed, SMTT(20)
<1>3. take \in Nat /\ take > 0 /\ len <= required_header_len /\ offset + take <= Len(input)
  <2>1. /\ required_header_len - header_len \in Nat /\ required_header_len - header_len > 0
        /\ Len(input) - offset \in Nat /\ Len(input) - offset > 0
    BY <1>1, <1>2
  <2>2. /\ take \in Nat /\ take > 0
        /\ take <= required_header_len - header_len /\ take <= Len(input) - offset
    BY <2>1, Smaller, SMTT(30)
  <2> HIDE DEF take
  <2> QED
    BY <1>2, <2>2, SMTT(20)
<1> HIDE DEF take
<1>4. /\ h \in [1..MaxHeaderLen -> 0..255] /\ len \in 1..MaxHeaderLen
      /\ len = required_header_len => len <= FullHeaderLen(h)
  BY <1>1, <1>3, HeaderFilled, ZenonT(30)
<1>5. AssemblyInv /\ ends \in Seq(Nat) /\ input \in Seq(0..255) /\ proto \in Protos
  BY <1>1 DEF MInv, PacketInv, IInv, TypeOK
<1>6. \A i \in 1..len : h[i] = input[Len(sent) + i]
  <2>1. \A i \in 1..len : i \in 1..MaxHeaderLen
    BY <1>4 DEF MaxHeaderLen
  <2> QED
    BY <1>1, <1>3, <1>5, <2>1, HeaderCopied, ZenonT(30)
<1>7. /\ offset = Len(sent) + header_len /\ Len(sent) \in Nat
      /\ Len(sent) + len <= Len(input)
  BY <1>2, <1>3, Consumed
<1>8. ASSUME complete
      PROVE  /\ HeaderAt(proto, input, Len(sent))
             /\ LenAt(proto, input, Len(sent)) = parsed_packet_len(h)
  <2>1. len = FullHeaderLen(h)
    BY <1>2, <1>3, <1>4, <1>8 DEF Unparsed, FullHeaderLen
  <2>2. len = (IF proto = "Abridged" /\ ~Extended(h) THEN 1 ELSE 4)
    BY <2>1 DEF FullHeaderLen
  <2>3. len \in Nat
    BY <1>2, <1>3
  <2> HIDE DEF h, len
  <2>4. /\ HeaderAt(proto, input, Len(sent))
        /\ LenAt(proto, input, Len(sent)) = LenOf(proto, h)
    BY <1>4, <1>5, <1>6, <1>7, <2>2, <2>3, CompleteHeader, ZenonT(30)
  <2>5. parsed_packet_len(h) = LenOf(proto, h)
    BY DEF parsed_packet_len, LenOf
  <2> QED
    BY <2>4, <2>5
<1>9. CallInv'
  BY <1>1 DEF CallInv
<1> HIDE DEF h
<1>10. CASE complete /\ parsed_packet_len(h) = 0
  <2> DEFINE n == Len(input) - offset
             message == packet \o apply_keystream(n)
  <2>1. Push(message) /\ disabled' = TRUE
    BY <1>1, <1>10 DEF GiveUp
  <2>2. n \in Nat /\ n > 0 /\ offset + n <= Len(input) /\ Len(packet) \in Nat
    BY <1>1, <1>2
  <2>3. message \in Seq(Encrypted) /\ Len(message) = Len(packet) + n
    BY <2>2, Applied
  <2> HIDE DEF n, message
  <2>4. Len(message) > 0
    BY <2>2, <2>3
  <2>5. /\ Follows(ends, Len(sent'), ends') /\ SentInv'
        /\ From(ends, Len(ends) + 1) = Len(sent)
    BY <2>1, <2>3, <2>4, PushedMessage, Zenon DEF MInv
  <2>6. GivenUp(proto, input, ends')
    <3>1. /\ Len(ends) \in Nat /\ Len(ends') = Len(ends) + 1
          /\ From(ends', Len(ends')) = Len(sent)
      BY <1>5, <2>5, LenProperties DEF Follows
    <3>2. Packets(proto, input, ends', Len(ends))
      <4>1. Len(ends) <= Len(ends) /\ Packets(proto, input, ends, Len(ends))
        BY <1>5, <3>1 DEF AssemblyInv
      <4> QED
        BY <1>5, <2>5, <3>1, <4>1, PacketsFollowed, Zenon
    <3>3. HeaderAt(proto, input, Len(sent)) /\ LenAt(proto, input, Len(sent)) = 0
      BY <1>8, <1>10
    <3>4. Len(ends') \in 1..Len(ends') /\ Len(ends') - 1 = Len(ends)
      BY <3>1
    <3> QED
      BY <3>1, <3>2, <3>3, <3>4, SMTT(20) DEF GivenUp
  <2> QED
    BY <1>1, <1>9, <2>1, <2>5, <2>6, SMTT(20) DEF MInv, PacketInv
<1>11. CASE ~(complete /\ parsed_packet_len(h) = 0)
  <2>1. /\ header_len' = len
        /\ packet_len' = IF complete THEN parsed_packet_len(h) ELSE Unknown
        /\ UNCHANGED <<disabled, sent, ends>>
    BY <1>1, <1>11, SMTT(30) DEF output
  <2>2. Packets(proto, input, ends, Len(ends))
    BY <1>5 DEF AssemblyInv
  <2>3. AssemblyInv'
    <3>1. Packets(proto', input', ends', Len(ends'))
      BY <1>1, <2>1, <2>2, SMTT(20)
    <3>2. \A i \in 1..header_len' : header'[i] = input'[Len(sent') + i]
      BY <1>1, <1>6, <2>1, SMTT(20)
    <3>3. packet_len' # Unknown => /\ HeaderAt(proto', input', Len(sent'))
                                  /\ packet_len' = LenAt(proto', input', Len(sent'))
      BY <1>1, <1>8, <2>1
    <3> QED
      BY <3>1, <3>2, <3>3, Zenon DEF AssemblyInv
  <2>4. SentInv'
    BY <2>1 DEF MInv, SentInv
  <2> QED
    BY <1>1, <1>9, <2>1, <2>3, <2>4, SMTT(20) DEF MInv, PacketInv
<1> QED
  BY <1>10, <1>11, SMTT(30)

LEMMA InitMInv == Init => MInv
<1> SUFFICES ASSUME Init PROVE MInv
  OBVIOUS
<1>1. Len(ends) = 0 /\ Len(sent) = 0 /\ Len(input) = 0
  BY EmptySeq DEF Init
<1>2. SentInv /\ CallInv
  BY <1>1 DEF SentInv, CallInv, Rising, From, Init
<1>3. AssemblyInv
  BY <1>1 DEF AssemblyInv, Packets, Init, Unknown
<1> QED
  BY <1>2, <1>3 DEF Init, MInv, PacketInv

LEMMA NextMInv == IInv /\ MInv /\ [Next]_vars => MInv'
<1> SUFFICES ASSUME IInv, MInv, [Next]_vars PROVE MInv'
  OBVIOUS
<1>1. CASE \E s \in Streams[proto] : \E n \in 1..Len(s) : Read(s, n)
  BY <1>1, ReadMessages
<1>2. CASE Split
  BY <1>2, TunnelMessages, HeaderMessages, BodyMessages, ReturnMessages DEF Split
<1>3. CASE flush
  BY <1>3, FlushMessages
<1>4. CASE UNCHANGED vars
  <2>1. SentInv' /\ CallInv'
    BY <1>4, SMTT(30) DEF MInv, SentInv, CallInv, vars
  <2>2. PacketInv'
    BY <1>4 DEF MInv, PacketInv, AssemblyInv, vars
  <2> QED
    BY <2>1, <2>2 DEF MInv
<1> QED
  BY <1>1, <1>2, <1>3, <1>4 DEF Next

(***************************************************************************)
(* "Each Telegram WebSocket message is expected to carry exactly one       *)
(* complete MTProto transport packet": for every stream, of packets of any *)
(* length, and every division into reads.                                  *)
(***************************************************************************)
THEOREM OnePacketPerMessageHolds == Spec => []OnePacketPerMessage
BY InitIInv, NextIInv, InitMInv, NextMInv, MInvPackets, PTL DEF Spec

(***************************************************************************)
(* At the end of any stream flush leaves nothing of it behind.             *)
(***************************************************************************)
THEOREM SplitterFlushesAll == Spec => []FlushedAll
BY InitIInv, NextIInv, InitMInv, NextMInv, MInvFlushed, PTL DEF Spec

-----------------------------------------------------------------------------
Byte == 0..255

(***************************************************************************)
(* The strengthening.  What the wire has given so far is the beginning of  *)
(* what a source may send; the init that a client opens with is in         *)
(* handshake_buf, whole, once it is parsed; before that nothing has        *)
(* reached the bridge.  Where there is no splitter nothing is assembled,   *)
(* and the last record ends where the bytes sent do.                       *)
(***************************************************************************)
Opening == IF from \in Clients THEN HandshakeInit ELSE <<>>

PathInv ==
    /\ to = "packets" => from \in Clients
    /\ \A p \in Protos : SourceStreams[from][p] \subseteq Streams[p]

WireInv ==
    /\ wire \in Seq(Byte) /\ handshake_buf \in Seq(Byte) /\ pending \in Seq(Byte)
    /\ NothingLost
    /\ wire # <<>> =>
          \E s \in SourceStreams[from][proto], rest \in Seq(Byte) : wire \o rest = Opening \o s

PhaseInv ==
    /\ phase \notin {"open", "closed"} => input = <<>>
    /\ phase \in {"dial", "hello"} => handshake_buf = <<>> /\ pending = <<>>
    /\ phase = "dial" => from \notin Clients
    /\ phase = "init" => pending = <<>> /\ Len(handshake_buf) <= Len(HandshakeInit)
    /\ phase = "init" /\ from = "client" => handshake_buf = <<>>
    /\ phase \in {"init", "parse"} => from \in Clients
    /\ phase \in {"parse", "open"} => handshake_buf = Opening

LastEnd(e) == IF Len(e) = 0 THEN 0 ELSE e[Len(e)]
Sizes(e, max) == \A m \in 1..Len(e) : e[m] - (IF m = 1 THEN 0 ELSE e[m - 1]) \in 1..max

RecordsInv ==
    /\ to # "packets" => packet = <<>>
    /\ to = "records" => Len(sent) = LastEnd(ends)

SInv == PathInv /\ IInv /\ WireInv /\ PhaseInv /\ RecordsInv
            /\ HonestSourceServed /\ RecordsReadable

-----------------------------------------------------------------------------
(***************************************************************************)
(* Sequences of bytes: cutting one in two, and two that begin alike.       *)
(***************************************************************************)
LEMMA ConcatBytes ==
    ASSUME NEW a \in Seq(Byte), NEW b \in Seq(Byte)
    PROVE  /\ a \o b \in Seq(Byte)
           /\ Len(a \o b) = Len(a) + Len(b)
           /\ a \o <<>> = a /\ <<>> \o a = a
BY ConcatProperties, ConcatEmptySeq

LEMMA ConcatBytesAssoc ==
    \A a, b, c \in Seq(Byte) : (a \o b) \o c = a \o (b \o c)
BY ConcatAssociative

LEMMA CutBytes ==
    ASSUME NEW t \in Seq(Byte), NEW m \in Nat, NEW n \in Nat, m <= n, n <= Len(t)
    PROVE  /\ SubSeq(t, m + 1, n) \in Seq(Byte)
           /\ Len(SubSeq(t, m + 1, n)) = n - m
           /\ SubSeq(t, 1, m) \in Seq(Byte)
           /\ Len(SubSeq(t, 1, m)) = m
           /\ SubSeq(t, 1, m) \o SubSeq(t, m + 1, n) = SubSeq(t, 1, n)
           /\ SubSeq(t, 1, Len(t)) = t
<1>1. Len(t) \in Nat
  BY LenProperties
<1>2. \A i \in 1..Len(t) : t[i] \in Byte
  BY ElementOfSeq
<1>3. \A i \in (m + 1)..n : t[i] \in Byte
  BY <1>1, <1>2
<1>4. \A i \in 1..m : t[i] \in Byte
  BY <1>1, <1>2
<1>5. /\ SubSeq(t, m + 1, n) \in Seq(Byte)
      /\ Len(SubSeq(t, m + 1, n)) = IF m + 1 <= n THEN n - (m + 1) + 1 ELSE 0
  BY <1>3, SubSeqProperties, m + 1 \in Int, n \in Int
<1>6. /\ SubSeq(t, 1, m) \in Seq(Byte)
      /\ Len(SubSeq(t, 1, m)) = IF 1 <= m THEN m - 1 + 1 ELSE 0
  BY <1>4, SubSeqProperties, 1 \in Int, m \in Int
<1>7. 1 \in 1..(Len(t) + 1) /\ m \in (1 - 1)..Len(t) /\ n \in m..Len(t)
  BY <1>1
<1>8. SubSeq(t, 1, m) \o SubSeq(t, m + 1, n) = SubSeq(t, 1, n)
  BY <1>7, ConcatAdjacentSubSeq
<1>9. (IF m + 1 <= n THEN n - (m + 1) + 1 ELSE 0) = n - m
      /\ (IF 1 <= m THEN m - 1 + 1 ELSE 0) = m
  OBVIOUS
<1> QED
  BY <1>5, <1>6, <1>8, <1>9, SubSeqFull

LEMMA CutMiddle ==
    \A t \in Seq(Byte), m, k \in Nat : m <= k /\ k <= Len(t) =>
        /\ SubSeq(t, m + 1, k) \in Seq(Byte) /\ Len(SubSeq(t, m + 1, k)) = k - m
        /\ SubSeq(t, 1, m) \o SubSeq(t, m + 1, k) = SubSeq(t, 1, k)
<1> TAKE t \in Seq(Byte), m, k \in Nat
<1> HAVE m <= k /\ k <= Len(t)
<1> QED
  BY CutBytes

LEMMA CutInTwo ==
    ASSUME NEW t \in Seq(Byte), NEW m \in Nat, m <= Len(t)
    PROVE  /\ SubSeq(t, 1, m) \in Seq(Byte) /\ Len(SubSeq(t, 1, m)) = m
           /\ SubSeq(t, m + 1, Len(t)) \in Seq(Byte)
           /\ SubSeq(t, 1, m) \o SubSeq(t, m + 1, Len(t)) = t
<1>1. Len(t) \in Nat /\ Len(t) <= Len(t)
  BY LenProperties
<1>2. ASSUME NEW n \in Nat, n = Len(t) PROVE SubSeq(t, 1, m) \o SubSeq(t, m + 1, n) = t
                                           /\ SubSeq(t, 1, m) \in Seq(Byte)
                                           /\ Len(SubSeq(t, 1, m)) = m
                                           /\ SubSeq(t, m + 1, n) \in Seq(Byte)
  <2>1. m <= n /\ n <= Len(t)
    BY <1>2
  <2>2. /\ SubSeq(t, 1, m) \o SubSeq(t, m + 1, n) = SubSeq(t, 1, n)
        /\ SubSeq(t, 1, Len(t)) = t
        /\ SubSeq(t, 1, m) \in Seq(Byte)
        /\ Len(SubSeq(t, 1, m)) = m
        /\ SubSeq(t, m + 1, n) \in Seq(Byte)
    BY <2>1, CutBytes
  <2> QED
    BY <1>2, <2>2, Zenon
<1> QED
  BY <1>1, <1>2, Zenon

LEMMA BeginAlike ==
    ASSUME NEW a \in Seq(Byte), NEW b \in Seq(Byte), NEW c \in Seq(Byte), NEW d \in Seq(Byte),
           a \o b = c \o d, Len(a) = Len(c)
    PROVE  a = c
<1>1. Len(a) \in Nat /\ Len(b) \in Nat /\ Len(d) \in Nat
  BY LenProperties
<1>2. ASSUME NEW i \in 1..Len(a) PROVE a[i] = c[i]
  <2>1. i \in 1..(Len(a) + Len(b)) /\ i \in 1..(Len(c) + Len(d)) /\ i <= Len(a) /\ i <= Len(c)
    BY <1>1, SMTT(20)
  <2>2. (a \o b)[i] = a[i] /\ (c \o d)[i] = c[i]
    BY <2>1, ConcatProperties
  <2> QED
    BY <2>2
<1> QED
  BY <1>2, SeqEqual

LEMMA BeginsWith ==
    ASSUME NEW a \in Seq(Byte), NEW b \in Seq(Byte), NEW t \in Seq(Byte), a \o b = t
    PROVE  Len(a) <= Len(t) /\ a = SubSeq(t, 1, Len(a))
<1>1. Len(a) \in Nat /\ Len(b) \in Nat /\ Len(t) = Len(a) + Len(b)
  BY LenProperties, ConcatBytes
<1>2. Len(a) <= Len(t) /\ Len(t) \in Nat /\ Len(t) <= Len(t)
  BY <1>1
<1> DEFINE c == SubSeq(t, 1, Len(a))
           d == SubSeq(t, Len(a) + 1, Len(t))
<1>3. c \in Seq(Byte) /\ d \in Seq(Byte) /\ Len(c) = Len(a) /\ c \o d = t
  BY <1>1, <1>2, CutInTwo, Zenon
<1> HIDE DEF c, d
<1>4. a = c
  BY <1>3, BeginAlike, Zenon
<1> QED
  BY <1>2, <1>4 DEF c

LEMMA CancelBytes ==
    ASSUME NEW a \in Seq(Byte), NEW b \in Seq(Byte), NEW c \in Seq(Byte), a \o b = a \o c
    PROVE  b = c
<1>1. Len(a) \in Nat /\ Len(b) \in Nat /\ Len(c) \in Nat
  BY LenProperties
<1>2. Len(a) + Len(b) = Len(a) + Len(c)
  BY ConcatBytes
<1>3. ASSUME NEW i \in 1..Len(b) PROVE b[i] = c[i]
  <2> DEFINE j == Len(a) + i
  <2>1. j \in 1..(Len(a) + Len(b)) /\ j \in 1..(Len(a) + Len(c)) /\ ~(j <= Len(a)) /\ j - Len(a) = i
    BY <1>1, <1>2, SMTT(20)
  <2> HIDE DEF j
  <2>2. (a \o b)[j] = b[j - Len(a)] /\ (a \o c)[j] = c[j - Len(a)]
    BY <2>1, ConcatProperties
  <2> QED
    BY <2>1, <2>2
<1>4. Len(b) = Len(c)
  BY <1>1, <1>2
<1> QED
  BY <1>3, <1>4, SeqEqual

(***************************************************************************)
(* The same as laws of an operator that the provers do not look into.      *)
(***************************************************************************)
Join(a, b) == a \o b

LEMMA JoinLaws ==
    /\ \A a, b \in Seq(Byte) :
          /\ Join(a, b) \in Seq(Byte) /\ Len(Join(a, b)) = Len(a) + Len(b)
          /\ Len(a) <= Len(Join(a, b)) /\ a = SubSeq(Join(a, b), 1, Len(a))
          /\ Join(a, <<>>) = a
    /\ \A a, b, c \in Seq(Byte) : Join(Join(a, b), c) = Join(a, Join(b, c))
    /\ \A a, b, c \in Seq(Byte) : Join(a, b) = Join(a, c) => b = c
<1>1. ASSUME NEW a \in Seq(Byte), NEW b \in Seq(Byte)
      PROVE  /\ Join(a, b) \in Seq(Byte) /\ Len(Join(a, b)) = Len(a) + Len(b)
             /\ Len(a) <= Len(Join(a, b)) /\ a = SubSeq(Join(a, b), 1, Len(a))
             /\ Join(a, <<>>) = a
  <2> DEFINE t == a \o b
  <2>1. t \in Seq(Byte) /\ Len(t) = Len(a) + Len(b)
    BY ConcatBytes
  <2>2. Len(a) <= Len(t) /\ a = SubSeq(t, 1, Len(a))
    BY <2>1, BeginsWith
  <2>3. a \o <<>> = a
    BY ConcatBytes
  <2> QED
    BY <2>1, <2>2, <2>3 DEF Join
<1>2. ASSUME NEW a \in Seq(Byte), NEW b \in Seq(Byte), NEW c \in Seq(Byte)
      PROVE  Join(Join(a, b), c) = Join(a, Join(b, c))
  BY ConcatBytesAssoc DEF Join
<1>3. ASSUME NEW a \in Seq(Byte), NEW b \in Seq(Byte), NEW c \in Seq(Byte), Join(a, b) = Join(a, c)
      PROVE  b = c
  BY <1>3, CancelBytes, SMTT(30) DEF Join
<1> QED
  BY <1>1, <1>2, <1>3

LEMMA ShiftBytes ==
    ASSUME NEW h \in Seq(Byte), NEW i \in Seq(Byte), NEW a \in Seq(Byte), NEW b \in Seq(Byte)
    PROVE  Join(Join(h, i), Join(a, b)) = Join(Join(h, Join(i, a)), b)
<1>1. Join(h, i) \in Seq(Byte) /\ Join(i, a) \in Seq(Byte)
  BY JoinLaws
<1>2. Join(Join(h, i), Join(a, b)) = Join(Join(Join(h, i), a), b)
  BY <1>1, JoinLaws
<1>3. Join(Join(h, i), a) = Join(h, Join(i, a))
  BY JoinLaws, SMTT(20)
<1> QED
  BY <1>2, <1>3

LEMMA ExtendBytes ==
    ASSUME NEW h \in Seq(Byte), NEW i \in Seq(Byte), NEW b \in Seq(Byte)
    PROVE  Join(Join(h, Join(i, b)), <<>>) = Join(Join(Join(h, i), <<>>), b)
<1>1. Join(h, i) \in Seq(Byte) /\ Join(i, b) \in Seq(Byte)
  BY JoinLaws
<1>2. Join(h, Join(i, b)) = Join(Join(h, i), b) /\ Join(h, Join(i, b)) \in Seq(Byte)
  BY <1>1, JoinLaws
<1> QED
  BY <1>1, <1>2, JoinLaws

-----------------------------------------------------------------------------
LEMMA SourceBytes ==
    ASSUME PathInv, IInv, NEW s \in SourceStreams[from][proto]
    PROVE  s \in Streams[proto] /\ s \in Seq(Byte) /\ Opening \in Seq(Byte)
           /\ Whole(s) = Opening \o s /\ Whole(s) \in Seq(Byte)
<1>1. proto \in Protos
  BY DEF IInv, TypeOK
<1>2. s \in Streams[proto]
  BY <1>1 DEF PathInv
<1>3. s \in Seq(Byte)
  BY <1>1, <1>2, SplitterAssumption DEF Byte
<1>4. Opening \in Seq(Byte)
  BY FramingAssumption, EmptySeq DEF Opening, Byte
<1>5. Whole(s) = Opening \o s
  BY <1>3, ConcatBytes DEF Opening, Whole
<1> QED
  BY <1>2, <1>3, <1>4, <1>5, ConcatBytes, SMTT(20)

(***************************************************************************)
(* What a read takes extends the wire's bytes.                             *)
(***************************************************************************)
LEMMA Taken ==
    ASSUME PathInv, IInv, WireInv, NEW s \in SourceStreams[from][proto], NEW n \in Nat, Take(s, n)
    PROVE  /\ Bytes(s, n) \in Seq(Byte) /\ Len(Bytes(s, n)) = n
           /\ wire' = wire \o Bytes(s, n) /\ wire' \in Seq(Byte)
           /\ \E rest \in Seq(Byte) : wire' \o rest = Opening \o s
<1> DEFINE t == Whole(s)
           m == Len(wire)
           k == Len(wire) + n
<1>1. t \in Seq(Byte) /\ t = Opening \o s
  BY SourceBytes
<1>2. m \in Nat /\ k <= Len(t) /\ wire = SubSeq(t, 1, m) /\ wire' = SubSeq(t, 1, k)
      /\ Bytes(s, n) = SubSeq(t, m + 1, k)
  BY LenProperties DEF WireInv, Take, Bytes
<1>3. m <= k /\ k \in Nat /\ k - m = n
  BY <1>2
<1> HIDE DEF t, m, k
<1>4. /\ SubSeq(t, m + 1, k) \in Seq(Byte) /\ Len(SubSeq(t, m + 1, k)) = k - m
      /\ SubSeq(t, 1, m) \o SubSeq(t, m + 1, k) = SubSeq(t, 1, k)
  <2>1. t \in Seq(Byte) /\ m \in Nat /\ k \in Nat /\ m <= k /\ k <= Len(t)
    BY <1>1, <1>2, <1>3
  <2> QED
    BY <2>1, CutMiddle, Zenon
<1>5. /\ SubSeq(t, 1, k) \in Seq(Byte)
      /\ SubSeq(t, k + 1, Len(t)) \in Seq(Byte)
      /\ SubSeq(t, 1, k) \o SubSeq(t, k + 1, Len(t)) = t
  BY <1>1, <1>2, <1>3, CutInTwo, Zenon
<1> QED
  BY <1>1, <1>2, <1>3, <1>4, <1>5, Zenon

(***************************************************************************)
(* A chunk is appended to the splitter's input, which keeps its invariant. *)
(***************************************************************************)
LEMMA ChunkStep ==
    ASSUME IInv, NEW a \in Seq(Byte), Chunk(a)
    PROVE  IInv'
<1>1. input \in Seq(0..255) /\ Len(input) \in Nat /\ Len(a) \in Nat /\ offset \in 0..Len(input)
  BY LenProperties, SMTT(20) DEF IInv, TypeOK
<1>2. /\ input' \in Seq(0..255) /\ Len(input') = Len(input) + Len(a)
      /\ \A i \in 1..(Len(input) + Len(a)) : i <= Len(input) => input'[i] = input[i]
  BY <1>1, ConcatProperties DEF Chunk, Byte
<1>3. offset \in 0..Len(input')
  BY <1>1, <1>2, SMTT(30)
<1>4. TypeOK'
  <2>1. pc' \in {"read", "split", "eof"} /\ UNCHANGED <<proto, offset, keystream, splitter, output>>
    BY DEF Chunk
  <2>2. /\ UNCHANGED <<proto, offset, keystream, header, header_len, packet, packet_len>>
        /\ UNCHANGED <<disabled, sent, ends>>
    BY <2>1 DEF splitter, output
  <2>3. offset' \in 0..Len(input')
    BY <1>3, <2>2
  <2> QED
    BY <1>2, <2>1, <2>2, <2>3, Zenon DEF IInv, TypeOK
<1>5. StreamInv'
  <2>1. \A i \in 1..offset : input[i] = input'[i]
    BY <1>1, <1>2, SMTT(20)
  <2>2. Enc(input, offset) = Enc(input', offset)
    BY <2>1 DEF Enc
  <2> QED
    BY <2>2, Zenon DEF IInv, StreamInv, StreamInOrder, Enc, Chunk, splitter, output
<1>6. FramingInv'
  BY DEF IInv, FramingInv, required_header_len, Extended, Chunk, splitter, output
<1> QED
  BY <1>4, <1>5, <1>6 DEF IInv

(***************************************************************************)
(* Without a splitter what is written is the next n bytes, encrypted.      *)
(***************************************************************************)
LEMMA WrittenStep ==
    ASSUME IInv, packet = <<>>, NEW n \in Nat, offset + n <= Len(input), Written(n)
    PROVE  IInv' /\ packet' = <<>>
           /\ Len(sent') = Len(sent) + n /\ ends' = Append(ends, Len(sent) + n)
<1>1. /\ offset \in Nat /\ Len(input) \in Nat /\ keystream = offset
      /\ sent \in Seq(Encrypted) /\ ends \in Seq(Nat)
  BY LenProperties DEF IInv, TypeOK, StreamInv, Encrypted
<1>2. /\ apply_keystream(n) \in Seq(Encrypted) /\ Len(apply_keystream(n)) = n
      /\ sent \o (packet \o apply_keystream(n)) = Enc(input, offset + n)
  BY Applied
<1>3. packet' = <<>>
  BY DEF Written, splitter
<1>4. packet \o apply_keystream(n) = apply_keystream(n)
  BY <1>2, ConcatEmptySeq
<1>5. Push(apply_keystream(n)) /\ offset' = offset + n /\ keystream' = keystream + n
  BY DEF Written, Consume
<1>6. /\ sent' \in Seq(Encrypted) /\ ends' \in Seq(Nat)
      /\ sent' \o packet' = sent \o apply_keystream(n)
  <2>1. apply_keystream(n) \in Seq(Encrypted) /\ sent \in Seq(Encrypted) /\ ends \in Seq(Nat)
    BY <1>1, <1>2
  <2> QED
    BY <1>3, <1>5, <2>1, Pushed, Zenon
<1>7. Len(sent') = Len(sent) + n /\ ends' = Append(ends, Len(sent) + n)
  BY <1>1, <1>2, <1>5, ConcatEncrypted, SMTT(20) DEF Push
<1>8. TypeOK'
  <2>1. offset' \in 0..Len(input) /\ keystream' \in Nat
    BY <1>1, <1>5
  <2> QED
    <3>1. UNCHANGED <<proto, input, splitter, pc>>
      BY DEF Written
    <3>2. sent' \in Seq([byte : 0..255, at : Nat]) /\ ends' \in Seq(Nat)
      BY <1>6 DEF Encrypted
    <3> QED
      BY <2>1, <3>1, <3>2, SMTT(30) DEF IInv, TypeOK, splitter
<1>9. StreamInv'
  <2>1. input' = input
    BY DEF Written
  <2>2. sent' \o packet' = Enc(input', offset')
    BY <1>2, <1>4, <1>5, <1>6, <2>1
  <2>3. keystream' = offset'
    BY <1>1, <1>5
  <2> QED
    BY <2>2, <2>3 DEF StreamInv, StreamInOrder, Enc
<1>10. FramingInv'
  BY DEF IInv, FramingInv, required_header_len, Extended, Written, splitter
<1> QED
  BY <1>3, <1>7, <1>8, <1>9, <1>10, SMTT(20) DEF IInv

-----------------------------------------------------------------------------
LEMMA InitSInv == StreamInit => SInv
<1> SUFFICES ASSUME StreamInit PROVE SInv
  OBVIOUS
<1>1. IInv
  BY InitIInv, Zenon DEF StreamInit
<1>2. PathInv /\ from \in Clients \cup Upstreams
  <2>1. PICK p \in Paths : from = p.from /\ to = p.to
    BY Zenon DEF StreamInit
  <2>2. /\ p.from \in Clients \cup Upstreams
        /\ p.to = "packets" => p.from \in Clients
    BY FramingAssumption
  <2> QED
    BY <2>1, <2>2, FramingAssumption DEF PathInv
<1>3. WireInv
  BY EmptySeq, ConcatBytes, Zenon DEF StreamInit, Init, WireInv, NothingLost
<1>4. PhaseInv
  <2>1. Len(HandshakeInit) \in Nat /\ Len(<<>>) = 0
    BY FramingAssumption, LenProperties
  <2>2. /\ phase \in {"dial", "hello", "init", "open"}
        /\ phase = "dial" => from \notin Clients
        /\ phase = "init" => from \in Clients
        /\ phase = "open" => from \notin Clients
    BY <1>2, Zenon DEF StreamInit, Clients, Upstreams
  <2>3. input = <<>> /\ handshake_buf = <<>> /\ pending = <<>>
    BY Zenon DEF StreamInit, Init
  <2> QED
    BY <2>1, <2>2, <2>3 DEF PhaseInv, Opening
<1>5. RecordsInv /\ RecordsReadable
  <2>1. packet = <<>> /\ Len(sent) = 0 /\ Len(ends) = 0
    BY EmptySeq, Zenon DEF StreamInit, Init
  <2> QED
    BY <2>1 DEF RecordsInv, RecordsReadable, LastEnd
<1>6. HonestSourceServed
  BY <1>2, Zenon DEF StreamInit, HonestSourceServed, Clients, Upstreams
<1> QED
  BY <1>1, <1>2, <1>3, <1>4, <1>5, <1>6 DEF SInv

(***************************************************************************)
(* The handshake leaves the bridge alone.                                  *)
(***************************************************************************)
LEMMA Quiet ==
    ASSUME SInv, UNCHANGED <<vars, path>>
    PROVE  /\ PathInv' /\ IInv' /\ RecordsInv' /\ RecordsReadable'
           /\ Opening' = Opening
<1>1. IInv'
  BY NextIInv DEF SInv
<1> QED
  BY <1>1 DEF SInv, PathInv, RecordsInv, RecordsReadable, Opening, vars, path

LEMMA WireKept ==
    ASSUME SInv, UNCHANGED <<vars, path, wire, handshake_buf, pending>>
    PROVE  WireInv'
BY Zenon DEF SInv, WireInv, NothingLost, Opening, vars, path

LEMMA PlainInitStep ==
    ASSUME SInv, NEW s \in SourceStreams[from][proto], PlainInit(s)
    PROVE  SInv'
<1> DEFINE n == Len(HandshakeInit)
           b == Bytes(s, n)
<1>1. /\ PathInv' /\ IInv' /\ RecordsInv' /\ RecordsReadable' /\ Opening' = Opening
  BY Quiet DEF PlainInit
<1>2. /\ n \in Nat /\ Opening = HandshakeInit /\ Opening \in Seq(Byte) /\ s \in Seq(Byte)
      /\ from \in Clients
  <2>1. from \in Clients
    BY SMTT(20) DEF PlainInit, Clients
  <2>2. Opening = HandshakeInit /\ n \in Nat
    <3>1. Opening = HandshakeInit
      BY <2>1, Zenon DEF Opening
    <3> QED
      BY <3>1, FramingAssumption, LenProperties
  <2>3. Opening \in Seq(Byte) /\ s \in Seq(Byte)
    BY SourceBytes, SMTT(20) DEF SInv
  <2> QED
    BY <2>1, <2>2, <2>3
<1>3. input = <<>> /\ pending = <<>> /\ handshake_buf = <<>>
  BY DEF SInv, PhaseInv, PlainInit
<1>4. wire = <<>>
  BY <1>3, EmptySeq, ConcatBytes DEF SInv, WireInv, NothingLost
<1>5. /\ b \in Seq(Byte) /\ Len(b) = n /\ wire' = wire \o b /\ wire' \in Seq(Byte)
      /\ \E rest \in Seq(Byte) : wire' \o rest = Opening \o s
  BY <1>2, Taken, Zenon DEF SInv, PlainInit
<1>6. /\ handshake_buf' = b /\ pending' = <<>> /\ input' = <<>> /\ phase' = "parse" /\ from' = from
      /\ proto' = proto /\ excused' = excused
  BY <1>3 DEF PlainInit, vars, path
<1> HIDE DEF b
<1>7. wire' = b
  BY <1>4, <1>5, ConcatBytes
<1>8. b = Opening
  <2>1. PICK rest \in Seq(Byte) : b \o rest = Opening \o s
    BY <1>5, <1>7, Zenon
  <2> QED
    BY <1>2, <1>5, <2>1, BeginAlike, Zenon
<1>9. WireInv'
  <2>1. handshake_buf' \o input' \o pending' = wire'
    BY <1>5, <1>6, <1>7, ConcatBytes, SMTT(20)
  <2> QED
    BY <1>1, <1>5, <1>6, <2>1, EmptySeq, Zenon DEF WireInv, NothingLost
<1>10. PhaseInv'
  BY <1>1, <1>2, <1>6, <1>8, SMTT(20) DEF PhaseInv
<1>11. HonestSourceServed'
  BY <1>6, SMTT(20) DEF HonestSourceServed
<1> QED
  BY <1>1, <1>9, <1>10, <1>11, SMTT(20) DEF SInv

LEMMA InitRecordStep ==
    ASSUME SInv, NEW s \in SourceStreams[from][proto], NEW n \in 1..MaxRecord, InitRecord(s, n)
    PROVE  SInv'
<1> DEFINE b == Bytes(s, n)
           k == smaller(n, Len(HandshakeInit) - Len(handshake_buf))
           b1 == SubSeq(b, 1, k)
           b2 == SubSeq(b, k + 1, Len(b))
<1>1. /\ PathInv' /\ IInv' /\ RecordsInv' /\ RecordsReadable' /\ Opening' = Opening
  BY Quiet, Zenon DEF InitRecord
<1>2. /\ Opening = HandshakeInit /\ Opening \in Seq(Byte) /\ s \in Seq(Byte) /\ from \in Clients
      /\ Len(HandshakeInit) \in Nat /\ handshake_buf \in Seq(Byte) /\ Len(handshake_buf) \in Nat
  <2>1. from \in Clients
    BY Zenon DEF InitRecord, Clients
  <2>2. Opening = HandshakeInit /\ Len(HandshakeInit) \in Nat
    <3>1. Opening = HandshakeInit
      BY <2>1, Zenon DEF Opening
    <3> QED
      BY <3>1, FramingAssumption, LenProperties
  <2>3. Opening \in Seq(Byte) /\ s \in Seq(Byte)
    BY SourceBytes, SMTT(20) DEF SInv
  <2>4. handshake_buf \in Seq(Byte) /\ Len(handshake_buf) \in Nat
    BY LenProperties DEF SInv, WireInv
  <2> QED
    BY <2>1, <2>2, <2>3, <2>4
<1>3. input = <<>> /\ pending = <<>> /\ Len(handshake_buf) <= Len(HandshakeInit)
  BY Zenon DEF SInv, PhaseInv, InitRecord
<1>4. n \in Nat
  BY FramingAssumption DEF MaxRecord
<1>5. /\ b \in Seq(Byte) /\ Len(b) = n /\ wire' = wire \o b /\ wire' \in Seq(Byte)
      /\ \E rest \in Seq(Byte) : wire' \o rest = Opening \o s
  BY <1>4, Taken, Zenon DEF SInv, InitRecord
<1>6. /\ k \in Nat /\ k <= n /\ Len(handshake_buf) + k <= Len(HandshakeInit)
  <2>1. Len(HandshakeInit) - Len(handshake_buf) \in Nat
    BY <1>2, <1>3
  <2>2. k \in Nat /\ k <= n /\ k <= Len(HandshakeInit) - Len(handshake_buf)
    BY <1>4, <2>1, Smaller, Zenon
  <2> HIDE DEF k
  <2> QED
    BY <1>2, <2>2
<1>7. wire = handshake_buf
  BY <1>2, <1>3, ConcatBytes DEF SInv, WireInv, NothingLost
<1>8. /\ handshake_buf' = handshake_buf \o b1 /\ pending' = b2 /\ input' = <<>>
      /\ phase' = IF Len(handshake_buf') = Len(HandshakeInit) THEN "parse" ELSE "init"
      /\ from' = from /\ from # "client" /\ proto' = proto /\ excused' = excused
  BY <1>3, <1>5, Zenon DEF InitRecord, vars, path
<1> HIDE DEF b, k
<1>9. b1 \in Seq(Byte) /\ Len(b1) = k /\ b2 \in Seq(Byte) /\ b1 \o b2 = b
  BY <1>5, <1>6, CutInTwo, Zenon
<1> HIDE DEF b1, b2
<1>10. /\ handshake_buf' \in Seq(Byte) /\ pending' \in Seq(Byte)
       /\ Len(handshake_buf') <= Len(HandshakeInit)
       /\ handshake_buf' \o pending' = wire'
  <2>1. handshake_buf \o b1 \in Seq(Byte) /\ Len(handshake_buf \o b1) = Len(handshake_buf) + Len(b1)
    BY <1>2, <1>9, ConcatBytes, Zenon
  <2>2. (handshake_buf \o b1) \o b2 = handshake_buf \o (b1 \o b2)
    <3>1. handshake_buf \in Seq(Byte) /\ b1 \in Seq(Byte) /\ b2 \in Seq(Byte)
      BY <1>2, <1>9
    <3> QED
      BY <3>1, ConcatBytesAssoc, Zenon
  <2> QED
    BY <1>5, <1>6, <1>7, <1>8, <1>9, <2>1, <2>2
<1>11. WireInv'
  <2>1. handshake_buf' \o input' \o pending' = wire'
    BY <1>8, <1>10, ConcatBytes
  <2> QED
    BY <1>1, <1>5, <1>8, <1>10, <2>1, Zenon DEF WireInv, NothingLost
<1>12. phase' = "parse" => handshake_buf' = Opening
  <2> SUFFICES ASSUME phase' = "parse" PROVE handshake_buf' = Opening
    OBVIOUS
  <2>1. PICK rest \in Seq(Byte) : wire' \o rest = Opening \o s
    BY <1>5, Zenon
  <2>2. Len(handshake_buf') = Len(Opening)
    BY <1>2, <1>8
  <2>3. handshake_buf' \o (pending' \o rest) = Opening \o s /\ pending' \o rest \in Seq(Byte)
    <3>1. (handshake_buf' \o pending') \o rest = handshake_buf' \o (pending' \o rest)
      BY <1>10, ConcatBytesAssoc, Zenon
    <3>2. pending' \o rest \in Seq(Byte)
      BY <1>10, ConcatBytes, SMTT(20)
    <3> QED
      BY <1>10, <2>1, <3>1, <3>2, Zenon
  <2> QED
    BY <1>2, <1>10, <2>2, <2>3, BeginAlike, Zenon
<1>13. PhaseInv'
  <2>1. phase' = "init" => pending' = <<>>
    <3> SUFFICES ASSUME phase' = "init" PROVE pending' = <<>>
      OBVIOUS
    <3>1. k # Len(HandshakeInit) - Len(handshake_buf)
      BY <1>2, <1>6, <1>8, <1>9, ConcatBytes, SMTT(20)
    <3>2. k = n
      BY <3>1, SMTT(20) DEF k, smaller
    <3>3. Len(b2) = 0
      BY <1>4, <1>5, <1>6, <1>9, <3>2, LenProperties, ConcatBytes, SMTT(30)
    <3> QED
      BY <1>8, <1>9, <3>3, EmptySeq
  <2> QED
    BY <1>1, <1>2, <1>8, <1>10, <1>12, <2>1, SMTT(20) DEF PhaseInv
<1>14. HonestSourceServed'
  BY <1>8, SMTT(20) DEF HonestSourceServed
<1> QED
  BY <1>1, <1>11, <1>13, <1>14 DEF SInv

LEMMA HandshakeStep ==
    ASSUME SInv, Handshake
    PROVE  SInv'
<1>1. CASE Hangup \/ Drain
  <2>1. /\ phase' = "closed" /\ excused'
        /\ UNCHANGED <<vars, path, wire, handshake_buf, pending>>
    BY <1>1 DEF Hangup, Drain, Closed
  <2>2. PhaseInv' /\ HonestSourceServed'
    BY <2>1 DEF PhaseInv, HonestSourceServed
  <2> QED
    BY <2>1, <2>2, Quiet, WireKept DEF SInv
<1>2. CASE connect_mtproto_upstream
  <2>1. UNCHANGED <<vars, path, wire, handshake_buf, pending>> /\ phase' \in {"hello", "open"}
    BY <1>2, Zenon DEF connect_mtproto_upstream
  <2>2. PhaseInv'
    BY <1>2, <2>1, Zenon DEF SInv, PhaseInv, Opening, connect_mtproto_upstream, vars, path
  <2>3. HonestSourceServed'
    BY <2>1 DEF HonestSourceServed
  <2> QED
    BY <2>1, <2>2, <2>3, Quiet, WireKept DEF SInv
<1>3. ASSUME NEW hello \in [complete : BOOLEAN, signed : BOOLEAN, expected_domain : BOOLEAN],
             ClientHello(hello)
      PROVE  SInv'
  <2>1. /\ UNCHANGED <<vars, path, wire, handshake_buf, pending>>
        /\ from = "faketls client" /\ phase = "hello" /\ phase' \in {"init", "closed"}
        /\ phase' = "closed" => excused'
    BY <1>3, Zenon DEF ClientHello
  <2>2. PhaseInv'
    <3>1. from' = from /\ input' = input /\ from \in Clients /\ from # "client"
      BY <2>1, Zenon DEF vars, path, Clients
    <3>2. Len(<<>>) <= Len(HandshakeInit)
      BY FramingAssumption, EmptySeq, LenProperties
    <3> QED
      BY <2>1, <3>1, <3>2, Zenon DEF SInv, PhaseInv
  <2>3. HonestSourceServed'
    BY <2>1, Zenon DEF HonestSourceServed
  <2> QED
    BY <2>1, <2>2, <2>3, Quiet, WireKept, Zenon DEF SInv
<1>4. ASSUME NEW type \in {"handshake", "appdata"}, drain_faketls_server_hello(type)
      PROVE  SInv'
  <2>1. /\ UNCHANGED <<vars, path, wire, handshake_buf, pending>>
        /\ from = "faketls upstream" /\ phase = "hello" /\ phase' \in {"hello", "open", "closed"}
        /\ phase' = "closed" => excused'
    BY <1>4, Zenon DEF drain_faketls_server_hello
  <2>2. PhaseInv'
    <3>1. from' = from /\ input' = input /\ from \notin Clients
      BY <2>1, Zenon DEF vars, path, Clients
    <3> QED
      BY <2>1, <3>1, Zenon DEF SInv, PhaseInv, Opening
  <2>3. HonestSourceServed'
    BY <2>1, Zenon DEF HonestSourceServed
  <2> QED
    BY <2>1, <2>2, <2>3, Quiet, WireKept, Zenon DEF SInv
<1>5. ASSUME NEW knows \in BOOLEAN, Parse(knows)
      PROVE  SInv'
  <2>1. /\ UNCHANGED <<vars, path, wire, handshake_buf, pending>>
        /\ phase = "parse" /\ phase' \in {"open", "drain"} /\ excused' = ~knows
        /\ phase' = "drain" => ~(knows /\ handshake_buf = HandshakeInit)
    BY <1>5 DEF Parse
  <2>2. handshake_buf = Opening /\ from \in Clients /\ input = <<>>
    BY <2>1 DEF SInv, PhaseInv
  <2>3. PhaseInv'
    <3>1. from' = from /\ input' = input /\ Opening' = Opening
      BY <2>1 DEF vars, path, Opening
    <3> QED
      BY <2>1, <2>2, <3>1 DEF PhaseInv
  <2>4. HonestSourceServed'
    BY <2>1, <2>2, Zenon DEF HonestSourceServed, Opening
  <2> QED
    BY <2>1, <2>3, <2>4, Quiet, WireKept DEF SInv
<1> QED
  BY <1>1, <1>2, <1>3, <1>4, <1>5, PlainInitStep, InitRecordStep, SMTT(20) DEF Handshake

-----------------------------------------------------------------------------
(***************************************************************************)
(* A read: its chunk extends the bridge's input, of which nothing else     *)
(* depends.                                                                *)
(***************************************************************************)
LEMMA ChunkQuiet ==
    ASSUME SInv, NEW a \in Seq(Byte), Chunk(a), phase = "open",
           UNCHANGED <<phase, handshake_buf, excused>>
    PROVE  /\ PathInv' /\ IInv' /\ PhaseInv' /\ RecordsInv' /\ RecordsReadable'
           /\ HonestSourceServed' /\ Opening' = Opening /\ proto' = proto /\ from' = from
<1>1. IInv'
  BY ChunkStep, SMTT(20) DEF SInv
<1>2. Opening' = Opening /\ proto' = proto /\ from' = from /\ PathInv'
  BY DEF SInv, PathInv, Chunk, path, Opening
<1>3. PhaseInv'
  BY <1>2, SMTT(20) DEF SInv, PhaseInv
<1>4. RecordsInv' /\ RecordsReadable'
  BY DEF SInv, RecordsInv, RecordsReadable, Chunk, splitter, output, path
<1>5. HonestSourceServed'
  BY DEF HonestSourceServed
<1> QED
  BY <1>1, <1>2, <1>3, <1>4, <1>5

\* Each kind of source is read into a buffer of at least one byte.
LEMMA ReadBufs ==
    ReadBuf \in Nat /\ ReadBuf > 0 /\ MaxRecord \in Nat /\ (Tls => ReadBuf = MaxRecord)
<1>1. MaxRecordPayload \in Nat /\ MaxRecordPayload > 0 /\ ReadHeadroom \in Nat
  BY FramingAssumption
<1>2. MaxRecord \in Nat /\ MaxRecord > 0
  BY <1>1 DEF MaxRecord
<1>3. ReadBuf = MaxRecordPayload \/ ReadBuf = MaxRecord
  BY DEF ReadBuf, RelayBufSize, ClientReadBufSize
<1>4. Tls => ReadBuf = MaxRecord
  BY Zenon DEF ReadBuf, ClientReadBufSize, Tls
<1> QED
  BY <1>1, <1>2, <1>3, <1>4, SMTT(20)

LEMMA PendingParts ==
    ASSUME SInv, ReadPending
    PROVE  \E a, b \in Seq(Byte) :
              /\ a \o b = pending /\ Len(a) > 0 /\ Chunk(a) /\ pending' = b
<1> DEFINE n == smaller(ReadBuf, Len(pending))
           a == SubSeq(pending, 1, n)
           b == SubSeq(pending, n + 1, Len(pending))
<1>1. pending \in Seq(Byte) /\ Len(pending) \in Nat /\ Len(pending) > 0
  <2>1. pending \in Seq(Byte) /\ pending # <<>>
    BY DEF SInv, WireInv, ReadPending
  <2>2. Len(pending) \in Nat /\ Len(pending) # 0
    BY <2>1, LenProperties, EmptySeq
  <2> QED
    BY <2>1, <2>2, SMTT(20)
<1>2. n \in Nat /\ n <= Len(pending) /\ n > 0
  BY <1>1, ReadBufs, Smaller, Zenon
<1>3. Chunk(a) /\ pending' = b
  BY DEF ReadPending
<1> HIDE DEF n
<1>4. a \in Seq(Byte) /\ Len(a) = n /\ b \in Seq(Byte) /\ a \o b = pending
  BY <1>1, <1>2, CutInTwo, Zenon
<1> QED
  BY <1>2, <1>3, <1>4, Zenon

LEMMA ReadPendingStep ==
    ASSUME SInv, ReadPending
    PROVE  SInv'
<1>1. PICK a, b \in Seq(Byte) : a \o b = pending /\ Chunk(a) /\ pending' = b
  BY PendingParts
<1>2. phase = "open" /\ UNCHANGED <<phase, wire, handshake_buf, excused>>
  BY DEF ReadPending, Reading
<1>3. /\ PathInv' /\ IInv' /\ PhaseInv' /\ RecordsInv' /\ RecordsReadable'
      /\ HonestSourceServed' /\ Opening' = Opening /\ proto' = proto /\ from' = from
  BY <1>1, <1>2, ChunkQuiet, SMTT(30)
<1>4. handshake_buf \in Seq(Byte) /\ input \in Seq(Byte) /\ wire \in Seq(Byte)
  BY DEF SInv, WireInv, IInv, TypeOK, Byte
<1>5. handshake_buf \o (input \o a) \o b = wire
  <2>1. handshake_buf \o input \o (a \o b) = wire
    BY <1>1, Zenon DEF SInv, WireInv, NothingLost
  <2>2. Join(Join(handshake_buf, input), Join(a, b)) = Join(Join(handshake_buf, Join(input, a)), b)
    BY <1>4, ShiftBytes
  <2>3. handshake_buf \o input \o (a \o b) = handshake_buf \o (input \o a) \o b
    BY <2>2, Zenon DEF Join
  <2> QED
    BY <2>1, <2>3, Zenon
<1>6. WireInv'
  <2>1. NothingLost'
    BY <1>1, <1>2, <1>5 DEF NothingLost, Chunk
  <2> QED
    BY <1>1, <1>2, <1>3, <1>4, <2>1, Zenon DEF SInv, WireInv
<1> QED
  BY <1>3, <1>6 DEF SInv

LEMMA ReadWireStep ==
    ASSUME SInv, NEW s \in SourceStreams[from][proto], NEW n \in 0..Len(s), ReadWire(s, n)
    PROVE  SInv'
<1> DEFINE b == Bytes(s, n)
<1>1. n \in Nat /\ s \in Seq(Byte)
  BY SourceBytes, LenProperties DEF SInv
<1>2. /\ b \in Seq(Byte) /\ wire' = wire \o b /\ wire' \in Seq(Byte)
      /\ \E rest \in Seq(Byte) : wire' \o rest = Opening \o s
  BY <1>1, Taken, Zenon DEF SInv, ReadWire
<1>3. /\ phase = "open" /\ pending = <<>> /\ Chunk(b)
      /\ UNCHANGED <<phase, handshake_buf, pending, excused>>
  BY SMTT(20) DEF ReadWire, Reading
<1> HIDE DEF b
<1>4. /\ PathInv' /\ IInv' /\ PhaseInv' /\ RecordsInv' /\ RecordsReadable'
      /\ HonestSourceServed' /\ Opening' = Opening /\ proto' = proto /\ from' = from
  BY <1>2, <1>3, ChunkQuiet, SMTT(30)
<1>5. /\ handshake_buf \in Seq(Byte) /\ input \in Seq(Byte) /\ pending \in Seq(Byte)
  BY DEF SInv, WireInv, IInv, TypeOK, Byte
<1>6. handshake_buf \o (input \o b) \o <<>> = wire \o b
  <2>1. handshake_buf \o input \o <<>> = wire
    BY <1>3, SMTT(20) DEF SInv, WireInv, NothingLost
  <2>2. Join(Join(handshake_buf, Join(input, b)), <<>>) = Join(Join(Join(handshake_buf, input), <<>>), b)
    BY <1>2, <1>5, ExtendBytes
  <2>3. handshake_buf \o (input \o b) \o <<>> = (handshake_buf \o input \o <<>>) \o b
    BY <2>2, Zenon DEF Join
  <2> QED
    BY <2>1, <2>3, Zenon
<1>7. WireInv'
  <2>1. NothingLost'
    BY <1>2, <1>3, <1>6, Zenon DEF NothingLost, Chunk
  <2> QED
    BY <1>2, <1>3, <1>4, <1>5, <2>1, Zenon DEF WireInv
<1> QED
  BY <1>4, <1>7 DEF SInv

(***************************************************************************)
(* The end of the source, or a record that does not fit the buffer.        *)
(***************************************************************************)
LEMMA EndStep ==
    ASSUME SInv, flush, phase' = "closed", excused',
           UNCHANGED <<path, wire, handshake_buf, pending>>
    PROVE  SInv'
<1>1. IInv' /\ input' = input /\ proto' = proto
  BY FlushStep, SMTT(20) DEF SInv, flush
<1>2. PathInv' /\ Opening' = Opening /\ from' = from /\ to' = to
  BY DEF SInv, PathInv, Opening, path
<1>3. WireInv'
  BY <1>1, <1>2, Zenon DEF SInv, WireInv, NothingLost
<1>4. PhaseInv' /\ HonestSourceServed'
  BY SMTT(20) DEF PhaseInv, HonestSourceServed
<1>5. RecordsInv' /\ RecordsReadable'
  BY <1>2 DEF SInv, RecordsInv, RecordsReadable, flush, splitter, output
<1> QED
  BY <1>1, <1>2, <1>3, <1>4, <1>5, SMTT(20) DEF SInv

LEMMA CutStep ==
    ASSUME SInv, Cut
    PROVE  SInv'
<1>1. /\ phase' = "closed" /\ excused' /\ pc' = "read"
      /\ UNCHANGED <<wire, handshake_buf, pending, proto, input, offset, keystream, splitter, output,
                     path>>
  BY DEF Cut, Closed
<1>2. IInv'
  <2>1. TypeOK'
    BY <1>1, SMTT(30) DEF SInv, IInv, TypeOK, splitter, output
  <2>2. StreamInv'
    BY <1>1, SMTT(20) DEF SInv, IInv, StreamInv, StreamInOrder, splitter, output
  <2>3. FramingInv'
    BY <1>1 DEF SInv, IInv, FramingInv, required_header_len, Extended, splitter
  <2> QED
    BY <2>1, <2>2, <2>3, SMTT(30) DEF IInv
<1>3. PathInv' /\ WireInv'
  BY <1>1, Zenon DEF SInv, PathInv, WireInv, NothingLost, Opening, path
<1>4. PhaseInv' /\ HonestSourceServed'
  BY <1>1, SMTT(20) DEF PhaseInv, HonestSourceServed
<1>5. RecordsInv' /\ RecordsReadable'
  BY <1>1 DEF SInv, RecordsInv, RecordsReadable, splitter, output, path
<1> QED
  BY <1>2, <1>3, <1>4, <1>5 DEF SInv

(***************************************************************************)
(* One more record, after records that end at the last of e.               *)
(***************************************************************************)
LEMMA OneMoreRecord ==
    \A e \in Seq(Nat), l, max \in Nat : \A n \in 1..max :
        l = LastEnd(e) /\ Sizes(e, max) =>
            LastEnd(Append(e, l + n)) = l + n /\ Sizes(Append(e, l + n), max)
<1> TAKE e \in Seq(Nat), l, max \in Nat
<1> TAKE n \in 1..max
<1> HAVE l = LastEnd(e) /\ Sizes(e, max)
<1> DEFINE f == Append(e, l + n)
<1>1. l + n \in Nat /\ Len(e) \in Nat
  BY LenProperties, SMTT(20)
<1>2. /\ Len(f) = Len(e) + 1 /\ f[Len(e) + 1] = l + n
      /\ \A i \in 1..Len(e) : f[i] = e[i]
  BY <1>1, AppendProperties, SMTT(20)
<1>5. 1..Len(f) = 1..(Len(e) + 1)
  BY <1>2, SMTT(20)
<1> HIDE DEF f
<1>3. ASSUME NEW m \in 1..Len(f) PROVE f[m] - (IF m = 1 THEN 0 ELSE f[m - 1]) \in 1..max
  <2>1. CASE m = Len(e) + 1
    <3>1. CASE Len(e) = 0
      BY <1>1, <1>2, <2>1, <3>1, SMTT(20) DEF LastEnd
    <3>2. CASE Len(e) # 0
      <4>1. m # 1 /\ m - 1 = Len(e) /\ Len(e) \in 1..Len(e)
        BY <1>1, <2>1, <3>2, SMTT(30)
      <4>2. f[m - 1] = l
        BY <1>2, <3>2, <4>1, SMTT(20) DEF LastEnd
      <4> QED
        BY <1>1, <1>2, <2>1, <4>1, <4>2, SMTT(20)
    <3> QED
      BY <3>1, <3>2
  <2>2. CASE m # Len(e) + 1
    <3>0. m \in 1..(Len(e) + 1)
      BY <1>5
    <3>1. m \in 1..Len(e) /\ (m # 1 => m - 1 \in 1..Len(e))
      BY <1>1, <2>2, <3>0, SMTT(30)
    <3>2. f[m] = e[m] /\ (m # 1 => f[m - 1] = e[m - 1])
      BY <1>2, <3>1, Zenon
    <3> QED
      BY <3>1, <3>2 DEF Sizes
  <2> QED
    BY <2>1, <2>2, SMTT(20)
<1>4. Len(f) # 0 /\ f[Len(f)] = l + n
  BY <1>1, <1>2
<1> QED
  BY <1>3, <1>4, Zenon DEF LastEnd, Sizes, f

LEMMA WriteStep ==
    ASSUME SInv, Write
    PROVE  SInv'
<1>1. UNCHANGED <<path, phase, wire, handshake_buf, pending, excused>> /\ phase = "open"
  BY SMTT(20) DEF Write, reader
<1>2. PathInv' /\ Opening' = Opening /\ to' = to /\ from' = from
  BY <1>1 DEF SInv, PathInv, Opening, path
<1>3. HonestSourceServed'
  BY <1>1 DEF HonestSourceServed
<1>4. ASSUME IInv', RecordsInv', RecordsReadable', UNCHANGED <<input, proto>>
      PROVE  SInv'
  <2>1. WireInv'
    BY <1>1, <1>2, <1>4, Zenon DEF SInv, WireInv, NothingLost
  <2>2. PhaseInv'
    BY <1>1, <1>2, <1>4 DEF SInv, PhaseInv
  <2> QED
    BY <1>2, <1>3, <1>4, <2>1, <2>2 DEF SInv
<1>5. CASE to = "packets" /\ Split
  <2>1. IInv'
    BY <1>5, NextIInv, SMTT(20) DEF SInv, Next
  <2>2. UNCHANGED <<input, proto>>
    <3>1. CASE Tunnel
      BY <3>1, ZenonT(30) DEF Tunnel
    <3>2. CASE Header
      BY <3>2, ZenonT(30) DEF Header
    <3>3. CASE Body
      BY <3>3, ZenonT(30) DEF Body
    <3>4. CASE Return
      BY <3>4, ZenonT(30) DEF Return
    <3> QED
      BY <1>5, <3>1, <3>2, <3>3, <3>4 DEF Split
  <2> QED
    BY <1>2, <1>4, <1>5, <2>1, <2>2, SMTT(20) DEF RecordsInv, RecordsReadable
<1>6. CASE to # "packets" /\ Return
  <2>1. IInv'
    BY <1>6, ReturnStep DEF SInv
  <2>2. UNCHANGED <<input, proto, packet, sent, ends>>
    BY <1>6 DEF Return, splitter, output
  <2> QED
    BY <1>2, <1>4, <2>1, <2>2 DEF SInv, RecordsInv, RecordsReadable
<1>7. offset \in Nat /\ Len(input) \in Nat /\ Len(sent) \in Nat /\ ends \in Seq(Nat)
  BY LenProperties DEF SInv, IInv, TypeOK
<1>8. CASE write_tls_appdata
  <2> DEFINE n == smaller(MaxRecordPayload, Len(input) - offset)
  <2>1. to = "records" /\ Written(n) /\ packet = <<>> /\ IInv /\ offset < Len(input)
    BY <1>8 DEF write_tls_appdata, SInv, RecordsInv
  <2>2. n \in 1..MaxRecordPayload /\ n <= Len(input) - offset
    <3>1. /\ MaxRecordPayload \in Nat /\ MaxRecordPayload > 0
          /\ Len(input) - offset \in Nat /\ Len(input) - offset > 0
      BY <1>7, <2>1, FramingAssumption
    <3>2. n \in Nat /\ n > 0 /\ n <= MaxRecordPayload /\ n <= Len(input) - offset
      BY <3>1, Smaller, Zenon
    <3> HIDE DEF n
    <3> QED
      BY <3>1, <3>2
  <2> HIDE DEF n
  <2>3. n \in Nat /\ offset + n <= Len(input)
    BY <1>7, <2>2, FramingAssumption
  <2>4. IInv' /\ packet' = <<>> /\ Len(sent') = Len(sent) + n /\ ends' = Append(ends, Len(sent) + n)
    BY <2>1, <2>3, WrittenStep
  <2>5. LastEnd(ends') = Len(sent) + n /\ Sizes(ends', MaxRecordPayload)
    <3>1. Len(sent) = LastEnd(ends) /\ Sizes(ends, MaxRecordPayload)
      BY <2>1 DEF SInv, RecordsInv, RecordsReadable, Sizes
    <3>2. MaxRecordPayload \in Nat
      BY FramingAssumption
    <3>3. ends \in Seq(Nat) /\ Len(sent) \in Nat
      BY <1>7
    <3>4. LastEnd(Append(ends, Len(sent) + n)) = Len(sent) + n
          /\ Sizes(Append(ends, Len(sent) + n), MaxRecordPayload)
      BY <2>2, <3>1, <3>2, <3>3, OneMoreRecord, Zenon
    <3> QED
      BY <2>4, <3>4
  <2>6. RecordsInv' /\ RecordsReadable'
    BY <2>4, <2>5 DEF RecordsInv, RecordsReadable, Sizes
  <2> QED
    BY <1>4, <2>1, <2>4, <2>6 DEF Written
<1>9. CASE write_all
  <2> DEFINE n == Len(input) - offset
  <2>1. to = "bytes" /\ Written(n) /\ packet = <<>> /\ IInv /\ offset < Len(input)
    BY <1>9 DEF write_all, SInv, RecordsInv
  <2>2. n \in Nat /\ offset + n <= Len(input)
    BY <1>7, <2>1
  <2> HIDE DEF n
  <2>3. IInv' /\ packet' = <<>>
    BY <2>1, <2>2, WrittenStep
  <2>4. RecordsInv' /\ RecordsReadable'
    BY <1>2, <2>1, <2>3, SMTT(30) DEF RecordsInv, RecordsReadable
  <2> QED
    BY <1>4, <2>1, <2>3, <2>4 DEF Written
<1> QED
  BY <1>5, <1>6, <1>8, <1>9 DEF Write

-----------------------------------------------------------------------------
LEMMA NextSInv == SInv /\ [StreamNext]_allVars => SInv'
<1> SUFFICES ASSUME SInv, [StreamNext]_allVars PROVE SInv'
  OBVIOUS
<1>1. CASE ReadEnd
  BY <1>1, EndStep DEF ReadEnd, Closed
<1>2. ASSUME NEW n \in 1..(MaxRecord + 1), ReadTooLong(n)
      PROVE  SInv'
  <2>1. Tls /\ n > ReadBuf
    BY <1>2 DEF ReadTooLong
  <2>2. n > MaxRecord
    BY <2>1, ReadBufs
  <2>3. excused'
    BY <1>2, <2>2, Zenon DEF ReadTooLong
  <2> QED
    BY <1>2, <2>3, EndStep DEF ReadTooLong
<1>3. CASE UNCHANGED allVars
  <2>1. UNCHANGED <<vars, path>> /\ UNCHANGED <<phase, wire, handshake_buf, pending, excused>>
    BY <1>3, SMTT(20) DEF allVars, reader
  <2>2. PhaseInv' /\ HonestSourceServed'
    BY <2>1 DEF SInv, PhaseInv, HonestSourceServed, Opening, vars, path
  <2> QED
    BY <2>1, <2>2, Quiet, WireKept DEF SInv
<1> QED
  BY <1>1, <1>2, <1>3, HandshakeStep, ReadPendingStep, ReadWireStep, WriteStep, CutStep, SMTT(30)
  DEF StreamNext

LEMMA StreamInvariance == StreamSpec => []SInv
BY InitSInv, NextSInv, PTL DEF StreamSpec

(***************************************************************************)
(* However its source cuts the stream, and wherever the init ends, the     *)
(* readers lose, repeat and reorder nothing on the way to the bridge.      *)
(***************************************************************************)
THEOREM NothingLostHolds == StreamSpec => []NothingLost
<1>1. SInv => NothingLost
  BY DEF SInv, WireInv
<1> QED
  BY <1>1, StreamInvariance, PTL

(***************************************************************************)
(* On every path, whatever it writes, packets, records or bytes, the       *)
(* bridge encrypts each byte it has read once, at its own place.           *)
(***************************************************************************)
THEOREM EveryPathInOrder == StreamSpec => []StreamInOrder
<1>1. SInv => StreamInOrder
  BY DEF SInv, IInv, StreamInv
<1> QED
  BY <1>1, StreamInvariance, PTL

(***************************************************************************)
(* A source is only drained or cut off for a reason of its own: the init   *)
(* is assembled right from records of any size, and the read buffer holds  *)
(* every record that the handshake accepts.                                *)
(***************************************************************************)
THEOREM HonestSourceServedHolds == StreamSpec => []HonestSourceServed
<1>1. SInv => HonestSourceServed
  BY DEF SInv
<1> QED
  BY <1>1, StreamInvariance, PTL

(***************************************************************************)
(* write_tls_appdata writes no record that is empty or too long, for       *)
(* chunks of any length.                                                   *)
(***************************************************************************)
THEOREM RecordsReadableHolds == StreamSpec => []RecordsReadable
<1>1. SInv => RecordsReadable
  BY DEF SInv
<1> QED
  BY <1>1, StreamInvariance, PTL

-----------------------------------------------------------------------------
(***************************************************************************)
(* The refinement.  What has been read and the chunk begin what the source *)
(* sends after the init, so that the chunk is the splitter's next read.    *)
(***************************************************************************)
LEMMA NextPiece ==
    ASSUME NEW w \in Seq(Byte), NEW i \in Seq(Byte), NEW a \in Seq(Byte), NEW c \in Seq(Byte),
           NEW s \in Seq(Byte), Join(Join(w, Join(i, a)), c) = Join(w, s)
    PROVE  /\ i = SubSeq(s, 1, Len(i)) /\ Join(i, a) = SubSeq(s, 1, Len(i) + Len(a))
           /\ Len(i) + Len(a) <= Len(s)
<1>1. Join(i, a) \in Seq(Byte) /\ Join(a, c) \in Seq(Byte) /\ Join(Join(i, a), c) \in Seq(Byte)
  BY JoinLaws
<1>2. Join(w, Join(Join(i, a), c)) = Join(w, s)
  BY <1>1, JoinLaws, SMTT(20)
<1>3. Join(Join(i, a), c) = s
  BY <1>1, <1>2, JoinLaws, SMTT(20)
<1>4. Join(i, Join(a, c)) = s
  BY <1>3, JoinLaws
<1>5. i = SubSeq(s, 1, Len(i))
  BY <1>1, <1>4, JoinLaws, Zenon
<1>6. /\ Len(Join(i, a)) = Len(i) + Len(a)
      /\ Len(Join(i, a)) <= Len(s) /\ Join(i, a) = SubSeq(s, 1, Len(Join(i, a)))
  BY <1>1, <1>3, JoinLaws, Zenon
<1> QED
  BY <1>5, <1>6, SMTT(20)

LEMMA ChunkIsRead ==
    ASSUME SInv, Reading, NEW a \in Seq(Byte), Len(a) > 0, Chunk(a),
           NEW c \in Seq(Byte), NEW s \in SourceStreams[from][proto],
           handshake_buf \o (input \o a) \o c = Opening \o s
    PROVE  Next
<1>1. s \in Streams[proto] /\ s \in Seq(Byte) /\ Opening \in Seq(Byte)
  BY SourceBytes, Zenon DEF SInv
<1>2. input \in Seq(Byte) /\ handshake_buf = Opening /\ pc = "read"
  BY DEF SInv, IInv, TypeOK, PhaseInv, Reading, Byte
<1>3. Opening \o (input \o a) \o c = Opening \o s
  BY <1>2, Zenon
<1>4. /\ input = SubSeq(s, 1, Len(input)) /\ input \o a = SubSeq(s, 1, Len(input) + Len(a))
      /\ Len(input) + Len(a) <= Len(s)
      /\ Len(input) \in Nat /\ Len(a) \in Nat /\ Len(s) \in Nat
  <2>1. Join(Join(Opening, Join(input, a)), c) = Join(Opening, s)
    BY <1>3, SMTT(30) DEF Join
  <2>2. /\ input = SubSeq(s, 1, Len(input)) /\ Join(input, a) = SubSeq(s, 1, Len(input) + Len(a))
        /\ Len(input) + Len(a) <= Len(s)
    BY <1>1, <1>2, <2>1, NextPiece, SMTT(20)
  <2> QED
    BY <1>1, <1>2, <2>2, LenProperties, SMTT(30) DEF Join
<1>5. Len(a) \in 1..Len(s)
  <2> DEFINE k == Len(a)
             i == Len(input)
             m == Len(s)
  <2>1. i + k <= m /\ i \in Nat /\ k \in Nat /\ m \in Nat /\ k > 0
    BY <1>4
  <2> HIDE DEF k, i, m
  <2>2. k \in 1..m
    BY <2>1, SMTT(20)
  <2> QED
    BY <2>2, SMTT(20) DEF k, m
<1>6. Read(s, Len(a))
  BY <1>2, <1>4, Zenon DEF Read, Chunk
<1> QED
  BY <1>1, <1>5, <1>6, Zenon DEF Next

LEMMA ReadPendingRefines ==
    ASSUME SInv, ReadPending, to = "packets"
    PROVE  Next
<1>1. PICK a, b \in Seq(Byte) : a \o b = pending /\ Len(a) > 0 /\ Chunk(a) /\ pending' = b
  BY PendingParts
<1>2. /\ Reading /\ UNCHANGED <<wire, handshake_buf>> /\ SInv'
      /\ from' = from /\ proto' = proto /\ Opening' = Opening /\ input' = input \o a
  BY <1>1, ReadPendingStep, Zenon DEF ReadPending, Chunk, path, Opening
<1>3. handshake_buf \o (input \o a) \o b = wire
  <2>1. NothingLost'
    BY <1>2, Zenon DEF SInv, WireInv
  <2>2. handshake_buf' \o input' \o pending' = wire'
    BY <2>1, Zenon DEF NothingLost
  <2>3. handshake_buf' = handshake_buf /\ wire' = wire
    BY <1>2
  <2> QED
    BY <1>1, <1>2, <2>2, <2>3, Zenon
<1>4. /\ handshake_buf \in Seq(Byte) /\ input \o a \in Seq(Byte) /\ input \in Seq(Byte)
  <2>1. handshake_buf \in Seq(Byte) /\ input \in Seq(Byte)
    BY DEF SInv, WireInv, IInv, TypeOK, Byte
  <2> QED
    BY <2>1, ConcatBytes, SMTT(20)
<1>5. handshake_buf \o (input \o a) \in Seq(Byte)
  BY <1>4, ConcatBytes
<1>6. wire # <<>>
  <2> DEFINE h == handshake_buf \o input
  <2>1. h \in Seq(Byte) /\ pending \in Seq(Byte) /\ h \o pending = wire /\ pending # <<>>
    BY <1>4, ConcatBytes DEF SInv, WireInv, NothingLost, ReadPending
  <2> HIDE DEF h
  <2>2. Len(h) \in Nat /\ Len(pending) \in Nat /\ Len(pending) # 0 /\ Len(wire) = Len(h) + Len(pending)
    BY <2>1, ConcatBytes, LenProperties, EmptySeq
  <2>3. Len(wire) # 0
    BY <2>2
  <2> QED
    BY <2>3, EmptySeq, SMTT(20)
<1>7. PICK s \in SourceStreams[from][proto], rest \in Seq(Byte) : wire \o rest = Opening \o s
  BY <1>6, Zenon DEF SInv, WireInv
<1>8. handshake_buf \o (input \o a) \o (b \o rest) = Opening \o s /\ b \o rest \in Seq(Byte)
  <2> DEFINE h == handshake_buf \o (input \o a)
  <2>1. h \in Seq(Byte) /\ h \o b = wire
    BY <1>3, <1>5
  <2> HIDE DEF h
  <2>2. (h \o b) \o rest = h \o (b \o rest)
    BY <2>1, ConcatBytesAssoc, Zenon
  <2>3. h \o (b \o rest) = Opening \o s /\ b \o rest \in Seq(Byte)
    BY <1>7, <2>1, <2>2, ConcatBytes
  <2> QED
    BY <2>3 DEF h
<1> QED
  BY <1>1, <1>2, <1>8, ChunkIsRead, Zenon

LEMMA ReadWireRefines ==
    ASSUME SInv, NEW s \in SourceStreams[from][proto], NEW n \in 0..Len(s), ReadWire(s, n),
           to = "packets"
    PROVE  Next
<1> DEFINE b == Bytes(s, n)
<1>1. n \in Nat /\ n > 0
  <2>1. from \in Clients
    BY DEF SInv, PathInv
  <2>2. from # "websocket"
    BY <2>1, Zenon DEF Clients
  <2>3. n \in 1..ReadBuf
    BY <2>2 DEF ReadWire
  <2> QED
    BY <2>3, ReadBufs, SMTT(20)
<1>2. /\ b \in Seq(Byte) /\ Len(b) = n /\ wire' = wire \o b
      /\ \E rest \in Seq(Byte) : wire' \o rest = Opening \o s
  BY <1>1, Taken, Zenon DEF SInv, ReadWire
<1>3. /\ Reading /\ pending = <<>> /\ Chunk(b) /\ SInv' /\ UNCHANGED <<handshake_buf, pending>>
  BY ReadWireStep DEF ReadWire
<1> HIDE DEF b
<1>4. PICK rest \in Seq(Byte) : wire' \o rest = Opening \o s
  BY <1>2, Zenon
<1>5. handshake_buf \o (input \o b) = wire'
  <2>1. handshake_buf \o (input \o b) \o <<>> = wire'
    <3>1. NothingLost' /\ input' = input \o b
      BY <1>3, Zenon DEF SInv, WireInv, Chunk
    <3>2. handshake_buf' \o input' \o pending' = wire'
      BY <3>1, Zenon DEF NothingLost
    <3>3. handshake_buf' = handshake_buf /\ pending' = <<>>
      BY <1>3, SMTT(30)
    <3> QED
      BY <3>1, <3>2, <3>3, Zenon
  <2>2. handshake_buf \in Seq(Byte) /\ input \in Seq(Byte)
    BY DEF SInv, WireInv, IInv, TypeOK, Byte
  <2>3. input \o b \in Seq(Byte)
    BY <1>2, <2>2, ConcatBytes, SMTT(20)
  <2>4. handshake_buf \o (input \o b) \in Seq(Byte)
    BY <2>2, <2>3, ConcatBytes, SMTT(20)
  <2>5. handshake_buf \o (input \o b) \o <<>> = handshake_buf \o (input \o b)
    BY <2>4, ConcatBytes, SMTT(20)
  <2> QED
    BY <2>1, <2>5
<1> QED
  BY <1>1, <1>2, <1>3, <1>4, <1>5, ChunkIsRead, Zenon

(***************************************************************************)
(* The readers and the bridge are a client of the splitter that the        *)
(* splitter's own module describes: each step is one of its steps, or      *)
(* leaves it alone.  What is proved of the splitter holds of the session.  *)
(***************************************************************************)
LEMMA StepRefines ==
    ASSUME SInv, [StreamNext]_allVars
    PROVE  [to = "packets" => Next]_vars
<1> SUFFICES ASSUME to = "packets", StreamNext, ~UNCHANGED vars PROVE Next
  BY DEF allVars
<1>1. CASE Handshake
  BY <1>1, Zenon DEF Handshake, Hangup, Drain, connect_mtproto_upstream, ClientHello,
              drain_faketls_server_hello, PlainInit, InitRecord, Parse
<1>2. CASE ReadEnd \/ \E n \in 1..(MaxRecord + 1) : ReadTooLong(n)
  BY <1>2 DEF ReadEnd, ReadTooLong, Next
<1>3. CASE Write
  BY <1>3 DEF Write, write_tls_appdata, write_all, Next
<1>4. CASE Cut
  BY <1>4 DEF Cut, vars, splitter, output
<1> QED
  BY <1>1, <1>2, <1>3, <1>4, ReadPendingRefines, ReadWireRefines, SMTT(20) DEF StreamNext

THEOREM ImplementsSplitterHolds == StreamSpec => ImplementsSplitter
BY StepRefines, StreamInvariance, PTL DEF StreamSpec, ImplementsSplitter

LEMMA SamePath == [StreamNext]_allVars => to' = to
BY Zenon DEF StreamNext, allVars, path, Handshake, Hangup, Drain, connect_mtproto_upstream, ClientHello,
       drain_faketls_server_hello, PlainInit, InitRecord, Parse, ReadPending, ReadWire, Chunk,
       ReadEnd, ReadTooLong, Write, Cut

-----------------------------------------------------------------------------
(***************************************************************************)
(* The messages of a path with a splitter, by the refinement: MInv is the  *)
(* splitter's own invariant.                                               *)
(***************************************************************************)
PacketsInv == to = "packets" => MInv

LEMMA NextPacketsInv == SInv /\ PacketsInv /\ [StreamNext]_allVars => PacketsInv'
<1> SUFFICES ASSUME SInv, PacketsInv, [StreamNext]_allVars, to' = "packets" PROVE MInv'
  BY DEF PacketsInv
<1>1. to = "packets"
  BY SamePath
<1>2. [Next]_vars
  BY <1>1, StepRefines
<1> QED
  BY <1>1, <1>2, NextMInv DEF PacketsInv, SInv

LEMMA PacketsInvariance == StreamSpec => []PacketsInv
<1>1. StreamInit => PacketsInv
  BY InitMInv, Zenon DEF StreamInit, PacketsInv
<1> QED
  BY <1>1, StreamInvariance, NextPacketsInv, PTL DEF StreamSpec

(***************************************************************************)
(* One packet per message, for every session whose sink is Telegram's      *)
(* WebSocket: however the client's stream was cut into records and reads.  *)
(***************************************************************************)
THEOREM PacketsFramedHolds == StreamSpec => []PacketsFramed
<1>1. SInv /\ PacketsInv => PacketsFramed
  BY MInvPackets DEF SInv, PacketsInv, PacketsFramed
<1> QED
  BY <1>1, StreamInvariance, PacketsInvariance, PTL

-----------------------------------------------------------------------------
(***************************************************************************)
(* The paths without a splitter: between two chunks of an open session all *)
(* of the input is written.  A session that is cut may leave some; it is   *)
(* not flushed.                                                            *)
(***************************************************************************)
WrittenInv ==
    /\ SentInv
    /\ phase = "open" /\ pc = "read" => offset = Len(input)
    /\ pc = "eof" => offset = Len(input)

PlainInv == to # "packets" => WrittenInv

LEMMA WrittenInvWrite ==
    ASSUME SInv, WrittenInv, to # "packets", Write
    PROVE  WrittenInv'
<1>1. offset \in Nat /\ Len(input) \in Nat
  BY Consumed DEF SInv
<1>2. CASE Return
  BY <1>2 DEF WrittenInv, SentInv, Return, output
<1>3. ASSUME NEW n \in Nat, n > 0, offset + n <= Len(input), Written(n), pc = "split"
      PROVE  WrittenInv'
  <2>1. apply_keystream(n) \in Seq(Encrypted) /\ Len(apply_keystream(n)) = n
    BY <1>3, Applied DEF SInv
  <2>2. SentInv'
    BY <1>3, <2>1, PushedMessage DEF SInv, WrittenInv, Written
  <2> QED
    BY <1>3, <2>2 DEF WrittenInv, Written
<1>4. CASE write_tls_appdata
  <2> DEFINE n == smaller(MaxRecordPayload, Len(input) - offset)
  <2>1. /\ MaxRecordPayload \in Nat /\ MaxRecordPayload > 0
        /\ Len(input) - offset \in Nat /\ Len(input) - offset > 0
    BY <1>1, <1>4, FramingAssumption DEF write_tls_appdata
  <2>2. n \in Nat /\ n > 0 /\ n <= Len(input) - offset
    BY <2>1, Smaller, Zenon
  <2>3. Written(n) /\ pc = "split"
    BY <1>4 DEF write_tls_appdata
  <2> HIDE DEF n
  <2>4. offset + n <= Len(input)
    BY <1>1, <2>2
  <2> QED
    BY <1>3, <2>2, <2>3, <2>4, SMTT(20)
<1>5. CASE write_all
  <2>1. Len(input) - offset \in Nat /\ Len(input) - offset > 0 /\ offset + (Len(input) - offset) <= Len(input)
    BY <1>1, <1>5 DEF write_all
  <2>2. Written(Len(input) - offset) /\ pc = "split"
    BY <1>5 DEF write_all
  <2> QED
    BY <1>3, <2>1, <2>2
<1> QED
  BY <1>2, <1>4, <1>5 DEF Write

LEMMA NextPlainInv == SInv /\ PlainInv /\ [StreamNext]_allVars => PlainInv'
<1> SUFFICES ASSUME SInv, WrittenInv, to # "packets", [StreamNext]_allVars PROVE WrittenInv'
  BY SamePath DEF PlainInv
<1>1. CASE Handshake
  <2>1. UNCHANGED vars /\ phase \notin {"open", "closed"}
    BY <1>1, Zenon DEF Handshake, Hangup, Drain, connect_mtproto_upstream, ClientHello,
                drain_faketls_server_hello, PlainInit, InitRecord, Parse
  <2>2. input = <<>>
    BY <2>1 DEF SInv, PhaseInv
  <2>3. offset = Len(input)
    BY <2>2, EmptySeq DEF SInv, IInv, TypeOK
  <2> QED
    BY <2>1, <2>3 DEF WrittenInv, SentInv, vars
<1>2. CASE ReadPending \/ \E s \in SourceStreams[from][proto] : \E n \in 0..Len(s) : ReadWire(s, n)
  <2>1. pc' = "split" /\ UNCHANGED output
    BY <1>2 DEF ReadPending, ReadWire, Chunk
  <2> QED
    BY <2>1, SMTT(20) DEF WrittenInv, SentInv, output
<1>3. CASE ReadEnd \/ \E n \in 1..(MaxRecord + 1) : ReadTooLong(n)
  <2>1. flush /\ phase = "open" /\ pc = "read"
    BY <1>3 DEF ReadEnd, ReadTooLong, Reading
  <2>2. packet = <<>>
    BY DEF SInv, RecordsInv
  <2>3. UNCHANGED <<input, offset, sent, ends>> /\ pc' = "eof"
    BY <2>1, <2>2 DEF flush, output
  <2> QED
    BY <2>1, <2>3 DEF WrittenInv, SentInv
<1>4. CASE Write
  BY <1>4, WrittenInvWrite, SMTT(20)
<1>5. CASE Cut
  BY <1>5, SMTT(20) DEF Cut, Closed, WrittenInv, SentInv, output
<1>6. CASE UNCHANGED allVars
  BY <1>6, SMTT(30) DEF allVars, vars, reader, WrittenInv, SentInv
<1> QED
  BY <1>1, <1>2, <1>3, <1>4, <1>5, <1>6 DEF StreamNext

LEMMA PlainInvariance == StreamSpec => []PlainInv
<1>1. StreamInit => PlainInv
  BY InitMInv, Zenon DEF StreamInit, PlainInv, WrittenInv, MInv, CallInv, Init
<1> QED
  BY <1>1, StreamInvariance, NextPlainInv, PTL DEF StreamSpec

LEMMA PlainFlushed ==
    ASSUME SInv, WrittenInv, to # "packets"
    PROVE  FlushedAll
<1> SUFFICES ASSUME pc = "eof"
             PROVE  Len(sent) = Len(input) /\ (input # <<>> => ends[Len(ends)] = Len(input))
  BY DEF FlushedAll
<1>1. offset = Len(input) /\ packet = <<>>
  BY DEF WrittenInv, SInv, RecordsInv
<1>2. Len(sent) = Len(input) /\ Len(ends) \in Nat /\ Len(input) \in Nat
  BY <1>1, Consumed, EmptySeq DEF SInv
<1>3. ASSUME input # <<>> PROVE ends[Len(ends)] = Len(input)
  <2>1. Len(input) # 0
    BY <1>3, EmptySeq DEF SInv, IInv, TypeOK
  <2>2. Len(input) = From(ends, Len(ends) + 1)
    BY <1>2 DEF WrittenInv, SentInv
  <2> QED
    BY <1>2, <2>1, <2>2, SMTT(30) DEF From
<1> QED
  BY <1>2, <1>3

(***************************************************************************)
(* When the source has ended, all it sent has been written, on every path  *)
(* and at every size of its records and reads.                             *)
(***************************************************************************)
THEOREM FlushedAllHolds == StreamSpec => []FlushedAll
<1>1. SInv /\ PacketsInv /\ PlainInv => FlushedAll
  BY MInvFlushed, PlainFlushed DEF SInv, PacketsInv, PlainInv
<1> QED
  BY <1>1, StreamInvariance, PacketsInvariance, PlainInvariance, PTL
=============================================================================
