------------------------------ MODULE Splitter ------------------------------
(***************************************************************************)
(* MsgSplitter (src/src/splitter.rs): the client's decrypted stream, read  *)
(* in chunks of any size, is cut into MTProto transport packets, each the  *)
(* content of one WebSocket message, and encrypted for Telegram on the way.*)
(*                                                                         *)
(* A step is one stretch of the loop of split_and_encrypt: the header or   *)
(* the body of a packet, as far as the chunk reaches.  An encrypted byte   *)
(* is the plaintext byte with the position of the keystream it was         *)
(* encrypted at.                                                           *)
(***************************************************************************)
EXTENDS Integers, Sequences

CONSTANT
    Streams     \* for each transport, what its client may send in a session

Protos == {"Abridged", "Intermediate"}   \* the padded variant is framed like the second

ASSUME SplitterAssumption ==
    \A p \in Protos : \A s \in Streams[p] : s \in Seq(0..255)

VARIABLES
    proto,        \* the transport
    input,        \* the plaintext read so far
    offset,       \* how much of it has been consumed
    keystream,    \* the position of `enc`
    header,       \* the header bytes; only the first header_len are meaningful
    header_len,
    packet,       \* the encrypted bytes of the packet being assembled
    packet_len,   \* its length, or Unknown
    disabled,     \* framing was given up
    sent,         \* the encrypted bytes of all messages, in order
    ends,         \* where in `sent` each message ends
    pc            \* "read": between two calls; "split": in the loop; "eof"

splitter == <<header, header_len, packet, packet_len, disabled>>
output == <<sent, ends>>
vars == <<proto, input, offset, keystream, header, header_len, packet, packet_len,
          disabled, sent, ends, pc>>

Unknown == 0    \* None: a length of 0 is never kept
MaxHeaderLen == 4

smaller(m, n) == IF m < n THEN m ELSE n

Init ==
    /\ proto \in Protos
    /\ input = <<>>
    /\ offset = 0
    /\ keystream = 0
    /\ header = [i \in 1..MaxHeaderLen |-> 0]
    /\ header_len = 0
    /\ packet = <<>>
    /\ packet_len = Unknown
    /\ disabled = FALSE
    /\ sent = <<>>
    /\ ends = <<>>
    /\ pc = "read"

(***************************************************************************)
(* apply_keystream on the next n bytes, which are consumed with it.        *)
(***************************************************************************)
\* Mutant: a header is consumed without advancing the keystream.
apply_keystreamMutOnce(n) ==
    [i \in 1..n |-> [byte |-> input[offset + i],
                     at |-> IF packet_len = Unknown THEN i ELSE keystream + i]]

apply_keystream(n) ==
    [i \in 1..n |-> [byte |-> input[offset + i], at |-> keystream + i]]

Consume(n) == offset' = offset + n /\ keystream' = keystream + n

Push(message) ==
    /\ sent' = sent \o message
    /\ ends' = Append(ends, Len(sent) + Len(message))

-----------------------------------------------------------------------------
(***************************************************************************)
(* The header: one byte of the abridged transport, or 0x7f (0xff with a    *)
(* quick ack) and three; four bytes of the others.  Lengths are            *)
(* little-endian, in words of four bytes or in bytes, without the quick    *)
(* ack bit.  The products and sums fit a 32-bit usize.                     *)
(***************************************************************************)
Extended(h) == h[1] \in {127, 255}

\* Mutant: a stale first byte is taken for that of the next header.
required_header_lenMutStale ==
    IF proto = "Abridged" /\ ~Extended(header) THEN 1 ELSE 4

\* Mutant: an extended header is taken for a short one.
required_header_lenMutShort == IF proto = "Abridged" THEN 1 ELSE 4

required_header_len ==
    IF proto = "Abridged" /\ (header_len = 0 \/ ~Extended(header)) THEN 1 ELSE 4

WordsBytes(words, h) == IF words = 0 THEN 0 ELSE 4 * words + h

\* 0: give up framing.
parsed_packet_len(h) ==
    CASE proto = "Intermediate" ->
            LET payload == h[1] + 256 * h[2] + 65536 * h[3] + 16777216 * (h[4] % 128)
            IN  IF payload = 0 THEN 0 ELSE payload + 4
      [] proto = "Abridged" /\ Extended(h) -> WordsBytes(h[2] + 256 * h[3] + 65536 * h[4], 4)
      [] OTHER -> WordsBytes(h[1] % 128, 1)

\* parsed_packet_len returns None.
Unparsed(h, len) == len < (IF proto = "Abridged" /\ ~Extended(h) THEN 1 ELSE 4)

-----------------------------------------------------------------------------
(***************************************************************************)
(* The upload calls split_and_encrypt with the n bytes it has read of the  *)
(* client's stream s.  Without framing the chunk is one message.           *)
(***************************************************************************)
Read(s, n) ==
    /\ pc = "read"
    /\ Len(input) + n <= Len(s)
    /\ input = SubSeq(s, 1, Len(input))
    /\ input' = SubSeq(s, 1, Len(input) + n)
    /\ pc' = "split"
    /\ UNCHANGED <<proto, offset, keystream, splitter, output>>

Tunnel ==
    /\ pc = "split"
    /\ disabled
    /\ offset < Len(input)
    /\ Push(apply_keystream(Len(input) - offset))
    /\ Consume(Len(input) - offset)
    /\ UNCHANGED <<proto, input, splitter, pc>>

(***************************************************************************)
(* As much of the header as the chunk has.  A length of 0 ends the framing:*)
(* the rest of the chunk goes out with the header, in one message.         *)
(***************************************************************************)
GiveUp ==
    LET n == Len(input) - offset IN
    /\ Push(packet \o apply_keystream(n))
    /\ Consume(n)
    /\ packet' = <<>>
    /\ disabled' = TRUE
    /\ header_len' = 0
    /\ UNCHANGED packet_len

Header ==
    LET take == smaller(required_header_len - header_len, Len(input) - offset)
        len == header_len + take
        h == [i \in 1..MaxHeaderLen |-> IF i \in header_len + 1 .. len
                                         THEN input[offset + i - header_len] ELSE header[i]]
        complete == len = required_header_len /\ ~Unparsed(h, len)
    IN
    /\ pc = "split"
    /\ ~disabled
    /\ offset < Len(input)
    /\ packet_len = Unknown
    /\ header' = h
    /\ IF complete /\ parsed_packet_len(h) = 0
       THEN GiveUp
       ELSE /\ header_len' = len
            /\ packet' = packet \o apply_keystream(take)
            /\ packet_len' = IF complete THEN parsed_packet_len(h) ELSE Unknown
            /\ Consume(take)
            /\ UNCHANGED <<disabled, output>>
    /\ UNCHANGED <<proto, input, pc>>

(***************************************************************************)
(* As much of the body as the chunk has; a complete packet is a message.   *)
(***************************************************************************)
\* Mutant: the body is taken to the end of the chunk.
BodyMutWholeChunk ==
    LET body == apply_keystream(Len(input) - offset) IN
    /\ pc = "split"
    /\ ~disabled
    /\ offset < Len(input)
    /\ packet_len # Unknown
    /\ Consume(Len(body))
    /\ IF Len(packet) + Len(body) = packet_len
       THEN Push(packet \o body) /\ packet' = <<>> /\ header_len' = 0 /\ packet_len' = Unknown
       ELSE packet' = packet \o body /\ UNCHANGED <<header_len, packet_len, output>>
    /\ UNCHANGED <<proto, input, header, disabled, pc>>

Body ==
    LET body == apply_keystream(smaller(packet_len - Len(packet), Len(input) - offset)) IN
    /\ pc = "split"
    /\ ~disabled
    /\ offset < Len(input)
    /\ packet_len # Unknown
    /\ Consume(Len(body))
    /\ IF Len(packet) + Len(body) = packet_len
       THEN Push(packet \o body) /\ packet' = <<>> /\ header_len' = 0 /\ packet_len' = Unknown
       ELSE packet' = packet \o body /\ UNCHANGED <<header_len, packet_len, output>>
    /\ UNCHANGED <<proto, input, header, disabled, pc>>

Return ==
    /\ pc = "split"
    /\ offset = Len(input)
    /\ pc' = "read"
    /\ UNCHANGED <<proto, input, offset, keystream, splitter, output>>

(***************************************************************************)
(* The client has stopped sending.                                         *)
(***************************************************************************)
\* Mutant: what is not yet known to be a packet is dropped.
flushMutDropsHeader ==
    /\ pc = "read"
    /\ pc' = "eof"
    /\ IF packet_len = Unknown
       THEN UNCHANGED <<splitter, output>>
       ELSE /\ Push(packet)
            /\ packet' = <<>>
            /\ header_len' = 0
            /\ packet_len' = Unknown
            /\ UNCHANGED <<header, disabled>>
    /\ UNCHANGED <<proto, input, offset, keystream>>

flush ==
    /\ pc = "read"
    /\ pc' = "eof"
    /\ IF packet = <<>>
       THEN UNCHANGED <<splitter, output>>
       ELSE /\ Push(packet)
            /\ packet' = <<>>
            /\ header_len' = 0
            /\ packet_len' = Unknown
            /\ UNCHANGED <<header, disabled>>
    /\ UNCHANGED <<proto, input, offset, keystream>>

-----------------------------------------------------------------------------
Split == Tunnel \/ Header \/ Body \/ Return

Next ==
    \/ \E s \in Streams[proto] : \E n \in 1..Len(s) : Read(s, n)
    \/ Split
    \/ flush

\* split_and_encrypt does not await: a call runs on.
Fairness == WF_vars(Split)

Spec == Init /\ [][Next]_vars
FairSpec == Spec /\ Fairness

-----------------------------------------------------------------------------
TypeOK ==
    /\ proto \in Protos
    /\ input \in Seq(0..255)
    /\ offset \in 0..Len(input)
    /\ keystream \in Nat
    /\ header \in [1..MaxHeaderLen -> 0..255]
    /\ header_len \in 0..MaxHeaderLen
    /\ packet \in Seq([byte : 0..255, at : Nat])
    /\ packet_len \in Nat
    /\ disabled \in BOOLEAN
    /\ sent \in Seq([byte : 0..255, at : Nat])
    /\ ends \in Seq(Nat)
    /\ pc \in {"read", "split", "eof"}

(***************************************************************************)
(* Whatever the client sends and however it is chunked, no byte is lost,   *)
(* repeated or reordered, and each is encrypted once, at its own place in  *)
(* the keystream: what was sent and what is being assembled are the stream *)
(* consumed so far.  Telegram's decryption of everything after a slip      *)
(* would be noise.                                                         *)
(***************************************************************************)
StreamInOrder ==
    sent \o packet = [i \in 1..offset |-> [byte |-> input[i], at |-> i]]

(***************************************************************************)
(* Neither of the loop's two subtractions of sizes, `required -            *)
(* header_len` and `packet_len - packet.len()`, ever goes below zero.      *)
(***************************************************************************)
NoUnderflow ==
    /\ packet_len = Unknown => header_len <= required_header_len
    /\ packet_len # Unknown => Len(packet) < packet_len

(***************************************************************************)
(* The reference, told from the stream alone: the header at position i,    *)
(* and the packet there, if all of it is there.                            *)
(***************************************************************************)
HeaderBytes(s, i) == IF proto = "Abridged" /\ s[i + 1] \notin {127, 255} THEN 1 ELSE 4

PacketLen(s, i) == parsed_packet_len([j \in 1..HeaderBytes(s, i) |-> s[i + j]])

HasHeader(s, i) == i < Len(s) /\ i + HeaderBytes(s, i) <= Len(s)

IsPacket(s, i, j) == HasHeader(s, i) /\ PacketLen(s, i) # 0 /\ j = i + PacketLen(s, i)

HasPacket(s, i) == HasHeader(s, i) /\ i + PacketLen(s, i) <= Len(s)

\* Where message m begins.
Begins(m) == IF m = 1 THEN 0 ELSE ends[m - 1]

(***************************************************************************)
(* "Each Telegram WebSocket message is expected to carry exactly one       *)
(* complete MTProto transport packet": after each call the messages sent   *)
(* are the whole packets of the stream, one by one and all of them,        *)
(* wherever the reads fell.  Framing is given up exactly at a packet       *)
(* without a payload; the packets before it are still messages of their    *)
(* own, and nothing is held back after it.  No message is empty.           *)
(***************************************************************************)
OnePacketPerMessage ==
    pc = "read" =>
        /\ \A m \in 1..Len(ends) : Begins(m) < ends[m]
        /\ IF disabled
           THEN /\ packet = <<>>
                /\ \E k \in 1..Len(ends) :
                      /\ \A m \in 1..(k - 1) : IsPacket(input, Begins(m), ends[m])
                      /\ HasHeader(input, Begins(k)) /\ PacketLen(input, Begins(k)) = 0
           ELSE /\ \A m \in 1..Len(ends) : IsPacket(input, Begins(m), ends[m])
                /\ ~HasPacket(input, Begins(Len(ends) + 1))

(***************************************************************************)
(* When the client stops sending, the partial packet goes out as well, and *)
(* in one message: nothing of the stream is kept.                          *)
(***************************************************************************)
FlushedAll ==
    pc = "eof" => Len(sent) = Len(input) /\ (input # <<>> => ends[Len(ends)] = Len(input))

(***************************************************************************)
(* Every call of split_and_encrypt returns: no header makes its loop spin  *)
(* without consuming a byte.                                               *)
(***************************************************************************)
CallReturns == pc = "split" ~> pc = "read"
=============================================================================
