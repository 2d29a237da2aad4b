------------------------------ MODULE Framing -------------------------------
(***************************************************************************)
(* One direction of a session, from the bytes its source sends to the      *)
(* messages its sink gets: FakeTLS records in and out (src/src/faketls.rs, *)
(* ClientReader, PendingData and ClientWriter of src/src/proxy.rs), the    *)
(* handshake in front of the stream, and, where the sink is Telegram's     *)
(* WebSocket, the splitter (module Splitter, whose `input` is what the     *)
(* bridge has read and whose `sent` and `ends` are what it has written).   *)
(*                                                                         *)
(* What a peer sends next is chosen when it is read: read_exact waits for  *)
(* the whole of a record, and one that is cut off reads like the end.      *)
(* ChangeCipherSpec records after a hello are stepped over and change      *)
(* nothing.                                                                *)
(***************************************************************************)
EXTENDS Splitter

CONSTANTS
    Paths,            \* the directions: [from, to]
    SourceStreams,    \* for each kind of source, what it may send after the handshake
    HandshakeInit,    \* the MTProto init of a client that knows the secret
    MaxRecordPayload, \* TLS_MAX_RECORD_PAYLOAD
    ReadHeadroom,     \* TLS_READ_HEADROOM
    MaxHandshakeRecords

Clients == {"client", "faketls client"}
Upstreams == {"websocket", "tcp upstream", "faketls upstream"}

ASSUME FramingAssumption ==
    /\ Paths \subseteq [from : Clients, to : {"packets", "records", "bytes"}]
                \cup [from : Upstreams, to : {"records", "bytes"}]
    /\ \A path \in Paths : \A p \in Protos : SourceStreams[path.from][p] \subseteq Streams[p]
    /\ HandshakeInit \in Seq(0..255)
    /\ MaxRecordPayload \in Nat \ {0}
    /\ ReadHeadroom \in Nat
    /\ MaxHandshakeRecords \in Nat \ {0}

VARIABLES
    from, to,         \* the direction; they never change
    phase,            \* "dial", "hello", "init", "parse", "drain", "open" or "closed"
    hellos,           \* the records of the server's hello seen so far
    wire,             \* the bytes taken off the wire, hellos aside
    handshake_buf,
    pending,          \* PendingData: the rest of the record that completed the init
    excused           \* the source ended or broke the protocol, or the session was cut

path == <<from, to>>
reader == <<phase, hellos, wire, handshake_buf, pending, excused>>
allVars == <<vars, path, reader>>

\* The records a reader accepts, and what one read of the client returns at most.
MaxRecord == MaxRecordPayload + ReadHeadroom

\* Mutant: the client is read like any other socket (RELAY_BUF_SIZE).
ClientReadBufSizeMutRelay == MaxRecordPayload

ClientReadBufSize == MaxRecord

RelayBufSize == MaxRecordPayload    \* both are 16 KiB

ReadBuf == IF from = "tcp upstream" THEN RelayBufSize ELSE ClientReadBufSize

StreamInit ==
    /\ Init
    /\ \E p \in Paths : from = p.from /\ to = p.to
    /\ phase = CASE from = "client" -> "init"
                 [] from = "faketls client" -> "hello"
                 [] from \in {"tcp upstream", "faketls upstream"} -> "dial"
                 [] from = "websocket" -> "open"    \* see WsClient
    /\ hellos = 0
    /\ wire = <<>>
    /\ handshake_buf = <<>>
    /\ pending = <<>>
    /\ excused = FALSE

-----------------------------------------------------------------------------
(***************************************************************************)
(* The next n bytes of a source that sends s, after its init if it is a    *)
(* client, and taking them.                                                *)
(***************************************************************************)
Whole(s) == IF from \in Clients THEN HandshakeInit \o s ELSE s

Bytes(s, n) == SubSeq(Whole(s), Len(wire) + 1, Len(wire) + n)

Take(s, n) ==
    /\ Len(wire) + n <= Len(Whole(s))
    /\ wire = SubSeq(Whole(s), 1, Len(wire))
    /\ wire' = SubSeq(Whole(s), 1, Len(wire) + n)

Closed ==
    /\ phase' = "closed"
    /\ excused' = TRUE
    /\ UNCHANGED <<hellos, wire, handshake_buf, pending>>

Hangup == phase \in {"dial", "hello", "init"} /\ Closed /\ UNCHANGED <<vars, path>>

(***************************************************************************)
(* accept_inbound_faketls, the hello: a ClientHello signed with one of the *)
(* secrets, for the expected domain, is answered.  Another one is not; a   *)
(* failed write is a Hangup, and so is the handshake timeout, at any time  *)
(* before the init is complete.                                            *)
(***************************************************************************)
parse_faketls_client_hello(hello) == hello.complete /\ hello.signed

ClientHello(hello) ==
    LET accepted == parse_faketls_client_hello(hello) /\ hello.expected_domain IN
    /\ from = "faketls client" /\ phase = "hello"
    /\ phase' = IF accepted THEN "init" ELSE "closed"
    /\ excused' = ~accepted
    /\ UNCHANGED <<vars, path, hellos, wire, handshake_buf, pending>>

(***************************************************************************)
(* connect_mtproto_upstream, and the connect of bridge_tcp: the address    *)
(* answers and takes the init, or the ClientHello in front of it.          *)
(***************************************************************************)
connect_mtproto_upstream ==
    /\ phase = "dial"
    /\ phase' = IF from = "faketls upstream" THEN "hello" ELSE "open"
    /\ UNCHANGED <<vars, path, hellos, wire, handshake_buf, pending, excused>>

(***************************************************************************)
(* drain_faketls_server_hello: Handshake and ChangeCipherSpec records, up  *)
(* to the first of Application Data; the init goes out then.  Anything     *)
(* else, an end or too many is the end.  The code sets no timeout here.    *)
(***************************************************************************)
drain_faketls_server_hello(type) ==
    /\ from = "faketls upstream" /\ phase = "hello"
    /\ IF type = "appdata"
       THEN phase' = "open" /\ UNCHANGED <<hellos, excused>>
       ELSE /\ hellos' = hellos + 1
            /\ IF hellos' = MaxHandshakeRecords
               THEN phase' = "closed" /\ excused' = TRUE
               ELSE UNCHANGED <<phase, excused>>
    /\ UNCHANGED <<vars, path, wire, handshake_buf, pending>>

(***************************************************************************)
(* The init: read_exact, or the payloads of as many records as it takes.   *)
(* What the last of them holds beyond the init is pending.                 *)
(***************************************************************************)
PlainInit(s) ==
    /\ from = "client" /\ phase = "init"
    /\ Take(s, Len(HandshakeInit))
    /\ handshake_buf' = Bytes(s, Len(HandshakeInit))
    /\ phase' = "parse"
    /\ UNCHANGED <<vars, path, hellos, pending, excused>>

\* Mutant: the rest of the record is forgotten.
InitRecordMutForgets(s, n) ==
    LET take == smaller(n, Len(HandshakeInit) - Len(handshake_buf)) IN
    /\ from = "faketls client" /\ phase = "init"
    /\ n \in 1..MaxRecord
    /\ Take(s, n)
    /\ handshake_buf' = handshake_buf \o SubSeq(Bytes(s, n), 1, take)
    /\ phase' = IF Len(handshake_buf') = Len(HandshakeInit) THEN "parse" ELSE "init"
    /\ UNCHANGED <<vars, path, hellos, pending, excused>>

InitRecord(s, n) ==
    LET take == smaller(n, Len(HandshakeInit) - Len(handshake_buf)) IN
    /\ from = "faketls client" /\ phase = "init"
    /\ n \in 1..MaxRecord
    /\ Take(s, n)
    /\ handshake_buf' = handshake_buf \o SubSeq(Bytes(s, n), 1, take)
    /\ pending' = SubSeq(Bytes(s, n), take + 1, n)
    /\ phase' = IF Len(handshake_buf') = Len(HandshakeInit) THEN "parse" ELSE "init"
    /\ UNCHANGED <<vars, path, hellos, excused>>

(***************************************************************************)
(* parse_handshake, with the secrets the proxy has: it needs the init as   *)
(* the client sent it, and a client that knows a secret.  Otherwise the    *)
(* client is drained until it leaves.  The route is then found (module     *)
(* Ladder) and the bridge starts.                                          *)
(***************************************************************************)
Parse(knows) ==
    /\ phase = "parse"
    /\ phase' = IF knows /\ handshake_buf = HandshakeInit THEN "open" ELSE "drain"
    /\ excused' = ~knows
    /\ UNCHANGED <<vars, path, hellos, wire, handshake_buf, pending>>

Drain == phase = "drain" /\ Closed /\ UNCHANGED <<vars, path>>

-----------------------------------------------------------------------------
(***************************************************************************)
(* A read of the bridge, which its chunk is then written for.              *)
(***************************************************************************)
Tls == from \in {"faketls client", "faketls upstream"}

Reading == phase = "open" /\ pc = "read"

Chunk(bytes) ==
    /\ input' = input \o bytes
    /\ pc' = "split"
    /\ UNCHANGED <<proto, offset, keystream, splitter, output, path>>

\* Mutant: the pending bytes wait for the next record.
ReadPendingMutWaits ==
    LET n == smaller(ReadBuf, Len(pending)) IN
    /\ Reading
    /\ pending # <<>>
    /\ \E s \in SourceStreams[from][proto] : Take(s, 1) /\ pending' = Bytes(s, 1)
    /\ Chunk(SubSeq(pending, 1, n))
    /\ UNCHANGED <<phase, hellos, handshake_buf, excused>>

ReadPending ==
    LET n == smaller(ReadBuf, Len(pending)) IN
    /\ Reading
    /\ pending # <<>>
    /\ Chunk(SubSeq(pending, 1, n))
    /\ pending' = SubSeq(pending, n + 1, Len(pending))
    /\ UNCHANGED <<phase, hellos, wire, handshake_buf, excused>>

(***************************************************************************)
(* read_tls_appdata, a plain read, or a Binary or Text message, which may  *)
(* be of any length, and empty.  Pings and pongs change nothing.           *)
(***************************************************************************)
ReadWire(s, n) ==
    /\ Reading
    /\ pending = <<>>
    /\ from # "websocket" => n \in 1..ReadBuf
    /\ Take(s, n)
    /\ Chunk(Bytes(s, n))
    /\ UNCHANGED <<phase, hellos, handshake_buf, pending, excused>>

(***************************************************************************)
(* A read of 0 bytes, or an error, ends the direction; what the splitter   *)
(* holds is flushed.  read_tls_appdata says 0 for the end of the stream,   *)
(* for a record of another type or an empty one, and for one that does not *)
(* fit the buffer.                                                         *)
(***************************************************************************)
ReadEnd ==
    /\ Reading
    /\ pending = <<>>
    /\ flush
    /\ Closed
    /\ UNCHANGED path

ReadTooLong(n) ==
    /\ Reading
    /\ Tls
    /\ pending = <<>>
    /\ n > ReadBuf
    /\ flush
    /\ phase' = "closed"
    /\ excused' = (excused \/ n > MaxRecord)
    /\ UNCHANGED <<path, hellos, wire, handshake_buf, pending>>

-----------------------------------------------------------------------------
(***************************************************************************)
(* The writes of a chunk: packets, records of at most the TLS maximum      *)
(* (write_tls_appdata), or the chunk as it is.                             *)
(***************************************************************************)
Written(n) == Push(apply_keystream(n)) /\ Consume(n) /\ UNCHANGED <<proto, input, splitter, pc>>

\* Mutant: at least one record per chunk.
write_tls_appdataMutEmpty ==
    /\ to = "records" /\ pc = "split" /\ (offset < Len(input) \/ sent = <<>>)
    /\ Written(smaller(MaxRecordPayload, Len(input) - offset))

write_tls_appdata ==
    /\ to = "records" /\ pc = "split" /\ offset < Len(input)
    /\ Written(smaller(MaxRecordPayload, Len(input) - offset))

write_all ==
    /\ to = "bytes" /\ pc = "split" /\ offset < Len(input)
    /\ Written(Len(input) - offset)

Write ==
    /\ phase = "open"
    /\ \/ to = "packets" /\ Split
       \/ to # "packets" /\ Return
       \/ write_tls_appdata
       \/ write_all
    /\ UNCHANGED <<path, reader>>

(***************************************************************************)
(* A write fails, or the other direction ends and this one is dropped (see *)
(* Session); split_and_encrypt does not await.                             *)
(***************************************************************************)
Cut ==
    /\ phase = "open"
    /\ to = "packets" => pc = "read"
    /\ Closed
    /\ pc' = "read"
    /\ UNCHANGED <<proto, input, offset, keystream, splitter, output, path>>

-----------------------------------------------------------------------------
Handshake ==
    \/ Hangup \/ connect_mtproto_upstream \/ Drain
    \/ \E hello \in [complete : BOOLEAN, signed : BOOLEAN, expected_domain : BOOLEAN] :
          ClientHello(hello)
    \/ \E type \in {"handshake", "appdata"} : drain_faketls_server_hello(type)
    \/ \E s \in SourceStreams[from][proto] :
          PlainInit(s) \/ \E n \in 1..MaxRecord : InitRecord(s, n)
    \/ \E knows \in BOOLEAN : Parse(knows)

StreamNext ==
    \/ Handshake
    \/ ReadPending
    \/ \E s \in SourceStreams[from][proto] : \E n \in 0..Len(s) : ReadWire(s, n)
    \/ ReadEnd
    \/ \E n \in 1..(MaxRecord + 1) : ReadTooLong(n)
    \/ Write
    \/ Cut

\* The bridge's tasks are polled and a sink takes what it is sent; of the sources nothing is assumed.
StreamFairness == WF_allVars(Write) /\ WF_allVars(ReadPending)

StreamSpec == StreamInit /\ [][StreamNext]_allVars
FairStreamSpec == StreamSpec /\ StreamFairness

-----------------------------------------------------------------------------
StreamTypeOK ==
    /\ phase \in {"dial", "hello", "init", "parse", "drain", "open", "closed"}
    /\ hellos \in 0..MaxHandshakeRecords
    /\ wire \in Seq(0..255)
    /\ handshake_buf \in Seq(0..255) /\ Len(handshake_buf) <= Len(HandshakeInit)
    /\ pending \in Seq(0..255) /\ Len(pending) <= MaxRecord
    /\ excused \in BOOLEAN

(***************************************************************************)
(* However a client cuts its stream into records, the init and the first   *)
(* packet sharing one or not, no byte is lost, repeated or reordered       *)
(* between the wire and the bridge: the init, what the bridge has read and *)
(* what is pending are the bytes received.                                 *)
(***************************************************************************)
NothingLost == handshake_buf \o input \o pending = wire

(***************************************************************************)
(* "keeps a client that emits a slightly oversized record working"         *)
(* (CLIENT_READ_BUF_SIZE): a source that keeps to the protocol, with       *)
(* records up to what the handshake accepts, is neither taken for a        *)
(* stranger nor cut off; whatever the proxy reads as the end of the stream *)
(* is the end of it, or the source's fault.                                *)
(***************************************************************************)
HonestSourceServed == phase \in {"drain", "closed"} => excused

(***************************************************************************)
(* Every record the proxy writes, to a FakeTLS client or a FakeTLS         *)
(* upstream, can be read: none exceeds the TLS maximum, whatever the size  *)
(* of the read or message it comes from, and none is empty, which          *)
(* read_tls_appdata at the other end would take for the end of the stream. *)
(***************************************************************************)
RecordsReadable ==
    to = "records" =>
        \A m \in 1..Len(ends) : ends[m] - (IF m = 1 THEN 0 ELSE ends[m - 1]) \in 1..MaxRecordPayload

(***************************************************************************)
(* OnePacketPerMessage on the paths that have a splitter: message          *)
(* boundaries do not depend on the records the client sent.                *)
(***************************************************************************)
PacketsFramed == to = "packets" => OnePacketPerMessage

(***************************************************************************)
(* The bridge with its readers is a client of the splitter as Splitter     *)
(* describes it: what it passes to split_and_encrypt is the stream after   *)
(* the init, in order, whatever the records were.                          *)
(***************************************************************************)
ImplementsSplitter == [][to = "packets" => Next]_vars

(***************************************************************************)
(* The bytes that came with the init reach the bridge without the client   *)
(* sending anything more: it may be waiting for an answer to them.         *)
(***************************************************************************)
PendingRead == phase = "open" /\ pending # <<>> ~> pending = <<>> \/ phase = "closed"
=============================================================================
