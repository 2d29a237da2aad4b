------------------------------ MODULE Session -------------------------------
(***************************************************************************)
(* One client connection from its accept to its end                        *)
(* (handle_client_with_runtime and the bridges, src/src/proxy.rs): the     *)
(* handshake under its timeout, routing (module Ladder, here its outcome), *)
(* and the bridge, whose upload is a spawned task and whose download runs  *)
(* in the handler, raced by join_bridge.                                   *)
(*                                                                         *)
(* A stream is counted in units, in order: what its source has sent, what  *)
(* the proxy has read, what it has written on, what the sink has taken.    *)
(* Ciphers keep lengths; packet framing (MsgSplitter) holds back what is   *)
(* not yet a whole packet.                                                 *)
(***************************************************************************)
EXTENDS Integers

CONSTANTS
    Kinds,        \* the routes: of "packets", "tunnel", "relay", "tcp"
    Length,       \* the units either side sends in a session, at most
    PacketEnds,   \* the units of the upload that end an MTProto packet
    ReadMax,      \* the units one read returns, at most
    Window        \* the units the socket of a sink buffers

ASSUME SessionAssumption ==
    /\ Kinds \subseteq {"packets", "tunnel", "relay", "tcp"}
    /\ Length \in Nat
    /\ PacketEnds \subseteq 1..Length
    /\ ReadMax \in Nat \ {0}
    /\ Window \in Nat \ {0}

VARIABLES
    main,         \* where the handler is
    kind,         \* how the session was routed
    client,       \* whether the client's end is open
    upstream,     \* whether the other end is open
    up, down,     \* [sent, read, written, taken] of the two streams
    upload,       \* the upload task: [pc, n, upto, bytes]
    download,     \* the download future: [pc, n, bytes]
    shared,       \* the Arc<Mutex<u64>> the UploadCounter drops its count into
    closed        \* what is logged: [by, up, down]

ends == <<client, upstream>>
vars == <<main, kind, client, upstream, up, down, upload, download, shared, closed>>

Unsent == [sent |-> 0, read |-> 0, written |-> 0, taken |-> 0]
NotClosed == [by |-> "none", up |-> 0, down |-> 0]

Init ==
    /\ main = "handshake"
    /\ kind = "none"
    /\ client = "open"
    /\ upstream = "open"
    /\ up = Unsent
    /\ down = Unsent
    /\ upload = [pc |-> "none", n |-> 0, upto |-> 0, bytes |-> 0]
    /\ download = [pc |-> "none", n |-> 0, bytes |-> 0]
    /\ shared = 0
    /\ closed = NotClosed

(***************************************************************************)
(* The two ends: each sends, takes what reached it, and hangs up.          *)
(***************************************************************************)
ClientSend ==
    /\ client = "open" /\ up.sent < Length /\ main # "done"
    /\ up' = [up EXCEPT !.sent = @ + 1]
    /\ UNCHANGED <<main, kind, ends, down, upload, download, shared, closed>>

UpstreamSend ==
    /\ upstream = "open" /\ down.sent < Length /\ main = "bridge"
    /\ down' = [down EXCEPT !.sent = @ + 1]
    /\ UNCHANGED <<main, kind, ends, up, upload, download, shared, closed>>

ClientTake ==
    /\ client = "open" /\ down.taken < down.written
    /\ down' = [down EXCEPT !.taken = @ + 1]
    /\ UNCHANGED <<main, kind, ends, up, upload, download, shared, closed>>

UpstreamTake ==
    /\ upstream = "open" /\ up.taken < up.written
    /\ up' = [up EXCEPT !.taken = @ + 1]
    /\ UNCHANGED <<main, kind, ends, down, upload, download, shared, closed>>

ClientHangup ==
    /\ client = "open" /\ main # "done"
    /\ client' = "closed"
    /\ UNCHANGED <<main, kind, upstream, up, down, upload, download, shared, closed>>

UpstreamHangup ==
    /\ upstream = "open" /\ main \in {"bridge", "aborting"}
    /\ upstream' = "closed"
    /\ UNCHANGED <<main, kind, client, up, down, upload, download, shared, closed>>

-----------------------------------------------------------------------------
(***************************************************************************)
(* read_inbound_handshake under its timeout.  A bad handshake is drained   *)
(* without one: until the client hangs up.                                 *)
(***************************************************************************)
Handshake(outcome) ==
    /\ main = "handshake"
    /\ main' = CASE outcome = "ok" -> "route" [] outcome = "bad" -> "drain"
                 [] outcome \in {"error", "timeout"} -> "done"
    /\ UNCHANGED <<kind, ends, up, down, upload, download, shared, closed>>

Drain ==
    /\ main = "drain"
    /\ client = "closed"
    /\ main' = "done"
    /\ UNCHANGED <<kind, ends, up, down, upload, download, shared, closed>>

(***************************************************************************)
(* select_bridge: no upstream, or a bridge.  Only the WebSocket bridges    *)
(* send the relay init from the upload task; bridge_tcp connects and sends *)
(* it first, and a relay has sent its own handshake.                       *)
(***************************************************************************)
Route(k) ==
    /\ main = "route"
    /\ main' = IF k = "none" THEN "done" ELSE IF k = "tcp" THEN "connect" ELSE "bridge"
    /\ kind' = k
    /\ IF k \in {"packets", "tunnel", "relay"}
       THEN /\ upload' = [upload EXCEPT !.pc = IF k = "relay" THEN "read" ELSE "init"]
            /\ download' = [download EXCEPT !.pc = "read"]
       ELSE UNCHANGED <<upload, download>>
    /\ UNCHANGED <<ends, up, down, shared, closed>>

TcpConnect(connected) ==
    /\ main = "connect"
    /\ IF connected
       THEN /\ main' = "bridge"
            /\ upload' = [upload EXCEPT !.pc = "read"]
            /\ download' = [download EXCEPT !.pc = "read"]
       ELSE main' = "done" /\ UNCHANGED <<upload, download>>
    /\ UNCHANGED <<kind, ends, up, down, shared, closed>>

-----------------------------------------------------------------------------
(***************************************************************************)
(* The upload task.  When it ends its UploadCounter drops, which publishes *)
(* the count.                                                              *)
(***************************************************************************)
UploadEnds ==
    /\ upload' = [upload EXCEPT !.pc = "ended"]
    /\ shared' = upload.bytes

UploadInit ==
    /\ upload.pc = "init"
    /\ \/ upload' = [upload EXCEPT !.pc = "read"] /\ UNCHANGED shared
       \/ upstream = "closed" /\ UploadEnds
    /\ UNCHANGED <<main, kind, ends, up, down, download, closed>>

\* What can be sent on of a stream that is read up to r: whole packets, or all of it.
Sendable(upto, r) ==
    IF kind = "packets"
    THEN upto \in {0} \cup PacketEnds /\ \A e \in PacketEnds : e <= r => e <= upto
    ELSE upto = r

UploadRead(n) ==
    /\ upload.pc = "read"
    /\ up.read + n <= up.sent
    /\ up' = [up EXCEPT !.read = @ + n]
    /\ \E upto \in 0..(up.read + n) :
          /\ Sendable(upto, up.read + n)
          /\ upload' = [upload EXCEPT !.pc = "send", !.n = n, !.upto = upto]
    /\ UNCHANGED <<main, kind, ends, down, download, shared, closed>>

\* A unit reaches the upstream's socket, or the write fails.
UploadWrite ==
    /\ upload.pc \in {"send", "flush"}
    /\ up.written < upload.upto
    /\ \/ /\ up.written - up.taken < Window
          /\ up' = [up EXCEPT !.written = @ + 1]
          /\ UNCHANGED <<upload, shared>>
       \/ upstream = "closed" /\ UploadEnds /\ UNCHANGED up
    /\ UNCHANGED <<main, kind, ends, down, download, closed>>

UploadSent ==
    /\ upload.pc = "send"
    /\ up.written >= upload.upto
    /\ upload' = [upload EXCEPT !.pc = "read", !.n = 0, !.bytes = @ + upload.n]
    /\ UNCHANGED <<main, kind, ends, up, down, download, shared, closed>>

\* Mutant: a packet that is not complete is dropped with the connection.
UploadEofMutNoFlush ==
    /\ upload.pc = "read"
    /\ client = "closed"
    /\ UploadEnds
    /\ UNCHANGED <<main, kind, ends, up, down, download, closed>>

\* The end of the stream, or an error that loses what was not read.
UploadEof ==
    /\ upload.pc = "read"
    /\ client = "closed"
    /\ IF kind = "packets"
       THEN upload' = [upload EXCEPT !.pc = "flush", !.upto = up.read] /\ UNCHANGED shared
       ELSE UploadEnds
    /\ UNCHANGED <<main, kind, ends, up, down, download, closed>>

UploadFlushed ==
    /\ upload.pc = "flush"
    /\ up.written >= upload.upto
    /\ UploadEnds
    /\ UNCHANGED <<main, kind, ends, up, down, download, closed>>

(***************************************************************************)
(* The download future: it counts a read once the client's socket has it.  *)
(***************************************************************************)
DownloadRead(n) ==
    /\ main = "bridge" /\ download.pc = "read"
    /\ down.read + n <= down.sent
    /\ down' = [down EXCEPT !.read = @ + n]
    /\ download' = [download EXCEPT !.pc = "write", !.n = n]
    /\ UNCHANGED <<main, kind, ends, up, upload, shared, closed>>

DownloadEof ==
    /\ main = "bridge" /\ download.pc = "read"
    /\ upstream = "closed"
    /\ download' = [download EXCEPT !.pc = "ended"]
    /\ UNCHANGED <<main, kind, ends, up, down, upload, shared, closed>>

DownloadWrite ==
    /\ main = "bridge" /\ download.pc = "write"
    /\ down.written < down.read
    /\ \/ /\ down.written - down.taken < Window
          /\ down' = [down EXCEPT !.written = @ + 1]
          /\ UNCHANGED download
       \/ /\ client = "closed"
          /\ download' = [download EXCEPT !.pc = "ended"]
          /\ UNCHANGED down
    /\ UNCHANGED <<main, kind, ends, up, upload, shared, closed>>

DownloadWritten ==
    /\ main = "bridge" /\ download.pc = "write"
    /\ down.written = down.read
    /\ download' = [download EXCEPT !.pc = "read", !.n = 0, !.bytes = @ + download.n]
    /\ UNCHANGED <<main, kind, ends, up, down, upload, shared, closed>>

-----------------------------------------------------------------------------
(***************************************************************************)
(* join_bridge.  The upload ended: the download is dropped where it is.    *)
(* The download ended: the upload is aborted, which takes effect when it   *)
(* is next polled, and awaited.  Then the session is logged.               *)
(***************************************************************************)
Logged(by) ==
    /\ main' = "done"
    /\ closed' = [by |-> by, up |-> shared, down |-> download.bytes]

\* Mutant: both directions are joined.
JoinUploadMutBoth ==
    /\ main = "bridge"
    /\ upload.pc = "ended"
    /\ download.pc = "ended"
    /\ Logged("client")
    /\ UNCHANGED <<kind, ends, up, down, upload, download, shared>>

JoinUpload ==
    /\ main = "bridge"
    /\ upload.pc = "ended"
    /\ Logged("client")
    /\ UNCHANGED <<kind, ends, up, down, upload, download, shared>>

JoinDownload ==
    /\ main = "bridge"
    /\ download.pc = "ended"
    /\ main' = "aborting"
    /\ UNCHANGED <<kind, ends, up, down, upload, download, shared, closed>>

UploadAborted ==
    /\ main = "aborting"
    /\ upload.pc # "ended"
    /\ UploadEnds
    /\ UNCHANGED <<main, kind, ends, up, down, download, closed>>

\* Mutant: the aborted upload is not awaited.
JoinAbortedMutNoAwait ==
    /\ main = "aborting"
    /\ Logged("upstream")
    /\ UNCHANGED <<kind, ends, up, down, upload, download, shared>>

JoinAborted ==
    /\ main = "aborting"
    /\ upload.pc = "ended"
    /\ Logged("upstream")
    /\ UNCHANGED <<kind, ends, up, down, upload, download, shared>>

-----------------------------------------------------------------------------
Setup ==
    \/ \E outcome \in {"ok", "bad", "error", "timeout"} : Handshake(outcome)
    \/ Drain
    \/ \E k \in Kinds \cup {"none"} : Route(k)
    \/ \E connected \in BOOLEAN : TcpConnect(connected)

Upload ==
    \/ UploadInit
    \/ \E n \in 1..ReadMax : UploadRead(n)
    \/ UploadWrite \/ UploadSent \/ UploadEof \/ UploadFlushed \/ UploadAborted

Download ==
    \/ \E n \in 1..ReadMax : DownloadRead(n)
    \/ DownloadEof \/ DownloadWrite \/ DownloadWritten

Join == JoinUpload \/ JoinDownload \/ JoinAborted

Ends ==
    \/ ClientSend \/ UpstreamSend \/ ClientTake \/ UpstreamTake
    \/ ClientHangup \/ UpstreamHangup

Next == Setup \/ Upload \/ Download \/ Join \/ Ends

(***************************************************************************)
(* The two tasks are polled when they can run.  Set-up ends: its waits     *)
(* have timeouts, but for that for the hello of a FakeTLS upstream, which  *)
(* is taken to come or to fail.                                            *)
(* An end that is open takes what was written to it: the bridge has no     *)
(* write timeout, so without this a session may outlive its client.        *)
(***************************************************************************)
Fairness ==
    /\ WF_vars(Setup) /\ WF_vars(Upload) /\ WF_vars(Download) /\ WF_vars(Join)
    /\ WF_vars(ClientTake) /\ WF_vars(UpstreamTake)

Spec == Init /\ [][Next]_vars
FairSpec == Spec /\ Fairness

-----------------------------------------------------------------------------
Stream == [sent : 0..Length, read : 0..Length, written : 0..Length, taken : 0..Length]

TypeOK ==
    /\ main \in {"handshake", "drain", "route", "connect", "bridge", "aborting", "done"}
    /\ kind \in Kinds \cup {"none"}
    /\ client \in {"open", "closed"}
    /\ upstream \in {"open", "closed"}
    /\ up \in Stream
    /\ down \in Stream
    /\ upload \in [pc : {"none", "init", "read", "send", "flush", "ended"},
                   n : 0..ReadMax, upto : 0..Length, bytes : 0..Length]
    /\ download \in [pc : {"none", "read", "write", "ended"}, n : 0..ReadMax, bytes : 0..Length]
    /\ shared \in 0..Length
    /\ closed \in [by : {"none", "client", "upstream"}, up : 0..Length, down : 0..Length]

(***************************************************************************)
(* The logged volume is what was carried: nothing is logged that was not   *)
(* read, and, unless packets are held back, that was not written on; what  *)
(* was read or written and is missing from the log is at most the one read *)
(* that was under way when the session ended, on either side, by either    *)
(* end, aborted or not.                                                    *)
(***************************************************************************)
LogMatchesStreams ==
    closed.by # "none" =>
        /\ closed.up <= up.read /\ up.read - closed.up <= ReadMax
        /\ kind # "packets" => closed.up <= up.written
        /\ closed.down <= down.written /\ down.written - closed.down <= ReadMax

(***************************************************************************)
(* A session that ends because the client stopped sending, with the other  *)
(* end still open, has passed on everything it read: the splitter's held   *)
(* back packet included ("Flush any partial last packet").                 *)
(***************************************************************************)
EofDeliversAll ==
    closed.by = "client" /\ upstream = "open" => up.written = up.read

(***************************************************************************)
(* What join_bridge is there for ("Joining both directions instead left    *)
(* zombie connections behind"): when either end hangs up, at any stage,    *)
(* the session ends.                                                       *)
(***************************************************************************)
HangupEndsSession == client = "closed" \/ upstream = "closed" ~> main = "done"

=============================================================================
