--------------------------- MODULE SessionProofs ----------------------------
(***************************************************************************)
(* LogMatchesStreams and EofDeliversAll for streams of any length, reads   *)
(* and windows of any size and packets that end anywhere.                  *)
(***************************************************************************)
EXTENDS Session, TLAPS

Streams == [sent : Nat, read : Nat, written : Nat, taken : Nat]
UploadPcs == {"none", "init", "read", "send", "flush", "ended"}
DownloadPcs == {"none", "read", "write", "ended"}
Uploads == [pc : UploadPcs, n : Nat, upto : Nat, bytes : Nat]
Downloads == [pc : DownloadPcs, n : Nat, bytes : Nat]

Types ==
    /\ up \in Streams /\ down \in Streams
    /\ upload \in Uploads /\ download \in Downloads
    /\ shared \in Nat

(***************************************************************************)
(* The strengthening: at each place of a direction, how what it has        *)
(* counted stands to what it has read and written.  The upload's count     *)
(* lags behind by the read it is sending; only packets are held back.      *)
(***************************************************************************)
UpInv ==
    /\ up.written <= up.read
    /\ upload.pc \in {"none", "init"} => up.read = 0 /\ upload.bytes = 0
    /\ upload.pc = "read" =>
          up.read = upload.bytes /\ (kind # "packets" => up.written = up.read)
    /\ upload.pc = "send" =>
          /\ up.read = upload.bytes + upload.n /\ upload.n <= ReadMax
          /\ upload.upto <= up.read
          /\ kind # "packets" => upload.upto = up.read /\ upload.bytes <= up.written
    /\ upload.pc = "flush" =>
          kind = "packets" /\ up.read = upload.bytes /\ upload.upto = up.read

EndedInv ==
    upload.pc = "ended" =>
        /\ shared = upload.bytes
        /\ upload.bytes <= up.read /\ up.read <= upload.bytes + ReadMax
        /\ kind # "packets" => upload.bytes <= up.written
        /\ main = "bridge" /\ upstream = "open" => up.written = up.read

DownInv ==
    /\ download.pc = "none" => down.read = 0 /\ down.written = 0 /\ download.bytes = 0
    /\ download.pc = "read" => down.written = down.read /\ download.bytes = down.read
    /\ download.pc = "write" =>
          /\ down.read = download.bytes + download.n /\ download.n <= ReadMax
          /\ download.bytes <= down.written /\ down.written <= down.read
    /\ download.pc = "ended" =>
          download.bytes <= down.written /\ down.written <= download.bytes + ReadMax

MainInv ==
    /\ main \in {"handshake", "drain", "route", "connect"} =>
          upload.pc = "none" /\ download.pc = "none"
    /\ closed.by # "none" =>
          /\ main = "done" /\ upload.pc = "ended"
          /\ closed.up = shared /\ closed.down = download.bytes
    /\ EofDeliversAll

IInv == Types /\ UpInv /\ EndedInv /\ DownInv /\ MainInv

-----------------------------------------------------------------------------
(***************************************************************************)
(* Updates of the three records, field by field.                           *)
(***************************************************************************)
LEMMA StreamMoved ==
    ASSUME NEW s \in Streams, NEW x \in Nat, NEW t,
           t = [s EXCEPT !.sent = x] \/ t = [s EXCEPT !.taken = x]
    PROVE  t \in Streams /\ t.read = s.read /\ t.written = s.written
BY Zenon DEF Streams

LEMMA StreamRead ==
    ASSUME NEW s \in Streams, NEW x \in Nat, NEW t, t = [s EXCEPT !.read = x]
    PROVE  t \in Streams /\ t.read = x /\ t.written = s.written
BY Zenon DEF Streams

LEMMA StreamWritten ==
    ASSUME NEW s \in Streams, NEW x \in Nat, NEW t, t = [s EXCEPT !.written = x]
    PROVE  t \in Streams /\ t.read = s.read /\ t.written = x
BY Zenon DEF Streams

LEMMA UploadPc ==
    ASSUME NEW u \in Uploads, NEW p \in UploadPcs, NEW v, v = [u EXCEPT !.pc = p]
    PROVE  v \in Uploads /\ v.pc = p /\ v.n = u.n /\ v.upto = u.upto /\ v.bytes = u.bytes
BY Zenon DEF Uploads

LEMMA DownloadPc ==
    ASSUME NEW d \in Downloads, NEW p \in DownloadPcs, NEW v, v = [d EXCEPT !.pc = p]
    PROVE  v \in Downloads /\ v.pc = p /\ v.n = d.n /\ v.bytes = d.bytes
BY Zenon DEF Downloads

\* The fields are numbers.
LEMMA Fields ==
    ASSUME Types
    PROVE  /\ up.sent \in Nat /\ up.read \in Nat /\ up.written \in Nat /\ up.taken \in Nat
           /\ down.sent \in Nat /\ down.read \in Nat /\ down.written \in Nat /\ down.taken \in Nat
           /\ upload.pc \in UploadPcs /\ upload.n \in Nat /\ upload.upto \in Nat /\ upload.bytes \in Nat
           /\ download.pc \in DownloadPcs /\ download.n \in Nat /\ download.bytes \in Nat
           /\ ReadMax \in Nat
BY SessionAssumption DEF Types, Streams, Uploads, Downloads

-----------------------------------------------------------------------------
LEMMA InitIInv == Init => IInv
<1> SUFFICES ASSUME Init PROVE IInv
  OBVIOUS
<1>1. Types
  <2>1. up \in Streams /\ down \in Streams
    BY DEF Init, Unsent, Streams
  <2>2. upload \in Uploads
    BY DEF Init, Uploads, UploadPcs
  <2>3. download \in Downloads
    BY DEF Init, Downloads, DownloadPcs
  <2> QED
    BY <2>1, <2>2, <2>3 DEF Types, Init
<1>2. /\ up.read = 0 /\ up.written = 0 /\ down.read = 0 /\ down.written = 0
      /\ upload.pc = "none" /\ upload.bytes = 0 /\ download.pc = "none" /\ download.bytes = 0
      /\ closed.by = "none"
  BY DEF Init, Unsent, NotClosed
<1> QED
  BY <1>1, <1>2 DEF IInv, UpInv, EndedInv, DownInv, MainInv, EofDeliversAll

(***************************************************************************)
(* A step that leaves the counts of both directions alone, and the session *)
(* open if it is open.                                                     *)
(***************************************************************************)
LEMMA EndsStep ==
    ASSUME IInv, Ends
    PROVE  IInv'
<1>1. /\ up' \in Streams /\ up'.read = up.read /\ up'.written = up.written
      /\ down' \in Streams /\ down'.read = down.read /\ down'.written = down.written
  <2>1. up \in Streams /\ down \in Streams
    BY DEF IInv, Types
  <2>2. up' = up \/ \E x \in Nat : up' = [up EXCEPT !.sent = x] \/ up' = [up EXCEPT !.taken = x]
    <3>1. up.sent + 1 \in Nat /\ up.taken + 1 \in Nat
      BY Fields DEF IInv
    <3> QED
      BY <3>1 DEF Ends, ClientSend, UpstreamSend, ClientTake, UpstreamTake, ClientHangup, UpstreamHangup
  <2>3. down' = down \/ \E x \in Nat : down' = [down EXCEPT !.sent = x] \/ down' = [down EXCEPT !.taken = x]
    <3>1. down.sent + 1 \in Nat /\ down.taken + 1 \in Nat
      BY Fields DEF IInv
    <3> QED
      BY <3>1 DEF Ends, ClientSend, UpstreamSend, ClientTake, UpstreamTake, ClientHangup, UpstreamHangup
  <2>4. up' \in Streams /\ up'.read = up.read /\ up'.written = up.written
    BY <2>1, <2>2, StreamMoved
  <2>5. down' \in Streams /\ down'.read = down.read /\ down'.written = down.written
    BY <2>1, <2>3, StreamMoved
  <2> QED
    BY <2>4, <2>5
<1>2. UNCHANGED <<main, kind, upload, download, shared, closed>>
  BY DEF Ends, ClientSend, UpstreamSend, ClientTake, UpstreamTake, ClientHangup, UpstreamHangup
<1>3. upstream' = "open" => upstream = "open"
  BY DEF Ends, ClientSend, UpstreamSend, ClientTake, UpstreamTake, ClientHangup, UpstreamHangup, ends
<1>4. Types'
  BY <1>1, <1>2 DEF IInv, Types
<1>5. UpInv' /\ DownInv'
  BY <1>1, <1>2 DEF IInv, UpInv, DownInv
<1>6. EndedInv' /\ MainInv'
  BY <1>1, <1>2, <1>3 DEF IInv, EndedInv, MainInv, EofDeliversAll
<1> QED
  BY <1>4, <1>5, <1>6 DEF IInv

(***************************************************************************)
(* Up to the bridge nothing is counted; a route starts both directions.    *)
(***************************************************************************)
LEMMA SetupStep ==
    ASSUME IInv, Setup
    PROVE  IInv'
<1>1. /\ main \in {"handshake", "drain", "route", "connect"}
      /\ UNCHANGED <<upstream, up, down, shared, closed>>
  BY DEF Setup, Handshake, Drain, Route, TcpConnect, ends
<1>2. /\ upload.pc = "none" /\ download.pc = "none" /\ closed.by = "none"
      /\ up.read = 0 /\ up.written = 0 /\ upload.bytes = 0
      /\ down.read = 0 /\ down.written = 0 /\ download.bytes = 0
  <2>1. upload.pc = "none" /\ download.pc = "none" /\ closed.by = "none"
    BY <1>1 DEF IInv, MainInv
  <2>2. up.written \in Nat
    BY Fields DEF IInv
  <2> QED
    BY <2>1, <2>2 DEF IInv, UpInv, DownInv
<1> DEFINE Started ==
        /\ upload' \in Uploads /\ download' \in Downloads
        /\ upload'.pc \in {"none", "init", "read"} /\ upload'.bytes = 0
        /\ download'.pc \in {"none", "read"} /\ download'.bytes = 0
        /\ main' \in {"handshake", "drain", "route", "connect"} =>
              upload'.pc = "none" /\ download'.pc = "none"
<1>3. Started
  <2>1. CASE UNCHANGED <<upload, download>>
    BY <1>2, <2>1 DEF IInv, Types
  <2>2. ASSUME NEW p \in {"init", "read"}, upload' = [upload EXCEPT !.pc = p],
               download' = [download EXCEPT !.pc = "read"], main' = "bridge"
        PROVE  Started
    <3>1. upload \in Uploads /\ download \in Downloads /\ p \in UploadPcs /\ "read" \in DownloadPcs
      BY DEF IInv, Types, UploadPcs, DownloadPcs
    <3>2. upload' \in Uploads /\ upload'.pc = p /\ upload'.bytes = upload.bytes
      BY <2>2, <3>1, UploadPc
    <3>3. download' \in Downloads /\ download'.pc = "read" /\ download'.bytes = download.bytes
      BY <2>2, <3>1, DownloadPc
    <3> QED
      BY <1>2, <2>2, <3>2, <3>3
  <2>3. CASE \E k \in Kinds \cup {"none"} : Route(k)
    <3>1. PICK k \in Kinds \cup {"none"} : Route(k)
      BY <2>3
    <3>2. CASE k \in {"packets", "tunnel", "relay"}
      <4>1. PICK p \in {"init", "read"} : upload' = [upload EXCEPT !.pc = p]
        BY <3>1, <3>2 DEF Route
      <4>2. download' = [download EXCEPT !.pc = "read"] /\ main' = "bridge"
        BY <3>1, <3>2 DEF Route
      <4> QED
        BY <2>2, <4>1, <4>2
    <3>3. CASE k \notin {"packets", "tunnel", "relay"}
      BY <2>1, <3>1, <3>3 DEF Route
    <3> QED
      BY <3>2, <3>3
  <2>4. CASE \E connected \in BOOLEAN : TcpConnect(connected)
    <3>1. \/ UNCHANGED <<upload, download>>
          \/ /\ upload' = [upload EXCEPT !.pc = "read"] /\ download' = [download EXCEPT !.pc = "read"]
             /\ main' = "bridge"
      BY <2>4 DEF TcpConnect
    <3> QED
      BY <2>1, <2>2, <3>1
  <2>5. CASE Drain \/ \E outcome \in {"ok", "bad", "error", "timeout"} : Handshake(outcome)
    BY <2>1, <2>5 DEF Drain, Handshake
  <2> QED
    BY <2>3, <2>4, <2>5 DEF Setup
<1>4. Types'
  BY <1>1, <1>3 DEF IInv, Types
<1>5. UpInv' /\ DownInv'
  BY <1>1, <1>2, <1>3 DEF UpInv, DownInv
<1>6. EndedInv' /\ MainInv'
  BY <1>1, <1>2, <1>3 DEF EndedInv, MainInv, EofDeliversAll
<1> QED
  BY <1>4, <1>5, <1>6 DEF IInv

-----------------------------------------------------------------------------
(***************************************************************************)
(* The upload, wherever it ends: its count lacks at most one read.         *)
(***************************************************************************)
LEMMA UploadEndsStep ==
    ASSUME IInv, UploadEnds, UNCHANGED <<up, kind, main, upstream>>, upload.pc # "ended",
           main = "bridge" /\ upstream = "open" => up.written = up.read
    PROVE  upload' \in Uploads /\ shared' \in Nat /\ UpInv' /\ EndedInv'
<1>1. upload \in Uploads /\ "ended" \in UploadPcs /\ upload' = [upload EXCEPT !.pc = "ended"]
  BY DEF IInv, Types, UploadPcs, UploadEnds
<1>2. /\ upload' \in Uploads /\ upload'.pc = "ended" /\ upload'.bytes = upload.bytes
      /\ shared' = upload.bytes /\ shared' \in Nat
  BY <1>1, UploadPc, Fields DEF UploadEnds, IInv
<1>3. /\ upload.bytes <= up.read /\ up.read <= upload.bytes + ReadMax
      /\ kind # "packets" => upload.bytes <= up.written
  <2>1. upload.pc \in {"none", "init", "read", "send", "flush"}
    BY Fields DEF IInv, UploadPcs
  <2> QED
    BY <2>1, Fields DEF IInv, UpInv
<1> QED
  BY <1>2, <1>3 DEF IInv, UpInv, EndedInv

LEMMA UploadReadStep ==
    ASSUME IInv, NEW n \in 1..ReadMax, UploadRead(n)
    PROVE  up' \in Streams /\ upload' \in Uploads /\ UpInv' /\ EndedInv'
<1> DEFINE r == up.read + n
<1>1. n \in Nat /\ n <= ReadMax /\ r \in Nat /\ up.read \in Nat /\ up.written \in Nat
  BY Fields DEF IInv
<1>2. up' \in Streams /\ up'.read = r /\ up'.written = up.written
  <2>1. up \in Streams /\ up' = [up EXCEPT !.read = r]
    BY DEF IInv, Types, UploadRead
  <2> HIDE DEF r
  <2> QED
    BY <1>1, <2>1, StreamRead
<1>3. PICK upto \in 0..r : /\ Sendable(upto, r)
                           /\ upload' = [upload EXCEPT !.pc = "send", !.n = n, !.upto = upto]
  BY Zenon DEF UploadRead
<1>4. upto \in Nat /\ upto <= r /\ (kind # "packets" => upto = r)
  BY <1>1, <1>3 DEF Sendable
<1>5. /\ upload' \in Uploads /\ upload'.pc = "send" /\ upload'.n = n /\ upload'.upto = upto
      /\ upload'.bytes = upload.bytes
  <2>1. upload \in Uploads /\ "send" \in UploadPcs
    BY DEF IInv, Types, UploadPcs
  <2> QED
    BY <1>1, <1>3, <1>4, <2>1, Zenon DEF Uploads
<1>6. up.read = upload.bytes /\ up.written <= up.read /\ (kind # "packets" => up.written = up.read)
  BY DEF IInv, UpInv, UploadRead
<1>7. kind' = kind
  BY DEF UploadRead
<1> QED
  BY <1>1, <1>2, <1>4, <1>5, <1>6, <1>7 DEF UpInv, EndedInv

LEMMA UploadStep ==
    ASSUME IInv, Upload
    PROVE  IInv'
<1>1. UNCHANGED <<main, kind, upstream, down, download, closed>>
  BY ZenonT(30) DEF Upload, UploadInit, UploadRead, UploadWrite, UploadSent, UploadEof, UploadFlushed,
         UploadAborted, ends
<1>2. /\ upload.pc # "ended"
      /\ upload.pc \in {"init", "read", "send", "flush"} \/ main = "aborting"
  BY Zenon DEF Upload, UploadInit, UploadRead, UploadWrite, UploadSent, UploadEof, UploadFlushed,
         UploadAborted
<1>3. DownInv' /\ MainInv'
  <2>1. closed.by = "none" /\ main \notin {"handshake", "drain", "route", "connect"}
    BY <1>2 DEF IInv, MainInv
  <2> QED
    BY <1>1, <2>1 DEF IInv, DownInv, MainInv, EofDeliversAll
<1>4. ASSUME up' \in Streams, upload' \in Uploads, shared' \in Nat, UpInv', EndedInv'
      PROVE  IInv'
  BY <1>1, <1>3, <1>4 DEF IInv, Types
<1>5. ASSUME UploadEnds, UNCHANGED up,
             main = "bridge" /\ upstream = "open" => up.written = up.read
      PROVE  IInv'
  BY <1>1, <1>2, <1>4, <1>5, UploadEndsStep DEF IInv, Types
<1>6. ASSUME UNCHANGED <<up, shared>>, upload' \in Uploads, upload'.pc = "read",
             upload'.bytes = up.read, kind # "packets" => up.written = up.read
      PROVE  IInv'
  <2>1. UpInv' /\ EndedInv'
    BY <1>1, <1>6 DEF IInv, UpInv, EndedInv
  <2> QED
    BY <1>4, <1>6, <2>1 DEF IInv, Types
<1>7. CASE UploadInit
  <2>1. CASE upstream = "closed" /\ UploadEnds
    BY <1>5, <1>7, <2>1 DEF UploadInit
  <2>2. CASE upload' = [upload EXCEPT !.pc = "read"] /\ UNCHANGED shared
    <3>1. upload \in Uploads /\ "read" \in UploadPcs
      BY DEF IInv, Types, UploadPcs
    <3>2. upload' \in Uploads /\ upload'.pc = "read" /\ upload'.bytes = upload.bytes
      BY <2>2, <3>1, UploadPc
    <3>3. upload.bytes = 0 /\ up.read = 0 /\ up.written = 0
      BY <1>7, Fields, SMTT(30) DEF IInv, UpInv, UploadInit
    <3> QED
      BY <1>6, <1>7, <2>2, <3>2, <3>3 DEF UploadInit
  <2> QED
    BY <1>7, <2>1, <2>2 DEF UploadInit
<1>8. ASSUME NEW n \in 1..ReadMax, UploadRead(n) PROVE IInv'
  BY <1>4, <1>8, UploadReadStep, Zenon DEF IInv, Types, UploadRead
<1>9. CASE UploadWrite
  <2>1. CASE upstream = "closed" /\ UploadEnds /\ UNCHANGED up
    BY <1>5, <2>1
  <2>2. CASE up' = [up EXCEPT !.written = @ + 1] /\ UNCHANGED <<upload, shared>>
    <3> DEFINE w == up.written + 1
    <3>1. up \in Streams /\ w \in Nat /\ up' = [up EXCEPT !.written = w]
      BY <2>2, Fields DEF IInv, Types
    <3> HIDE DEF w
    <3>2. up' \in Streams /\ up'.read = up.read /\ up'.written = w
      BY <3>1, StreamWritten
    <3>3. upload.pc \in {"send", "flush"} /\ up.written < upload.upto
      BY <1>9 DEF UploadWrite
    <3>4. upload.upto <= up.read /\ up.written \in Nat /\ upload.upto \in Nat /\ up.read \in Nat
          /\ upload.bytes \in Nat
      BY <3>3, Fields DEF IInv, UpInv
    <3>5. UpInv'
      BY <1>1, <2>2, <3>2, <3>3, <3>4 DEF IInv, UpInv, w
    <3>6. EndedInv'
      BY <1>2, <2>2 DEF EndedInv
    <3> QED
      BY <1>4, <2>2, <3>2, <3>5, <3>6 DEF IInv, Types
  <2> QED
    BY <1>9, <2>1, <2>2 DEF UploadWrite
<1>10. CASE UploadSent
  <2> DEFINE y == upload.bytes + upload.n
  <2>1. upload \in Uploads /\ "read" \in UploadPcs /\ 0 \in Nat /\ y \in Nat
        /\ upload' = [upload EXCEPT !.pc = "read", !.n = 0, !.bytes = y]
    BY <1>10, Fields DEF IInv, Types, UploadPcs, UploadSent
  <2>2. y = up.read /\ (kind # "packets" => up.written = up.read)
    BY <1>10, Fields DEF IInv, UpInv, UploadSent
  <2> HIDE DEF y
  <2>3. upload' \in Uploads /\ upload'.pc = "read" /\ upload'.bytes = y
    BY <2>1, Zenon DEF Uploads
  <2> QED
    BY <1>6, <1>10, <2>2, <2>3 DEF UploadSent
<1>11. CASE UploadEof
  <2>1. CASE kind = "packets"
    <3>1. upload \in Uploads /\ "flush" \in UploadPcs /\ up.read \in Nat
          /\ upload' = [upload EXCEPT !.pc = "flush", !.upto = up.read]
      BY <1>11, <2>1, Fields DEF IInv, Types, UploadPcs, UploadEof
    <3>2. upload' \in Uploads /\ upload'.pc = "flush" /\ upload'.upto = up.read
          /\ upload'.bytes = upload.bytes
      BY <3>1, Zenon DEF Uploads
    <3>3. UpInv' /\ EndedInv'
      BY <1>1, <1>11, <2>1, <3>2 DEF IInv, UpInv, EndedInv, UploadEof
    <3> QED
      BY <1>4, <1>11, <2>1, <3>2, <3>3 DEF IInv, Types, UploadEof
  <2>2. CASE kind # "packets"
    BY <1>5, <1>11, <2>2 DEF IInv, UpInv, UploadEof
  <2> QED
    BY <2>1, <2>2
<1>12. CASE UploadFlushed
  <2>1. up.written = up.read
    BY <1>12, Fields DEF IInv, UpInv, UploadFlushed
  <2> QED
    BY <1>5, <1>12, <2>1 DEF UploadFlushed
<1>13. CASE UploadAborted
  BY <1>5, <1>13 DEF UploadAborted
<1> QED
  BY <1>7, <1>8, <1>9, <1>10, <1>11, <1>12, <1>13, SMTT(30) DEF Upload

-----------------------------------------------------------------------------
LEMMA DownloadStep ==
    ASSUME IInv, Download
    PROVE  IInv'
<1>1. main = "bridge" /\ UNCHANGED <<main, kind, upstream, up, upload, shared, closed>>
  BY Zenon DEF Download, DownloadRead, DownloadEof, DownloadWrite, DownloadWritten, ends
<1>2. closed.by = "none"
  BY <1>1 DEF IInv, MainInv
<1>3. UpInv' /\ EndedInv' /\ MainInv'
  BY <1>1, <1>2 DEF IInv, UpInv, EndedInv, MainInv, EofDeliversAll
<1>4. ASSUME down' \in Streams, download' \in Downloads, DownInv'
      PROVE  IInv'
  BY <1>1, <1>3, <1>4 DEF IInv, Types
<1>5. ASSUME NEW n \in 1..ReadMax, DownloadRead(n)
      PROVE  IInv'
  <2> DEFINE r == down.read + n
  <2>1. n \in Nat /\ n <= ReadMax /\ r \in Nat /\ down \in Streams /\ down' = [down EXCEPT !.read = r]
    BY <1>5, Fields DEF IInv, Types, DownloadRead
  <2>2. download \in Downloads /\ "write" \in DownloadPcs
        /\ download' = [download EXCEPT !.pc = "write", !.n = n]
    BY <1>5 DEF IInv, Types, DownloadPcs, DownloadRead
  <2>3. download' \in Downloads /\ download'.pc = "write" /\ download'.n = n
        /\ download'.bytes = download.bytes
    BY <2>1, <2>2, Zenon DEF Downloads
  <2>4. down.written = down.read /\ download.bytes = down.read
    BY <1>5 DEF IInv, DownInv, DownloadRead
  <2> HIDE DEF r
  <2>5. down' \in Streams /\ down'.read = r /\ down'.written = down.written
    BY <2>1, StreamRead
  <2>6. DownInv'
    BY <2>1, <2>3, <2>4, <2>5, Fields DEF IInv, DownInv, r
  <2> QED
    BY <1>4, <2>3, <2>5, <2>6
<1>6. ASSUME UNCHANGED down, download' = [download EXCEPT !.pc = "ended"],
             download.pc \in {"read", "write"}
      PROVE  IInv'
  <2>1. download \in Downloads /\ "ended" \in DownloadPcs
    BY DEF IInv, Types, DownloadPcs
  <2>2. download' \in Downloads /\ download'.pc = "ended" /\ download'.bytes = download.bytes
    BY <1>6, <2>1, DownloadPc
  <2>3. download.bytes <= down.written /\ down.written <= download.bytes + ReadMax
    BY <1>6, Fields DEF IInv, DownInv
  <2>4. DownInv'
    BY <1>6, <2>2, <2>3 DEF DownInv
  <2> QED
    BY <1>4, <1>6, <2>2, <2>4 DEF IInv, Types
<1>7. CASE DownloadEof
  BY <1>6, <1>7 DEF DownloadEof
<1>8. CASE DownloadWrite
  <2>1. CASE download' = [download EXCEPT !.pc = "ended"] /\ UNCHANGED down
    BY <1>6, <1>8, <2>1 DEF DownloadWrite
  <2>2. CASE down' = [down EXCEPT !.written = @ + 1] /\ UNCHANGED download
    <3> DEFINE w == down.written + 1
    <3>1. down \in Streams /\ w \in Nat /\ down' = [down EXCEPT !.written = w]
      BY <2>2, Fields DEF IInv, Types
    <3>2. download.pc = "write" /\ down.written < down.read
      BY <1>8 DEF DownloadWrite
    <3> HIDE DEF w
    <3>3. down' \in Streams /\ down'.read = down.read /\ down'.written = w
      BY <3>1, StreamWritten
    <3>4. DownInv'
      BY <2>2, <3>2, <3>3, Fields DEF IInv, DownInv, w
    <3> QED
      BY <1>4, <2>2, <3>3, <3>4 DEF IInv, Types
  <2> QED
    BY <1>8, <2>1, <2>2 DEF DownloadWrite
<1>9. CASE DownloadWritten
  <2> DEFINE y == download.bytes + download.n
  <2>1. download \in Downloads /\ "read" \in DownloadPcs /\ 0 \in Nat /\ y \in Nat
        /\ download' = [download EXCEPT !.pc = "read", !.n = 0, !.bytes = y]
    BY <1>9, Fields DEF IInv, Types, DownloadPcs, DownloadWritten
  <2>2. y = down.read /\ down.written = down.read /\ UNCHANGED down
    BY <1>9 DEF IInv, DownInv, DownloadWritten
  <2> HIDE DEF y
  <2>3. download' \in Downloads /\ download'.pc = "read" /\ download'.bytes = y
    BY <2>1, Zenon DEF Downloads
  <2>4. DownInv'
    BY <2>2, <2>3 DEF DownInv
  <2> QED
    BY <1>4, <2>2, <2>3, <2>4 DEF IInv, Types
<1> QED
  BY <1>5, <1>7, <1>8, <1>9, SMTT(30) DEF Download

(***************************************************************************)
(* join_bridge.                                                            *)
(***************************************************************************)
LEMMA JoinStep ==
    ASSUME IInv, Join
    PROVE  IInv'
<1>1. UNCHANGED <<kind, upstream, up, down, upload, download, shared>>
  BY DEF Join, JoinUpload, JoinDownload, JoinAborted, ends
<1>2. Types' /\ UpInv' /\ DownInv'
  BY <1>1 DEF IInv, Types, UpInv, DownInv
<1>3. main \in {"bridge", "aborting"} /\ main' \in {"aborting", "done"} /\ closed.by = "none"
  BY DEF Join, JoinUpload, JoinDownload, JoinAborted, Logged, IInv, MainInv
<1>4. EndedInv'
  BY <1>1, <1>3 DEF IInv, EndedInv
<1>5. MainInv'
  <2>1. CASE JoinDownload
    BY <1>3, <2>1 DEF JoinDownload, MainInv, EofDeliversAll
  <2>2. CASE JoinAborted
    BY <1>1, <2>2 DEF JoinAborted, Logged, MainInv, EofDeliversAll
  <2>3. CASE JoinUpload
    <3>1. upstream = "open" => up.written = up.read
      BY <2>3 DEF JoinUpload, IInv, EndedInv
    <3> QED
      BY <1>1, <2>3, <3>1 DEF JoinUpload, Logged, MainInv, EofDeliversAll
  <2> QED
    BY <2>1, <2>2, <2>3 DEF Join
<1> QED
  BY <1>2, <1>4, <1>5 DEF IInv

LEMMA NextIInv == IInv /\ [Next]_vars => IInv'
<1> SUFFICES ASSUME IInv, [Next]_vars PROVE IInv'
  OBVIOUS
<1>1. CASE UNCHANGED vars
  BY <1>1 DEF vars, IInv, Types, UpInv, EndedInv, DownInv, MainInv, EofDeliversAll
<1> QED
  BY <1>1, SetupStep, UploadStep, DownloadStep, JoinStep, EndsStep DEF Next

LEMMA Invariance == Spec => []IInv
BY InitIInv, NextIInv, PTL DEF Spec

(***************************************************************************)
(* The volume join_bridge logs is what the session carried, but for one    *)
(* read in each direction, however the session ends.                       *)
(***************************************************************************)
THEOREM LogMatchesStreamsHolds == Spec => []LogMatchesStreams
<1>1. IInv => LogMatchesStreams
  <2> SUFFICES ASSUME IInv, closed.by # "none"
               PROVE  /\ closed.up <= up.read /\ up.read - closed.up <= ReadMax
                      /\ kind # "packets" => closed.up <= up.written
                      /\ closed.down <= down.written /\ down.written - closed.down <= ReadMax
    BY DEF LogMatchesStreams
  <2>1. /\ upload.pc = "ended" /\ closed.up = upload.bytes /\ closed.down = download.bytes
    BY DEF IInv, MainInv, EndedInv
  <2>2. download.bytes <= down.written /\ down.written <= download.bytes + ReadMax
    <3>1. download.pc \in {"none", "read", "write", "ended"}
      BY Fields DEF IInv, DownloadPcs
    <3> QED
      BY <3>1, Fields DEF IInv, DownInv
  <2> QED
    BY <2>1, <2>2, Fields DEF IInv, EndedInv
<1> QED
  BY <1>1, Invariance, PTL

(***************************************************************************)
(* A session the client ends has passed on all it read, a packet that was  *)
(* held back included.                                                     *)
(***************************************************************************)
THEOREM EofDeliversAllHolds == Spec => []EofDeliversAll
<1>1. IInv => EofDeliversAll
  BY DEF IInv, MainInv
<1> QED
  BY <1>1, Invariance, PTL
=============================================================================
