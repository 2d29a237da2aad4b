----------------------------- MODULE MCFraming ------------------------------
(* A small instance of Framing for TLC. *)
EXTENDS Framing

(***************************************************************************)
(* Packets of one or two units, whose payload reads like headers; with the *)
(* quick ack bit, and with the extended header of the abridged transport.  *)
(***************************************************************************)
Packets(p) ==
    IF p = "Abridged"
    THEN {<<1, 0, 255, 1, 0>>, <<129, 255, 0, 0, 1>>, <<2, 1, 1, 1, 1, 0, 0, 0, 0>>,
          <<127, 1, 0, 0, 255, 1, 0, 0>>, <<255, 1, 0, 0, 0, 0, 0, 0>>}
    ELSE {<<1, 0, 0, 0, 0>>, <<1, 0, 0, 128, 1>>, <<2, 0, 0, 0, 0, 0>>, <<4, 0, 0, 0, 1, 0, 0, 0>>}

\* The last of three packets: a short header and a long one, or the quick ack bit.
LastPackets(p) ==
    IF p = "Abridged"
    THEN {<<2, 1, 1, 1, 1, 0, 0, 0, 0>>, <<127, 1, 0, 0, 255, 1, 0, 0>>}
    ELSE {<<1, 0, 0, 128, 1>>, <<2, 0, 0, 0, 0, 0>>}

\* Headers without a payload.
Empty(p) ==
    IF p = "Abridged" THEN {<<0>>, <<128>>, <<127, 0, 0, 0>>} ELSE {<<0, 0, 0, 0>>, <<0, 0, 0, 128>>}

\* A packet and part of another, or an empty one: records may fall anywhere.
FewStreams ==
    [p \in Protos |->
        IF p = "Abridged" THEN {<<1, 0, 255, 1, 0, 127, 1, 0, 0>>, <<1, 0, 255, 1, 0, 128, 1>>}
                          ELSE {<<1, 0, 0, 0, 0, 1, 0, 0, 128>>}]

SomeStreams ==
    [p \in Protos |->
        {a \o b \o c : a \in Packets(p), b \in Packets(p), c \in LastPackets(p)}
            \cup {a \o e \o <<1, 0, 0>> : a \in Packets(p), e \in Empty(p)}
            \cup FewStreams[p]]

\* The splitter's cases on the plain path, the records' on the others.
Sources ==
    [f \in Clients \cup Upstreams |-> IF f = "client" THEN SomeStreams ELSE FewStreams]

AllPaths ==
    {[from |-> "client", to |-> "packets"]}
        \cup [from : {"faketls client"}, to : {"packets", "records", "bytes"}]
        \cup [from : Upstreams, to : {"records", "bytes"}]

Init2 == <<9, 8>>
=============================================================================
