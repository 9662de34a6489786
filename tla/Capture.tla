------------------------------ MODULE Capture -------------------------------
(***************************************************************************)
(* One read of a capture file (core/capture.py): which packets are IKE     *)
(* messages, which are ESP or AH, and which are neither.                   *)
(*                                                                         *)
(* A packet is what scapy shows of one: the IP version (None if it is not  *)
(* IP), the addresses, the protocol, and of its body how many bytes the    *)
(* capture kept, the SPI and sequence number that stand in them, and the   *)
(* IKE message they decode to.                                             *)
(***************************************************************************)
EXTENDS Naturals, Sequences, SequencesExt

CONSTANTS None,       \* Python's None
          Malformed,  \* what decode_message makes of bytes that are no IKE message
          Second(_)   \* the time at which the n-th packet was captured

\* SelectSeq and @@, by definitions that can be reasoned about.  Of a set of
\* positions: the k-th, and what seq has at each of them in turn.
Nth(places, k) == CHOOSE i \in places : Cardinality(places \cap 1..i) = k
Picked(seq, places) == [k \in 1..Cardinality(places) |-> seq[Nth(places, k)]]

Filter(seq, Test(_)) == Picked(seq, {i \in 1..Len(seq) : Test(seq[i])})

\* The record f, with the fields of g that it does not have.
Joined(f, g) ==
    [x \in DOMAIN f \cup DOMAIN g |-> IF x \in DOMAIN f THEN f[x] ELSE g[x]]

IKE_PORTS == {500, 4500}

\* ESP has its SPI at offset 0, AH after four bytes; a sequence number that the
\* capture cut off is not known, nor is an SPI.
spi_seq(p, proto) ==
    LET offset == IF proto = "AH" THEN 4 ELSE 0
    IN  [spi |-> IF p.bytes >= offset + 4 THEN p.spi ELSE None,
         seq |-> IF p.bytes >= offset + 8 THEN p.seq ELSE None]

EspFrame(p, proto, n) ==
    [kind |-> "esp", spi |-> spi_seq(p, proto).spi, seq |-> spi_seq(p, proto).seq,
     src |-> p.src, dst |-> p.dst, frame |-> n]

\* A frame also knows when it was captured: of ESP, the model needs no times.
IkeFrame(p, n) ==
    [kind |-> "ike", msg |-> p.msg, ip_version |-> p.ip, src |-> p.src, dst |-> p.dst,
     udp_port |-> IF 4500 \in p.ports THEN 4500 ELSE 500, time |-> Second(n), frame |-> n]

Skipped == [kind |-> "none"]

\* On UDP 4500 four zero bytes mark an IKE message; anything else is ESP, unless
\* it is too short to be, like the one byte of a NAT keepalive.
FrameOf(p, n) ==
    LET on_4500 == 4500 \in p.ports
    IN  CASE p.ip = None -> Skipped
          [] p.ip # None /\ p.proto \in {"ESP", "AH"} -> EspFrame(p, p.proto, n)
          [] p.ip # None /\ p.proto = "UDP" /\ p.ports \cap IKE_PORTS # {} /\ p.bytes > 0 ->
               IF on_4500 /\ ~p.marker
               THEN IF p.bytes >= 8 THEN EspFrame(p, "ESP", n) ELSE Skipped
               ELSE IF p.msg # Malformed /\ p.msg.version \in {"IKEv1", "IKEv2"}
                    THEN IkeFrame(p, n) ELSE Skipped
          [] OTHER -> Skipped

read_capture(packets) ==
    LET frames == [n \in 1..Len(packets) |-> FrameOf(packets[n], n)]
        Ike(f) == f.kind = "ike"
        Esp(f) == f.kind = "esp"
    IN  [ike |-> Filter(frames, Ike), esp |-> Filter(frames, Esp),
         packets_seen |-> Len(packets)]

PeersOf(e) == {e.src, e.dst}
=============================================================================
