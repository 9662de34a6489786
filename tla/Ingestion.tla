----------------------------- MODULE Ingestion ------------------------------
(***************************************************************************)
(* Stage 1 (core/ingestion/engine.py): the frames of a capture, put into   *)
(* one RawSession per IKE SA, each with the ESP of its peer pair.          *)
(***************************************************************************)
EXTENDS Capture

CONSTANT ZeroSpi    \* the responder SPI of a message that has none yet

\* Each of the keys once, where it is met for the first time: the order in which
\* a Python dict filled from a list has its keys, and the groups under these.
Uniques(keys) ==
    Picked(keys, {i \in 1..Len(keys) : \A j \in 1..(i - 1) : keys[j] # keys[i]})

Groups(seq, keys) ==
    LET dict == Uniques(keys)
    IN  [k \in 1..Len(dict) |-> Picked(seq, {i \in 1..Len(seq) : keys[i] = dict[k]})]

GroupBy(seq, Key(_)) == Groups(seq, [i \in 1..Len(seq) |-> Key(seq[i])])

First(seq, Test(_), default) ==
    LET found == {k \in 1..Len(seq) : Test(seq[k])}
    IN  IF found = {} THEN default ELSE seq[Min(found)]

\* The message that opens an SA: a request with message id 0.  Where the capture
\* has none, the first message there is.
Opener(frames) ==
    LET Opens(f) == ~f.msg.is_response /\ f.msg.message_id = 0
    IN  First(frames, Opens, frames[1])

ResponderSpi(frames) ==
    LET Answered(f) == f.msg.responder_spi # ZeroSpi
        f == First(frames, Answered, None)
    IN  IF f = None THEN ZeroSpi ELSE f.msg.responder_spi

InitiatorSpi(f) == f.msg.initiator_spi

\* The SAs of a capture, one for each initiator SPI, still without their ESP.
IkeSAs(ike) ==
    LET groups == GroupBy(ike, InitiatorSpi)
        SA(frames) == [spi |-> frames[1].msg.initiator_spi,
                       ike_version |-> frames[1].msg.version,
                       ip_version |-> frames[1].ip_version,
                       ike_frames |-> frames,
                       peers |-> PeersOf(Opener(frames))]
    IN  [k \in 1..Len(groups) |-> SA(groups[k])]

\* Mutant of nat_owner: the first pair that shares an endpoint is taken.
nat_owner_first(peers, pairs) ==
    LET Shares(pair) == pair \cap peers # {}
    IN  First(pairs, Shares, {})

\* NAT rewrites one side of a pair: ESP that matches no SA belongs to the only
\* pair it shares an endpoint with, and to none where several do.
nat_owner(peers, pairs) ==
    LET Shares(pair) == pair \cap peers # {}
        candidates == Filter(pairs, Shares)
    IN  IF Len(candidates) = 1 THEN candidates[1] ELSE {}

\* The peer pair whose SAs own the ESP frame e; {} if it is an orphan.
OwnerPair(e, sas) ==
    LET pairs == Uniques([k \in 1..Len(sas) |-> sas[k].peers])
    IN  IF PeersOf(e) \in ToSet(pairs) THEN PeersOf(e) ELSE nat_owner(PeersOf(e), pairs)

bucket(read) ==
    LET sas == IkeSAs(read.ike)
        Orphan(e) == OwnerPair(e, sas) = {}
        EspOf(s) == LET Mine(e) == OwnerPair(e, sas) = s.peers
                    IN  Filter(read.esp, Mine)
    IN  [sessions |-> [k \in 1..Len(sas) |->
                         [spi |-> sas[k].spi, ike_version |-> sas[k].ike_version,
                          ip_version |-> sas[k].ip_version, peers |-> sas[k].peers,
                          ike_frames |-> sas[k].ike_frames, esp_frames |-> EspOf(sas[k])]],
         orphan_esp |-> Filter(read.esp, Orphan),
         packets_seen |-> read.packets_seen]
=============================================================================
