------------------------------- MODULE Ikev2 --------------------------------
(***************************************************************************)
(* Stage 2 for IKEv2 (core/ike_parser/ikev2.py), with what it shares with  *)
(* the IKEv1 parser.  The code walks the messages of an SA and writes what *)
(* it finds into a dict; here each field is stated by itself, as the last  *)
(* (or the first) message that writes it.                                  *)
(*                                                                         *)
(* A payload is a record of its type and of what _wire decoded of it.  A   *)
(* vendor id knows which vendor it names and whether it announces DPD, a   *)
(* certificate is what _parse_x509 makes of it, an SK payload has in inner *)
(* the payloads that could be read in it, or None.                         *)
(***************************************************************************)
EXTENDS Ingestion, FiniteSetsExt, TLC

CONSTANTS Unset,            \* a key that is not in the dict
          ReplaySample      \* ESP packets that decide about anti-replay: 4 in the code

INSTANCE Transforms

\* What is left of a key of the dict that these values are written to in turn, and
\* of one that is written once.
LastSet(values) ==
    LET set == {k \in 1..Len(values) : values[k] # Unset}
    IN  IF set = {} THEN Unset ELSE values[Max(set)]

FirstSet(values) ==
    LET set == {k \in 1..Len(values) : values[k] # Unset}
    IN  IF set = {} THEN Unset ELSE values[Min(set)]

\* The value of the last member of seq for which F has one.
LastOf(seq, F(_)) == LastSet([k \in 1..Len(seq) |-> F(seq[k])])
FirstOf(seq, F(_)) == FirstSet([k \in 1..Len(seq) |-> F(seq[k])])

Default(value, default) == IF value = Unset THEN default ELSE value
Some(seq, Test(_)) == \E k \in 1..Len(seq) : Test(seq[k])
-----------------------------------------------------------------------------
(* Messages *)

all_payloads(msg) ==
    LET Readable(p) == IF p.type = "SK" /\ p.inner # None THEN <<p>> \o p.inner ELSE <<p>>
    IN  FlattenSeq([k \in 1..Len(msg.payloads) |-> Readable(msg.payloads[k])])

Has(msg, type) == LET Is(p) == p.type = type IN Some(all_payloads(msg), Is)
FirstPayload(msg, type) == LET Is(p) == p.type = type IN First(all_payloads(msg), Is, None)

Notifies(msg, notify) ==
    LET Is(p) == p.type = "NOTIFY" /\ p.notify_type = notify IN Some(all_payloads(msg), Is)

FirstTransform(proposal, type) ==
    LET Is(t) == t.type = type IN First(proposal.transforms, Is, None)

has_dh(proposal) ==
    LET t == FirstTransform(proposal, "DH") IN t # None /\ t.id # 0
-----------------------------------------------------------------------------
(* The context of an SA: what its packets say besides the messages *)

EspRecords(esp) ==
    LET Record(e) == <<IF e.spi = None THEN 0 ELSE e.spi, IF e.seq = None THEN 0 ELSE e.seq>>
    IN  [k \in 1..Len(esp) |-> Record(esp[k])]

FramesCtx(frames, esp) ==
    LET opener == Opener(frames)
        On4500(f) == f.udp_port = 4500
    IN  [ip_version |-> frames[1].ip_version,
         initiator_ip |-> opener.src,
         responder_ip |-> opener.dst,
         esp_records |-> EspRecords(esp),
         nat_traversal |-> Some(frames, On4500),
         times |-> {frames[k].time : k \in 1..Len(frames)},
         ike_frames |-> [k \in 1..Len(frames) |-> frames[k].frame]]

\* Mutant of GroupsOfPath: ESP is matched by its peers alone, NAT or not.
GroupsOfPathDirect(read) ==
    LET groups == GroupBy(read.ike, InitiatorSpi)
        EspOf(k) == LET Mine(e) == PeersOf(e) = PeersOf(groups[k][1])
                    IN  Filter(read.esp, Mine)
    IN  [k \in 1..Len(groups) |-> FramesCtx(groups[k], EspOf(k))]

\* What _groups makes of a path: the parser, called without Stage 1, groups the
\* messages and attributes their ESP itself.
GroupsOfPath(read) ==
    LET groups == GroupBy(read.ike, InitiatorSpi)
        pairs == [k \in 1..Len(groups) |-> [peers |-> PeersOf(groups[k][1])]]
        EspOf(k) == LET Mine(e) == OwnerPair(e, pairs) = pairs[k].peers
                    IN  Filter(read.esp, Mine)
    IN  [k \in 1..Len(groups) |-> FramesCtx(groups[k], EspOf(k))]

\* Mutant of anti_replay_from_esp: the packets of all SPIs are taken together.
anti_replay_of_all(records) ==
    IF Len(records) < ReplaySample THEN None
    ELSE Cardinality({r[2] : r \in ToSet(records)}) > 1

\* FALSE when an ESP SA never advances its sequence number, None when no SA has
\* enough packets to tell.
anti_replay_from_esp(records) ==
    LET Spi(r) == r[1]
        sas == GroupBy(records, Spi)
        decided == {k \in 1..Len(sas) : Len(sas[k]) >= ReplaySample}
        Stuck(sa) == Cardinality({r[2] : r \in ToSet(sa)}) = 1
    IN  IF decided = {} THEN None ELSE \A k \in decided : ~Stuck(sas[k])

FragmentTypes == {"SKF", "FRAGMENT"}

\* The fields of apply_edge_cases.  A complete IKEv1 handshake that never
\* announced DPD has it disabled.
EdgeCases(messages, ctx, version, complete) ==
    LET payloads == FlattenSeq([k \in 1..Len(messages) |-> all_payloads(messages[k])])
        Vendor(p) == IF p.type = "VENDOR_ID" /\ p.vendor # None THEN p.vendor ELSE Unset
        Cert(p) == IF p.type = "CERT" /\ p.cert # None THEN p.cert ELSE Unset
        AnnouncesDpd(p) == p.type = "VENDOR_ID" /\ p.dpd
        Fragments(m) == \E k \in 1..Len(m.payloads) : m.payloads[k].type \in FragmentTypes
        KeepsAlive(m) == m.version = "IKEv2" /\ m.exchange = "INFORMATIONAL" /\ m.payloads = <<>>
    IN  [vendor |-> Default(FirstOf(payloads, Vendor), "unknown"),
         fragmented_ike |-> Some(messages, Fragments),
         anti_replay |-> anti_replay_from_esp(ctx.esp_records),
         dpd_status |-> IF Some(payloads, AnnouncesDpd) \/ Some(messages, KeepsAlive)
                        THEN "enabled"
                        ELSE IF complete /\ version = "IKEv1" THEN "disabled" ELSE "unknown",
         cert |-> Default(FirstOf(payloads, Cert), None)]
-----------------------------------------------------------------------------
(* IKE_SA_INIT: the accepted suite *)

\* The proposals of a message that _apply_ike_proposal may be given.
OfferIn(m) ==
    LET sa == FirstPayload(m, "SA")
    IN  IF m.exchange = "IKE_SA_INIT" /\ sa # None /\ sa.proposals # <<>>
        THEN sa.proposals[1] ELSE Unset

\* Mutant of AppliedProposals: a request that is seen late overrides the answer.
AppliedAsTheyCome(messages) ==
    LET Offers(k) == OfferIn(messages[k]) # Unset
        applied == Filter([k \in 1..Len(messages) |-> k], Offers)
    IN  [k \in 1..Len(applied) |-> OfferIn(messages[applied[k]])]

\* Responses are always applied, requests until a response has been.
AppliedProposals(messages) ==
    LET Answers(k) == messages[k].is_response /\ OfferIn(messages[k]) # Unset
        Applied(k) == /\ OfferIn(messages[k]) # Unset
                      /\ Answers(k) \/ \A j \in 1..(k - 1) : ~Answers(j)
        applied == Filter([k \in 1..Len(messages) |-> k], Applied)
    IN  [k \in 1..Len(applied) |-> OfferIn(messages[applied[k]])]

Encryption(p) ==
    LET t == FirstTransform(p, "ENCR")
    IN  IF t = None THEN Unset ELSE canon_encryption(t.id, t.key_length)

Integrity(p) ==
    LET encr == FirstTransform(p, "ENCR")
        t == FirstTransform(p, "INTEG")
        name == canon_integrity(IF t = None THEN None ELSE t.id,
                                encr # None /\ is_aead_encr(encr.id))
    IN  IF name = None THEN Unset ELSE name

Prf(p) == LET t == FirstTransform(p, "PRF") IN IF t = None THEN Unset ELSE canon_prf(t.id)

DhGroup(p) == IF has_dh(p) THEN canon_dh_group(FirstTransform(p, "DH").id) ELSE Unset

AddKe(p) ==
    LET Is(t) == t.type = "ADDKE" /\ t.id # 0
        found == Filter(p.transforms, Is)
    IN  Uniques([k \in 1..Len(found) |-> canon_dh_group(found[k].id)])

KeGroup(m) ==
    LET ke == FirstPayload(m, "KE")
    IN  IF m.exchange = "IKE_SA_INIT" /\ ke # None /\ ke.dh_group # None
        THEN canon_dh_group(ke.dh_group) ELSE Unset
-----------------------------------------------------------------------------
(* IKE_AUTH and CREATE_CHILD_SA: authentication, mode, PFS *)

\* Mutant of AuthOf: an IKE_AUTH that cannot be read erases what an earlier one said.
AuthOfAny(m) ==
    LET auth == FirstPayload(m, "AUTH")
    IN  IF m.exchange = "IKE_AUTH"
        THEN canon_auth_method(IF auth = None THEN None ELSE auth.auth_method, Has(m, "EAP"))
        ELSE Unset

AuthOf(m) ==
    LET auth == FirstPayload(m, "AUTH")
        method == canon_auth_method(IF auth = None THEN None ELSE auth.auth_method, Has(m, "EAP"))
    IN  IF m.exchange = "IKE_AUTH" /\ (auth # None \/ Has(m, "EAP")) /\ method # None
        THEN method ELSE Unset

ChildSaPayload(m) ==
    LET Is(p) == p.type = "SA" /\ p.proposals # <<>> /\ p.proposals[1].protocol_id \in {"ESP", "AH"}
    IN  First(all_payloads(m), Is, None)

PfsStatus(messages, complete) ==
    LET Child(m, exchange) == m.exchange = exchange /\ ChildSaPayload(m) # None
        Rekey(m) == Child(m, "CREATE_CHILD_SA")
        Auth(m) == Child(m, "IKE_AUTH")
        NewKey(m) == /\ Rekey(m) \/ Auth(m)
                     /\ Has(m, "KE") \/ has_dh(ChildSaPayload(m).proposals[1])
        judged == Some(messages, Rekey) \/ (complete /\ Some(messages, Auth))
    IN  CASE Some(messages, NewKey) -> "enabled"
          [] ~Some(messages, NewKey) /\ judged -> "disabled"
          [] OTHER -> "unknown"

ModeOf(messages) ==
    LET Auth(m) == m.exchange = "IKE_AUTH"
        Transport(m) == Auth(m) /\ Notifies(m, "USE_TRANSPORT_MODE")
        Readable(m) == Auth(m) /\ (Has(m, "AUTH") \/ Has(m, "EAP") \/ ChildSaPayload(m) # None)
    IN  CASE Some(messages, Transport) -> "transport"
          [] ~Some(messages, Transport) /\ Some(messages, Readable) -> "tunnel"
          [] OTHER -> "unknown"
-----------------------------------------------------------------------------
(* The record of an SA *)

\* Mutant of mark_unobserved: the defaults of IkeParams stand in.
leave_unobserved(ike) ==
    [ike EXCEPT !.encryption = Default(@, "AES-256-GCM"), !.integrity = Default(@, "implicit"),
                !.prf = Default(@, "PRF_HMAC_SHA2_256"), !.dh_group = Default(@, "ECP256"),
                !.auth_method = Default(@, "RSA")]

\* A field the capture never revealed is unknown, never the default of the model.
mark_unobserved(ike) ==
    [ike EXCEPT !.encryption = Default(@, "unknown"), !.integrity = Default(@, "unknown"),
                !.prf = Default(@, "unknown"), !.dh_group = Default(@, "unknown"),
                !.auth_method = Default(@, None)]

\* What pydantic demands of the fields when IkeParams is built.
IkeParamsOK(ike) ==
    /\ None \notin {ike.encryption, ike.integrity, ike.prf, ike.dh_group}
    /\ ike.auth_method \in {None, "PSK", "RSA", "DSS", "ECDSA", "EAP", "XAUTH"}

\* The fields that only later stages and the gateway import write.
Fresh == [inferred_fields |-> {}, confidence_source |-> "parser", gateway_fields |-> {},
          gateway_mismatches |-> {}]

SessionOf(spi, messages, ctx, ike) ==
    LET Responder(m) == IF m.responder_spi = ZeroSpi THEN Unset ELSE m.responder_spi
    IN  [session_id |-> <<"ike", spi, Default(FirstOf(messages, Responder), ZeroSpi)>>,
         initiator_ip |-> ctx.initiator_ip, responder_ip |-> ctx.responder_ip,
         ike |-> Joined(ike, Fresh),
         packet_refs |-> ctx.ike_frames,
         timestamp |-> IF ctx.times = {} THEN None ELSE Min(ctx.times)]

\* Whether the handshake is in the capture, given what of it was applied.
CompleteV2(messages, applied) ==
    LET Init(m) == m.exchange = "IKE_SA_INIT"
        Answered(m) == m.is_response /\ OfferIn(m) # Unset
    IN  \/ Some(messages, Answered)
        \/ Some(messages, Init) /\ LastOf(applied, Encryption) # Unset

WithPqc(ike) ==
    Joined(ike, [pqc_status |-> pqc_status(ike.dh_group, ike.additional_key_exchanges)])

\* The fields of an SA, given the proposals applied and if its handshake is complete.
FieldsV2(messages, ctx, applied, complete) ==
    [version |-> "IKEv2", aggressive_mode |-> FALSE,
     ip_version |-> ctx.ip_version, nat_traversal |-> ctx.nat_traversal,
     encryption |-> LastOf(applied, Encryption),
     integrity |-> LastOf(applied, Integrity),
     prf |-> LastOf(applied, Prf),
     dh_group |-> Default(LastOf(applied, DhGroup), FirstOf(messages, KeGroup)),
     additional_key_exchanges |-> IF applied = <<>> THEN <<>> ELSE AddKe(Last(applied)),
     auth_method |-> LastOf(messages, AuthOf),
     mode |-> ModeOf(messages),
     sa_lifetime_sec |-> None,
     capture_complete |-> complete,
     pfs_status |-> PfsStatus(messages, complete)]

AnalyseApplied(messages, ctx, applied, complete) ==
    SessionOf(messages[1].initiator_spi, messages, ctx,
              Joined(WithPqc(mark_unobserved(FieldsV2(messages, ctx, applied, complete))),
                     EdgeCases(messages, ctx, "IKEv2", complete)))

AnalyseV2(messages, ctx) ==
    LET applied == AppliedProposals(messages)
    IN  AnalyseApplied(messages, ctx, applied, CompleteV2(messages, applied))

\* A mid-session capture: ESP without any handshake.
EspOnly(esp) ==
    [session_id |-> <<"esp-only">>, initiator_ip |-> "", responder_ip |-> "",
     ike |-> Joined(
             [version |-> "IKEv2", aggressive_mode |-> FALSE, ip_version |-> "IPv4",
              nat_traversal |-> FALSE, encryption |-> "unknown", integrity |-> "unknown",
              prf |-> "unknown", dh_group |-> "unknown", additional_key_exchanges |-> <<>>,
              auth_method |-> None, mode |-> "unknown", sa_lifetime_sec |-> None,
              capture_complete |-> FALSE, pfs_status |-> "unknown", pqc_status |-> "unknown",
              vendor |-> "unknown", fragmented_ike |-> FALSE,
              anti_replay |-> anti_replay_from_esp(EspRecords(esp)),
              dpd_status |-> "unknown", cert |-> None], Fresh),
     packet_refs |-> <<>>, timestamp |-> None]

MessagesOf(frames, version) ==
    LET messages == [k \in 1..Len(frames) |-> frames[k].msg]
        Is(m) == m.version = version
    IN  Filter(messages, Is)

ParseV2(raw) ==
    AnalyseV2(MessagesOf(raw.ike_frames, "IKEv2"), FramesCtx(raw.ike_frames, raw.esp_frames))
=============================================================================
