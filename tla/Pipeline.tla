------------------------------ MODULE Pipeline -------------------------------
(***************************************************************************)
(* core/pipeline.py: one capture in, one assessed analysis out.  A live    *)
(* run analyses its capture again and again while it grows, an upload once *)
(* when it is complete; so here a capture grows by one packet per step,    *)
(* and each of its prefixes has its analysis.                              *)
(***************************************************************************)
EXTENDS Anomalies

CONSTANTS Alphabet,           \* the packets a capture is made of
          MaxPackets,         \* bound: packets in a capture
          PredictIke(_),      \* the trained models, which are external: a guess
          PredictMode(_, _, _),   \* at the suite and at the mode, or None,
          PredictTraffic(_)       \* and a traffic type for a flow

\* A name spells the number it stands for, and is never the word for what was not
\* observed.
Spelled(offer) == offer = Unset \/ "unknown" \notin {Encryption(offer), DhGroup(offer)}

\* Confidences are in percent.
ASSUME PipelineAssumption ==
    /\ MaxPackets \in Nat
    /\ None \notin BOOLEAN
    /\ \A rule \in RuleTable : \A c \in rule.when : c.op = "in" => None \notin c.values
    /\ ReplaySample \in Nat \ {0}
    /\ \A p \in Alphabet :
         /\ p.bytes \in Nat
         /\ p.msg = Malformed \/ p.msg.version # "IKEv2" \/ Spelled(OfferIn(p.msg))

\* A packet of IP shows its source.
ASSUME AddressAssumption == \A p \in Alphabet : p.ip # None => p.src # ""

VARIABLES capture,   \* the packets so far
          report     \* the Analysis of them

vars == <<capture, report>>

PROTOCOL_FALLBACK_MIN_CONFIDENCE == 60
MODE_MIN_CONFIDENCE == 70
-----------------------------------------------------------------------------
(* The flow of a session: the ESP SA with the most packets, the first of    *)
(* several; <<>> where there is no ESP                                      *)

BusiestFlow(esp) ==
    LET Spi(e) == e.spi
        flows == GroupBy(esp, Spi)
        Busiest(f) == \A k \in 1..Len(flows) : Len(flows[k]) <= Len(f)
    IN  First(flows, Busiest, <<>>)

\* Without a flow the features are zero and the prediction is its default.
Classify(session, flow) ==
    Joined(session,
           [pkt_total |-> Len(flow),
            traffic_prediction |->
              IF flow = <<>>
              THEN [predicted_type |-> "Other", confidence |-> 0, abstained |-> FALSE]
              ELSE PredictTraffic(flow)])

\* Stage 4a fills what is unknown, and says that it did.
Gaps(ike) == {f \in {"encryption", "dh_group"} : ike[f] = "unknown"}

FilledIke(ike, guess) ==
    [ike EXCEPT !.encryption = IF @ = "unknown" THEN guess.encryption ELSE @,
                !.dh_group = IF @ = "unknown" THEN guess.dh_group ELSE @,
                !.inferred_fields = @ \cup Gaps(ike),
                !.confidence_source = "classifier"]

FillFromStructure(session, raw) ==
    LET messages == [k \in 1..Len(raw.ike_frames) |-> raw.ike_frames[k].msg]
        Init(m) == m.exchange = "IKE_SA_INIT"
        guess == PredictIke(messages)
    IN  IF /\ Gaps(session.ike) # {} /\ Some(messages, Init)
           /\ guess # None /\ guess.confidence >= PROTOCOL_FALLBACK_MIN_CONFIDENCE
        THEN [session EXCEPT !.ike = FilledIke(@, guess)] ELSE session

InferredMode(ike, guess) ==
    [ike EXCEPT !.mode = guess.mode, !.inferred_fields = @ \cup {"mode"}]

InferMode(session, flow) ==
    LET guess == PredictMode(flow, session.ike.ip_version, session.ike.encryption)
    IN  IF \/ flow = <<>> \/ session.ike.mode # "unknown"
           \/ guess = None \/ guess.confidence < MODE_MIN_CONFIDENCE
        THEN session
        ELSE [session EXCEPT !.ike = InferredMode(@, guess)]

\* A record that IkeParams refuses raises, and _parse drops the SA.
Representable(sa) == IkeParamsOK(sa.session.ike)

Parse(raw) ==
    [raw |-> raw, flow |-> BusiestFlow(raw.esp_frames),
     session |-> IF raw.ike_version = "IKEv1" THEN ParseV1(raw) ELSE ParseV2(raw)]

Finish(sa) ==
    InferMode(Classify(FillFromStructure(sa.session, sa.raw), sa.flow), sa.flow)

FinishAll(sas) == [k \in 1..Len(sas) |-> Finish(sas[k])]

SessionsOf(raws) ==
    FinishAll(Filter([k \in 1..Len(raws) |-> Parse(raws[k])], Representable))

\* The record of ESP that no SA owns names twenty of its packets.
OrphanRecord(esp) ==
    [EspOnly(esp) EXCEPT
       !.session_id = <<"esp", IF esp[1].spi = None THEN 0 ELSE esp[1].spi>>,
       !.initiator_ip = esp[1].src, !.responder_ip = esp[1].dst,
       !.packet_refs = [k \in 1..Min({20, Len(esp)}) |-> esp[k].frame]]

\* One record for each peer pair.
OrphanSessions(orphans) ==
    LET groups == GroupBy(orphans, PeersOf)
    IN  [k \in 1..Len(groups) |-> Classify(OrphanRecord(groups[k]), BusiestFlow(groups[k]))]

SessionsIn(ingested) ==
    SessionsOf(ingested.sessions) \o OrphanSessions(ingested.orphan_esp)

Assess(session) == Joined(session, [security_assessment |-> evaluate_rules(session)])

\* The Analysis, given what the stages before it made of the capture.
Assembled(read, ingested, sessions) ==
    LET Incomplete(s) == ~s.ike.capture_complete
    IN  [sessions |-> [k \in 1..Len(sessions) |-> Assess(sessions[k])],
         anomalies |-> detect_anomalies(sessions),
         stats |-> [packets |-> read.packets_seen, ike_packets |-> Len(read.ike),
                    esp_packets |-> Len(read.esp), sessions |-> Len(sessions),
                    incomplete_sessions |-> Len(Filter(sessions, Incomplete)),
                    orphan_esp_packets |-> Len(ingested.orphan_esp)]]

\* A value that is used more than once is handed on as an argument: analyze_capture
\* has local variables for it.
AnalyseSAs(read, ingested) == Assembled(read, ingested, SessionsIn(ingested))

analyze_capture(packets) ==
    LET read == read_capture(packets) IN AnalyseSAs(read, bucket(read))
-----------------------------------------------------------------------------
Init == capture = <<>> /\ report = analyze_capture(<<>>)

Packet(p) == /\ Len(capture) < MaxPackets
             /\ capture' = Append(capture, p)
             /\ report' = analyze_capture(capture')

Next == \E p \in Alphabet : Packet(p)
Spec == Init /\ [][Next]_vars
=============================================================================
