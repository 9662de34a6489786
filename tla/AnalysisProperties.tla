-------------------------- MODULE AnalysisProperties -------------------------
(***************************************************************************)
(* What an analysis promises, as relations between the packets of a        *)
(* capture and the report that Pipeline makes of them.                     *)
(***************************************************************************)
EXTENDS Pipeline

Read == read_capture(capture)
Ingested == bucket(Read)

RawSas == ToSet(Ingested.sessions)
Sessions == ToSet(report.sessions)
IkeSessions == {s \in Sessions : s.session_id[1] = "ike"}
OrphanRecords == Sessions \ IkeSessions

Spi(s) == s.session_id[2]
FramesWith(spi) == LET Has1(f) == f.msg.initiator_spi = spi IN Filter(Read.ike, Has1)
MessagesWith(spi) == {f.msg : f \in ToSet(FramesWith(spi))}

Known(value) == value \notin {None, "unknown"}
Suite == {"encryption", "integrity", "prf", "dh_group", "auth_method"}

\* What one message by itself says of the suite of its SA.
ToldBy(m) ==
    LET offer == OfferIn(m)
        sa == SaOf(m).transform
        group == KeGroup(m)
        v1 == IF m.exchange = "QUICK" THEN ApplyQuickMode(Phase1Unread, sa, FALSE) ELSE ApplyPhase1Sa(sa)
    IN  IF m.version = "IKEv1"
        THEN IF HasV1(m, "SA") /\ sa # Malformed THEN {<<f, v1[f]>> : f \in Suite} ELSE {}
        ELSE {<<"dh_group", group>>, <<"auth_method", AuthOf(m)>>}
             \cup IF offer = Unset THEN {}
                  ELSE {<<"encryption", Encryption(offer)>>, <<"integrity", Integrity(offer)>>,
                        <<"prf", Prf(offer)>>, <<"dh_group", DhGroup(offer)>>}

Told(s) == UNION {ToldBy(m) : m \in MessagesWith(Spi(s))}
-----------------------------------------------------------------------------
(* What a proof asks of the packets and the classifiers, beyond                *)
(* PipelineAssumption.                                                         *)

\* A Quick Mode has a message id: zero is that of phase 1.
QuickModeIsNumbered ==
    \A p \in Alphabet : \/ p.msg = Malformed
                        \/ p.msg.exchange = "QUICK" => p.msg.message_id # 0

\* The classifiers that guess at a suite know only suites with names: the labels
\* they were trained on.
GuessesAreNames ==
    \A messages : LET guess == PredictIke(messages)
                  IN  guess # None => None \notin {guess.encryption, guess.dh_group}
-----------------------------------------------------------------------------
\* Every ESP packet is the data of the SAs between its own two peers; where there
\* are none, of the SAs of the only peer pair it shares an endpoint with (NAT);
\* and of no SA otherwise, when the orphan record of its peers names it, or names
\* twenty before it (bucket, nat_owner and _orphan_sessions).
Accounted ==
    LET raws == RawSas
        pairs == {raw.peers : raw \in raws}
        Sharing(e) == {pair \in pairs : pair \cap PeersOf(e) # {}}
        Owners(e) == IF PeersOf(e) \in pairs THEN {PeersOf(e)}
                     ELSE IF Cardinality(Sharing(e)) = 1 THEN Sharing(e) ELSE {}
        Names(s, e) == /\ {s.initiator_ip, s.responder_ip} = PeersOf(e)
                       /\ e.frame \in ToSet(s.packet_refs) \/ Len(s.packet_refs) = 20
    IN  \A e \in ToSet(Read.esp) :
            /\ \A raw \in raws : e \in ToSet(raw.esp_frames) <=> raw.peers \in Owners(e)
            /\ Owners(e) = {} <=> \E s \in OrphanRecords : Names(s, e)

\* A parser that is given the file, and groups its packets itself, has the same
\* attribution of ESP as Stage 1 (the comment on the loop in _groups).  It has not:
\* _groups takes the peers of an SA from the first frame of it, bucket from its opener.
SameAttribution ==
    ToSet(GroupsOfPath(Read))
        = {FramesCtx(raw.ike_frames, raw.esp_frames) : raw \in RawSas}

\* An SA whose opener, which may come late, is between other addresses than its first
\* frame: a peer got another address, and then the responder made its first request.
Moved(raw) == PeersOf(raw.ike_frames[1]) # raw.peers

\* Nothing but an SA that moved can make _groups and Stage 1 differ, in the addresses
\* or in the ESP of any SA.
SameUnlessMoved == (\E raw \in RawSas : Moved(raw)) \/ SameAttribution

\* Nothing the capture did not show is reported as seen: a field of the suite is
\* unknown, or told by a message of the SA, or marked as inferred
\* (mark_unobserved, _fill_from_structure).
ObservedOnly ==
    \A s \in IkeSessions :
        LET told == Told(s)
        IN  \A f \in Suite :
                Known(s.ike[f]) => <<f, s.ike[f]>> \in told \/ f \in s.ike.inferred_fields

\* A rule that fires about the suite of a session rests on a value that a message
\* of the session told, or says that it was inferred (evaluate_rules).
FindingsRest ==
    \A s \in Sessions :
        LET told == IF s.session_id[1] = "ike" THEN Told(s) ELSE {}
        IN  \A finding \in s.security_assessment.findings :
                \E rule \in RuleTable :
                    /\ rule.id = finding.rule_id
                    /\ \A c \in rule.when : c.field \in Suite =>
                         \/ c.field \in finding.inferred_from
                         \/ <<c.field, s.ike[c.field]>> \in told

\* When the responder's choice is in the capture, it is the suite of the SA,
\* wherever in the capture the requests are (_apply_ike_proposal).
AcceptedWins ==
    \A s \in IkeSessions :
        LET Chosen(f) == f.msg.version = "IKEv2" /\ f.msg.is_response /\ OfferIn(f.msg) # Unset
            k == SelectLastInSeq(FramesWith(Spi(s)), Chosen)
            choice == OfferIn(FramesWith(Spi(s))[k].msg)
        IN  s.ike.version = "IKEv2" /\ k # 0
              => /\ Encryption(choice) \in {Unset, s.ike.encryption}
                 /\ Integrity(choice) \in {Unset, s.ike.integrity}
                 /\ Prf(choice) \in {Unset, s.ike.prf}
                 /\ DhGroup(choice) \in {Unset, s.ike.dh_group}

\* The ESP of a session; a packet whose header is not cut off; and an ESP SA that sent
\* enough of esp, all of it under one number.
EspOf(s) == UNION {ToSet(raw.esp_frames) : raw \in {x \in RawSas : x.spi = Spi(s)}}
Numbered(e) == None \notin {e.spi, e.seq}

StuckAt(esp, e) ==
    LET sa == {d \in esp : d.spi = e.spi}
    IN  Cardinality(sa) >= ReplaySample /\ \A d \in sa : d.seq = e.seq

\* Where no ESP header of a session is cut off, anti-replay is called off exactly when
\* one ESP SA, and not several together, sent ReplaySample packets under one number
\* (anti_replay_from_esp).
ReplayVerdict ==
    \A s \in IkeSessions :
        (\A e \in EspOf(s) : Numbered(e))
          => (s.ike.anti_replay = FALSE <=> \E e \in EspOf(s) : StuckAt(EspOf(s), e))

\* Nothing unobserved is scored (the README): R15 fires only where some ESP SA showed
\* ReplaySample numbers, all the same.  In the code a number that was cut off is zero
\* (esp_records), and enough of those fire the rule.
ReplayIsSeen ==
    \A s \in IkeSessions :
        (\E finding \in s.security_assessment.findings : finding.rule_id = "R15")
          => LET seen == {e \in EspOf(s) : Numbered(e)} IN \E e \in seen : StuckAt(seen, e)

\* A downgrade is suspected of a session only beside another SA of the same two
\* peers whose whole suite is known and sound (detect_downgrade).
DowngradeWitness ==
    \A event \in report.anomalies : event.kind = "DOWNGRADE_SUSPECTED" =>
        \E s, t \in Sessions :
            /\ s.session_id = event.session_id /\ weak(s)
            /\ Pair(s) = Pair(t) /\ ~weak(t)
            /\ \A x \in {s, t} : Known(x.ike.encryption) /\ Known(x.ike.dh_group)
-----------------------------------------------------------------------------
Frame(packets, n) == FrameOf(packets[n], n)

\* Two packets of which neither belongs to the SA or to the peers of the other.
Strangers(f, g) ==
    CASE f.kind = "ike" /\ g.kind = "ike" -> f.msg.initiator_spi # g.msg.initiator_spi
      [] f.kind = "esp" /\ g.kind = "esp" -> PeersOf(f) # PeersOf(g)
      [] OTHER -> TRUE

Swapped(packets) ==
    LET n == Len(packets)
    IN  [packets EXCEPT ![n - 1] = packets[n], ![n] = packets[n - 1]]

\* The sessions without what counts packets: frame numbers and times.
Undated(sessions) ==
    {[session_id |-> s.session_id, initiator_ip |-> s.initiator_ip,
      responder_ip |-> s.responder_ip, ike |-> s.ike, pkt_total |-> s.pkt_total] :
        s \in ToSet(sessions)}

\* Nothing in a session depends on how its packets are mixed with those of others:
\* the last two packets of a capture, if strangers, could have come in the other
\* order (bucket groups the whole capture before anything is decided).
OrderIrrelevant ==
    LET n == Len(capture)
    IN  n >= 2 /\ Strangers(Frame(capture, n), Frame(capture, n - 1))
          => Undated(report.sessions)
               = Undated(SessionsIn(bucket(read_capture(Swapped(capture)))))

Verdicts == Suite \cup {"pfs_status", "mode"}
Firm(s) == {f \in Verdicts \ s.ike.inferred_fields : Known(s.ike[f])}

Same(s, t) == s \in IkeSessions /\ t.session_id[1] = "ike" /\ Spi(s) = Spi(t)

NewFrame == Frame(capture', Len(capture'))

\* More of a capture never takes back what was read in less of it: a field that
\* was known stays known, PFS once seen stays seen, and an SA leaves the report
\* only through a message of its own that cannot be represented.
KnownStaysKnownStep ==
    \A s \in IkeSessions :
        \/ NewFrame.kind = "ike" /\ NewFrame.msg.initiator_spi = Spi(s)
           /\ ~\E t \in ToSet(report'.sessions) : Same(s, t)
        \/ \E t \in ToSet(report'.sessions) :
             /\ Same(s, t) /\ Firm(s) \subseteq Firm(t)
             /\ s.ike.pfs_status = "enabled" => t.ike.pfs_status = "enabled"

KnownStaysKnown == [][KnownStaysKnownStep]_vars

\* A retransmission is no news: a message that repeats the last one of its SA
\* changes nothing of what is known of the SA (AggressiveMode by the identity in
\* the opening message, never by a number of messages).
RetransmissionTellsNothingStep ==
    \A s \in IkeSessions :
        LET frames == FramesWith(Spi(s))
            again == NewFrame.kind = "ike" /\ NewFrame.msg = Last(frames).msg
        IN  again => \E t \in ToSet(report'.sessions) :
                        /\ Same(s, t)
                        /\ s.ike.aggressive_mode = t.ike.aggressive_mode
                        /\ \A f \in Verdicts \cup {"dpd_status", "vendor", "fragmented_ike"} :
                             \/ f \in s.ike.inferred_fields \cup t.ike.inferred_fields
                             \/ s.ike[f] = t.ike[f]

RetransmissionTellsNothing == [][RetransmissionTellsNothingStep]_vars
=============================================================================
