----------------------------- MODULE Anomalies ------------------------------
(***************************************************************************)
(* The detectors that look across the sessions of a capture                *)
(* (core/anomalies.py).  The id of an event is a hash of its kind, its     *)
(* session, its evidence and its wording; here the event itself is its id, *)
(* and says holds what the wording is made of.                             *)
(***************************************************************************)
EXTENDS Rules

CONSTANTS TRANSFORM_BRUTEFORCE_THRESHOLD,   \* 4 in the code
          AGGRESSIVE_PROBE_THRESHOLD,       \* 3
          REKEY_STORM_THRESHOLD,            \* 4
          REKEY_STORM_WINDOW_SEC,           \* 60
          PublicIp                          \* the addresses that are not private

Event(kind, severity, session_id, evidence, says) ==
    [kind |-> kind, severity |-> severity, session_id |-> session_id,
     evidence |-> evidence, says |-> says]

EventOf(s, kind, severity, says) == Event(kind, severity, s.session_id, s.packet_refs, says)

Pair(s) == <<s.initiator_ip, s.responder_ip>>
Responder(s) == s.responder_ip
SessionId(s) == s.session_id

weak(s) == \/ s.ike.encryption \in {"DES-CBC", "DES-IV32", "DES-IV64", "3DES-CBC", "NULL"}
           \/ s.ike.dh_group \in WeakGroups

\* Mutant of observed: one half of the suite is enough.
half_observed(s) == {s.ike.encryption, s.ike.dh_group} # {"unknown"}

observed(s) == "unknown" \notin {s.ike.encryption, s.ike.dh_group}

detect_aggressive_mode_probe(sessions) ==
    LET Probes(s) == s.ike.version = "IKEv1" /\ s.ike.aggressive_mode
        groups == ToSet(GroupBy(Filter(sessions, Probes), Responder))
        Repeated(g) == Len(g) >= AGGRESSIVE_PROBE_THRESHOLD
        Of(g, s) == EventOf(s, "AGGRESSIVE_MODE_PROBE", IF Repeated(g) THEN "CRITICAL" ELSE "HIGH",
                            <<IF Repeated(g) THEN Len(g) ELSE 1, <<s.responder_ip>>>>)
    IN  UNION {{Of(g, s) : s \in ToSet(g)} : g \in groups}

detect_transform_bruteforce(sessions) ==
    LET Suites(g) == {<<s.ike.encryption, s.ike.integrity, s.ike.dh_group>> : s \in ToSet(g)}
        groups == {g \in ToSet(GroupBy(Filter(sessions, observed), Pair)) :
                     Cardinality(Suites(g)) >= TRANSFORM_BRUTEFORCE_THRESHOLD}
        Of(g, s) == EventOf(s, "TRANSFORM_BRUTEFORCE", "HIGH",
                            <<Cardinality(Suites(g)), Pair(s)>>)
    IN  UNION {{Of(g, s) : s \in ToSet(g)} : g \in groups}

detect_spi_collision(sessions) ==
    LET Pairs(g) == {Pair(s) : s \in ToSet(g)}
        Refs(g) == UNION {ToSet(s.packet_refs) : s \in ToSet(g)}
        groups == {g \in ToSet(GroupBy(sessions, SessionId)) : Cardinality(Pairs(g)) > 1}
    IN  {Event("SPI_COLLISION", "CRITICAL", g[1].session_id,
               SetToSortSeq(Refs(g), LAMBDA x, y : x < y), <<Cardinality(Pairs(g)), <<>>>>)
           : g \in groups}

detect_downgrade(sessions) ==
    LET Mixed(g) == {weak(s) : s \in ToSet(g)} = BOOLEAN
        groups == {g \in ToSet(GroupBy(Filter(sessions, observed), Pair)) : Mixed(g)}
        Of(s) == EventOf(s, "DOWNGRADE_SUSPECTED", "HIGH",
                         <<0, Pair(s) \o <<s.ike.encryption, s.ike.dh_group>>>>)
    IN  UNION {{Of(s) : s \in {x \in ToSet(g) : weak(x)}} : g \in groups}

detect_nat_t_unexpected(sessions) ==
    LET Odd(s) == s.ike.nat_traversal /\ s.initiator_ip \in PublicIp
    IN  {EventOf(s, "NAT_T_UNEXPECTED", "MEDIUM", <<0, <<s.initiator_ip>>>>)
           : s \in ToSet(Filter(sessions, Odd))}

detect_rekey_storm(sessions) ==
    LET Timed(s) == s.timestamp # None
        Times(g) == {s.timestamp : s \in ToSet(g)}
        Span(g) == Max(Times(g)) - Min(Times(g))
        groups == {g \in ToSet(GroupBy(Filter(sessions, Timed), Pair)) :
                     /\ Len(g) >= REKEY_STORM_THRESHOLD
                     /\ Span(g) <= REKEY_STORM_WINDOW_SEC}
        Of(g, s) == EventOf(s, "REKEY_STORM", "MEDIUM", <<Len(g), Pair(s) \o <<ToString(Span(g))>>>>)
    IN  UNION {{Of(g, s) : s \in ToSet(g)} : g \in groups}

detect_anomalies(sessions) ==
    UNION { detect_aggressive_mode_probe(sessions), detect_transform_bruteforce(sessions),
            detect_spi_collision(sessions), detect_downgrade(sessions),
            detect_nat_t_unexpected(sessions), detect_rekey_storm(sessions) }
=============================================================================
