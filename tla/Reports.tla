------------------------------- MODULE Reports -------------------------------
(***************************************************************************)
(* The numbers a reader sees of a job: the roll-ups of a report             *)
(* (reporting/aggregate.py), its verdict (reporting/render.py), the feed    *)
(* for a SIEM (reporting/export.py), and the summary the job list computes  *)
(* from the columns of the sessions table (api/store.py, _summary).         *)
(* Sessions are the rows of one job: no two have the same id.               *)
(***************************************************************************)
EXTENDS Rules

Severity(s) == s.security_assessment.overall_severity
Score(s) == s.security_assessment.risk_score
FindingsOf(s) == s.security_assessment.findings

\* round(sum / n), which takes a half to the even neighbour.
Rounded(sum, n) ==
    LET low == sum \div n
        half == 2 * (sum % n)
    IN  IF half > n \/ (half = n /\ low % 2 = 1) THEN low + 1 ELSE low
-----------------------------------------------------------------------------
(* reporting/aggregate.py *)

posture_score(sessions) ==
    IF sessions = {} THEN 100
    ELSE Rounded(MapThenSumSet(Score, sessions), Cardinality(sessions))

severity_counts(sessions) ==
    [sev \in ToSet(SEVERITY_ORDER) |-> Cardinality({s \in sessions : Severity(s) = sev})]

SeverityIndex(sev) == CHOOSE k \in 1..Len(SEVERITY_ORDER) : SEVERITY_ORDER[k] = sev

\* One entry for each rule that fired, with the sessions it fired on.
FindingEntries(sessions) ==
    LET fired == UNION {FindingsOf(s) : s \in sessions}
        On(id) == {s \in sessions : \E f \in FindingsOf(s) : f.rule_id = id}
    IN  {[rule_id |-> f.rule_id, severity |-> f.severity, session_count |-> Cardinality(On(f.rule_id))]
           : f \in fired}

\* Mutant of RanksBefore: the most frequent first.
RanksByCount(d, e) ==
    \/ d.session_count > e.session_count
    \/ d.session_count = e.session_count /\ SeverityIndex(d.severity) < SeverityIndex(e.severity)

RanksBefore(d, e) ==
    \/ SeverityIndex(d.severity) < SeverityIndex(e.severity)
    \/ d.severity = e.severity /\ d.session_count > e.session_count

Worst(entries) == CHOOSE e \in entries : \A d \in entries : ~RanksBefore(d, e)

\* The three that rank first.
top_findings(sessions) ==
    LET entries == FindingEntries(sessions)
        WithNext(top) == LET rest == entries \ ToSet(top)
                         IN  IF rest = {} THEN top ELSE Append(top, Worst(rest))
    IN  WithNext(WithNext(WithNext(<<>>)))

\* A session whose peers carried no ESP was never classified.
classified(sessions) == {s \in sessions : s.pkt_total > 0}

traffic_mix(sessions) ==
    LET Type(s) == s.traffic_prediction.predicted_type
    IN  [t \in {Type(s) : s \in classified(sessions)} |->
           Cardinality({s \in classified(sessions) : Type(s) = t})]

compliance(sessions) ==
    LET Of(s, id) == CHOOSE c \in s.security_assessment.compliance : c.baseline_id = id
        Count(id, status) == Cardinality({s \in sessions : Of(s, id).status = status})
    IN  [id \in {c.baseline_id : c \in UNION {s.security_assessment.compliance : s \in sessions}} |->
           [pass |-> Count(id, "pass"), fail |-> Count(id, "fail"),
            not_assessed |-> Count(id, "not_assessed")]]

pqc_readiness(sessions) ==
    [status \in {s.ike.pqc_status : s \in sessions} |->
       Cardinality({s \in sessions : s.ike.pqc_status = status})]

metadata_exposure(sessions) ==
    LET Exposed(s) == s.security_assessment.metadata_exposure
        Points(s) == Exposed(s).score
        Leaks(s) == {x.signal : x \in {y \in Exposed(s).signals : y.level \in {"High", "Med"}}}
    IN  IF sessions = {} THEN [mean_score |-> 0, levels |-> <<>>, signals |-> <<>>]
        ELSE [mean_score |-> Rounded(MapThenSumSet(Points, sessions), Cardinality(sessions)),
              levels |-> [l \in {Exposed(s).level : s \in sessions} |->
                            Cardinality({s \in sessions : Exposed(s).level = l})],
              signals |-> [x \in UNION {Leaks(s) : s \in sessions} |->
                             Cardinality({s \in sessions : x \in Leaks(s)})]]

summarise(sessions) ==
    [session_count |-> Cardinality(sessions), posture_score |-> posture_score(sessions),
     severity_counts |-> severity_counts(sessions), top_findings |-> top_findings(sessions),
     traffic_mix |-> traffic_mix(sessions), classified_count |-> Cardinality(classified(sessions)),
     metadata_exposure |-> metadata_exposure(sessions), compliance |-> compliance(sessions),
     pqc_readiness |-> pqc_readiness(sessions),
     abstained_count |-> Cardinality({s \in classified(sessions) : s.traffic_prediction.abstained})]

\* The verdict of the executive report.
overall_severity(sessions) ==
    IF sessions = {} THEN "SAFE" ELSE WorstOf({Severity(s) : s \in sessions}, SEVERITY_ORDER)
-----------------------------------------------------------------------------
(* reporting/export.py: a line for each finding, for each session without    *)
(* one, and for each anomaly, which names the peers of its session.          *)

CefSession(s) ==
    LET Line(signature) == [signature |-> signature, session_id |-> s.session_id,
                            src |-> s.initiator_ip, dst |-> s.responder_ip]
    IN  IF FindingsOf(s) = {} THEN {Line("VS-CLEAN")}
        ELSE {Line(f.rule_id) : f \in FindingsOf(s)}

CefAnomaly(event, sessions) ==
    LET own == {s \in sessions : s.session_id = event.session_id}
        Peer(s) == <<s.initiator_ip, s.responder_ip>>
        peers == IF own = {} THEN <<"", "">> ELSE Peer(CHOOSE s \in own : TRUE)
    IN  [signature |-> event.kind, session_id |-> event.session_id,
         src |-> peers[1], dst |-> peers[2]]

to_cef(sessions, anomalies) ==
    (UNION {CefSession(s) : s \in sessions}) \cup {CefAnomaly(e, sessions) : e \in anomalies}
-----------------------------------------------------------------------------
(* api/store.py: the summary of a job, grouped by severity in SQL            *)

JobSummary(sessions) ==
    LET groups == {Severity(s) : s \in sessions}
        InGroup(sev) == {s \in sessions : Severity(s) = sev}
        Sum(sev) == MapThenSumSet(Score, InGroup(sev))
        total == MapThenSumSet(LAMBDA sev : Cardinality(InGroup(sev)), groups)
    IN  [session_count |-> total,
         severity_counts |-> [sev \in ToSet(SEVERITY_ORDER) |-> Cardinality(InGroup(sev))],
         posture_score |-> IF total = 0 THEN 100 ELSE Rounded(MapThenSumSet(Sum, groups), total)]
=============================================================================
