--------------------------- MODULE StoredAnalysis ----------------------------
(***************************************************************************)
(* A job after its analysis: the rows the store keeps of it, the gateway    *)
(* output that operators attach to them (POST /jobs/{job_id}/gateway-state) *)
(* and what is reported of them.  A longer capture of the same live job     *)
(* replaces the rows, and with them what was attached.                      *)
(***************************************************************************)
EXTENDS AnalysisProperties, GatewayState, Reports

CONSTANTS Texts,              \* what an operator may paste
          MaxRecords,         \* bound: records attached to one analysis
          MaxImportPackets    \* bound: packets of a capture that has imports

IsList(seq) == seq \in Seq(ToSet(seq))

\* What the regular expressions of the parsers let through: the fields of a text that
\* become values of a record are values that such a field may have, or None.
ReadableText(text) ==
    LET Sas == ToSet(text.list_sas)
        Conns == ToSet(text.list_conns)
        Modes == GatewayValues["mode"] \cup {None}
    IN  /\ IsList(text.list_sas) /\ IsList(text.list_conns)
        /\ IsList(text.conf) /\ IsList(text.xfrm)
        /\ \A sa \in Sas :
             /\ sa.version \in GatewayValues["version"] /\ IsList(sa.children)
             /\ \A child \in ToSet(sa.children) : child.mode \in Modes
        /\ \A conn \in Conns :
             /\ conn.version \in GatewayValues["version"]
             /\ IsList(conn.remotes) /\ IsList(conn.children)
             /\ \A remote \in ToSet(conn.remotes) :
                  remote.auth \in GatewayValues["auth_method"] \cup {None}
             /\ \A child \in ToSet(conn.children) : child.mode \in Modes
        /\ \A line \in ToSet(text.conf) :
             line.key \in {"version", "mode"} => line.value \in GatewayValues[line.key]

ASSUME TextAssumption ==
    /\ \A field \in GatewayFields : None \notin GatewayValues[field]
    /\ \A text \in Texts : ReadableText(text)

VARIABLES stored,    \* the rows of the job
          imported   \* history: the records attached since the analysis

storedVars == <<vars, stored, imported>>

\* Rows are kept by session id: of two sessions with one id the later replaces.
Rows(sessions) ==
    {sessions[k] : k \in {i \in 1..Len(sessions) :
                            \A j \in i + 1..Len(sessions) :
                                sessions[j].session_id # sessions[i].session_id}}

Rescored(s) == [s EXCEPT !.security_assessment = evaluate_rules(s)]

StoredInit == Init /\ stored = Rows(report.sessions) /\ imported = <<>>

\* _publish_results: the analysis of the capture so far is saved under the job.
Analyse == /\ Next
           /\ stored' = Rows(report'.sessions)
           /\ imported' = <<>>

\* A text without any record is refused with 422.
ImportGatewayState(text) ==
    LET records == parse_gateway_state(text)
    IN  /\ records # <<>>
        /\ Len(capture) <= MaxImportPackets
        /\ Len(imported) + Len(records) <= MaxRecords
        /\ stored' = {Rescored(s) : s \in apply_gateway_state(stored, records)}
        /\ imported' = imported \o records
        /\ UNCHANGED vars

StoredNext == Analyse \/ \E text \in Texts : ImportGatewayState(text)
StoredSpec == StoredInit /\ [][StoredNext]_storedVars
-----------------------------------------------------------------------------
\* What the wire told of a session, by the analysis before any import.
Wire(s) == CHOOSE w \in Rows(report.sessions) : w.session_id = s.session_id
Shown(s, field) ==
    LET wire == Wire(s).ike IN ~Unknown(wire, field) /\ field \notin wire.inferred_fields

\* The records imported for a session, in their order, that speak of a field.
Speaking(s, field) ==
    LET Speaks(rec) == RecordMatches(s, rec) /\ field \in DOMAIN rec.values
    IN  Filter(imported, Speaks)

Filled(s, field, said) ==
    /\ s.ike[field] = said[1].values[field]
    /\ field \in s.ike.gateway_fields
    /\ field \notin s.ike.inferred_fields

Untouched(s, field) ==
    /\ s.ike[field] = Wire(s).ike[field]
    /\ field \notin s.ike.gateway_fields
    /\ field \in s.ike.inferred_fields <=> field \in Wire(s).ike.inferred_fields

\* However many outputs are attached, and in whatever order, a field says what the
\* wire showed; else what the first record that knew it said, marked as such and no
\* longer as a guess; else what it said before (apply_gateway_state).
WireThenGateway ==
    \A s \in stored : \A field \in GatewayFields :
        IF Shown(s, field) \/ Speaking(s, field) = <<>> THEN Untouched(s, field)
        ELSE Filled(s, field, Speaking(s, field))

\* Drift is reported, and R21 fires, exactly when some record contradicts what the
\* wire showed: two records that contradict each other are no drift.
DriftIsReported ==
    \A s \in stored :
        (\E f \in FindingsOf(s) : f.rule_id = "R21")
          <=> \E field \in GatewayFields :
                /\ Shown(s, field)
                /\ \E rec \in ToSet(Speaking(s, field)) : rec.values[field] # s.ike[field]

\* The job list, the report and the SIEM feed tell one story of the same rows: the
\* posture and the severities agree, every baseline accounts for every session, the
\* finding a report lists first is as severe as its verdict, a verdict of SAFE has
\* none but advisory ones, and every anomaly in the feed has the peers of a session.
OneStory ==
    LET summary == summarise(stored)
        job == JobSummary(stored)
        top == summary.top_findings
        verdict == overall_severity(stored)
    IN  /\ job.posture_score = summary.posture_score
        /\ job.severity_counts = summary.severity_counts
        /\ \A id \in DOMAIN summary.compliance :
             LET row == summary.compliance[id]
             IN  row.pass + row.fail + row.not_assessed = summary.session_count
        /\ IF verdict = "SAFE" THEN \A k \in 1..Len(top) : top[k].rule_id \in Advisory
           ELSE top[1].severity = verdict
        /\ \A line \in to_cef(stored, report.anomalies) : line.src # ""
=============================================================================
