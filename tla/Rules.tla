------------------------------- MODULE Rules --------------------------------
(***************************************************************************)
(* Stage 4c: the rule table (core/rules/rules.yaml), its evaluation        *)
(* (engine.py), the compliance baselines (compliance.yaml, compliance.py)  *)
(* and the exposure score (core/exposure.py), over the sessions of Ikev1   *)
(* and Ikev2.  An eq, in or regex clause is the set of the values it       *)
(* matches, among the names Transforms can give.                           *)
(***************************************************************************)
EXTENDS Ikev1

In(field, values) == [field |-> field, op |-> "in", values |-> values]
Gt(field, value)  == [field |-> field, op |-> "gt", value |-> value]
NonEmpty(field)   == [field |-> field, op |-> "nonempty"]

Rule(id, severity, when) == [id |-> id, severity |-> severity, when |-> when]

WeakGroups == {"MODP768", "MODP1024", "MODP1536"}
V1  == In("version", {"IKEv1"})
Psk == In("auth_method", {"PSK"})
Aggressive == In("aggressive_mode", {TRUE})

RuleTable ==
    { Rule("R01", "CRITICAL", {In("encryption", {"DES-CBC", "DES-IV32", "DES-IV64", "NULL"})}),
      Rule("R02", "HIGH",     {In("encryption", {"3DES-CBC"})}),
      Rule("R03", "CRITICAL", {In("dh_group", {"MODP768"})}),
      Rule("R04", "CRITICAL", {In("dh_group", {"MODP1024"})}),
      Rule("R05", "HIGH",     {In("dh_group", {"MODP1536"})}),
      Rule("R06", "CRITICAL", {V1, Aggressive, Psk}),
      Rule("R07", "HIGH",     {V1}),
      Rule("R08", "CRITICAL", {In("integrity", {"HMAC-MD5"})}),
      Rule("R09", "HIGH",     {In("integrity", {"HMAC-SHA1"})}),
      Rule("R10", "MEDIUM",   {In("pfs_status", {"disabled"})}),
      Rule("R11", "MEDIUM",   {Gt("sa_lifetime_sec", 86400)}),
      Rule("R12", "LOW",      {Gt("sa_lifetime_sec", 28800)}),
      Rule("R13", "HIGH",     {Psk, In("dh_group", WeakGroups)}),
      Rule("R14", "HIGH",     {In("fragmented_ike", {TRUE}), In("vendor", {"Cisco"})}),
      Rule("R15", "HIGH",     {In("anti_replay", {FALSE})}),
      Rule("R16", "CRITICAL", {In("cert.expired", {TRUE})}),
      Rule("R17", "LOW",      {In("dpd_status", {"disabled"})}),
      Rule("R18", "LOW",      {V1, In("ip_version", {"IPv6"})}),
      Rule("R19", "MEDIUM",   {V1, Aggressive}),
      Rule("R20", "LOW",      {In("pqc_status", {"classical"})}),
      Rule("R21", "MEDIUM",   {NonEmpty("gateway_mismatches")}) }

Advisory == {"R20"}
SEVERITY_PENALTY == [CRITICAL |-> 40, HIGH |-> 20, MEDIUM |-> 10, LOW |-> 5]
SEVERITY_ORDER == <<"CRITICAL", "HIGH", "MEDIUM", "LOW", "SAFE">>

Resolve(ike, field) ==
    CASE field = "cert.expired" -> IF ike.cert = None THEN None ELSE ike.cert.expired
      [] field # "cert.expired" -> ike[field]

Holds(clause, ike) ==
    LET actual == Resolve(ike, clause.field)
    IN  CASE clause.op = "in" -> actual \in clause.values
          [] clause.op = "gt" -> actual # None /\ actual > clause.value
          [] clause.op = "nonempty" -> actual # {}

Matches(rule, ike) == \A c \in rule.when : Holds(c, ike)

\* Mutant of Finding: what was inferred is reported like what was seen.
FindingUnmarked(rule, ike) ==
    [rule_id |-> rule.id, severity |-> rule.severity, inferred_from |-> {}]

Finding(rule, ike) ==
    [rule_id |-> rule.id, severity |-> rule.severity,
     inferred_from |-> {c.field : c \in rule.when} \cap ike.inferred_fields]
-----------------------------------------------------------------------------
(* Compliance *)

SoundCurve == {"MODP3072", "MODP4096", "MODP6144", "MODP8192", "ECP256", "ECP384", "ECP521"} \cup MlKem
AesModes == {"-CBC", "-CTR", "-GCM", "-CCM"}
AesNames == {AES(bits, mode) : bits \in {128, 192, 256}, mode \in AesModes}
Aes256 == {AES(256, mode) : mode \in AesModes}

Baseline(id, violated_by, requires) ==
    [id |-> id, violated_by |-> violated_by, requires |-> requires]

Bsi == {"R01", "R02", "R03", "R04", "R05", "R06", "R07", "R08", "R09", "R10", "R11", "R13",
        "R15", "R16", "R19"}

Baselines ==
    { Baseline("NIST-800-77r1", Bsi \cup {"R21"}, {}),
      Baseline("NIST-800-131A", {"R01", "R02", "R03", "R04", "R05", "R08", "R16"}, {}),
      Baseline("BSI-TR-02102-3", Bsi, {In("encryption", AesNames), In("dh_group", SoundCurve)}),
      Baseline("CNSA-2.0", Bsi \cup {"R20"}, {In("encryption", Aes256)}),
      Baseline("CERT-IN", {"R01", "R02", "R03", "R04", "R06", "R08", "R14", "R16"}, {}),
      Baseline("TEC-ITSAR", {"R01", "R02", "R03", "R04", "R05", "R06", "R07", "R08", "R09",
                             "R15", "R16"}, {}) }

\* A requirement on a field the capture hid is not assessed, and fails nothing.
AssessBaseline(b, ike, fired) ==
    LET hidden == {c \in b.requires : Resolve(ike, c.field) \in {None, "unknown"}}
        failed == {c \in b.requires \ hidden : ~Holds(c, ike)}
        violations == (b.violated_by \cap fired) \cup {c.field : c \in failed}
    IN  [baseline_id |-> b.id, violations |-> violations,
         unassessed |-> {c.field : c \in hidden},
         status |-> CASE violations # {} -> "fail"
                      [] violations = {} /\ hidden # {} -> "not_assessed"
                      [] OTHER -> "pass"]
-----------------------------------------------------------------------------
(* Exposure; a confidence is in percent *)

LevelWeight == [High |-> 35, Med |-> 20, Low |-> 5]

TrafficLevel(prediction) ==
    CASE prediction.abstained \/ prediction.confidence < 50 -> "Low"
      [] ~prediction.abstained /\ prediction.confidence >= 80 -> "High"
      [] OTHER -> "Med"

Signals(s) ==
    LET Signal(name, level, seen) == IF seen THEN {[signal |-> name, level |-> level]} ELSE {}
        pred == s.traffic_prediction
        flowing == s.pkt_total > 0
        named == \/ s.ike.version = "IKEv1" /\ s.ike.aggressive_mode
                 \/ s.ike.cert # None /\ s.ike.cert.subject # ""
    IN  UNION { Signal("traffic_type", TrafficLevel(pred), flowing /\ pred.predicted_type # "Other"),
                Signal("identity", "High", named),
                Signal("implementation", "Med", s.ike.vendor # "unknown"),
                Signal("endpoints", "Low", s.initiator_ip # "" /\ s.responder_ip # ""),
                Signal("timing", "Low", flowing) }

WorstOf(levels, order) ==
    order[Min({k \in 1..Len(order) : order[k] \in levels})]

Exposure(s) ==
    LET signals == Signals(s)
        total == MapThenSumSet(LAMBDA x : LevelWeight[x.level], signals)
    IN  IF signals = {} THEN [score |-> 0, level |-> "Low", signals |-> {}]
        ELSE [score |-> Min({100, total}), signals |-> signals,
              level |-> WorstOf({x.level : x \in signals}, <<"High", "Med", "Low">>)]
-----------------------------------------------------------------------------
(* The assessment *)

Penalty(findings) == MapThenSumSet(LAMBDA f : SEVERITY_PENALTY[f.severity], findings)

RiskScore(findings) == IF Penalty(findings) > 100 THEN 0 ELSE 100 - Penalty(findings)

evaluate_rules(s) ==
    LET findings == {Finding(r, s.ike) : r \in {x \in RuleTable : Matches(x, s.ike)}}
        fired == {f.rule_id : f \in findings}
        scored == {f \in findings : f.rule_id \notin Advisory}
    IN  [findings |-> findings,
         risk_score |-> RiskScore(scored),
         overall_severity |-> IF scored = {} THEN "SAFE"
                              ELSE WorstOf({f.severity : f \in scored}, SEVERITY_ORDER),
         metadata_exposure |-> Exposure(s),
         compliance |-> {AssessBaseline(b, s.ike, fired) : b \in Baselines}]
=============================================================================
