----------------------------- MODULE StoredProofs -----------------------------
(***************************************************************************)
(* What is stored of an analysis, for any capture and any gateway output:   *)
(* the gateway fills only what the wire hid, drift is what it contradicts,  *)
(* and the reports of what is stored agree with each other.                 *)
(***************************************************************************)
EXTENDS AnalysisProofs

(* Records applied in turn *)

\* What one record leaves of the parameters of a session.
OneRecord(s, rec, ike) == IF RecordMatches(s, rec) THEN ApplyRecord(ike, rec) ELSE ike

IsRun(s, records, n, run) ==
    run = [k \in 0..n |-> IF k = 0 THEN s.ike ELSE OneRecord(s, records[k], run[k - 1])]

\* The records are applied one after the other, the first to what the session had.
LEMMA AppliedInTurn ==
    ASSUME NEW s, NEW records, Len(records) \in Nat
    PROVE  /\ IkeAfter(s, records)[0] = s.ike
           /\ \A k \in 1..Len(records) :
                IkeAfter(s, records)[k] = OneRecord(s, records[k], IkeAfter(s, records)[k - 1])
<1> DEFINE n == Len(records)
           bad == {m \in 1..n : ~ \E run : IsRun(s, records, m, run)}
<1>1. \E run : IsRun(s, records, 0, run)
  <2> DEFINE run == [k \in 0..0 |-> s.ike]
  <2>1. IsRun(s, records, 0, run)
    BY DEF IsRun
  <2> QED
    BY <2>1
<1>2. ASSUME NEW m \in 1..n, NEW before, IsRun(s, records, m - 1, before)
      PROVE  \E run : IsRun(s, records, m, run)
  <2> DEFINE run == [k \in 0..m |-> IF k = m THEN OneRecord(s, records[m], before[m - 1])
                                    ELSE before[k]]
  <2>1. \A k \in 0..m - 1 : run[k] = before[k]
    OBVIOUS
  <2>2. \A k \in 0..m - 1 : before[k] = IF k = 0 THEN s.ike ELSE OneRecord(s, records[k], before[k - 1])
    BY <1>2 DEF IsRun
  <2>3. \A k \in 0..m : run[k] = IF k = 0 THEN s.ike ELSE OneRecord(s, records[k], run[k - 1])
    <3> SUFFICES ASSUME NEW k \in 0..m
                 PROVE  run[k] = IF k = 0 THEN s.ike ELSE OneRecord(s, records[k], run[k - 1])
      OBVIOUS
    <3>1. CASE k = m
      <4>1. run[k] = OneRecord(s, records[m], before[m - 1]) /\ m # 0 /\ m - 1 \in 0..m - 1
        BY <3>1
      <4> HIDE DEF run
      <4> QED
        BY <2>1, <3>1, <4>1
    <3>2. CASE k # m
      <4>1. k \in 0..m - 1 /\ (k # 0 => k - 1 \in 0..m - 1)
        BY <3>2
      <4> HIDE DEF run
      <4> QED
        BY <2>1, <2>2, <4>1
    <3> QED
      BY <3>1, <3>2
  <2>4. run = [k \in 0..m |-> run[k]]
    OBVIOUS
  <2> HIDE DEF run
  <2>5. IsRun(s, records, m, run)
    BY <2>3, <2>4 DEF IsRun
  <2> QED
    BY <2>5
<1>3. bad = {}
  <2> SUFFICES ASSUME bad # {} PROVE FALSE
    OBVIOUS
  <2>1. bad \in SUBSET (1..n)
    OBVIOUS
  <2>2. PICK m \in bad : \A i \in bad : m <= i
    BY <2>1, LeastOf
  <2>3. m \in 1..n /\ ~ \E run : IsRun(s, records, m, run)
    BY <2>2
  <2>4. m - 1 \notin bad
    BY <2>2, <2>3
  <2>5. \E run : IsRun(s, records, m - 1, run)
    BY <1>1, <2>3, <2>4
  <2> QED
    BY <1>2, <2>3, <2>5
<1>4. \E run : IsRun(s, records, n, run)
  <2>1. n = 0 \/ n \in 1..n
    OBVIOUS
  <2> QED
    BY <1>1, <1>3, <2>1
<1>5. IsRun(s, records, n, IkeAfter(s, records))
  BY <1>4, Zenon DEF IkeAfter, IsRun, OneRecord
<1> DEFINE after == IkeAfter(s, records)
<1> HIDE DEF after
<1>6. after = [k \in 0..n |-> IF k = 0 THEN s.ike ELSE OneRecord(s, records[k], after[k - 1])]
  BY <1>5 DEF IsRun, after
<1>7. after[0] = s.ike
  BY <1>6
<1>8. \A k \in 1..n : after[k] = OneRecord(s, records[k], after[k - 1])
  BY <1>6
<1> QED
  BY <1>7, <1>8 DEF after
-----------------------------------------------------------------------------
(* What the records told so far *)

Speaks(w, rec, f) == RecordMatches(w, rec) /\ f \in DOMAIN rec.values

IsValues(values) ==
    /\ DOMAIN values \subseteq GatewayFields
    /\ \A f \in DOMAIN values : values[f] \in GatewayValues[f]

IsRecord(rec) == IsValues(rec.values)

\* The capture showed a field of the session w.
ShownIn(w, f) == ~Unknown(w.ike, f) /\ f \notin w.ike.inferred_fields

\* After the first n records: a field is as the capture left it, or as the first
\* record that speaks of it says.
AsLeft(w, ike, f) ==
    /\ ike[f] = w.ike[f]
    /\ f \notin ike.gateway_fields
    /\ f \in ike.inferred_fields <=> f \in w.ike.inferred_fields

AsSaid(ike, rec, f) ==
    /\ ike[f] = rec.values[f]
    /\ f \in ike.gateway_fields
    /\ f \notin ike.inferred_fields

FieldTold(w, ike, records, n, f) ==
    IF ShownIn(w, f) \/ ~ \E k \in 1..n : Speaks(w, records[k], f) THEN AsLeft(w, ike, f)
    ELSE \E k \in 1..n : /\ Speaks(w, records[k], f)
                         /\ \A j \in 1..k - 1 : ~Speaks(w, records[j], f)
                         /\ AsSaid(ike, records[k], f)

Contradicts(w, rec, f) == ShownIn(w, f) /\ Speaks(w, rec, f) /\ rec.values[f] # w.ike[f]

DriftTold(w, ike, records, n) ==
    ike.gateway_mismatches # {}
      <=> \E k \in 1..n : \E f \in GatewayFields : Contradicts(w, records[k], f)

IkeKeys == GatewayFields \cup {"inferred_fields", "gateway_fields", "gateway_mismatches"}

AllTold(w, ike, records, n) ==
    /\ IkeKeys \subseteq DOMAIN ike
    /\ \A f \in GatewayFields : FieldTold(w, ike, records, n, f)
    /\ DriftTold(w, ike, records, n)

\* The fields a record may speak of, which are none of the bookkeeping.
LEMMA FieldsAre ==
    /\ GatewayFields = {"version", "mode", "pfs_status", "auth_method", "anti_replay"}
    /\ "inferred_fields" \notin GatewayFields /\ "gateway_fields" \notin GatewayFields
    /\ "gateway_mismatches" \notin GatewayFields
BY DEF GatewayFields, GatewayValues

\* A value that a record has is never one that means it is not known.
LEMMA ValuesAreKnown ==
    ASSUME TextAssumption, NEW rec, IsRecord(rec), NEW f \in DOMAIN rec.values
    PROVE  rec.values[f] # None /\ (f # "anti_replay" => rec.values[f] # "unknown")
<1>1. f \in GatewayFields /\ rec.values[f] \in GatewayValues[f]
  BY DEF IsRecord, IsValues
<1>2. rec.values[f] # None
  BY <1>1, TextAssumption
<1>3. ASSUME f # "anti_replay" PROVE "unknown" \notin GatewayValues[f]
  BY <1>1, <1>3, FieldsAre DEF GatewayValues
<1> QED
  BY <1>1, <1>2, <1>3

\* What a matching record changes, field by field.
LEMMA RecordApplied ==
    ASSUME NEW ike, IkeKeys \subseteq DOMAIN ike, NEW rec, DOMAIN rec.values \subseteq GatewayFields
    PROVE  LET out == ApplyRecord(ike, rec)
           IN  /\ IkeKeys \subseteq DOMAIN out
               /\ \A f \in GatewayFields :
                    /\ out[f] = IF f \in DOMAIN rec.values /\ Unobserved(ike, f)
                                THEN rec.values[f] ELSE ike[f]
                    /\ f \in out.inferred_fields <=>
                         /\ f \in ike.inferred_fields
                         /\ ~(f \in DOMAIN rec.values /\ Unobserved(ike, f))
                    /\ f \in out.gateway_fields <=>
                         \/ f \in ike.gateway_fields
                         \/ f \in DOMAIN rec.values /\ Unobserved(ike, f)
               /\ out.gateway_mismatches # {}
                    <=> ike.gateway_mismatches # {} \/ Drift(ike, rec) # {}
<1> DEFINE filled == {n \in DOMAIN rec.values : Unobserved(ike, n)}
           notes == {<<n, ike[n], rec.source, rec.values[n]>> : n \in Drift(ike, rec)}
           base == [n \in DOMAIN ike |-> IF n \in filled THEN rec.values[n] ELSE ike[n]]
           out == ApplyRecord(ike, rec)
<1>1. out = [base EXCEPT !.inferred_fields = @ \ filled,
                         !.gateway_fields = @ \cup filled,
                         !.gateway_mismatches = @ \cup notes]
  BY DEF ApplyRecord
<1>2. filled \subseteq GatewayFields
  OBVIOUS
<1>3. notes # {} <=> Drift(ike, rec) # {}
  OBVIOUS
<1>4. \A f : f \in filled <=> f \in DOMAIN rec.values /\ Unobserved(ike, f)
  OBVIOUS
<1> HIDE DEF filled, notes
<1>5. /\ DOMAIN base = DOMAIN ike
      /\ \A f \in DOMAIN ike : base[f] = IF f \in filled THEN rec.values[f] ELSE ike[f]
  OBVIOUS
<1>6. /\ base.inferred_fields = ike.inferred_fields
      /\ base.gateway_fields = ike.gateway_fields
      /\ base.gateway_mismatches = ike.gateway_mismatches
  BY <1>2, <1>5, FieldsAre DEF IkeKeys
<1> HIDE DEF base, out
<1>7. DOMAIN out = DOMAIN base
  BY <1>1, Zenon
<1>8. out.inferred_fields = base.inferred_fields \ filled
  BY <1>1, <1>5 DEF IkeKeys
<1>9. out.gateway_fields = base.gateway_fields \cup filled
  BY <1>1, <1>5 DEF IkeKeys
<1>10. out.gateway_mismatches = base.gateway_mismatches \cup notes
  BY <1>1, <1>5 DEF IkeKeys
<1>11. \A f \in GatewayFields : out[f] = base[f]
  BY <1>1, <1>5, FieldsAre DEF IkeKeys
<1> QED
  BY <1>3, <1>4, <1>5, <1>6, <1>7, <1>8, <1>9, <1>10, <1>11 DEF IkeKeys, out

\* A record told of after the first n leaves what they told, and tells the rest.
LEMMA FieldStep ==
    ASSUME TextAssumption, NEW w, NEW ike, NEW records, NEW n \in Nat,
           AllTold(w, ike, records, n), \A k \in 1..n + 1 : IsRecord(records[k]),
           RecordMatches(w, records[n + 1]), NEW f \in GatewayFields
    PROVE  LET rec == records[n + 1]
           IN  /\ FieldTold(w, ApplyRecord(ike, rec), records, n + 1, f)
               /\ f \in Drift(ike, rec) <=> Contradicts(w, rec, f)
<1> DEFINE rec == records[n + 1]
           out == ApplyRecord(ike, rec)
<1>1. n + 1 \in 1..n + 1 /\ 1..n \subseteq 1..n + 1 /\ n + 1 - 1 = n
  OBVIOUS
<1>2. IsRecord(rec) /\ RecordMatches(w, rec)
  BY <1>1
<1>3. IkeKeys \subseteq DOMAIN ike /\ FieldTold(w, ike, records, n, f)
  BY DEF AllTold
<1> HIDE DEF rec, out
<1>4. /\ out[f] = IF f \in DOMAIN rec.values /\ Unobserved(ike, f)
                  THEN rec.values[f] ELSE ike[f]
      /\ f \in out.inferred_fields <=>
           f \in ike.inferred_fields /\ ~(f \in DOMAIN rec.values /\ Unobserved(ike, f))
      /\ f \in out.gateway_fields <=>
           f \in ike.gateway_fields \/ (f \in DOMAIN rec.values /\ Unobserved(ike, f))
  BY <1>2, <1>3, RecordApplied DEF IsRecord, IsValues, out
<1>5. Speaks(w, rec, f) <=> f \in DOMAIN rec.values
  BY <1>2 DEF Speaks
<1>6. f \in Drift(ike, rec) <=> /\ f \in DOMAIN rec.values /\ f \notin ike.gateway_fields
                               /\ ~Unobserved(ike, f) /\ ike[f] # rec.values[f]
  BY DEF Drift
<1>7. CASE ShownIn(w, f)
  <2>1. AsLeft(w, ike, f)
    BY <1>3, <1>7 DEF FieldTold
  <2>2. ~Unobserved(ike, f)
    BY <1>7, <2>1 DEF AsLeft, ShownIn, Unobserved, Unknown
  <2>3. AsLeft(w, out, f)
    BY <1>4, <2>1, <2>2 DEF AsLeft
  <2>4. FieldTold(w, out, records, n + 1, f)
    BY <1>7, <2>3 DEF FieldTold
  <2>5. f \in Drift(ike, rec) <=> Contradicts(w, rec, f)
    BY <1>5, <1>6, <1>7, <2>1, <2>2 DEF AsLeft, Contradicts
  <2> QED
    BY <2>4, <2>5 DEF out, rec
<1>8. CASE ~ShownIn(w, f) /\ ~ \E k \in 1..n : Speaks(w, records[k], f)
  <2>1. AsLeft(w, ike, f)
    BY <1>3, <1>8 DEF FieldTold
  <2>2. Unobserved(ike, f)
    BY <1>8, <2>1 DEF AsLeft, ShownIn, Unobserved, Unknown
  <2>3. f \notin Drift(ike, rec) /\ ~Contradicts(w, rec, f)
    BY <1>6, <1>8, <2>2 DEF Contradicts
  <2>4. CASE f \in DOMAIN rec.values
    <3>1. AsSaid(out, rec, f)
      BY <1>4, <2>2, <2>4 DEF AsSaid
    <3>2. Speaks(w, records[n + 1], f) /\ AsSaid(out, records[n + 1], f)
      BY <1>5, <2>4, <3>1 DEF rec
    <3>3. FieldTold(w, out, records, n + 1, f)
      BY <1>1, <1>8, <3>2 DEF FieldTold
    <3> QED
      BY <2>3, <3>3 DEF out, rec
  <2>5. CASE f \notin DOMAIN rec.values
    <3>1. AsLeft(w, out, f)
      BY <1>4, <2>1, <2>5 DEF AsLeft
    <3>2. ~Speaks(w, records[n + 1], f)
      BY <1>5, <2>5 DEF rec
    <3>3. \A k \in 1..n + 1 : k \in 1..n \/ k = n + 1
      OBVIOUS
    <3>4. ~ \E k \in 1..n + 1 : Speaks(w, records[k], f)
      BY <1>8, <3>2, <3>3
    <3>5. FieldTold(w, out, records, n + 1, f)
      BY <3>1, <3>4 DEF FieldTold
    <3> QED
      BY <2>3, <3>5 DEF out, rec
  <2> QED
    BY <2>4, <2>5
<1>9. CASE ~ShownIn(w, f) /\ \E k \in 1..n : Speaks(w, records[k], f)
  <2>1. PICK k \in 1..n : /\ Speaks(w, records[k], f)
                          /\ \A j \in 1..k - 1 : ~Speaks(w, records[j], f)
                          /\ AsSaid(ike, records[k], f)
    BY <1>3, <1>9 DEF FieldTold
  <2>2. k \in 1..n + 1 /\ IsRecord(records[k]) /\ f \in DOMAIN records[k].values
    BY <1>1, <2>1 DEF Speaks
  <2>3. records[k].values[f] # None /\ (f # "anti_replay" => records[k].values[f] # "unknown")
    BY <2>2, ValuesAreKnown
  <2>4. ~Unobserved(ike, f)
    BY <2>1, <2>3 DEF AsSaid, Unobserved, Unknown
  <2>5. AsSaid(out, records[k], f)
    BY <1>4, <2>1, <2>4 DEF AsSaid
  <2>6. f \notin Drift(ike, rec) /\ ~Contradicts(w, rec, f)
    BY <1>6, <1>9, <2>1 DEF AsSaid, Contradicts
  <2>7. FieldTold(w, out, records, n + 1, f)
    BY <1>9, <2>1, <2>2, <2>5 DEF FieldTold
  <2> QED
    BY <2>6, <2>7 DEF out, rec
<1> QED
  BY <1>7, <1>8, <1>9

\* One more record: what all of them told.
LEMMA RecordStep ==
    ASSUME TextAssumption, NEW w, NEW ike, NEW records, NEW n \in Nat,
           AllTold(w, ike, records, n), \A k \in 1..n + 1 : IsRecord(records[k])
    PROVE  AllTold(w, OneRecord(w, records[n + 1], ike), records, n + 1)
<1> DEFINE rec == records[n + 1]
           out == ApplyRecord(ike, rec)
<1>1. n + 1 \in 1..n + 1 /\ \A k \in 1..n + 1 : k \in 1..n \/ k = n + 1
  OBVIOUS
<1>2. IkeKeys \subseteq DOMAIN ike /\ DriftTold(w, ike, records, n) /\ IsRecord(rec)
  BY <1>1 DEF AllTold
<1>3. CASE ~RecordMatches(w, rec)
  <2>1. OneRecord(w, rec, ike) = ike
    BY <1>3 DEF OneRecord
  <2>2. \A f : ~Speaks(w, records[n + 1], f)
    BY <1>3 DEF Speaks
  <2>3. ASSUME NEW f \in GatewayFields PROVE FieldTold(w, ike, records, n + 1, f)
    <3>1. FieldTold(w, ike, records, n, f)
      BY DEF AllTold
    <3>2. (\E k \in 1..n + 1 : Speaks(w, records[k], f)) <=> \E k \in 1..n : Speaks(w, records[k], f)
      BY <1>1, <2>2
    <3>3. 1..n \subseteq 1..n + 1
      OBVIOUS
    <3> QED
      BY <3>1, <3>2, <3>3 DEF FieldTold
  <2>4. \A f \in GatewayFields : ~Contradicts(w, records[n + 1], f)
    BY <2>2 DEF Contradicts
  <2>5. DriftTold(w, ike, records, n + 1)
    BY <1>1, <1>2, <2>4 DEF DriftTold
  <2> QED
    BY <1>2, <2>1, <2>3, <2>5 DEF AllTold
<1>4. CASE RecordMatches(w, rec)
  <2>1. OneRecord(w, rec, ike) = out
    BY <1>4 DEF OneRecord
  <2>2. \A f \in GatewayFields : /\ FieldTold(w, out, records, n + 1, f)
                                 /\ f \in Drift(ike, rec) <=> Contradicts(w, rec, f)
    BY <1>4, FieldStep
  <2>3. DOMAIN rec.values \subseteq GatewayFields
    BY <1>2 DEF IsRecord, IsValues
  <2>4. /\ IkeKeys \subseteq DOMAIN out
        /\ out.gateway_mismatches # {} <=> ike.gateway_mismatches # {} \/ Drift(ike, rec) # {}
    BY <1>2, <2>3, RecordApplied
  <2>5. Drift(ike, rec) \subseteq GatewayFields
    BY <2>3 DEF Drift
  <2> HIDE DEF out, rec
  <2>6. Drift(ike, rec) # {} <=> \E f \in GatewayFields : Contradicts(w, rec, f)
    BY <2>2, <2>5
  <2>7. DriftTold(w, out, records, n + 1)
    BY <1>1, <1>2, <2>4, <2>6 DEF DriftTold, rec
  <2>8. AllTold(w, out, records, n + 1)
    BY <2>2, <2>4, <2>7 DEF AllTold
  <2> QED
    BY <2>1, <2>8 DEF rec
<1> QED
  BY <1>3, <1>4

\* A list of records that say what a record may say.
Records(list) ==
    /\ Len(list) \in Nat
    /\ list \in Seq(ToSet(list))
    /\ \A k \in 1..Len(list) : IsRecord(list[k])

\* Two such lists, the one after the other, are one.
LEMMA RecordsJoin ==
    ASSUME NEW a, Records(a), NEW b, Records(b)
    PROVE  /\ Records(a \o b)
           /\ Len(a \o b) = Len(a) + Len(b)
           /\ \A k \in 1..Len(a) : (a \o b)[k] = a[k]
           /\ \A k \in 1..Len(b) : (a \o b)[Len(a) + k] = b[k]
<1> DEFINE S == ToSet(a) \cup ToSet(b)
           all == a \o b
<1>1. a \in Seq(S) /\ b \in Seq(S)
  <2>1. \A T : a \in Seq(T) /\ T \subseteq S => a \in Seq(S)
    BY DEF Records
  <2>2. \A T : b \in Seq(T) /\ T \subseteq S => b \in Seq(S)
    BY DEF Records
  <2> QED
    BY <2>1, <2>2 DEF Records
<1>2. /\ all \in Seq(S) /\ Len(all) = Len(a) + Len(b) /\ Len(a) \in Nat /\ Len(b) \in Nat
      /\ \A k \in 1..Len(a) : all[k] = a[k]
      /\ \A k \in 1..Len(b) : all[Len(a) + k] = b[k]
  <2> HIDE DEF S
  <2> QED
    BY <1>1
<1> HIDE DEF all
<1>3. all \in Seq(ToSet(all))
  <2>1. \A k \in 1..Len(all) : all[k] \in ToSet(all)
    BY <1>2 DEF ToSet
  <2> HIDE DEF S
  <2>2. all = [k \in 1..Len(all) |-> all[k]] /\ Len(all) \in Nat
    BY <1>2
  <2> QED
    BY <2>1, <2>2
<1>4. ASSUME NEW k \in 1..Len(all) PROVE IsRecord(all[k])
  <2>1. CASE k \in 1..Len(a)
    BY <1>2, <2>1 DEF Records
  <2>2. CASE k \notin 1..Len(a)
    <3>1. k - Len(a) \in 1..Len(b) /\ k = Len(a) + (k - Len(a))
      BY <1>2, <2>2
    <3>2. all[k] = b[k - Len(a)]
      BY <1>2, <3>1
    <3> QED
      BY <3>1, <3>2 DEF Records
  <2> QED
    BY <2>1, <2>2
<1>5. Records(all)
  BY <1>2, <1>3, <1>4 DEF Records
<1> QED
  BY <1>2, <1>5 DEF all

SameIds(s, w) ==
    s.session_id = w.session_id /\ s.initiator_ip = w.initiator_ip
    /\ s.responder_ip = w.responder_ip

\* An import tells a session what its records say after those before them.
LEMMA ImportTells ==
    ASSUME TextAssumption, NEW w, NEW s, SameIds(s, w), NEW before, Records(before),
           NEW records, Records(records), AllTold(w, s.ike, before, Len(before))
    PROVE  LET all == before \o records
           IN  AllTold(w, IkeAfter(s, records)[Len(records)], all, Len(all))
<1> DEFINE all == before \o records
           n == Len(before)
           ike == IkeAfter(s, records)
           Good(k) == AllTold(w, ike[k], all, n + k)
           bad == {k \in 1..Len(records) : ~Good(k)}
<1>1. /\ Records(all) /\ Len(all) = n + Len(records)
      /\ \A k \in 1..n : all[k] = before[k]
      /\ \A k \in 1..Len(records) : all[n + k] = records[k]
  BY RecordsJoin
<1>2. n \in Nat /\ Len(records) \in Nat
  BY DEF Records
<1>3. /\ ike[0] = s.ike
      /\ \A k \in 1..Len(records) : ike[k] = OneRecord(s, records[k], ike[k - 1])
  BY <1>2, AppliedInTurn
<1> HIDE DEF all, n, ike
<1>4. \A rec : RecordMatches(s, rec) <=> RecordMatches(w, rec)
  BY DEF SameIds, RecordMatches
<1>5. \A k \in 1..Len(records) : ike[k] = OneRecord(w, all[n + k], ike[k - 1])
  BY <1>1, <1>3, <1>4 DEF OneRecord
<1>6. Good(0)
  <2>1. ASSUME NEW f \in GatewayFields PROVE FieldTold(w, s.ike, all, n, f)
    <3>1. FieldTold(w, s.ike, before, n, f)
      BY DEF AllTold, n
    <3>2. \A k \in 1..n : all[k] = before[k] /\ \A j \in 1..k - 1 : all[j] = before[j]
      <4>1. \A k \in 1..n : \A j \in 1..k - 1 : j \in 1..n
        BY <1>2
      <4> QED
        BY <1>1, <4>1
    <3> QED
      BY <3>1, <3>2 DEF FieldTold
  <2>2. DriftTold(w, s.ike, all, n)
    <3>1. DriftTold(w, s.ike, before, n)
      BY DEF AllTold, n
    <3> QED
      BY <1>1, <3>1 DEF DriftTold
  <2>3. AllTold(w, s.ike, all, n)
    BY <2>1, <2>2 DEF AllTold
  <2> QED
    BY <1>2, <1>3, <2>3
<1>7. ASSUME NEW k \in 1..Len(records), Good(k - 1) PROVE Good(k)
  <2> DEFINE m == n + (k - 1)
  <2>1. m \in Nat /\ m + 1 = n + k /\ m + 1 \in 1..Len(all)
    BY <1>1, <1>2
  <2>2. \A j \in 1..m + 1 : IsRecord(all[j])
    <3>1. 1..m + 1 \subseteq 1..Len(all)
      BY <1>1, <1>2
    <3> QED
      BY <1>1, <3>1 DEF Records
  <2>3. AllTold(w, ike[k - 1], all, m)
    BY <1>7
  <2> HIDE DEF m
  <2>4. AllTold(w, OneRecord(w, all[m + 1], ike[k - 1]), all, m + 1)
    BY <2>1, <2>2, <2>3, RecordStep
  <2> QED
    BY <1>5, <2>1, <2>4
<1> HIDE DEF Good
<1>8. bad = {}
  <2> SUFFICES ASSUME bad # {} PROVE FALSE
    OBVIOUS
  <2>1. PICK k \in bad : \A i \in bad : k <= i
    BY <1>2, LeastOf
  <2>2. k \in 1..Len(records) /\ ~Good(k) /\ k - 1 \notin bad
    BY <2>1
  <2>3. Good(k - 1)
    BY <1>6, <2>2
  <2> QED
    BY <1>7, <2>2, <2>3
<1>9. Good(Len(records))
  BY <1>2, <1>6, <1>8
<1> QED
  BY <1>1, <1>9 DEF all, ike, Good
-----------------------------------------------------------------------------
(* What the parsers make of a text *)

\* A list has a length and positions, and what is in it is at one of them.
LEMMA ListsHaveLengths ==
    ASSUME NEW seq, IsList(seq)
    PROVE  /\ Len(seq) \in Nat
           /\ \A x : x \in ToSet(seq) <=> \E k \in 1..Len(seq) : x = seq[k]
           /\ seq # <<>> => 1 \in 1..Len(seq) /\ Len(seq) \in 1..Len(seq)
<1>1. Len(seq) \in Nat /\ DOMAIN seq = 1..Len(seq)
  <2>1. \A S : seq \in Seq(S) => Len(seq) \in Nat /\ DOMAIN seq = 1..Len(seq)
    OBVIOUS
  <2> QED
    BY <2>1 DEF IsList
<1>2. ToSet(seq) = {seq[k] : k \in DOMAIN seq}
  BY DEF ToSet
<1>3. seq # <<>> => Len(seq) # 0
  <2>1. \A S : seq \in Seq(S) /\ seq # <<>> => Len(seq) # 0
    OBVIOUS
  <2> QED
    BY <2>1 DEF IsList
<1> QED
  BY <1>1, <1>2, <1>3

\* Something for each of n, in turn, is a list.
LEMMA ListOf ==
    ASSUME NEW seq, NEW n \in Nat, DOMAIN seq = 1..n, seq = [k \in 1..n |-> seq[k]]
    PROVE  IsList(seq) /\ Len(seq) = n
<1>1. \A k \in 1..n : seq[k] \in ToSet(seq)
  BY DEF ToSet
<1>2. seq \in [1..n -> ToSet(seq)]
  BY <1>1
<1> QED
  BY <1>2 DEF IsList

\* What two parts of a record may say, the record made of both may say.
LEMMA JoinedValues ==
    ASSUME NEW a, IsValues(a), NEW b, IsValues(b)
    PROVE  IsValues(Joined(a, b))
<1>1. /\ DOMAIN Joined(a, b) = DOMAIN a \cup DOMAIN b
      /\ \A x \in DOMAIN a : Joined(a, b)[x] = a[x]
      /\ \A x \in DOMAIN b \ DOMAIN a : Joined(a, b)[x] = b[x]
  BY JoinedOf
<1> QED
  BY <1>1 DEF IsValues

\* One value of one field, if the field may have it, is what a record may say.
LEMMA OneValue ==
    ASSUME NEW name \in GatewayFields, NEW value \in GatewayValues[name]
    PROVE  IsValues(Value(name, value))
<1>1. DOMAIN Value(name, value) = {name} /\ Value(name, value)[name] = value
  BY DEF Value
<1> QED
  BY <1>1 DEF IsValues

\* A record may say nothing.
LEMMA NoValues == IsValues(<<>>)
<1>1. DOMAIN <<>> = {}
  OBVIOUS
<1> QED
  BY <1>1 DEF IsValues

\* A column has what is not None in the rows.
LEMMA ColumnOf ==
    ASSUME NEW rows, IsList(rows), NEW field
    PROVE  /\ IsList(Column(rows, field))
           /\ \A v \in ToSet(Column(rows, field)) :
                v # None /\ \E row \in ToSet(rows) : v = row[field]
<1> DEFINE I == {i \in 1..Len(rows) : rows[i][field] # None}
           given == Picked(rows, I)
           out == Column(rows, field)
<1>1. Len(rows) \in Nat /\ I \in SUBSET (1..Len(rows))
      /\ \A x : x \in ToSet(rows) <=> \E k \in 1..Len(rows) : x = rows[k]
  BY ListsHaveLengths
<1>2. out = [k \in 1..Len(given) |-> given[k][field]]
  BY DEF Column, Filter
<1>3. \A i \in I : i \in 1..Len(rows) /\ rows[i][field] # None
  OBVIOUS
<1> HIDE DEF I, out
<1>4. Len(Picked(rows, I)) = Cardinality(I) /\ Cardinality(I) \in Nat
  BY <1>1, PickedMembers
<1>5. \A k \in 1..Cardinality(I) : Picked(rows, I)[k] = rows[Nth(I, k)] /\ Nth(I, k) \in I
  <2>1. \A k \in 1..Cardinality(I) : Picked(rows, I)[k] = rows[Nth(I, k)]
    BY DEF Picked
  <2>2. \A k \in 1..Cardinality(I) : Nth(I, k) \in I
    BY <1>1, NthOfSet
  <2> QED
    BY <2>1, <2>2
<1> DEFINE n == Len(given)
<1>6. n \in Nat /\ n = Cardinality(I)
  BY <1>4
<1>7. \A k \in 1..n : \E i \in I : given[k] = rows[i]
  BY <1>5, <1>6
<1> HIDE DEF given
<1>8. /\ out = [k \in 1..n |-> out[k]] /\ DOMAIN out = 1..n
      /\ \A k \in 1..n : out[k] = given[k][field]
  BY <1>2
<1>9. IsList(out) /\ Len(out) = n
  BY <1>6, <1>8, ListOf
<1>10. \A v : v \in ToSet(out) <=> \E k \in 1..n : v = out[k]
  BY <1>9, ListsHaveLengths
<1>11. ASSUME NEW v \in ToSet(out) PROVE v # None /\ \E row \in ToSet(rows) : v = row[field]
  <2>1. PICK k \in 1..n : v = given[k][field]
    BY <1>8, <1>10
  <2>2. PICK i \in I : given[k] = rows[i]
    BY <1>7
  <2> QED
    BY <1>1, <1>3, <2>1, <2>2
<1> QED
  BY <1>9, <1>11 DEF out

\* The last of the values of a field, if there is one.
LEMMA OptionalValue ==
    ASSUME NEW name \in GatewayFields, NEW values, IsList(values),
           \A v \in ToSet(values) : v \in GatewayValues[name]
    PROVE  IsValues(Optional(name, values))
<1>1. CASE values = <<>>
  BY <1>1, NoValues DEF Optional
<1>2. CASE values # <<>>
  <2>1. Last(values) \in ToSet(values)
    BY <1>2, ListsHaveLengths DEF Last
  <2>2. IsValues(Value(name, Last(values)))
    BY <2>1, OneValue
  <2> QED
    BY <1>2, <2>2 DEF Optional
<1> QED
  BY <1>1, <1>2

\* swanctl --list-sas gives records: parse_list_sas sets version, mode and pfs_status.
LEMMA SasSay ==
    ASSUME TextAssumption, NEW text \in Texts
    PROVE  Records(parse_list_sas(text.list_sas))
<1> DEFINE sas == text.list_sas
           Pfs(child) == child.dh
           pfs(sa) == IF Some(sa.children, Pfs) THEN Value("pfs_status", "enabled") ELSE <<>>
           values(sa) == Joined(Joined(Value("version", sa.version),
                                       Optional("mode", Column(sa.children, "mode"))), pfs(sa))
           of(sa) == GatewayRecord("swanctl --list-sas", sa.local, sa.remote, sa.spi, values(sa))
           out == parse_list_sas(sas)
<1>1. ReadableText(text)
  BY TextAssumption
<1>2. IsList(sas) /\ \A sa \in ToSet(sas) :
        /\ sa.version \in GatewayValues["version"] /\ IsList(sa.children)
        /\ \A child \in ToSet(sa.children) : child.mode \in GatewayValues["mode"] \cup {None}
  BY <1>1 DEF ReadableText
<1>3. Len(sas) \in Nat /\ \A x : x \in ToSet(sas) <=> \E k \in 1..Len(sas) : x = sas[k]
  BY <1>2, ListsHaveLengths
<1>4. out = [k \in 1..Len(sas) |-> of(sas[k])]
  BY DEF parse_list_sas
<1>5. ASSUME NEW sa \in ToSet(sas) PROVE IsRecord(of(sa))
  <2>1. IsValues(Value("version", sa.version))
    BY <1>2, OneValue, FieldsAre
  <2>2. IsValues(Optional("mode", Column(sa.children, "mode")))
    <3>1. IsList(Column(sa.children, "mode"))
      BY <1>2, ColumnOf
    <3>2. \A v \in ToSet(Column(sa.children, "mode")) :
            v # None /\ \E child \in ToSet(sa.children) : v = child["mode"]
      BY <1>2, ColumnOf
    <3>3. \A v \in ToSet(Column(sa.children, "mode")) : v \in GatewayValues["mode"]
      BY <1>2, <3>2
    <3>4. "mode" \in GatewayFields
      BY FieldsAre
    <3> QED
      BY <3>1, <3>3, <3>4, OptionalValue
  <2>3. IsValues(pfs(sa))
    <3>1. "pfs_status" \in GatewayFields /\ "enabled" \in GatewayValues["pfs_status"]
      BY FieldsAre DEF GatewayValues
    <3>2. IsValues(Value("pfs_status", "enabled"))
      BY <3>1, OneValue
    <3> QED
      BY <3>2, NoValues
  <2> HIDE DEF pfs
  <2>4. IsValues(values(sa))
    BY <2>1, <2>2, <2>3, JoinedValues
  <2> HIDE DEF values
  <2>5. of(sa).values = values(sa)
    BY DEF GatewayRecord
  <2> HIDE DEF of
  <2> QED
    BY <2>4, <2>5 DEF IsRecord
<1> HIDE DEF out, of, sas
<1>6. /\ out = [k \in 1..Len(sas) |-> out[k]] /\ DOMAIN out = 1..Len(sas)
      /\ \A k \in 1..Len(sas) : out[k] = of(sas[k])
  BY <1>4
<1>7. IsList(out) /\ Len(out) = Len(sas)
  BY <1>3, <1>6, ListOf
<1>8. \A k \in 1..Len(sas) : IsRecord(out[k])
  BY <1>3, <1>5, <1>6
<1> QED
  BY <1>3, <1>7, <1>8 DEF Records, IsList, out, sas

\* So does swanctl --list-conns, of version, auth_method and mode.
LEMMA ConnsSay ==
    ASSUME TextAssumption, NEW text \in Texts
    PROVE  Records(parse_list_conns(text.list_conns))
<1> DEFINE conns == text.list_conns
           auths(conn) == Column(conn.remotes, "auth")
           modes(conn) == Column(conn.children, "mode")
           values(conn) == Joined(Joined(Value("version", conn.version),
                                         Optional("auth_method", auths(conn))),
                                  Optional("mode", modes(conn)))
           of(conn) == GatewayRecord("swanctl --list-conns", conn.local, conn.remote, None,
                                     values(conn))
           out == parse_list_conns(conns)
<1>1. ReadableText(text)
  BY TextAssumption
<1>2. IsList(conns) /\ \A conn \in ToSet(conns) :
        /\ conn.version \in GatewayValues["version"]
        /\ IsList(conn.remotes) /\ IsList(conn.children)
        /\ \A remote \in ToSet(conn.remotes) :
             remote.auth \in GatewayValues["auth_method"] \cup {None}
        /\ \A child \in ToSet(conn.children) : child.mode \in GatewayValues["mode"] \cup {None}
  BY <1>1 DEF ReadableText
<1>3. Len(conns) \in Nat /\ \A x : x \in ToSet(conns) <=> \E k \in 1..Len(conns) : x = conns[k]
  BY <1>2, ListsHaveLengths
<1>4. out = [k \in 1..Len(conns) |-> of(conns[k])]
  BY DEF parse_list_conns
<1>5. ASSUME NEW conn \in ToSet(conns) PROVE IsRecord(of(conn))
  <2>1. IsValues(Value("version", conn.version))
    BY <1>2, OneValue, FieldsAre
  <2>2. IsValues(Optional("auth_method", auths(conn)))
    <3>1. IsList(auths(conn))
      BY <1>2, ColumnOf
    <3>2. \A v \in ToSet(auths(conn)) :
            v # None /\ \E remote \in ToSet(conn.remotes) : v = remote["auth"]
      BY <1>2, ColumnOf
    <3>3. \A v \in ToSet(auths(conn)) : v \in GatewayValues["auth_method"]
      BY <1>2, <3>2
    <3>4. "auth_method" \in GatewayFields
      BY FieldsAre
    <3> QED
      BY <3>1, <3>3, <3>4, OptionalValue
  <2>3. IsValues(Optional("mode", modes(conn)))
    <3>1. IsList(modes(conn))
      BY <1>2, ColumnOf
    <3>2. \A v \in ToSet(modes(conn)) :
            v # None /\ \E child \in ToSet(conn.children) : v = child["mode"]
      BY <1>2, ColumnOf
    <3>3. \A v \in ToSet(modes(conn)) : v \in GatewayValues["mode"]
      BY <1>2, <3>2
    <3>4. "mode" \in GatewayFields
      BY FieldsAre
    <3> QED
      BY <3>1, <3>3, <3>4, OptionalValue
  <2> HIDE DEF auths, modes
  <2>4. IsValues(values(conn))
    BY <2>1, <2>2, <2>3, JoinedValues
  <2> HIDE DEF values
  <2>5. of(conn).values = values(conn)
    BY DEF GatewayRecord
  <2> HIDE DEF of
  <2> QED
    BY <2>4, <2>5 DEF IsRecord
<1> HIDE DEF out, of, conns
<1>6. /\ out = [k \in 1..Len(conns) |-> out[k]] /\ DOMAIN out = 1..Len(conns)
      /\ \A k \in 1..Len(conns) : out[k] = of(conns[k])
  BY <1>4
<1>7. IsList(out) /\ Len(out) = Len(conns)
  BY <1>3, <1>6, ListOf
<1>8. \A k \in 1..Len(conns) : IsRecord(out[k])
  BY <1>3, <1>5, <1>6
<1> QED
  BY <1>3, <1>7, <1>8 DEF Records, IsList, out, conns

\* So does ip xfrm state, of mode and anti_replay.
LEMMA XfrmSay ==
    ASSUME TextAssumption, NEW text \in Texts
    PROVE  Records(parse_xfrm(text.xfrm))
<1> DEFINE sas == text.xfrm
           PairOf(sa) == {sa.src, sa.dst}
           Open(w) == w > 0
           modes(group) == ToSet(Column(group, "mode"))
           windows(group) == Column(group, "window")
           one(group) == IF modes(group) \in {{"tunnel"}, {"transport"}}
                         THEN Value("mode", CHOOSE m \in modes(group) : TRUE) ELSE <<>>
           two(group) == IF Len(windows(group)) >= 2
                         THEN Value("anti_replay", Some(windows(group), Open)) ELSE <<>>
           of(group) == GatewayRecord("ip xfrm state", group[1].src, group[1].dst, None,
                                      Joined(one(group), two(group)))
           groups == GroupBy(sas, PairOf)
           keys == [i \in 1..Len(sas) |-> PairOf(sas[i])]
           out == parse_xfrm(sas)
<1>1. IsList(sas)
  BY TextAssumption DEF ReadableText
<1>2. Len(sas) \in Nat
  BY <1>1, ListsHaveLengths
<1>3. Len(groups) \in Nat
  <2>1. groups = Groups(sas, keys)
    BY DEF GroupBy
  <2>2. Len(keys) = Len(sas)
    BY <1>2
  <2> HIDE DEF keys, groups
  <2> QED
    BY <1>2, <2>1, <2>2, GroupsOf DEF OneForEach
<1>4. out = [k \in 1..Len(groups) |-> of(groups[k])]
  BY DEF parse_xfrm
<1>5. ASSUME NEW group PROVE IsRecord(of(group))
  <2>1. IsValues(one(group))
    <3>1. CASE modes(group) \in {{"tunnel"}, {"transport"}}
      <4>1. (CHOOSE m \in modes(group) : TRUE) \in modes(group)
        BY <3>1
      <4>2. (CHOOSE m \in modes(group) : TRUE) \in {"tunnel", "transport"}
        BY <3>1, <4>1
      <4> DEFINE m == CHOOSE m \in modes(group) : TRUE
      <4> HIDE DEF modes, m
      <4>3. m \in GatewayValues["mode"] /\ "mode" \in GatewayFields
        BY <4>2, FieldsAre DEF GatewayValues, m
      <4>4. IsValues(Value("mode", m))
        BY <4>3, OneValue
      <4> QED
        BY <3>1, <4>4 DEF m
    <3>2. CASE modes(group) \notin {{"tunnel"}, {"transport"}}
      BY <3>2, NoValues
    <3> QED
      BY <3>1, <3>2
  <2>2. IsValues(two(group))
    <3> DEFINE open == Some(windows(group), Open)
    <3>1. open \in BOOLEAN
      BY DEF Some
    <3> HIDE DEF open
    <3>2. open \in GatewayValues["anti_replay"] /\ "anti_replay" \in GatewayFields
      BY <3>1, FieldsAre DEF GatewayValues
    <3>3. IsValues(Value("anti_replay", open))
      BY <3>2, OneValue
    <3> QED
      BY <3>3, NoValues DEF open
  <2> HIDE DEF one, two
  <2>3. IsValues(Joined(one(group), two(group)))
    BY <2>1, <2>2, JoinedValues
  <2>4. of(group).values = Joined(one(group), two(group))
    BY DEF GatewayRecord
  <2> HIDE DEF of
  <2> QED
    BY <2>3, <2>4 DEF IsRecord
<1> HIDE DEF out, of, groups, sas
<1>6. /\ out = [k \in 1..Len(groups) |-> out[k]] /\ DOMAIN out = 1..Len(groups)
      /\ \A k \in 1..Len(groups) : out[k] = of(groups[k])
  BY <1>4
<1>7. IsList(out) /\ Len(out) = Len(groups)
  BY <1>3, <1>6, ListOf
<1>8. \A k \in 1..Len(groups) : IsRecord(out[k])
  BY <1>5, <1>6
<1> QED
  BY <1>3, <1>7, <1>8 DEF Records, IsList, out, sas

\* The values of a key are those of its lines.
LEMMA ConfValuesOf ==
    ASSUME NEW S, NEW lines \in Seq(S), NEW key
    PROVE  /\ IsList(ConfValues(lines, key))
           /\ \A v \in ToSet(ConfValues(lines, key)) :
                \E line \in S : line.key = key /\ v = line.value
<1> DEFINE I == {i \in 1..Len(lines) : lines[i].key = key}
           found == Picked(lines, I)
           out == ConfValues(lines, key)
           n == Len(found)
<1>1. Len(lines) \in Nat /\ I \in SUBSET (1..Len(lines))
      /\ \A k \in 1..Len(lines) : lines[k] \in S
  OBVIOUS
<1>2. out = [k \in 1..n |-> found[k].value]
  BY DEF ConfValues, Filter
<1>3. \A i \in I : lines[i] \in S /\ lines[i].key = key
  BY <1>1
<1> HIDE DEF I, out
<1>4. Len(Picked(lines, I)) = Cardinality(I) /\ Cardinality(I) \in Nat
  BY <1>1, PickedMembers
<1>5. \A k \in 1..Cardinality(I) : Picked(lines, I)[k] = lines[Nth(I, k)]
  BY DEF Picked
<1>6. \A k \in 1..Cardinality(I) : Nth(I, k) \in I
  BY <1>1, NthOfSet
<1>7. n \in Nat /\ n = Cardinality(I)
  BY <1>4
<1>8. \A k \in 1..n : \E i \in I : found[k] = lines[i]
  BY <1>5, <1>6, <1>7
<1> HIDE DEF found, n
<1>9. /\ out = [k \in 1..n |-> out[k]] /\ DOMAIN out = 1..n
      /\ \A k \in 1..n : out[k] = found[k].value
  BY <1>2
<1>10. IsList(out) /\ Len(out) = n
  BY <1>7, <1>9, ListOf
<1>11. \A v : v \in ToSet(out) <=> \E k \in 1..n : v = out[k]
  BY <1>10, ListsHaveLengths
<1>12. ASSUME NEW v \in ToSet(out) PROVE \E line \in S : line.key = key /\ v = line.value
  <2>1. PICK k \in 1..n : v = found[k].value
    BY <1>9, <1>11
  <2>2. PICK i \in I : found[k] = lines[i]
    BY <1>8
  <2> QED
    BY <1>3, <2>1, <2>2
<1> QED
  BY <1>10, <1>12 DEF out

\* So does the block of one remote_addrs line of swanctl.conf, with the head before it.
LEMMA ConfRecordSays ==
    ASSUME NEW S, \A line \in S : line.key \in {"version", "mode"} =>
                                   line.value \in GatewayValues[line.key],
           NEW head \in Seq(S), NEW block \in Seq(S)
    PROVE  IsRecord(ConfRecord(head, block))
<1> DEFINE version == Optional("version", ConfValues(head \o block, "version"))
           auth == AuthDeclared(ConfValues(block, "auth"))
           mode == ModeDeclared(ConfValues(block, "mode"), ConfValues(block, "children"))
           pfs == PfsDeclared(ConfValues(block, "esp_proposals"))
           both == Joined(version, auth)
           rest == Joined(mode, pfs)
<1>1. ConfRecord(head, block).values = Joined(both, rest)
  BY DEF ConfRecord, GatewayRecord
<1>2. /\ "version" \in GatewayFields /\ "auth_method" \in GatewayFields
      /\ "mode" \in GatewayFields /\ "pfs_status" \in GatewayFields
      /\ "PSK" \in GatewayValues["auth_method"] /\ "EAP" \in GatewayValues["auth_method"]
      /\ "tunnel" \in GatewayValues["mode"]
      /\ "enabled" \in GatewayValues["pfs_status"] /\ "disabled" \in GatewayValues["pfs_status"]
  BY FieldsAre DEF GatewayValues
<1>3. IsValues(version)
  <2> DEFINE lines == head \o block
             list == ConfValues(lines, "version")
  <2>1. lines \in Seq(S)
    OBVIOUS
  <2> HIDE DEF lines
  <2>2. /\ IsList(list)
        /\ \A v \in ToSet(list) : \E line \in S : line.key = "version" /\ v = line.value
    BY <2>1, ConfValuesOf
  <2> HIDE DEF list
  <2>3. \A v \in ToSet(list) : v \in GatewayValues["version"]
    BY <2>2
  <2>4. IsValues(Optional("version", list))
    BY <1>2, <2>2, <2>3, OptionalValue
  <2> QED
    BY <2>4 DEF list, lines
<1>4. IsValues(auth)
  <2>1. IsValues(Value("auth_method", "PSK")) /\ IsValues(Value("auth_method", "EAP"))
    BY <1>2, OneValue
  <2> DEFINE list == ConfValues(block, "auth")
  <2> HIDE DEF list
  <2>2. AuthDeclared(list) \in {Value("auth_method", "PSK"), Value("auth_method", "EAP"), <<>>}
    BY Zenon DEF AuthDeclared
  <2>3. IsValues(AuthDeclared(list))
    BY <2>1, <2>2, NoValues
  <2> QED
    BY <2>3 DEF list
<1>5. IsValues(mode)
  <2> DEFINE modes == ConfValues(block, "mode")
             children == ConfValues(block, "children")
  <2>1. /\ IsList(modes)
        /\ \A v \in ToSet(modes) : \E line \in S : line.key = "mode" /\ v = line.value
    BY ConfValuesOf
  <2> HIDE DEF modes, children
  <2>2. modes # <<>> => modes[1] \in GatewayValues["mode"]
    BY <2>1, ListsHaveLengths
  <2>3. \/ modes # <<>> /\ ModeDeclared(modes, children) = Value("mode", modes[1])
        \/ ModeDeclared(modes, children) \in {Value("mode", "tunnel"), <<>>}
    BY Zenon DEF ModeDeclared
  <2>4. modes # <<>> => IsValues(Value("mode", modes[1]))
    BY <1>2, <2>2, OneValue
  <2>5. IsValues(Value("mode", "tunnel"))
    BY <1>2, OneValue
  <2>6. IsValues(ModeDeclared(modes, children))
    BY <2>3, <2>4, <2>5, NoValues
  <2> QED
    BY <2>6 DEF modes, children
<1>6. IsValues(pfs)
  <2>1. IsValues(Value("pfs_status", "enabled")) /\ IsValues(Value("pfs_status", "disabled"))
    BY <1>2, OneValue
  <2> DEFINE esp == ConfValues(block, "esp_proposals")
  <2> HIDE DEF esp
  <2>2. PfsDeclared(esp) \in {Value("pfs_status", "enabled"), Value("pfs_status", "disabled"), <<>>}
    <3> DEFINE proposals == UNION {ToSet(esp[k]) : k \in 1..Len(esp)}
               none == esp = <<>> \/ <<>> \in ToSet(esp)
    <3>1. PfsDeclared(esp) =
            CASE none -> <<>>
              [] esp # <<>> /\ proposals = {TRUE} -> Value("pfs_status", "enabled")
              [] esp # <<>> /\ proposals = {FALSE} -> Value("pfs_status", "disabled")
              [] OTHER -> <<>>
      BY DEF PfsDeclared
    <3> HIDE DEF proposals, none
    <3>2. {TRUE} # {FALSE}
      OBVIOUS
    <3> QED
      BY <3>1, <3>2
  <2>3. IsValues(PfsDeclared(esp))
    BY <2>1, <2>2, NoValues
  <2> QED
    BY <2>3 DEF esp
<1> HIDE DEF version, auth, mode, pfs
<1>7. IsValues(both) /\ IsValues(rest)
  BY <1>3, <1>4, <1>5, <1>6, JoinedValues
<1> HIDE DEF both, rest
<1>8. IsValues(Joined(both, rest))
  BY <1>7, JoinedValues
<1> QED
  BY <1>1, <1>8 DEF IsRecord

\* So does swanctl.conf, however its lines are cut into blocks.
LEMMA ConfSays ==
    ASSUME TextAssumption, NEW text \in Texts
    PROVE  Records(parse_swanctl_conf(text.conf))
<1> DEFINE body == text.conf
           S == ToSet(body)
           I == {k \in 1..Len(body) : body[k].key = "remote_addrs"}
           places == [k \in 1..Len(body) |-> k]
           starts == Picked(places, I)
           From(i) == IF i = 0 THEN 1 ELSE starts[i]
           Upto(i) == IF i = Len(starts) THEN Len(body) ELSE starts[i + 1] - 1
           head(i) == SubSeq(body, From(i - 1), starts[i] - 1)
           block(i) == SubSeq(body, starts[i], Upto(i))
           n == Len(starts)
           out == parse_swanctl_conf(body)
<1>1. ReadableText(text)
  BY TextAssumption
<1>2. IsList(body) /\ \A line \in S : line.key \in {"version", "mode"} =>
                                       line.value \in GatewayValues[line.key]
  BY <1>1 DEF ReadableText
<1>3. Len(body) \in Nat /\ \A k \in 1..Len(body) : body[k] \in S
  BY <1>2, ListsHaveLengths
<1>4. out = [i \in 1..n |-> ConfRecord(head(i), block(i))]
  BY DEF parse_swanctl_conf
<1>5. I \in SUBSET (1..Len(body))
  OBVIOUS
<1> HIDE DEF I, S, body
<1>6. Len(Picked(places, I)) = Cardinality(I) /\ Cardinality(I) \in Nat
  BY <1>3, <1>5, PickedMembers
<1>7. \A k \in 1..Cardinality(I) : Picked(places, I)[k] = places[Nth(I, k)]
  <2> HIDE DEF places
  <2> QED
    BY DEF Picked
<1>8. \A k \in 1..Cardinality(I) : Nth(I, k) \in I
  BY <1>3, <1>5, NthOfSet
<1>9. n \in Nat /\ \A i \in 1..n : starts[i] \in 1..Len(body)
  <2>1. n = Cardinality(I) /\ n \in Nat
    BY <1>6
  <2>2. \A i \in I : places[i] \in 1..Len(body)
    BY <1>5
  <2> QED
    BY <1>7, <1>8, <2>1, <2>2
<1> HIDE DEF starts
<1>10. ASSUME NEW i \in 1..n PROVE head(i) \in Seq(S) /\ block(i) \in Seq(S)
  <2>1. starts[i] \in 1..Len(body)
    BY <1>9
  <2>2. From(i - 1) \in Nat \ {0}
    <3>1. i - 1 # 0 => i - 1 \in 1..n
      BY <1>9
    <3> QED
      BY <1>9, <3>1
  <2>3. Upto(i) \in 0..Len(body)
    <3>1. i # n => i + 1 \in 1..n
      BY <1>9
    <3>2. i # n => starts[i + 1] \in 1..Len(body)
      BY <1>9, <3>1
    <3> QED
      BY <1>3, <3>2
  <2> HIDE DEF From, Upto
  <2>4. \A k \in From(i - 1)..(starts[i] - 1) : body[k] \in S
    BY <1>3, <2>1, <2>2
  <2>5. \A k \in starts[i]..Upto(i) : body[k] \in S
    BY <1>3, <2>1, <2>3
  <2>6. From(i - 1) \in Int /\ starts[i] - 1 \in Int /\ starts[i] \in Int /\ Upto(i) \in Int
    BY <2>1, <2>2, <2>3
  <2>7. head(i) \in Seq(S)
    BY <2>4, <2>6, SubSeqProperties
  <2>8. block(i) \in Seq(S)
    BY <2>5, <2>6, SubSeqProperties
  <2> QED
    BY <2>7, <2>8
<1> HIDE DEF head, block, out, n
<1>11. /\ out = [k \in 1..n |-> out[k]] /\ DOMAIN out = 1..n
       /\ \A k \in 1..n : out[k] = ConfRecord(head(k), block(k))
  BY <1>4
<1>12. IsList(out) /\ Len(out) = n
  BY <1>9, <1>11, ListOf
<1>13. \A k \in 1..n : IsRecord(out[k])
  BY <1>2, <1>10, <1>11, ConfRecordSays
<1> QED
  BY <1>9, <1>12, <1>13 DEF Records, IsList, out, body

\* Whatever is pasted, its records say what a record may say of a field.
LEMMA ParsersSay ==
    ASSUME TextAssumption, NEW text \in Texts
    PROVE  Records(parse_gateway_state(text))
<1> DEFINE sas == parse_list_sas(text.list_sas)
           conns == parse_list_conns(text.list_conns)
           conf == parse_swanctl_conf(text.conf)
           xfrm == parse_xfrm(text.xfrm)
<1>1. Records(sas) /\ Records(conns) /\ Records(conf) /\ Records(xfrm)
  BY SasSay, ConnsSay, ConfSays, XfrmSay
<1>2. parse_gateway_state(text) = ((sas \o conns) \o conf) \o xfrm
  BY DEF parse_gateway_state
<1> HIDE DEF sas, conns, conf, xfrm
<1>3. Records(sas \o conns)
  BY <1>1, RecordsJoin
<1>4. Records((sas \o conns) \o conf)
  BY <1>1, <1>3, RecordsJoin
<1>5. Records(((sas \o conns) \o conf) \o xfrm)
  BY <1>1, <1>4, RecordsJoin
<1> QED
  BY <1>2, <1>5
-----------------------------------------------------------------------------
(* The rows of an analysis *)

\* R21 fires exactly on drift.
LEMMA DriftFires ==
    ASSUME NEW s
    PROVE  (\E f \in evaluate_rules(s).findings : f.rule_id = "R21")
             <=> s.ike.gateway_mismatches # {}
<1> DEFINE drift == NonEmpty("gateway_mismatches")
           rule == Rule("R21", "MEDIUM", {drift})
           Fired(r) == Matches(r, s.ike)
<1>1. evaluate_rules(s).findings = {Finding(r, s.ike) : r \in {x \in RuleTable : Fired(x)}}
  BY DEF evaluate_rules
<1>2. rule \in RuleTable
  BY DEF RuleTable
<1>3. \A r \in RuleTable : r.id = "R21" => r.when = {drift}
  BY DEF RuleTable, Rule
<1>4. rule.id = "R21" /\ rule.when = {drift}
  BY DEF Rule
<1>5. \A r : Finding(r, s.ike).rule_id = r.id
  BY DEF Finding
<1>6. Holds(drift, s.ike) <=> s.ike.gateway_mismatches # {}
  <2>1. drift.op = "nonempty" /\ drift.field = "gateway_mismatches"
    BY DEF NonEmpty
  <2>2. Resolve(s.ike, "gateway_mismatches") = s.ike["gateway_mismatches"]
    BY DEF Resolve
  <2> HIDE DEF drift
  <2>3. Holds(drift, s.ike) <=> Resolve(s.ike, drift.field) # {}
    BY <2>1 DEF Holds
  <2> QED
    BY <2>1, <2>2, <2>3
<1> HIDE DEF drift, rule
<1>7. \A r : r.when = {drift} => (Fired(r) <=> s.ike.gateway_mismatches # {})
  BY <1>6 DEF Matches
<1> HIDE DEF Fired
<1>8. ASSUME NEW f \in evaluate_rules(s).findings, f.rule_id = "R21"
      PROVE  s.ike.gateway_mismatches # {}
  <2>1. PICK r \in RuleTable : Fired(r) /\ f = Finding(r, s.ike)
    BY <1>1
  <2>2. r.id = "R21"
    BY <1>5, <1>8, <2>1
  <2> QED
    BY <1>3, <1>7, <2>1, <2>2
<1>9. ASSUME s.ike.gateway_mismatches # {}
      PROVE  \E f \in evaluate_rules(s).findings : f.rule_id = "R21"
  <2>1. Fired(rule)
    BY <1>4, <1>7, <1>9
  <2>2. Finding(rule, s.ike) \in evaluate_rules(s).findings
    BY <1>1, <1>2, <2>1
  <2> QED
    BY <1>4, <1>5, <2>2
<1> QED
  BY <1>8, <1>9

RowKeys == {"session_id", "initiator_ip", "responder_ip", "ike", "security_assessment"}

DriftFired(s) ==
    (\E f \in FindingsOf(s) : f.rule_id = "R21") <=> s.ike.gateway_mismatches # {}

\* What the analysis leaves of a session before any import.
FreshRow(s) ==
    /\ RowKeys \subseteq DOMAIN s /\ IkeKeys \subseteq DOMAIN s.ike
    /\ s.ike.gateway_fields = {} /\ s.ike.gateway_mismatches = {}
    /\ DriftFired(s)

\* The bookkeeping of gateway values is empty in a parsed record, whatever is joined
\* to it.
LEMMA FreshIs ==
    /\ "gateway_fields" \in DOMAIN Fresh /\ Fresh["gateway_fields"] = {}
    /\ "gateway_mismatches" \in DOMAIN Fresh /\ Fresh["gateway_mismatches"] = {}
    /\ "inferred_fields" \in DOMAIN Fresh
BY DEF Fresh

\* Nothing is attached to the record of ESP that no SA owns.
LEMMA OrphanFresh ==
    ASSUME NEW esp
    PROVE  LET ike == EspOnly(esp).ike
           IN  /\ IkeKeys \subseteq DOMAIN ike
               /\ ike["gateway_fields"] = {} /\ ike["gateway_mismatches"] = {}
<1> DEFINE verdict == anti_replay_from_esp(EspRecords(esp))
           ike == [version |-> "IKEv2", aggressive_mode |-> FALSE, ip_version |-> "IPv4",
                   nat_traversal |-> FALSE, encryption |-> "unknown", integrity |-> "unknown",
                   prf |-> "unknown", dh_group |-> "unknown", additional_key_exchanges |-> <<>>,
                   auth_method |-> None, mode |-> "unknown", sa_lifetime_sec |-> None,
                   capture_complete |-> FALSE, pfs_status |-> "unknown", pqc_status |-> "unknown",
                   vendor |-> "unknown", fragmented_ike |-> FALSE, anti_replay |-> verdict,
                   dpd_status |-> "unknown", cert |-> None]
<1>1. EspOnly(esp).ike = Joined(ike, Fresh)
  BY DEF EspOnly
<1> HIDE DEF verdict
<1>2. /\ GatewayFields \subseteq DOMAIN ike
      /\ "gateway_fields" \notin DOMAIN ike /\ "gateway_mismatches" \notin DOMAIN ike
  BY FieldsAre
<1> HIDE DEF ike
<1>3. /\ DOMAIN Joined(ike, Fresh) = DOMAIN ike \cup DOMAIN Fresh
      /\ \A f \in DOMAIN Fresh \ DOMAIN ike : Joined(ike, Fresh)[f] = Fresh[f]
  BY JoinedOf
<1> QED
  BY <1>1, <1>2, <1>3, FreshIs DEF IkeKeys

\* Nothing is attached to the record of an IKE session that was just parsed.
LEMMA ParsedFresh ==
    ASSUME NEW raw
    PROVE  LET ike == Parse(raw).session.ike
           IN  /\ IkeKeys \subseteq DOMAIN ike
               /\ ike["gateway_fields"] = {} /\ ike["gateway_mismatches"] = {}
<1> DEFINE ike == Parse(raw).session.ike
<1>1. PICK edge : RecordHas(ike, FieldsIn(raw), edge)
  BY ParsedIke
<1> HIDE DEF ike
<1>2. /\ DOMAIN ike = IkeFields \cup {"pqc_status"} \cup EdgeFields \cup DOMAIN Fresh
      /\ \A f \in DOMAIN Fresh : ike[f] = Fresh[f]
  BY <1>1 DEF RecordHas
<1>3. GatewayFields \subseteq IkeFields \cup EdgeFields
  BY FieldsAre DEF IkeFields, EdgeFields
<1> QED
  BY <1>2, <1>3, FreshIs DEF IkeKeys, ike

\* An assessed session has its findings.
LEMMA AssessedRow ==
    ASSUME NEW t, DOMAIN t = SessionKeys \cup {"pkt_total", "traffic_prediction"}
    PROVE  LET s == Assess(t)
           IN  RowKeys \subseteq DOMAIN s /\ s.ike = t.ike /\ DriftFired(s)
<1> DEFINE extra == [security_assessment |-> evaluate_rules(t)]
           s == Assess(t)
<1>1. s = Joined(t, extra)
  BY DEF Assess
<1>2. DOMAIN extra = {"security_assessment"} /\ extra["security_assessment"] = evaluate_rules(t)
  OBVIOUS
<1> HIDE DEF extra, s
<1>3. /\ DOMAIN Joined(t, extra) = DOMAIN t \cup DOMAIN extra
      /\ \A x \in DOMAIN t : Joined(t, extra)[x] = t[x]
      /\ \A x \in DOMAIN extra \ DOMAIN t : Joined(t, extra)[x] = extra[x]
  BY JoinedOf
<1>4. s.ike = t.ike /\ s.security_assessment = evaluate_rules(t) /\ RowKeys \subseteq DOMAIN s
  BY <1>1, <1>2, <1>3 DEF SessionKeys, RowKeys
<1>5. DriftFired(s)
  BY <1>4, DriftFires DEF DriftFired, FindingsOf
<1> QED
  BY <1>4, <1>5 DEF s

\* No session of a report has anything from a gateway.
LEMMA ReportIsFresh == Analysed => \A s \in Sessions : FreshRow(s)
<1> SUFFICES ASSUME Analysed, NEW s \in Sessions PROVE FreshRow(s)
  OBVIOUS
<1>1. SessionsSorted
  BY SessionsSort
<1>2. CASE s \in IkeSessions
  <2>1. PICK raw \in RawSas : s = Assess(Finish(Parse(raw)))
    BY <1>1, <1>2 DEF SessionsSorted
  <2> DEFINE sa == Parse(raw)
             t == Finish(sa)
  <2>2. DOMAIN sa.session = SessionKeys
    BY ParsedShape
  <2>3. /\ IkeKeys \subseteq DOMAIN sa.session.ike
        /\ sa.session.ike["gateway_fields"] = {} /\ sa.session.ike["gateway_mismatches"] = {}
    BY ParsedFresh
  <2> HIDE DEF sa
  <2>4. /\ DOMAIN t = DOMAIN sa.session \cup {"pkt_total", "traffic_prediction"}
        /\ DOMAIN t.ike = DOMAIN sa.session.ike
        /\ \A x \in DOMAIN sa.session.ike \ Guessed : t.ike[x] = sa.session.ike[x]
    BY <2>2, FinishKeeps DEF SessionKeys
  <2>5. s = Assess(t)
    BY <2>1 DEF sa
  <2> HIDE DEF t
  <2>6. RowKeys \subseteq DOMAIN s /\ s.ike = t.ike /\ DriftFired(s)
    BY <2>2, <2>4, <2>5, AssessedRow
  <2>7. /\ IkeKeys \subseteq DOMAIN t.ike
        /\ t.ike["gateway_fields"] = {} /\ t.ike["gateway_mismatches"] = {}
    BY <2>3, <2>4 DEF IkeKeys, Guessed
  <2> QED
    BY <2>6, <2>7 DEF FreshRow
<1>3. CASE s \notin IkeSessions
  <2>1. PICK esp : s = Assess(Classify(OrphanRecord(esp), BusiestFlow(esp)))
    BY <1>1, <1>3 DEF SessionsSorted
  <2> DEFINE rec == OrphanRecord(esp)
             t == Classify(rec, BusiestFlow(esp))
  <2>2. DOMAIN rec = SessionKeys /\ rec.ike = EspOnly(esp).ike
    BY OrphanShape
  <2> HIDE DEF rec
  <2>3. /\ DOMAIN t = DOMAIN rec \cup {"pkt_total", "traffic_prediction"}
        /\ \A x \in DOMAIN rec : t[x] = rec[x]
    BY ClassifyKeeps
  <2>4. s = Assess(t)
    BY <2>1 DEF rec
  <2> HIDE DEF t
  <2>5. t.ike = EspOnly(esp).ike
    BY <2>2, <2>3 DEF SessionKeys
  <2>6. RowKeys \subseteq DOMAIN s /\ s.ike = t.ike /\ DriftFired(s)
    BY <2>2, <2>3, <2>4, AssessedRow
  <2> DEFINE ike == EspOnly(esp).ike
  <2>7. IkeKeys \subseteq DOMAIN ike /\ ike["gateway_fields"] = {} /\ ike["gateway_mismatches"] = {}
    BY OrphanFresh
  <2> QED
    BY <2>5, <2>6, <2>7 DEF FreshRow
<1> QED
  BY <1>2, <1>3

\* Rows of a list are sessions of it, and their ids differ.
LEMMA RowsOf ==
    ASSUME NEW sessions, Len(sessions) \in Nat
    PROVE  /\ \A s \in Rows(sessions) : \E k \in 1..Len(sessions) : s = sessions[k]
           /\ \A s, t \in Rows(sessions) : s.session_id = t.session_id => s = t
<1> DEFINE n == Len(sessions)
           last == {i \in 1..n : \A j \in i + 1..n : sessions[j].session_id # sessions[i].session_id}
<1>1. \A s : s \in Rows(sessions) <=> \E k \in last : s = sessions[k]
  BY DEF Rows
<1>2. \A i \in last : i \in 1..n /\ \A j \in i + 1..n : sessions[j].session_id # sessions[i].session_id
  OBVIOUS
<1> HIDE DEF last
<1>3. ASSUME NEW i \in last, NEW j \in last, sessions[i].session_id = sessions[j].session_id
      PROVE  i = j
  <2>1. i \in 1..n /\ j \in 1..n
    BY <1>2
  <2>2. ~(i < j)
    BY <1>2, <1>3, <2>1
  <2>3. ~(j < i)
    BY <1>2, <1>3, <2>1
  <2> QED
    BY <2>1, <2>2, <2>3
<1>4. ASSUME NEW s \in Rows(sessions), NEW t \in Rows(sessions), s.session_id = t.session_id
      PROVE  s = t
  <2>1. PICK i \in last : s = sessions[i]
    BY <1>1
  <2>2. PICK j \in last : t = sessions[j]
    BY <1>1
  <2> QED
    BY <1>3, <1>4, <2>1, <2>2
<1> QED
  BY <1>1, <1>2, <1>4

\* The rows of the report: nothing is attached to them, and an id names one of them.
RowsAreFresh ==
    /\ \A w \in Rows(report.sessions) : FreshRow(w)
    /\ \A w, v \in Rows(report.sessions) : w.session_id = v.session_id => w = v

\* The rows of a report that is the analysis of its capture are such rows.
LEMMA AnalysedRows == Analysed => RowsAreFresh
<1> SUFFICES ASSUME Analysed PROVE RowsAreFresh
  OBVIOUS
<1> DEFINE read == read_capture(capture)
           out == bucket(read)
           sas == IkeSAs(read.ike)
<1>1. Len(capture) \in Nat
  BY DEF Analysed
<1>2. Len(read.ike) \in Nat /\ Len(read.esp) \in Nat
  BY <1>1, FramesRead
<1>3. Len(out.sessions) \in Nat
  BY <1>1, RawsAre
<1>4. out.orphan_esp = Picked(read.esp, Owned(read, sas, {}))
  <2> HIDE DEF read
  <2> QED
    BY <1>2, BucketOf
<1>5. report.sessions = [k \in 1..Len(SessionsIn(out)) |-> Assess(SessionsIn(out)[k])]
  BY DEF Analysed, analyze_capture, AnalyseSAs, Assembled
<1> HIDE DEF read, out, sas
<1>6. Len(out.orphan_esp) \in Nat
  <2>1. Owned(read, sas, {}) \in SUBSET (1..Len(read.esp))
    BY DEF Owned
  <2> QED
    BY <1>2, <1>4, <2>1, PickedMembers
<1> DEFINE n == Len(SessionsIn(out))
<1>7. n \in Nat
  BY <1>3, <1>6, SessionsAre
<1> HIDE DEF n
<1>8. Len(report.sessions) = n /\ DOMAIN report.sessions = 1..n
  BY <1>5, <1>7 DEF n
<1>9. \A k \in 1..n : report.sessions[k] \in Sessions
  BY <1>8 DEF Sessions, ToSet
<1>10. /\ \A w \in Rows(report.sessions) : \E k \in 1..n : w = report.sessions[k]
       /\ \A w, v \in Rows(report.sessions) : w.session_id = v.session_id => w = v
  BY <1>7, <1>8, RowsOf
<1> QED
  BY <1>9, <1>10, ReportIsFresh DEF RowsAreFresh

\* A row after an import: its parameters are what the records left of them, and its
\* findings are those of the parameters it has then.
LEMMA RescoredRow ==
    ASSUME NEW s, RowKeys \subseteq DOMAIN s, NEW records
    PROVE  LET t == Rescored(Attached(s, records))
           IN  /\ RowKeys \subseteq DOMAIN t /\ SameIds(t, s)
               /\ t.ike = IkeAfter(s, records)[Len(records)]
               /\ DriftFired(t)
<1> DEFINE ike == IkeAfter(s, records)[Len(records)]
           mid == Attached(s, records)
           score == evaluate_rules(mid)
           t == Rescored(mid)
<1>1. mid = [s EXCEPT !.ike = ike] /\ t = [mid EXCEPT !.security_assessment = score]
  BY DEF Attached, Rescored
<1>2. (\E f \in score.findings : f.rule_id = "R21") <=> mid.ike.gateway_mismatches # {}
  BY DriftFires
<1> HIDE DEF ike, mid, score, t
<1>3. /\ DOMAIN mid = DOMAIN s /\ mid.ike = ike /\ mid.session_id = s.session_id
      /\ mid.initiator_ip = s.initiator_ip /\ mid.responder_ip = s.responder_ip
  BY <1>1 DEF RowKeys
<1>4. /\ DOMAIN t = DOMAIN mid /\ t.ike = mid.ike /\ t.session_id = mid.session_id
      /\ t.initiator_ip = mid.initiator_ip /\ t.responder_ip = mid.responder_ip
      /\ t.security_assessment = score
  BY <1>1, <1>3 DEF RowKeys
<1>5. DriftFired(t)
  BY <1>2, <1>3, <1>4 DEF DriftFired, FindingsOf
<1> QED
  BY <1>3, <1>4, <1>5 DEF SameIds, ike, mid, t
-----------------------------------------------------------------------------
(* The invariant of the store *)

\* A stored row is a row of the analysis, told what was imported since.
KeptRow(s, w, told) ==
    /\ SameIds(s, w)
    /\ AllTold(w, s.ike, told, Len(told))
    /\ RowKeys \subseteq DOMAIN s
    /\ DriftFired(s)

Kept ==
    /\ Records(imported)
    /\ \A s \in stored : \E w \in Rows(report.sessions) : KeptRow(s, w, imported)

\* A fresh row is kept as it is, with nothing told of it.
LEMMA FreshIsKept ==
    /\ Records(<<>>)
    /\ \A w : FreshRow(w) => KeptRow(w, w, <<>>)
<1>1. Len(<<>>) = 0 /\ 1..0 = {} /\ <<>> \in Seq(ToSet(<<>>))
  OBVIOUS
<1>2. Records(<<>>)
  BY <1>1 DEF Records
<1>3. ASSUME NEW w, FreshRow(w) PROVE KeptRow(w, w, <<>>)
  <2>1. ASSUME NEW f \in GatewayFields PROVE FieldTold(w, w.ike, <<>>, 0, f)
    BY <1>1, <1>3 DEF FieldTold, AsLeft, FreshRow
  <2>2. DriftTold(w, w.ike, <<>>, 0)
    BY <1>1, <1>3 DEF DriftTold, FreshRow
  <2>3. AllTold(w, w.ike, <<>>, 0)
    BY <1>3, <2>1, <2>2 DEF AllTold, FreshRow
  <2> QED
    BY <1>1, <1>3, <2>3 DEF KeptRow, SameIds, FreshRow
<1> QED
  BY <1>2, <1>3

\* A kept row to which records are attached is kept.
LEMMA ImportedIsKept ==
    ASSUME TextAssumption, NEW s, NEW w, NEW told, Records(told), KeptRow(s, w, told),
           NEW records, Records(records)
    PROVE  KeptRow(Rescored(Attached(s, records)), w, told \o records)
<1> DEFINE t == Rescored(Attached(s, records))
           all == told \o records
<1>1. SameIds(s, w) /\ AllTold(w, s.ike, told, Len(told)) /\ RowKeys \subseteq DOMAIN s
  BY DEF KeptRow
<1>2. /\ RowKeys \subseteq DOMAIN t /\ SameIds(t, s)
      /\ t.ike = IkeAfter(s, records)[Len(records)]
      /\ DriftFired(t)
  BY <1>1, RescoredRow
<1>3. AllTold(w, IkeAfter(s, records)[Len(records)], all, Len(all))
  BY <1>1, ImportTells
<1> HIDE DEF t, all
<1>4. SameIds(t, w)
  BY <1>1, <1>2 DEF SameIds
<1>5. KeptRow(t, w, all)
  BY <1>2, <1>3, <1>4 DEF KeptRow
<1> QED
  BY <1>5 DEF t, all

\* Every step keeps it, given that the report of the next state is an analysis.
LEMMA KeptStep ==
    ASSUME TextAssumption, Kept, RowsAreFresh', [StoredNext]_storedVars
    PROVE  Kept'
<1>1. ASSUME Analyse PROVE Kept'
  <2>1. stored' = Rows(report.sessions)' /\ imported' = <<>>
    BY <1>1 DEF Analyse
  <2>2. Records(imported')
    BY <2>1, FreshIsKept
  <2>3. ASSUME NEW s \in stored'
        PROVE  \E w \in Rows(report.sessions)' : KeptRow(s, w, imported')
    <3>1. s \in Rows(report.sessions)' /\ FreshRow(s)
      BY <2>1 DEF RowsAreFresh
    <3>2. KeptRow(s, s, imported')
      BY <2>1, <3>1, FreshIsKept
    <3> QED
      BY <3>1, <3>2
  <2> QED
    BY <2>2, <2>3 DEF Kept
<1>2. ASSUME NEW text \in Texts, ImportGatewayState(text) PROVE Kept'
  <2> DEFINE records == parse_gateway_state(text)
  <2>1. /\ stored' = {Rescored(s) : s \in apply_gateway_state(stored, records)}
        /\ imported' = imported \o records
        /\ report' = report
    BY <1>2 DEF ImportGatewayState, vars
  <2>2. Records(records)
    BY ParsersSay
  <2>3. \A t \in stored' : \E s \in stored : t = Rescored(Attached(s, records))
    BY <2>1 DEF apply_gateway_state
  <2> HIDE DEF records
  <2>4. Records(imported)
    BY DEF Kept
  <2>5. Records(imported')
    BY <2>1, <2>2, <2>4, RecordsJoin
  <2>6. ASSUME NEW t \in stored'
        PROVE  \E w \in Rows(report.sessions)' : KeptRow(t, w, imported')
    <3>1. PICK s \in stored : t = Rescored(Attached(s, records))
      BY <2>3
    <3>2. PICK w \in Rows(report.sessions) : KeptRow(s, w, imported)
      BY DEF Kept
    <3>3. KeptRow(t, w, imported')
      BY <2>1, <2>2, <2>4, <3>1, <3>2, ImportedIsKept
    <3>4. w \in Rows(report.sessions)'
      BY <2>1, <3>2
    <3> QED
      BY <3>3, <3>4
  <2> QED
    BY <2>5, <2>6 DEF Kept
<1>3. CASE UNCHANGED storedVars
  BY <1>3 DEF Kept, storedVars, vars
<1> QED
  BY <1>1, <1>2, <1>3 DEF StoredNext

\* In every reachable state the rows of the store are those of the analysis of the
\* capture so far, told by every record attached since, in its turn.
THEOREM StoreKeepsTheTold == StoredSpec => []Kept
<1>1. StoredSpec => []RowsAreFresh
  BY AnalysisFollows, AnalysedRows, PTL
<1>2. StoredInit /\ RowsAreFresh => Kept
  <2> SUFFICES ASSUME StoredInit, RowsAreFresh PROVE Kept
    OBVIOUS
  <2>1. stored = Rows(report.sessions) /\ imported = <<>>
    BY DEF StoredInit
  <2>2. Records(imported)
    BY <2>1, FreshIsKept
  <2>3. ASSUME NEW s \in stored PROVE \E w \in Rows(report.sessions) : KeptRow(s, w, imported)
    <3>1. s \in Rows(report.sessions) /\ FreshRow(s)
      BY <2>1 DEF RowsAreFresh
    <3>2. KeptRow(s, s, imported)
      BY <2>1, <3>1, FreshIsKept
    <3> QED
      BY <3>1, <3>2
  <2> QED
    BY <2>2, <2>3 DEF Kept
<1>3. Kept /\ RowsAreFresh' /\ [StoredNext]_storedVars => Kept'
  BY KeptStep, TextAssumption
<1> QED
  BY <1>1, <1>2, <1>3, PTL DEF StoredSpec
-----------------------------------------------------------------------------
(* What is reported of a stored row *)

\* Of the places that were picked: there is something if there is a place, and it
\* begins with the least of them.
LEMMA PickedFirst ==
    ASSUME NEW seq, NEW n \in Nat, NEW I \in SUBSET (1..n)
    PROVE  /\ Picked(seq, I) = <<>> <=> I = {}
           /\ \A m \in I : (\A i \in I : m <= i) => Picked(seq, I)[1] = seq[m]
<1> DEFINE c == Cardinality(I)
           out == Picked(seq, I)
<1>1. /\ c \in Nat /\ \A k \in 1..c : Nth(I, k) \in I
      /\ \A i \in I : \E k \in 1..c : Nth(I, k) = i
      /\ \A j, k \in 1..c : j < k => Nth(I, j) < Nth(I, k)
  BY NthOfSet
<1>2. Len(out) = c
  BY PickedMembers
<1>3. out \in Seq(ToSet(out))
  BY PickedMembers
<1>4. \A k \in 1..c : out[k] = seq[Nth(I, k)]
  BY DEF Picked
<1> HIDE DEF c, out
<1>5. out = <<>> <=> c = 0
  <2>1. \A S : out \in Seq(S) => (out = <<>> <=> Len(out) = 0)
    OBVIOUS
  <2> QED
    BY <1>2, <1>3, <2>1
<1>6. c = 0 <=> I = {}
  <2>1. c = 0 => 1..c = {}
    OBVIOUS
  <2>2. c # 0 => 1 \in 1..c
    BY <1>1
  <2> QED
    BY <1>1, <2>1, <2>2
<1>7. ASSUME NEW m \in I, \A i \in I : m <= i PROVE out[1] = seq[m]
  <2>1. PICK k \in 1..c : Nth(I, k) = m
    BY <1>1
  <2>2. 1 \in 1..c /\ Nth(I, 1) \in I
    BY <1>1, <2>1
  <2>3. m <= Nth(I, 1)
    BY <1>7, <2>2
  <2>4. c \in Nat /\ m \in Nat /\ Nth(I, 1) \in Nat
    <3>1. \A i \in I : i \in Nat
      OBVIOUS
    <3> QED
      BY <1>1, <2>2, <3>1
  <2>5. k = 1 \/ 1 < k
    BY <2>4
  <2>6. k = 1
    BY <1>1, <2>1, <2>2, <2>3, <2>4, <2>5
  <2> QED
    BY <1>4, <2>1, <2>2, <2>6
<1> QED
  BY <1>5, <1>6, <1>7 DEF out

\* The records that speak of a field of a session, and the first of them.
LEMMA SpeakingIs ==
    ASSUME Records(imported), NEW s, NEW f
    PROVE  /\ Speaking(s, f) = <<>> <=> ~ \E k \in 1..Len(imported) : Speaks(s, imported[k], f)
           /\ \A rec : rec \in ToSet(Speaking(s, f)) <=>
                \E k \in 1..Len(imported) : Speaks(s, imported[k], f) /\ rec = imported[k]
           /\ \A k \in 1..Len(imported) :
                Speaks(s, imported[k], f) /\ (\A j \in 1..k - 1 : ~Speaks(s, imported[j], f))
                  => Speaking(s, f)[1] = imported[k]
<1> DEFINE n == Len(imported)
           I == {i \in 1..n : RecordMatches(s, imported[i]) /\ f \in DOMAIN imported[i].values}
<1>1. Speaking(s, f) = Picked(imported, I)
  BY DEF Speaking, Filter
<1>2. n \in Nat /\ I \in SUBSET (1..n)
  BY DEF Records
<1>3. \A k \in 1..n : k \in I <=> Speaks(s, imported[k], f)
  BY DEF Speaks
<1>4. \A i \in I : i \in 1..n
  OBVIOUS
<1> HIDE DEF n, I
<1>5. /\ Picked(imported, I) = <<>> <=> I = {}
      /\ \A m \in I : (\A i \in I : m <= i) => Picked(imported, I)[1] = imported[m]
  BY <1>2, PickedFirst
<1>6. \A x : x \in ToSet(Picked(imported, I)) <=> \E i \in I : x = imported[i]
  BY <1>2, PickedMembers
<1>7. ASSUME NEW k \in 1..n, Speaks(s, imported[k], f),
             \A j \in 1..k - 1 : ~Speaks(s, imported[j], f)
      PROVE  Speaking(s, f)[1] = imported[k]
  <2>1. k \in I
    BY <1>3, <1>7
  <2>2. \A i \in I : k <= i
    <3> SUFFICES ASSUME NEW i \in I, i < k PROVE FALSE
      BY <1>2, <1>4
    <3>1. i \in 1..k - 1 /\ i \in 1..n
      BY <1>2, <1>4
    <3> QED
      BY <1>3, <1>7, <3>1
  <2> QED
    BY <1>1, <1>5, <2>1, <2>2
<1> QED
  BY <1>1, <1>3, <1>4, <1>5, <1>6, <1>7 DEF n

\* What a row shows: its row of the analysis, and what the records say of it.
LEMMA RowShows ==
    ASSUME Kept, RowsAreFresh, NEW s \in stored, NEW w \in Rows(report.sessions),
           KeptRow(s, w, imported), NEW f \in GatewayFields
    PROVE  /\ Wire(s) = w
           /\ Shown(s, f) <=> ShownIn(w, f)
           /\ \A rec : Speaks(s, rec, f) <=> Speaks(w, rec, f)
           /\ FieldTold(w, s.ike, imported, Len(imported), f)
           /\ DriftTold(w, s.ike, imported, Len(imported))
           /\ DriftFired(s)
<1>1. /\ SameIds(s, w) /\ DriftFired(s)
      /\ FieldTold(w, s.ike, imported, Len(imported), f)
      /\ DriftTold(w, s.ike, imported, Len(imported))
  BY DEF KeptRow, AllTold
<1>2. Wire(s) = w
  BY <1>1 DEF Wire, SameIds, RowsAreFresh
<1>3. Shown(s, f) <=> ShownIn(w, f)
  BY <1>2 DEF Shown, ShownIn
<1>4. \A rec : Speaks(s, rec, f) <=> Speaks(w, rec, f)
  BY <1>1 DEF Speaks, RecordMatches, SameIds
<1> QED
  BY <1>1, <1>2, <1>3, <1>4

\* What the records told in their turn is what the wire and then the first of them said.
LEMMA KeptIsTold == Kept /\ RowsAreFresh => WireThenGateway
<1> SUFFICES ASSUME Kept, RowsAreFresh, NEW s \in stored, NEW f \in GatewayFields
             PROVE  IF Shown(s, f) \/ Speaking(s, f) = <<>> THEN Untouched(s, f)
                    ELSE Filled(s, f, Speaking(s, f))
  BY DEF WireThenGateway
<1> DEFINE n == Len(imported)
<1>1. PICK w \in Rows(report.sessions) : KeptRow(s, w, imported)
  BY DEF Kept
<1>2. /\ Wire(s) = w
      /\ Shown(s, f) <=> ShownIn(w, f)
      /\ \A rec : Speaks(s, rec, f) <=> Speaks(w, rec, f)
      /\ FieldTold(w, s.ike, imported, n, f)
  BY <1>1, RowShows
<1>3. Records(imported)
  BY DEF Kept
<1>4. /\ Speaking(s, f) = <<>> <=> ~ \E k \in 1..n : Speaks(s, imported[k], f)
      /\ \A k \in 1..n :
           Speaks(s, imported[k], f) /\ (\A j \in 1..k - 1 : ~Speaks(s, imported[j], f))
             => Speaking(s, f)[1] = imported[k]
  BY <1>3, SpeakingIs
<1> HIDE DEF n
<1>5. CASE Shown(s, f) \/ Speaking(s, f) = <<>>
  <2>1. AsLeft(w, s.ike, f)
    BY <1>2, <1>4, <1>5 DEF FieldTold
  <2>2. Untouched(s, f)
    BY <1>2, <2>1 DEF AsLeft, Untouched
  <2> QED
    BY <1>5, <2>2
<1>6. CASE ~(Shown(s, f) \/ Speaking(s, f) = <<>>)
  <2>1. PICK k \in 1..n : /\ Speaks(w, imported[k], f)
                          /\ \A j \in 1..k - 1 : ~Speaks(w, imported[j], f)
                          /\ AsSaid(s.ike, imported[k], f)
    BY <1>2, <1>4, <1>6 DEF FieldTold
  <2>2. Speaking(s, f)[1] = imported[k]
    BY <1>2, <1>4, <2>1
  <2>3. Filled(s, f, Speaking(s, f))
    BY <2>1, <2>2 DEF AsSaid, Filled
  <2> QED
    BY <1>6, <2>3
<1> QED
  BY <1>5, <1>6

\* What was noted as drift is what contradicts the wire.
LEMMA KeptIsDrift == Kept /\ RowsAreFresh => DriftIsReported
<1> SUFFICES ASSUME Kept, RowsAreFresh, NEW s \in stored
             PROVE  (\E f \in FindingsOf(s) : f.rule_id = "R21")
                      <=> \E f \in GatewayFields :
                            /\ Shown(s, f)
                            /\ \E rec \in ToSet(Speaking(s, f)) : rec.values[f] # s.ike[f]
  BY DEF DriftIsReported
<1> DEFINE n == Len(imported)
           Against(f) == /\ Shown(s, f)
                         /\ \E rec \in ToSet(Speaking(s, f)) : rec.values[f] # s.ike[f]
<1>1. PICK w \in Rows(report.sessions) : KeptRow(s, w, imported)
  BY DEF Kept
<1>2. DriftFired(s) /\ DriftTold(w, s.ike, imported, n)
  BY <1>1 DEF KeptRow, AllTold
<1>3. ASSUME NEW f \in GatewayFields
      PROVE  Against(f) <=> \E k \in 1..n : Contradicts(w, imported[k], f)
  <2>1. /\ Shown(s, f) <=> ShownIn(w, f)
        /\ \A rec : Speaks(s, rec, f) <=> Speaks(w, rec, f)
        /\ FieldTold(w, s.ike, imported, n, f)
    BY <1>1, RowShows
  <2>2. Records(imported)
    BY DEF Kept
  <2>3. \A rec : rec \in ToSet(Speaking(s, f)) <=>
          \E k \in 1..n : Speaks(s, imported[k], f) /\ rec = imported[k]
    BY <2>2, SpeakingIs
  <2> HIDE DEF n
  <2>4. Shown(s, f) => s.ike[f] = w.ike[f]
    BY <2>1 DEF FieldTold, AsLeft
  <2>5. Against(f) <=> ShownIn(w, f) /\ \E k \in 1..n : /\ Speaks(w, imported[k], f)
                                                         /\ imported[k].values[f] # w.ike[f]
    BY <2>1, <2>3, <2>4
  <2> QED
    BY <2>5 DEF Contradicts
<1> HIDE DEF n, Against
<1>4. (\E f \in FindingsOf(s) : f.rule_id = "R21") <=> \E f \in GatewayFields : Against(f)
  BY <1>2, <1>3 DEF DriftFired, DriftTold
<1> QED
  BY <1>4 DEF Against

\* However many outputs are attached, and in whatever order, the gateway fills only
\* what the wire hid, and the first record that knows a field decides it.
THEOREM GatewayFillsTheRest == StoredSpec => []WireThenGateway
<1>1. StoredSpec => []RowsAreFresh
  BY AnalysisFollows, AnalysedRows, PTL
<1> QED
  BY <1>1, StoreKeepsTheTold, KeptIsTold, PTL

\* R21 fires exactly when some record contradicts what the wire showed, whatever
\* else was attached before it or after it.
THEOREM DriftIsWhatContradicts == StoredSpec => []DriftIsReported
<1>1. StoredSpec => []RowsAreFresh
  BY AnalysisFollows, AnalysedRows, PTL
<1> QED
  BY <1>1, StoreKeepsTheTold, KeptIsDrift, PTL
-----------------------------------------------------------------------------
(* Sums over finite sets *)

\* A set of numbers has a least.
LEMMA LeastNumber ==
    ASSUME NEW S \in SUBSET Nat, S # {}
    PROVE  \E m \in S : \A i \in S : m <= i
<1>1. S # {}
  OBVIOUS
<1>2. IsWellFoundedOn(OpToRel(<, Nat), Nat)
  BY NatLessThanWellFounded
<1>3. PICK m \in S : \A i \in S : ~ (<<i, m>> \in OpToRel(<, Nat))
  BY <1>1, <1>2, WFMin
<1>4. \A i \in S : i \in Nat /\ m \in Nat /\ ~(i < m)
  BY <1>3 DEF OpToRel
<1> QED
  BY <1>4

\* The element of a set that MapThenSumSet adds first, and what it leaves for later.
One(s) == CHOOSE x \in s : TRUE
Others(s) == s \ {One(s)}

\* The subsets of at most n elements, and the sums of value over each of them.
UpTo(D, n) == {s \in SUBSET D : Cardinality(s) <= n}
Adds(value, s, sums) == IF s = {} THEN 0 ELSE value[One(s)] + sums[Others(s)]
AreSums(value, D, n, sums) == sums = [s \in UpTo(D, n) |-> Adds(value, s, sums)]

\* What is left of a set is smaller.
LEMMA OthersAre ==
    ASSUME NEW D, IsFiniteSet(D), NEW s \in SUBSET D
    PROVE  /\ IsFiniteSet(s) /\ Cardinality(s) \in Nat
           /\ Cardinality(s) = 0 <=> s = {}
           /\ s # {} => /\ One(s) \in s
                        /\ Others(s) \in SUBSET D
                        /\ Cardinality(Others(s)) = Cardinality(s) - 1
<1>1. IsFiniteSet(s)
  BY FS_Subset
<1>2. Cardinality(s) \in Nat
  BY <1>1, FS_CardinalityType
<1>3. Cardinality(s) = 0 <=> s = {}
  BY <1>1, FS_EmptySet
<1>4. ASSUME s # {} PROVE One(s) \in s
  BY <1>4 DEF One
<1>5. s # {} => Cardinality(Others(s)) = Cardinality(s) - 1
  BY <1>1, <1>4, FS_RemoveElement DEF Others
<1> QED
  BY <1>1, <1>2, <1>3, <1>4, <1>5 DEF Others

\* There are such sums.
LEMMA SumsExist ==
    ASSUME NEW value, NEW D, IsFiniteSet(D), NEW n \in Nat
    PROVE  \E sums : AreSums(value, D, n, sums)
<1> DEFINE bad == {k \in Nat : ~ \E sums : AreSums(value, D, k, sums)}
<1>1. bad \in SUBSET Nat
  OBVIOUS
<1>2. \A k \in Nat : k \notin bad => \E sums : AreSums(value, D, k, sums)
  OBVIOUS
<1>3. \A k \in bad : ~ \E sums : AreSums(value, D, k, sums)
  OBVIOUS
<1> HIDE DEF bad
<1>4. ASSUME NEW k \in bad, \A i \in bad : k <= i PROVE FALSE
  <2>1. k \in Nat
    BY <1>1
  <2>2. PICK old : k > 0 => AreSums(value, D, k - 1, old)
    <3>1. CASE k > 0
      <4>1. k - 1 \in Nat /\ k - 1 \notin bad
        BY <1>4, <2>1, <3>1
      <4> QED
        BY <1>2, <4>1
    <3> QED
      BY <2>1, <3>1
  <2> DEFINE new == [s \in UpTo(D, k) |-> Adds(value, s, old)]
  <2>3. ASSUME NEW s \in UpTo(D, k) PROVE Adds(value, s, old) = Adds(value, s, new)
    <3>1. CASE s = {}
      BY <3>1 DEF Adds
    <3>2. CASE s # {}
      <4>1. s \in SUBSET D /\ Cardinality(s) <= k
        BY DEF UpTo
      <4>2. Cardinality(s) \in Nat /\ Cardinality(s) # 0 /\ Others(s) \in SUBSET D
            /\ Cardinality(Others(s)) = Cardinality(s) - 1
        BY <3>2, <4>1, OthersAre
      <4>3. k > 0 /\ Cardinality(Others(s)) <= k - 1 /\ Cardinality(Others(s)) <= k
        BY <2>1, <4>1, <4>2
      <4>4. Others(s) \in UpTo(D, k - 1) /\ Others(s) \in UpTo(D, k)
        BY <4>2, <4>3 DEF UpTo
      <4>5. old[Others(s)] = Adds(value, Others(s), old)
        BY <2>2, <4>3, <4>4 DEF AreSums
      <4>6. new[Others(s)] = Adds(value, Others(s), old)
        BY <4>4
      <4> QED
        BY <3>2, <4>5, <4>6 DEF Adds
    <3> QED
      BY <3>1, <3>2
  <2>4. new = [s \in UpTo(D, k) |-> Adds(value, s, new)]
    BY <2>3
  <2>5. AreSums(value, D, k, new)
    BY <2>4 DEF AreSums
  <2> QED
    BY <1>3, <1>4, <2>5
<1>5. bad = {}
  BY <1>1, <1>4, LeastNumber
<1> QED
  BY <1>2, <1>5

\* The sum of value over each subset of D.
IsTotal(value, D, sums) == sums = [s \in SUBSET D |-> Adds(value, s, sums)]
Total(value, D) == CHOOSE sums : IsTotal(value, D, sums)

\* A finite set has a sum over each of its parts.
LEMMA TotalExists ==
    ASSUME NEW value, NEW D, IsFiniteSet(D)
    PROVE  IsTotal(value, D, Total(value, D))
<1> DEFINE n == Cardinality(D)
<1>1. n \in Nat /\ \A s \in SUBSET D : Cardinality(s) <= n
  BY FS_CardinalityType, FS_Subset
<1>2. UpTo(D, n) = SUBSET D
  BY <1>1 DEF UpTo
<1> HIDE DEF n
<1>3. PICK sums : AreSums(value, D, n, sums)
  BY <1>1, SumsExist
<1>4. IsTotal(value, D, sums)
  BY <1>2, <1>3 DEF AreSums, IsTotal
<1> QED
  BY <1>4 DEF Total

\* Whatever adds up the elements of a part of D one by one, comes to the same.
LEMMA TotalIsUnique ==
    ASSUME NEW value, NEW D, IsFiniteSet(D), NEW E \in SUBSET D, NEW sums, IsTotal(value, E, sums)
    PROVE  sums[E] = Total(value, D)[E]
<1> DEFINE total == Total(value, D)
           bad == {Cardinality(s) : s \in {t \in SUBSET E : sums[t] # total[t]}}
<1>1. total = [s \in SUBSET D |-> Adds(value, s, total)]
  <2>1. IsTotal(value, D, total)
    BY TotalExists
  <2> QED
    BY <2>1 DEF IsTotal
<1>2. sums = [s \in SUBSET E |-> Adds(value, s, sums)]
  BY DEF IsTotal
<1> HIDE DEF total
<1>3. bad \in SUBSET Nat
  BY OthersAre
<1>a. \A k \in bad : \E s \in SUBSET E : sums[s] # total[s] /\ Cardinality(s) = k
  OBVIOUS
<1>b. \A s \in SUBSET E : sums[s] # total[s] => Cardinality(s) \in bad
  OBVIOUS
<1> HIDE DEF bad
<1>4. ASSUME NEW k \in bad, \A i \in bad : k <= i PROVE FALSE
  <2>1. PICK s \in SUBSET E : sums[s] # total[s] /\ Cardinality(s) = k
    BY <1>a
  <2>2. s \in SUBSET D
    OBVIOUS
  <2>3. sums[s] = Adds(value, s, sums) /\ total[s] = Adds(value, s, total)
    BY <1>1, <1>2, <2>2
  <2>4. s # {}
    BY <2>1, <2>3 DEF Adds
  <2>5. Others(s) \in SUBSET E
    BY <2>1 DEF Others
  <2>6. k \in Nat /\ Cardinality(Others(s)) = k - 1
    BY <2>1, <2>2, <2>4, OthersAre
  <2>7. sums[Others(s)] = total[Others(s)]
    <3>1. ASSUME sums[Others(s)] # total[Others(s)] PROVE FALSE
      <4>1. Cardinality(Others(s)) \in bad
        BY <1>b, <2>5, <3>1
      <4> QED
        BY <1>4, <2>6, <4>1
    <3> QED
      BY <3>1
  <2> QED
    BY <2>1, <2>3, <2>4, <2>7 DEF Adds
<1>5. bad = {}
  BY <1>3, <1>4, LeastNumber
<1> QED
  BY <1>b, <1>5 DEF total

\* Sums are numbers, and one of nothing is zero.
LEMMA TotalIsNumber ==
    ASSUME NEW D, IsFiniteSet(D), NEW value, \A x \in D : value[x] \in Int
    PROVE  /\ Total(value, D)[{}] = 0
           /\ \A s \in SUBSET D :
                /\ Total(value, D)[s] \in Int
                /\ s # {} => Total(value, D)[s] = value[One(s)] + Total(value, D)[Others(s)]
<1> DEFINE total == Total(value, D)
           bad == {Cardinality(s) : s \in {t \in SUBSET D : total[t] \notin Int}}
<1>1. total = [s \in SUBSET D |-> Adds(value, s, total)]
  BY TotalExists DEF IsTotal
<1> HIDE DEF total
<1>2. \A s \in SUBSET D : /\ s = {} => total[s] = 0
                          /\ s # {} => total[s] = value[One(s)] + total[Others(s)]
  BY <1>1 DEF Adds
<1>3. bad \in SUBSET Nat
  BY OthersAre
<1>a. \A k \in bad : \E s \in SUBSET D : total[s] \notin Int /\ Cardinality(s) = k
  OBVIOUS
<1>b. \A s \in SUBSET D : total[s] \notin Int => Cardinality(s) \in bad
  OBVIOUS
<1> HIDE DEF bad
<1>4. ASSUME NEW k \in bad, \A i \in bad : k <= i PROVE FALSE
  <2>1. PICK s \in SUBSET D : total[s] \notin Int /\ Cardinality(s) = k
    BY <1>a
  <2>2. s # {}
    <3>1. ASSUME s = {} PROVE FALSE
      <4>1. total[s] = 0
        BY <1>2, <3>1
      <4> QED
        BY <2>1, <4>1
    <3> QED
      BY <3>1
  <2>3. /\ One(s) \in D /\ Others(s) \in SUBSET D
        /\ k \in Nat /\ Cardinality(Others(s)) = k - 1
    BY <2>1, <2>2, OthersAre
  <2>4. total[Others(s)] \in Int
    <3>1. ASSUME total[Others(s)] \notin Int PROVE FALSE
      <4>1. Cardinality(Others(s)) \in bad
        BY <1>b, <2>3, <3>1
      <4> QED
        BY <1>4, <2>3, <4>1
    <3> QED
      BY <3>1
  <2>5. total[s] = value[One(s)] + total[Others(s)]
    BY <1>2, <2>2
  <2> QED
    BY <2>1, <2>3, <2>4, <2>5
<1>5. bad = {}
  BY <1>3, <1>4, LeastNumber
<1>6. ASSUME NEW s \in SUBSET D PROVE total[s] \in Int
  BY <1>b, <1>5
<1> QED
  BY <1>2, <1>6 DEF total

\* It does not matter which element is added first.
LEMMA AnyFirst ==
    ASSUME NEW D, IsFiniteSet(D), NEW value, \A x \in D : value[x] \in Int,
           NEW s \in SUBSET D, NEW x \in s
    PROVE  Total(value, D)[s] = value[x] + Total(value, D)[s \ {x}]
<1> DEFINE total == Total(value, D)
           Wrong(t) == \E y \in t : total[t] # value[y] + total[t \ {y}]
           bad == {Cardinality(t) : t \in {u \in SUBSET D : Wrong(u)}}
<1>1. \A t \in SUBSET D : total[t] \in Int /\ (t # {} => total[t] = value[One(t)] + total[Others(t)])
  BY TotalIsNumber
<1> HIDE DEF total
<1>2. bad \in SUBSET Nat
  BY OthersAre
<1>a. \A k \in bad : \E t \in SUBSET D : Wrong(t) /\ Cardinality(t) = k
  OBVIOUS
<1>b. \A t \in SUBSET D : Wrong(t) => Cardinality(t) \in bad
  OBVIOUS
<1>c. \A t : Wrong(t) <=> \E y \in t : total[t] # value[y] + total[t \ {y}]
  OBVIOUS
<1> HIDE DEF bad, Wrong
<1>3. ASSUME NEW k \in bad, \A i \in bad : k <= i PROVE FALSE
  <2>1. PICK t \in SUBSET D : Wrong(t) /\ Cardinality(t) = k
    BY <1>a
  <2>2. PICK y \in t : total[t] # value[y] + total[t \ {y}]
    BY <1>c, <2>1
  <2> DEFINE c == One(t)
  <2>3. c \in t /\ IsFiniteSet(t) /\ k \in Nat
    BY <2>1, <2>2, OthersAre
  <2>4. total[t] = value[c] + total[t \ {c}]
    BY <1>1, <2>2 DEF Others
  <2> HIDE DEF c
  <2>5. c # y
    BY <2>2, <2>4
  <2>6. ASSUME NEW z \in t PROVE ~Wrong(t \ {z})
    <3>1. Cardinality(t \ {z}) = k - 1
      BY <2>1, <2>3, FS_RemoveElement
    <3>2. t \ {z} \in SUBSET D
      OBVIOUS
    <3>3. ASSUME Wrong(t \ {z}) PROVE FALSE
      <4>1. Cardinality(t \ {z}) \in bad
        BY <1>b, <3>2, <3>3
      <4>2. k <= k - 1
        BY <1>3, <3>1, <4>1
      <4> QED
        BY <2>3, <4>2
    <3> QED
      BY <3>3
  <2>7. total[t \ {c}] = value[y] + total[(t \ {c}) \ {y}]
    BY <1>c, <2>3, <2>5, <2>6
  <2>8. total[t \ {y}] = value[c] + total[(t \ {y}) \ {c}]
    BY <1>c, <2>3, <2>5, <2>6
  <2>9. (t \ {y}) \ {c} = (t \ {c}) \ {y}
    OBVIOUS
  <2>10. /\ value[c] \in Int /\ value[y] \in Int
         /\ total[(t \ {c}) \ {y}] \in Int
    BY <1>1, <2>2, <2>3
  <2> DEFINE rest == total[(t \ {c}) \ {y}]
  <2>11. total[t] = value[c] + (value[y] + rest) /\ total[t \ {y}] = value[c] + rest
    BY <2>4, <2>7, <2>8, <2>9
  <2>12. rest \in Int /\ value[c] \in Int /\ value[y] \in Int
    BY <2>10
  <2> HIDE DEF rest
  <2>13. total[t] = value[y] + total[t \ {y}]
    BY <2>11, <2>12
  <2> QED
    BY <2>2, <2>13
<1>4. bad = {}
  BY <1>2, <1>3, LeastNumber
<1>5. ~Wrong(s)
  BY <1>b, <1>4
<1> QED
  BY <1>c, <1>5 DEF total

\* The sum over two disjoint sets is the sum of their sums.
LEMMA TotalOfUnion ==
    ASSUME NEW D, IsFiniteSet(D), NEW value, \A x \in D : value[x] \in Int,
           NEW A \in SUBSET D, NEW B \in SUBSET D, A \cap B = {}
    PROVE  Total(value, D)[A \cup B] = Total(value, D)[A] + Total(value, D)[B]
<1> DEFINE total == Total(value, D)
           Wrong(t) == A \cap t = {} /\ total[A \cup t] # total[A] + total[t]
           bad == {Cardinality(t) : t \in {u \in SUBSET D : Wrong(u)}}
<1>1. total[{}] = 0 /\ \A t \in SUBSET D : total[t] \in Int
  BY TotalIsNumber
<1>2. ASSUME NEW t \in SUBSET D, NEW y \in t PROVE total[t] = value[y] + total[t \ {y}]
  BY AnyFirst
<1> HIDE DEF total
<1>3. bad \in SUBSET Nat
  <2>1. \A u \in SUBSET D : Cardinality(u) \in Nat
    BY OthersAre
  <2> QED
    BY <2>1
<1>a. \A k \in bad : \E t \in SUBSET D : Wrong(t) /\ Cardinality(t) = k
  OBVIOUS
<1>b. \A t \in SUBSET D : Wrong(t) => Cardinality(t) \in bad
  OBVIOUS
<1>c. \A t : Wrong(t) <=> A \cap t = {} /\ total[A \cup t] # total[A] + total[t]
  OBVIOUS
<1> HIDE DEF bad, Wrong
<1>4. ASSUME NEW k \in bad, \A i \in bad : k <= i PROVE FALSE
  <2>1. PICK t \in SUBSET D : Wrong(t) /\ Cardinality(t) = k
    BY <1>a
  <2>0. A \cap t = {} /\ total[A \cup t] # total[A] + total[t]
    BY <1>c, <2>1
  <2>2. t # {}
    <3>1. A \cup {} = A /\ total[A] \in Int
      BY <1>1
    <3>2. total[A] + 0 = total[A]
      BY <3>1
    <3> QED
      BY <1>1, <2>0, <3>1, <3>2
  <2>3. PICK y \in t : TRUE
    BY <2>2
  <2>4. IsFiniteSet(t) /\ k \in Nat
    BY <2>1, OthersAre
  <2>5. Cardinality(t \ {y}) = k - 1 /\ t \ {y} \in SUBSET D
    BY <2>1, <2>4, FS_RemoveElement
  <2>6. ~Wrong(t \ {y})
    <3>1. ASSUME Wrong(t \ {y}) PROVE FALSE
      <4>1. Cardinality(t \ {y}) \in bad
        BY <1>b, <2>5, <3>1
      <4>2. k <= k - 1
        BY <1>4, <2>5, <4>1
      <4> QED
        BY <2>4, <4>2
    <3> QED
      BY <3>1
  <2>7. total[A \cup (t \ {y})] = total[A] + total[t \ {y}]
    BY <1>c, <2>0, <2>6
  <2>8. total[t] = value[y] + total[t \ {y}]
    BY <1>2
  <2>9. total[A \cup t] = value[y] + total[A \cup (t \ {y})]
    <3>1. A \cup t \in SUBSET D /\ y \in A \cup t
      BY <2>1
    <3>2. y \notin A
      BY <2>0
    <3>3. (A \cup t) \ {y} = A \cup (t \ {y})
      BY <3>2
    <3> QED
      BY <1>2, <3>1, <3>3
  <2>10. value[y] \in Int /\ total[A] \in Int /\ total[t \ {y}] \in Int
    BY <1>1, <2>5
  <2> QED
    BY <2>0, <2>7, <2>8, <2>9, <2>10
<1>5. bad = {}
  BY <1>3, <1>4, LeastNumber
<1>6. ~Wrong(B)
  BY <1>b, <1>5
<1> QED
  BY <1>c, <1>6 DEF total

\* What adds up over disjoint sets.
IsMeasure(mu, D) ==
    /\ mu[{}] = 0
    /\ \A A, B \in SUBSET D : A \cap B = {} => mu[A \cup B] = mu[A] + mu[B]

Under(D, key, group) == {x \in D : key[x] = group}
UnderAny(D, key, groups) == {x \in D : key[x] \in groups}

\* The sum over groups of what each comes to is what all comes to.
LEMMA GroupsAddUp ==
    ASSUME NEW D, NEW key, NEW G, IsFiniteSet(G), \A x \in D : key[x] \in G,
           NEW mu, IsMeasure(mu, D), NEW h,
           \A g \in G : h[g] = mu[Under(D, key, g)] /\ h[g] \in Int
    PROVE  Total(h, G)[G] = mu[D]
<1> DEFINE total == Total(h, G)
           Wrong(H) == total[H] # mu[UnderAny(D, key, H)]
           bad == {Cardinality(H) : H \in {u \in SUBSET G : Wrong(u)}}
<1>1. /\ total[{}] = 0
      /\ \A H \in SUBSET G : H # {} => total[H] = h[One(H)] + total[Others(H)]
  BY TotalIsNumber
<1> HIDE DEF total
<1>2. bad \in SUBSET Nat
  <2>1. \A u \in SUBSET G : Cardinality(u) \in Nat
    BY OthersAre
  <2> QED
    BY <2>1
<1>3. \A k \in bad : \E H \in SUBSET G : Wrong(H) /\ Cardinality(H) = k
  OBVIOUS
<1>4. \A H \in SUBSET G : Wrong(H) => Cardinality(H) \in bad
  OBVIOUS
<1>5. \A H : Wrong(H) <=> total[H] # mu[UnderAny(D, key, H)]
  OBVIOUS
<1> HIDE DEF bad, Wrong
<1>6. ASSUME NEW k \in bad, \A i \in bad : k <= i PROVE FALSE
  <2>1. PICK H \in SUBSET G : Wrong(H) /\ Cardinality(H) = k
    BY <1>3
  <2>2. H # {}
    <3>1. UnderAny(D, key, {}) = {} /\ mu[{}] = 0
      BY DEF UnderAny, IsMeasure
    <3> QED
      BY <1>1, <1>5, <2>1, <3>1
  <2> DEFINE c == One(H)
             rest == Others(H)
             A == Under(D, key, c)
             B == UnderAny(D, key, rest)
  <2>3. c \in H /\ rest \in SUBSET G /\ k \in Nat /\ Cardinality(rest) = k - 1
    BY <2>1, <2>2, OthersAre
  <2>4. rest = H \ {c}
    BY DEF Others
  <2>5. total[H] = h[c] + total[rest]
    BY <1>1, <2>2
  <2> HIDE DEF c, rest
  <2>6. ~Wrong(rest)
    <3>1. ASSUME Wrong(rest) PROVE FALSE
      <4>1. Cardinality(rest) \in bad
        BY <1>4, <2>3, <3>1
      <4>2. k <= k - 1
        BY <1>6, <2>3, <4>1
      <4> QED
        BY <2>3, <4>2
    <3> QED
      BY <3>1
  <2>7. total[rest] = mu[B]
    BY <1>5, <2>6
  <2>8. h[c] = mu[A]
    BY <2>3
  <2>9. A \in SUBSET D /\ B \in SUBSET D /\ A \cap B = {}
    BY <2>4 DEF Under, UnderAny
  <2>10. A \cup B = UnderAny(D, key, H)
    BY <2>3, <2>4 DEF Under, UnderAny
  <2> HIDE DEF A, B
  <2>11. mu[A \cup B] = mu[A] + mu[B]
    BY <2>9 DEF IsMeasure
  <2> QED
    BY <1>5, <2>1, <2>5, <2>7, <2>8, <2>10, <2>11
<1>7. bad = {}
  BY <1>2, <1>6, LeastNumber
<1>8. ~Wrong(G)
  BY <1>4, <1>7
<1>9. UnderAny(D, key, G) = D
  BY DEF UnderAny
<1> QED
  BY <1>5, <1>8, <1>9 DEF total

\* Sums and cardinalities are such.
LEMMA SumsMeasure ==
    ASSUME NEW D, IsFiniteSet(D), NEW value, \A x \in D : value[x] \in Int
    PROVE  IsMeasure(Total(value, D), D)
<1>1. Total(value, D)[{}] = 0
  BY TotalIsNumber
<1>2. ASSUME NEW A \in SUBSET D, NEW B \in SUBSET D, A \cap B = {}
      PROVE  Total(value, D)[A \cup B] = Total(value, D)[A] + Total(value, D)[B]
  BY <1>2, TotalOfUnion
<1> QED
  BY <1>1, <1>2 DEF IsMeasure

Sizes(D) == [s \in SUBSET D |-> Cardinality(s)]

\* To count the elements of a part is to measure it.
LEMMA SizesMeasure ==
    ASSUME NEW D, IsFiniteSet(D)
    PROVE  IsMeasure(Sizes(D), D)
<1>1. Sizes(D)[{}] = 0
  BY FS_EmptySet DEF Sizes
<1>2. ASSUME NEW A \in SUBSET D, NEW B \in SUBSET D, A \cap B = {}
      PROVE  Sizes(D)[A \cup B] = Sizes(D)[A] + Sizes(D)[B]
  <2>1. IsFiniteSet(A) /\ IsFiniteSet(B) /\ Cardinality(A) \in Nat /\ Cardinality(B) \in Nat
    BY OthersAre
  <2>2. Cardinality(A \cup B) = Cardinality(A) + Cardinality(B) - Cardinality(A \cap B)
    BY <2>1, FS_Union
  <2>3. Cardinality(A \cap B) = 0
    BY <1>2, FS_EmptySet
  <2>4. A \cup B \in SUBSET D
    OBVIOUS
  <2>5. Cardinality(A \cup B) = Cardinality(A) + Cardinality(B)
    BY <2>1, <2>2, <2>3
  <2> QED
    BY <2>4, <2>5 DEF Sizes
<1> QED
  BY <1>1, <1>2 DEF IsMeasure
-----------------------------------------------------------------------------
(* The sums of a report *)

InGroup(S, sev) == {s \in S : Severity(s) = sev}
SeveritiesOf(S) == {Severity(s) : s \in S}

IsScoreSum(S, sums) ==
    sums = [t \in SUBSET S |-> IF t = {} THEN 0
                               ELSE LET x == CHOOSE x \in t : TRUE IN Score(x) + sums[t \ {x}]]

IsSizeSum(S, G, sums) ==
    sums = [t \in SUBSET G |-> IF t = {} THEN 0
                               ELSE LET x == CHOOSE x \in t : TRUE
                                    IN  Cardinality(InGroup(S, x)) + sums[t \ {x}]]

IsGroupSum(S, G, sums) ==
    sums = [t \in SUBSET G |-> IF t = {} THEN 0
                               ELSE LET x == CHOOSE x \in t : TRUE
                                    IN  MapThenSumSet(Score, InGroup(S, x)) + sums[t \ {x}]]

IsPenaltySum(S, sums) ==
    sums = [t \in SUBSET S |-> IF t = {} THEN 0
                               ELSE LET x == CHOOSE x \in t : TRUE
                                    IN  SEVERITY_PENALTY[x.severity] + sums[t \ {x}]]

Scores(S) == [x \in S |-> Score(x)]
GroupSizes(S, G) == [x \in G |-> Cardinality(InGroup(S, x))]
GroupScores(S, G) == [x \in G |-> MapThenSumSet(Score, InGroup(S, x))]
Penalties(S) == [x \in S |-> SEVERITY_PENALTY[x.severity]]

\* The scores of some rows add up to their sum over all the rows there are.
LEMMA ScoresTotal ==
    ASSUME NEW D, IsFiniteSet(D), NEW S \in SUBSET D
    PROVE  (CHOOSE sums : IsScoreSum(S, sums))[S] = Total(Scores(D), D)[S]
<1> DEFINE total == Total(Scores(D), S)
           chosen == CHOOSE sums : IsScoreSum(S, sums)
<1>1. \A sums : IsScoreSum(S, sums) <=> IsTotal(Scores(D), S, sums)
  <2> TAKE sums
  <2>1. ASSUME NEW t \in SUBSET S
        PROVE  Adds(Scores(D), t, sums)
                 = IF t = {} THEN 0
                   ELSE LET x == CHOOSE x \in t : TRUE IN Score(x) + sums[t \ {x}]
    <3>1. CASE t = {}
      BY <3>1 DEF Adds
    <3>2. CASE t # {}
      <4>1. One(t) \in S
        BY <3>2 DEF One
      <4>2. Scores(D)[One(t)] = LET x == One(t) IN Score(x)
        BY <4>1 DEF Scores
      <4> QED
        BY <3>2, <4>2 DEF Adds, Others, One
    <3> QED
      BY <3>1, <3>2
  <2> QED
    BY <2>1, Zenon DEF IsScoreSum, IsTotal
<1>2. IsTotal(Scores(D), S, total)
  BY FS_Subset, TotalExists
<1>3. IsTotal(Scores(D), S, chosen)
  BY <1>1, <1>2
<1> QED
  BY <1>3, TotalIsUnique

\* The sizes of the groups add up to their sum.
LEMMA SizesTotal ==
    ASSUME NEW S, NEW G, IsFiniteSet(G)
    PROVE  (CHOOSE sums : IsSizeSum(S, G, sums))[G] = Total(GroupSizes(S, G), G)[G]
<1> DEFINE total == Total(GroupSizes(S, G), G)
           chosen == CHOOSE sums : IsSizeSum(S, G, sums)
<1>1. \A sums : IsSizeSum(S, G, sums) <=> IsTotal(GroupSizes(S, G), G, sums)
  <2> TAKE sums
  <2>1. ASSUME NEW t \in SUBSET G
        PROVE  Adds(GroupSizes(S, G), t, sums)
                 = IF t = {} THEN 0
                   ELSE LET x == CHOOSE x \in t : TRUE IN Cardinality(InGroup(S, x)) + sums[t \ {x}]
    <3>1. CASE t = {}
      BY <3>1 DEF Adds
    <3>2. CASE t # {}
      <4>1. One(t) \in G
        BY <3>2 DEF One
      <4>2. GroupSizes(S, G)[One(t)] = LET x == One(t) IN Cardinality(InGroup(S, x))
        BY <4>1 DEF GroupSizes
      <4> QED
        BY <3>2, <4>2 DEF Adds, Others, One
    <3> QED
      BY <3>1, <3>2
  <2> QED
    BY <2>1, Zenon DEF IsSizeSum, IsTotal
<1>2. IsTotal(GroupSizes(S, G), G, total)
  BY TotalExists
<1>3. IsTotal(GroupSizes(S, G), G, chosen)
  BY <1>1, <1>2
<1> QED
  BY <1>3, TotalIsUnique

\* So do the scores of the groups.
LEMMA GroupsTotal ==
    ASSUME NEW S, NEW G, IsFiniteSet(G)
    PROVE  (CHOOSE sums : IsGroupSum(S, G, sums))[G] = Total(GroupScores(S, G), G)[G]
<1> DEFINE total == Total(GroupScores(S, G), G)
           chosen == CHOOSE sums : IsGroupSum(S, G, sums)
<1>1. \A sums : IsGroupSum(S, G, sums) <=> IsTotal(GroupScores(S, G), G, sums)
  <2> TAKE sums
  <2>1. ASSUME NEW t \in SUBSET G
        PROVE  Adds(GroupScores(S, G), t, sums)
                 = IF t = {} THEN 0
                   ELSE LET x == CHOOSE x \in t : TRUE IN MapThenSumSet(Score, InGroup(S, x)) + sums[t \ {x}]
    <3>1. CASE t = {}
      BY <3>1 DEF Adds
    <3>2. CASE t # {}
      <4>1. One(t) \in G
        BY <3>2 DEF One
      <4>2. GroupScores(S, G)[One(t)] = LET x == One(t) IN MapThenSumSet(Score, InGroup(S, x))
        BY <4>1 DEF GroupScores
      <4> QED
        BY <3>2, <4>2 DEF Adds, Others, One
    <3> QED
      BY <3>1, <3>2
  <2> QED
    BY <2>1, Zenon DEF IsGroupSum, IsTotal
<1>2. IsTotal(GroupScores(S, G), G, total)
  BY TotalExists
<1>3. IsTotal(GroupScores(S, G), G, chosen)
  BY <1>1, <1>2
<1> QED
  BY <1>3, TotalIsUnique

\* So do the penalties of the findings.
LEMMA PenaltiesTotal ==
    ASSUME NEW S, IsFiniteSet(S)
    PROVE  (CHOOSE sums : IsPenaltySum(S, sums))[S] = Total(Penalties(S), S)[S]
<1> DEFINE total == Total(Penalties(S), S)
           chosen == CHOOSE sums : IsPenaltySum(S, sums)
<1>1. \A sums : IsPenaltySum(S, sums) <=> IsTotal(Penalties(S), S, sums)
  <2> TAKE sums
  <2>1. ASSUME NEW t \in SUBSET S
        PROVE  Adds(Penalties(S), t, sums)
                 = IF t = {} THEN 0
                   ELSE LET x == CHOOSE x \in t : TRUE IN SEVERITY_PENALTY[x.severity] + sums[t \ {x}]
    <3>1. CASE t = {}
      BY <3>1 DEF Adds
    <3>2. CASE t # {}
      <4>1. One(t) \in S
        BY <3>2 DEF One
      <4>2. Penalties(S)[One(t)] = LET x == One(t) IN SEVERITY_PENALTY[x.severity]
        BY <4>1 DEF Penalties
      <4> QED
        BY <3>2, <4>2 DEF Adds, Others, One
    <3> QED
      BY <3>1, <3>2
  <2> QED
    BY <2>1, Zenon DEF IsPenaltySum, IsTotal
<1>2. IsTotal(Penalties(S), S, total)
  BY TotalExists
<1>3. IsTotal(Penalties(S), S, chosen)
  BY <1>1, <1>2
<1> QED
  BY <1>3, TotalIsUnique

\* What the report and the job list add up.
LEMMA ReportSum ==
    ASSUME NEW D, IsFiniteSet(D), NEW S \in SUBSET D
    PROVE  MapThenSumSet(Score, S) = Total(Scores(D), D)[S]
<1>1. MapThenSumSet(Score, S) = (CHOOSE sums : IsScoreSum(S, sums))[S]
  BY Zenon DEF MapThenSumSet, MapThenFoldSet, IsScoreSum
<1> QED
  BY <1>1, ScoresTotal

\* What an assessment adds up.
LEMMA PenaltySum ==
    ASSUME NEW S, IsFiniteSet(S)
    PROVE  Penalty(S) = Total(Penalties(S), S)[S]
<1>1. Penalty(S) = (CHOOSE sums : IsPenaltySum(S, sums))[S]
  BY Zenon DEF Penalty, MapThenSumSet, MapThenFoldSet, IsPenaltySum
<1> QED
  BY <1>1, PenaltiesTotal

\* What the job list adds up: the sizes and the scores of the severities it has.
LEMMA JobSums ==
    ASSUME NEW S, IsFiniteSet(SeveritiesOf(S))
    PROVE  LET G == SeveritiesOf(S)
               total == Total(GroupSizes(S, G), G)[G]
               sum == Total(GroupScores(S, G), G)[G]
           IN  /\ JobSummary(S).posture_score = IF total = 0 THEN 100 ELSE Rounded(sum, total)
               /\ JobSummary(S).severity_counts
                   = [sev \in ToSet(SEVERITY_ORDER) |-> Cardinality(InGroup(S, sev))]
<1> DEFINE G == SeveritiesOf(S)
           Group(sev) == InGroup(S, sev)
           Sum(sev) == MapThenSumSet(Score, Group(sev))
           total == MapThenSumSet(LAMBDA sev : Cardinality(Group(sev)), G)
           sum == MapThenSumSet(Sum, G)
           counts == [sev \in ToSet(SEVERITY_ORDER) |-> Cardinality(Group(sev))]
           posture == IF total = 0 THEN 100 ELSE Rounded(sum, total)
<1>1. JobSummary(S) = [session_count |-> total, severity_counts |-> counts, posture_score |-> posture]
  BY Zenon DEF JobSummary, SeveritiesOf, InGroup
<1>2. total = Total(GroupSizes(S, G), G)[G]
  <2>1. total = (CHOOSE sums : IsSizeSum(S, G, sums))[G]
    BY Zenon DEF MapThenSumSet, MapThenFoldSet, IsSizeSum
  <2> QED
    BY <2>1, SizesTotal
<1>3. sum = Total(GroupScores(S, G), G)[G]
  <2>1. sum = (CHOOSE sums : IsGroupSum(S, G, sums))[G]
    BY Zenon DEF MapThenSumSet, MapThenFoldSet, IsGroupSum
  <2> QED
    BY <2>1, GroupsTotal
<1> HIDE DEF total, sum, G
<1>4. counts = [sev \in ToSet(SEVERITY_ORDER) |-> Cardinality(InGroup(S, sev))]
  OBVIOUS
<1> HIDE DEF counts
<1>5. JobSummary(S).severity_counts = counts /\ JobSummary(S).posture_score = posture
  BY <1>1
<1> QED
  BY <1>2, <1>3, <1>4, <1>5, Zenon DEF G
-----------------------------------------------------------------------------
(* What an assessment says *)

SeverityNames == {"CRITICAL", "HIGH", "MEDIUM", "LOW", "SAFE"}

\* The names of the severities, in their order.
LEMMA SeveritiesAre ==
    /\ Len(SEVERITY_ORDER) = 5 /\ ToSet(SEVERITY_ORDER) = SeverityNames
    /\ \A k \in 1..5 : SEVERITY_ORDER[k] \in SeverityNames
    /\ \A sev \in SeverityNames : \E k \in 1..5 : SEVERITY_ORDER[k] = sev
    /\ \A j, k \in 1..5 : SEVERITY_ORDER[j] = SEVERITY_ORDER[k] => j = k
    /\ SEVERITY_ORDER[4] = "LOW" /\ SEVERITY_ORDER[5] = "SAFE"
<1>1. Len(SEVERITY_ORDER) = 5 /\ DOMAIN SEVERITY_ORDER = 1..5
  BY DEF SEVERITY_ORDER
<1>2. /\ SEVERITY_ORDER[1] = "CRITICAL" /\ SEVERITY_ORDER[2] = "HIGH"
      /\ SEVERITY_ORDER[3] = "MEDIUM" /\ SEVERITY_ORDER[4] = "LOW" /\ SEVERITY_ORDER[5] = "SAFE"
  BY DEF SEVERITY_ORDER
<1>3. \A k \in 1..5 : k \in {1, 2, 3, 4, 5}
  OBVIOUS
<1>4. \A k \in 1..5 : SEVERITY_ORDER[k] \in SeverityNames
  BY <1>2, <1>3 DEF SeverityNames
<1>5. ASSUME NEW sev \in SeverityNames PROVE \E k \in 1..5 : SEVERITY_ORDER[k] = sev
  <2>1. 1 \in 1..5 /\ 2 \in 1..5 /\ 3 \in 1..5 /\ 4 \in 1..5 /\ 5 \in 1..5
    OBVIOUS
  <2> QED
    BY <1>2, <2>1 DEF SeverityNames
<1>6. \A j, k \in 1..5 : SEVERITY_ORDER[j] = SEVERITY_ORDER[k] => j = k
  BY <1>2, <1>3
<1>7. ToSet(SEVERITY_ORDER) = SeverityNames
  BY <1>1, <1>4, <1>5 DEF ToSet
<1> QED
  BY <1>1, <1>2, <1>4, <1>5, <1>6, <1>7

\* Each severity has a place of its own in the order, the worst the first.
LEMMA IndexIs ==
    /\ \A sev \in SeverityNames : SeverityIndex(sev) \in 1..5 /\ SEVERITY_ORDER[SeverityIndex(sev)] = sev
    /\ \A k \in 1..5 : SeverityIndex(SEVERITY_ORDER[k]) = k
    /\ SeverityIndex("LOW") = 4 /\ SeverityIndex("SAFE") = 5
<1>1. ASSUME NEW sev \in SeverityNames
      PROVE  SeverityIndex(sev) \in 1..5 /\ SEVERITY_ORDER[SeverityIndex(sev)] = sev
  BY SeveritiesAre DEF SeverityIndex
<1>2. \A k \in 1..5 : SeverityIndex(SEVERITY_ORDER[k]) = k
  BY <1>1, SeveritiesAre
<1>3. 4 \in 1..5 /\ 5 \in 1..5
  OBVIOUS
<1> QED
  BY <1>1, <1>2, <1>3, SeveritiesAre

\* WorstOf takes the most severe of some.
LEMMA WorstIs ==
    ASSUME NEW levels \in SUBSET SeverityNames, levels # {}
    PROVE  LET worst == WorstOf(levels, SEVERITY_ORDER)
           IN  /\ worst \in levels
               /\ \A sev \in levels : SeverityIndex(worst) <= SeverityIndex(sev)
<1> DEFINE I == {k \in 1..5 : SEVERITY_ORDER[k] \in levels}
           worst == WorstOf(levels, SEVERITY_ORDER)
<1>1. I \in SUBSET (1..5) /\ I # {}
  BY SeveritiesAre
<1>2. Min(I) \in I /\ \A i \in I : Min(I) <= i
  BY <1>1, ExtremesOf
<1>3. worst = SEVERITY_ORDER[Min(I)]
  BY SeveritiesAre DEF WorstOf
<1>4. \A k \in I : k \in 1..5 /\ SEVERITY_ORDER[k] \in levels
  OBVIOUS
<1>5. \A sev \in levels : SeverityIndex(sev) \in I
  BY IndexIs
<1> HIDE DEF I
<1>6. SeverityIndex(worst) = Min(I)
  BY <1>2, <1>3, <1>4, IndexIs
<1> QED
  BY <1>2, <1>3, <1>4, <1>5, <1>6

\* A set that lists a few elements is finite.
LEMMA FewAreFinite ==
    ASSUME NEW a, NEW b, NEW c, NEW d, NEW e, NEW f, NEW g
    PROVE  IsFiniteSet({a, b, c, d, e, f, g})
<1>1. \A S, x : IsFiniteSet(S) => IsFiniteSet(S \cup {x})
  BY FS_AddElement
<1>2. IsFiniteSet({})
  BY FS_EmptySet
<1>3. IsFiniteSet({} \cup {a} \cup {b} \cup {c} \cup {d} \cup {e} \cup {f} \cup {g})
  BY <1>1, <1>2
<1>4. {} \cup {a} \cup {b} \cup {c} \cup {d} \cup {e} \cup {f} \cup {g} = {a, b, c, d, e, f, g}
  OBVIOUS
<1> QED
  BY <1>3, <1>4

\* There are finitely many rules: no two have one id.
LEMMA RulesAreFinite == IsFiniteSet(RuleTable)
<1> DEFINE A == {"R01", "R02", "R03", "R04", "R05", "R06", "R07"}
           B == {"R08", "R09", "R10", "R11", "R12", "R13", "R14"}
           C == {"R15", "R16", "R17", "R18", "R19", "R20", "R21"}
           ids == A \cup B \cup C
           id == [r \in RuleTable |-> r.id]
<1>1. IsFiniteSet(A) /\ IsFiniteSet(B) /\ IsFiniteSet(C)
  BY FewAreFinite
<1>2. \A r \in RuleTable : r.id \in ids
  BY DEF RuleTable, Rule
<1>3. \A r, q \in RuleTable : r.id = q.id => r = q
  BY DEF RuleTable, Rule
<1> HIDE DEF A, B, C
<1>4. IsFiniteSet(A \cup B)
  BY <1>1, FS_Union
<1>5. IsFiniteSet(ids)
  BY <1>1, <1>4, FS_Union
<1> HIDE DEF ids
<1>6. id \in Injection(RuleTable, ids)
  BY <1>2, <1>3 DEF Injection, IsInjective
<1> QED
  BY <1>5, <1>6, FS_Injection

Graded == {"CRITICAL", "HIGH", "MEDIUM", "LOW"}

\* Every rule is graded, and the advisory one is of the lowest grade.
LEMMA RulesAreGraded ==
    \A r \in RuleTable : r.severity \in Graded /\ (r.id \in Advisory => r.severity = "LOW")
BY DEF RuleTable, Rule, Graded, Advisory

\* What is scored of the findings: all but the advisory ones.
ScoredOf(findings) == {f \in findings : f.rule_id \notin Advisory}

\* The grade of an assessment is that of its worst scored finding.
GradedAs(findings, overall) ==
    IF ScoredOf(findings) = {} THEN overall = "SAFE"
    ELSE /\ \E f \in ScoredOf(findings) : f.severity = overall
         /\ \A f \in ScoredOf(findings) : SeverityIndex(overall) <= SeverityIndex(f.severity)

Statuses == {"pass", "fail", "not_assessed"}

\* What evaluate_rules makes sure of.
SoundAssessment(a) ==
    /\ IsFiniteSet(a.findings) /\ a.risk_score \in Int
    /\ \A f \in a.findings : f.severity \in Graded /\ (f.rule_id \in Advisory => f.severity = "LOW")
    /\ GradedAs(a.findings, a.overall_severity)
    /\ \A c \in a.compliance : c.status \in Statuses /\ \E b \in Baselines : b.id = c.baseline_id
    /\ \A b \in Baselines : \E c \in a.compliance : c.baseline_id = b.id

\* Rules that fire have finitely many findings.
LEMMA FindingsAreFinite ==
    ASSUME NEW ike, NEW rules \in SUBSET RuleTable
    PROVE  IsFiniteSet({Finding(r, ike) : r \in rules})
<1> DEFINE found == [r \in rules |-> Finding(r, ike)]
           T == {Finding(r, ike) : r \in rules}
<1>1. IsFiniteSet(rules)
  BY RulesAreFinite, FS_Subset
<1>2. found \in Surjection(rules, T)
  <2>1. found \in [rules -> T]
    OBVIOUS
  <2>2. \A t \in T : \E r \in rules : found[r] = t
    OBVIOUS
  <2> QED
    BY <2>1, <2>2 DEF Surjection
<1> HIDE DEF found, T
<1>3. IsFiniteSet(T)
  BY <1>1, <1>2, FS_Surjection
<1> QED
  BY <1>3 DEF T

\* The score of graded findings is a number.
LEMMA ScoreIsNumber ==
    ASSUME NEW findings, IsFiniteSet(findings), \A f \in findings : f.severity \in Graded
    PROVE  RiskScore(findings) \in Int
<1>1. \A f \in findings : Penalties(findings)[f] \in Int
  BY DEF Penalties, Graded, SEVERITY_PENALTY
<1>2. Total(Penalties(findings), findings)[findings] \in Int
  BY <1>1, TotalIsNumber
<1>3. Penalty(findings) \in Int
  BY <1>2, PenaltySum
<1> QED
  BY <1>3 DEF RiskScore

\* A baseline is assessed as one of the three.
LEMMA BaselineAssessed ==
    ASSUME NEW b, NEW ike, NEW fired
    PROVE  LET c == AssessBaseline(b, ike, fired)
           IN  c.baseline_id = b.id /\ c.status \in Statuses
BY Zenon DEF AssessBaseline, Statuses

\* Whatever a session says, its assessment is sound (evaluate_rules).
LEMMA AssessmentIsSound ==
    ASSUME NEW s PROVE SoundAssessment(evaluate_rules(s))
<1> DEFINE a == evaluate_rules(s)
           rules == {x \in RuleTable : Matches(x, s.ike)}
           findings == {Finding(r, s.ike) : r \in rules}
           fired == {f.rule_id : f \in findings}
           scored == ScoredOf(findings)
           levels == {f.severity : f \in scored}
           rows == {AssessBaseline(b, s.ike, fired) : b \in Baselines}
<1>1. /\ a.findings = findings /\ a.risk_score = RiskScore(scored) /\ a.compliance = rows
      /\ a.overall_severity = IF scored = {} THEN "SAFE" ELSE WorstOf(levels, SEVERITY_ORDER)
  BY DEF evaluate_rules, ScoredOf
<1>2. IsFiniteSet(findings)
  BY FindingsAreFinite
<1>3. \A f \in findings : f.severity \in Graded /\ (f.rule_id \in Advisory => f.severity = "LOW")
  BY RulesAreGraded DEF Finding
<1>4. /\ \A c \in rows : c.status \in Statuses /\ \E b \in Baselines : b.id = c.baseline_id
      /\ \A b \in Baselines : \E c \in rows : c.baseline_id = b.id
  <2> HIDE DEF fired
  <2> QED
    BY BaselineAssessed
<1>5. /\ \A f \in scored : f \in findings /\ f.severity \in levels
      /\ \A sev \in levels : \E f \in scored : f.severity = sev
      /\ scored \in SUBSET findings
  BY DEF ScoredOf
<1> HIDE DEF a, findings, fired, scored, levels, rows
<1>6. levels \in SUBSET SeverityNames
  BY <1>3, <1>5 DEF Graded, SeverityNames
<1>7. RiskScore(scored) \in Int
  <2>1. IsFiniteSet(scored)
    BY <1>2, <1>5, FS_Subset
  <2> QED
    BY <1>3, <1>5, <2>1, ScoreIsNumber
<1>8. GradedAs(findings, a.overall_severity)
  <2>1. CASE scored = {}
    BY <1>1, <2>1 DEF GradedAs, scored
  <2>2. CASE scored # {}
    <3> DEFINE worst == WorstOf(levels, SEVERITY_ORDER)
    <3>1. levels # {}
      BY <1>5, <2>2
    <3>2. worst \in levels /\ \A sev \in levels : SeverityIndex(worst) <= SeverityIndex(sev)
      BY <1>6, <3>1, WorstIs
    <3>3. a.overall_severity = worst
      BY <1>1, <2>2
    <3> HIDE DEF worst
    <3> QED
      BY <1>5, <2>2, <3>2, <3>3 DEF GradedAs, scored
  <2> QED
    BY <2>1, <2>2
<1>9. SoundAssessment(a)
  BY <1>1, <1>2, <1>3, <1>4, <1>7, <1>8 DEF SoundAssessment
<1> QED
  BY <1>9 DEF a
-----------------------------------------------------------------------------
(* The findings a report lists *)

\* What can be ranked: entries of a severity, with a number of sessions up to n.
Ranked(entries, n) ==
    \A e \in entries : e.severity \in SeverityNames /\ e.session_count \in 0..n

\* Of some entries there is one before which none ranks.
LEMMA WorstEntry ==
    ASSUME NEW entries, NEW n \in Nat, Ranked(entries, n), entries # {}
    PROVE  /\ Worst(entries) \in entries
           /\ \A d \in entries : ~RanksBefore(d, Worst(entries))
<1> DEFINE grades == {SeverityIndex(e.severity) : e \in entries}
<1>1. \A e \in entries : SeverityIndex(e.severity) \in Nat
  BY IndexIs DEF Ranked
<1>2. grades \in SUBSET Nat /\ grades # {}
  BY <1>1
<1>3. PICK m \in grades : \A i \in grades : m <= i
  <2> HIDE DEF grades
  <2> QED
    BY <1>2, LeastNumber
<1> DEFINE first == {e \in entries : SeverityIndex(e.severity) = m}
           left == {n - e.session_count : e \in first}
<1>4. \A e \in entries : e.session_count \in Nat /\ n - e.session_count \in Nat
  BY DEF Ranked
<1>5. left \in SUBSET Nat /\ left # {}
  BY <1>3, <1>4
<1>6. PICK l \in left : \A i \in left : l <= i
  <2> HIDE DEF left
  <2> QED
    BY <1>5, LeastNumber
<1>7. PICK e \in first : l = n - e.session_count
  BY <1>6
<1>8. ASSUME NEW d \in entries PROVE ~RanksBefore(d, e)
  <2>1. SeverityIndex(d.severity) \in grades /\ SeverityIndex(d.severity) \in Nat
    BY <1>1
  <2>2. e \in entries /\ SeverityIndex(e.severity) = m /\ m \in Nat
    BY <1>1, <1>7
  <2>3. ~(SeverityIndex(d.severity) < SeverityIndex(e.severity))
    BY <1>3, <2>1, <2>2
  <2>4. ASSUME d.severity = e.severity, d.session_count > e.session_count PROVE FALSE
    <3>1. d \in first
      BY <2>2, <2>4
    <3>2. n - d.session_count \in left
      BY <3>1
    <3>3. n - e.session_count <= n - d.session_count
      BY <1>6, <1>7, <3>2
    <3> QED
      BY <1>4, <2>2, <2>4, <3>3
  <2> QED
    BY <2>3, <2>4 DEF RanksBefore
<1>9. e \in entries
  BY <1>7
<1> HIDE DEF first, left, grades
<1> QED
  BY <1>8, <1>9 DEF Worst

\* The list with the next that ranks first.
WithNext(entries, top) ==
    LET rest == entries \ ToSet(top) IN IF rest = {} THEN top ELSE Append(top, Worst(rest))

\* It lists entries, and begins with the one that ranks first of all.
TopOf(entries, top) == top \in Seq(entries) /\ (top # <<>> => top[1] = Worst(entries))

\* What is listed next ranks before the rest.
LEMMA NextIsTop ==
    ASSUME NEW entries, NEW n \in Nat, Ranked(entries, n), NEW top, TopOf(entries, top)
    PROVE  /\ TopOf(entries, WithNext(entries, top))
           /\ WithNext(entries, top) = <<>> => entries = {}
<1> DEFINE rest == entries \ ToSet(top)
<1>1. CASE rest = {}
  <2>1. WithNext(entries, top) = top
    BY <1>1 DEF WithNext
  <2>2. top = <<>> => ToSet(top) = {}
    BY DEF ToSet
  <2> QED
    BY <1>1, <2>1, <2>2
<1>2. CASE rest # {}
  <2>1. Ranked(rest, n)
    BY DEF Ranked
  <2>2. Worst(rest) \in entries
    BY <1>2, <2>1, WorstEntry
  <2>3. WithNext(entries, top) = Append(top, Worst(rest))
    BY <1>2 DEF WithNext
  <2>4. top = <<>> => rest = entries
    BY DEF ToSet
  <2> HIDE DEF rest
  <2> DEFINE w == Worst(rest)
  <2>5. w \in entries /\ top \in Seq(entries)
    BY <2>2 DEF TopOf
  <2>6. top = <<>> => w = Worst(entries)
    BY <2>4
  <2> HIDE DEF w
  <2>7. Append(top, w) \in Seq(entries) /\ Append(top, w) # <<>>
    <3>1. Append(top, w) \in Seq(entries) /\ Len(Append(top, w)) = Len(top) + 1 /\ Len(top) \in Nat
      BY <2>5, AppendProperties
    <3>2. Len(Append(top, w)) # 0
      BY <3>1
    <3> QED
      BY <3>1, <3>2
  <2>8. Append(top, w)[1] = IF top = <<>> THEN w ELSE top[1]
    <3>1. CASE top = <<>>
      <4>1. Append(<<>>, w)[1] = w
        OBVIOUS
      <4> QED
        BY <3>1, <4>1
    <3>2. CASE top # <<>>
      <4>1. Len(top) \in Nat /\ Len(top) # 0
        BY <2>5, <3>2
      <4>2. Append(top, w)[1] = top[1]
        BY <2>5, <4>1, AppendProperties
      <4> QED
        BY <3>2, <4>2
    <3> QED
      BY <3>1, <3>2
  <2>9. TopOf(entries, Append(top, w)) /\ Append(top, w) # <<>>
    BY <2>6, <2>7, <2>8 DEF TopOf
  <2> QED
    BY <2>3, <2>9 DEF w
<1> QED
  BY <1>1, <1>2

\* What fired on a set of sessions.
LEMMA EntriesAre ==
    ASSUME NEW S, IsFiniteSet(S), \A s \in S : SoundAssessment(s.security_assessment)
    PROVE  /\ Ranked(FindingEntries(S), Cardinality(S))
           /\ \A e \in FindingEntries(S) : \E s \in S : \E f \in FindingsOf(s) :
                e.rule_id = f.rule_id /\ e.severity = f.severity
           /\ \A s \in S : \A f \in FindingsOf(s) : \E e \in FindingEntries(S) :
                e.rule_id = f.rule_id /\ e.severity = f.severity
<1> DEFINE fired == UNION {FindingsOf(s) : s \in S}
           On(id) == {s \in S : \E f \in FindingsOf(s) : f.rule_id = id}
           Entry(f) == [rule_id |-> f.rule_id, severity |-> f.severity,
                        session_count |-> Cardinality(On(f.rule_id))]
           n == Cardinality(S)
<1>1. FindingEntries(S) = {Entry(f) : f \in fired}
  BY DEF FindingEntries
<1>2. n \in Nat
  BY FS_CardinalityType
<1>3. ASSUME NEW id PROVE Cardinality(On(id)) \in 0..n
  <2>1. On(id) \in SUBSET S
    OBVIOUS
  <2> HIDE DEF On
  <2>2. IsFiniteSet(On(id)) /\ Cardinality(On(id)) <= n
    BY <2>1, FS_Subset
  <2>3. Cardinality(On(id)) \in Nat
    BY <2>2, FS_CardinalityType
  <2> QED
    BY <1>2, <2>2, <2>3
<1> HIDE DEF On, n
<1>4. \A f : /\ Entry(f).rule_id = f.rule_id /\ Entry(f).severity = f.severity
             /\ Entry(f).session_count \in 0..n
  BY <1>3
<1> HIDE DEF Entry
<1>5. \A f : f \in fired <=> \E s \in S : f \in FindingsOf(s)
  OBVIOUS
<1> HIDE DEF fired
<1>6. \A s \in S : \A f \in FindingsOf(s) : f.severity \in SeverityNames
  BY DEF SoundAssessment, FindingsOf, Graded, SeverityNames
<1>7. Ranked(FindingEntries(S), n)
  BY <1>1, <1>4, <1>5, <1>6 DEF Ranked
<1>8. \A e \in FindingEntries(S) : \E s \in S : \E f \in FindingsOf(s) :
        e.rule_id = f.rule_id /\ e.severity = f.severity
  BY <1>1, <1>4, <1>5
<1>9. \A s \in S : \A f \in FindingsOf(s) : \E e \in FindingEntries(S) :
        e.rule_id = f.rule_id /\ e.severity = f.severity
  BY <1>1, <1>4, <1>5
<1> QED
  BY <1>7, <1>8, <1>9 DEF n

\* The verdict of a report and the finding it lists first.
VerdictStands(S) ==
    LET top == top_findings(S)
        verdict == overall_severity(S)
    IN  IF verdict = "SAFE" THEN \A k \in 1..Len(top) : top[k].rule_id \in Advisory
        ELSE top[1].severity = verdict

\* The list begins with the entry that ranks first.
LEMMA TopIs ==
    ASSUME NEW S, IsFiniteSet(S), \A s \in S : SoundAssessment(s.security_assessment)
    PROVE  LET entries == FindingEntries(S)
           IN  /\ top_findings(S) \in Seq(entries)
               /\ entries # {} => /\ top_findings(S)[1] = Worst(entries)
                                  /\ Worst(entries) \in entries
                                  /\ \A d \in entries : ~RanksBefore(d, Worst(entries))
<1> DEFINE entries == FindingEntries(S)
           n == Cardinality(S)
           one == WithNext(entries, <<>>)
           two == WithNext(entries, one)
           three == WithNext(entries, two)
<1>1. n \in Nat /\ Ranked(entries, n)
  BY EntriesAre, FS_CardinalityType
<1>2. top_findings(S) = three
  BY DEF top_findings, WithNext
<1> HIDE DEF entries, n
<1>3. TopOf(entries, <<>>)
  BY DEF TopOf
<1>4. TopOf(entries, one)
  BY <1>1, <1>3, NextIsTop
<1> HIDE DEF one
<1>5. TopOf(entries, two)
  BY <1>1, <1>4, NextIsTop
<1> HIDE DEF two
<1>6. TopOf(entries, three) /\ (three = <<>> => entries = {})
  BY <1>1, <1>5, NextIsTop
<1> HIDE DEF three
<1>7. entries # {} => /\ Worst(entries) \in entries
                      /\ \A d \in entries : ~RanksBefore(d, Worst(entries))
  BY <1>1, WorstEntry
<1> QED
  BY <1>2, <1>6, <1>7 DEF TopOf, entries

\* The finding listed first is as severe as the verdict on the rows.
LEMMA VerdictIs ==
    ASSUME NEW S, IsFiniteSet(S), \A s \in S : SoundAssessment(s.security_assessment)
    PROVE  VerdictStands(S)
<1> DEFINE entries == FindingEntries(S)
           top == top_findings(S)
           verdict == overall_severity(S)
           levels == {Severity(s) : s \in S}
<1>1. /\ top \in Seq(entries)
      /\ entries # {} => /\ top[1] = Worst(entries) /\ Worst(entries) \in entries
                         /\ \A d \in entries : ~RanksBefore(d, Worst(entries))
  BY TopIs
<1>2. /\ \A e \in entries : \E s \in S : \E f \in FindingsOf(s) :
           e.rule_id = f.rule_id /\ e.severity = f.severity
      /\ \A s \in S : \A f \in FindingsOf(s) : \E e \in entries :
           e.rule_id = f.rule_id /\ e.severity = f.severity
  BY EntriesAre
<1>3. ASSUME NEW s \in S
      PROVE  /\ Severity(s) \in SeverityNames
             /\ Severity(s) # "SAFE" => \E f \in FindingsOf(s) : f.severity = Severity(s)
             /\ \A f \in FindingsOf(s) :
                  /\ f.severity \in Graded
                  /\ IF f.rule_id \in Advisory THEN f.severity = "LOW"
                     ELSE /\ Severity(s) \in Graded
                          /\ SeverityIndex(Severity(s)) <= SeverityIndex(f.severity)
  <2> DEFINE a == s.security_assessment
  <2>1. SoundAssessment(a)
    OBVIOUS
  <2> HIDE DEF a
  <2>2. /\ \A f \in a.findings : /\ f.severity \in Graded
                                 /\ f.rule_id \in Advisory => f.severity = "LOW"
        /\ GradedAs(a.findings, a.overall_severity)
    BY <2>1 DEF SoundAssessment
  <2>3. Severity(s) = a.overall_severity /\ FindingsOf(s) = a.findings
    BY DEF Severity, FindingsOf, a
  <2>4. \A f \in a.findings : f.rule_id \notin Advisory => f \in ScoredOf(a.findings)
    BY DEF ScoredOf
  <2>5. \A f \in ScoredOf(a.findings) : f \in a.findings
    BY DEF ScoredOf
  <2>6. CASE ScoredOf(a.findings) = {}
    BY <2>2, <2>3, <2>4, <2>6 DEF GradedAs, SeverityNames
  <2>7. CASE ScoredOf(a.findings) # {}
    BY <2>2, <2>3, <2>4, <2>5, <2>7 DEF GradedAs, SeverityNames, Graded
  <2> QED
    BY <2>6, <2>7
<1>4. S = {} => verdict = "SAFE" /\ entries = {}
  BY <1>2 DEF overall_severity
<1>5. ASSUME S # {}
      PROVE  verdict \in levels /\ \A sev \in levels : SeverityIndex(verdict) <= SeverityIndex(sev)
  <2>1. levels \in SUBSET SeverityNames /\ levels # {}
    BY <1>3, <1>5
  <2>2. verdict = WorstOf(levels, SEVERITY_ORDER)
    BY <1>5 DEF overall_severity
  <2> HIDE DEF levels, verdict
  <2> QED
    BY <2>1, <2>2, WorstIs
<1>6. \A s \in S : Severity(s) \in levels
  OBVIOUS
<1>7. \A sev \in levels : \E s \in S : Severity(s) = sev
  OBVIOUS
<1>8. \A sev \in Graded : SeverityIndex(sev) \in 1..4
  <2>1. \A sev \in Graded : sev \in SeverityNames /\ sev # "SAFE"
    BY DEF Graded, SeverityNames
  <2>2. \A sev \in SeverityNames : SeverityIndex(sev) = 5 => sev = SEVERITY_ORDER[5]
    BY IndexIs
  <2>3. \A sev \in Graded : SeverityIndex(sev) \in 1..5 /\ SeverityIndex(sev) # 5
    BY <2>1, <2>2, IndexIs, SeveritiesAre
  <2> QED
    BY <2>3
<1> HIDE DEF entries, top, verdict, levels
<1>9. ASSUME verdict = "SAFE", NEW k \in 1..Len(top) PROVE top[k].rule_id \in Advisory
  <2>1. top[k] \in entries
    BY <1>1, <1>9
  <2>2. PICK s \in S : \E f \in FindingsOf(s) : top[k].rule_id = f.rule_id
    BY <1>2, <2>1
  <2>3. PICK f \in FindingsOf(s) : top[k].rule_id = f.rule_id
    BY <2>2
  <2>4. ASSUME f.rule_id \notin Advisory PROVE FALSE
    <3>1. Severity(s) \in Graded
      BY <1>3, <2>4
    <3>2. SeverityIndex(verdict) <= SeverityIndex(Severity(s))
      BY <1>5, <1>6
    <3>3. SeverityIndex(verdict) = 5
      BY <1>9, IndexIs
    <3>4. SeverityIndex(Severity(s)) \in 1..4
      BY <1>8, <3>1
    <3> QED
      BY <3>2, <3>3, <3>4
  <2> QED
    BY <2>3, <2>4
<1>10. ASSUME verdict # "SAFE" PROVE top[1].severity = verdict
  <2>1. S # {}
    BY <1>4, <1>10
  <2>2. PICK s \in S : Severity(s) = verdict
    BY <1>5, <1>7, <2>1
  <2>3. PICK f \in FindingsOf(s) : f.severity = verdict
    BY <1>3, <1>10, <2>2
  <2>4. verdict \in Graded
    BY <1>3, <2>3
  <2>5. PICK d \in entries : d.severity = verdict
    BY <1>2, <2>3
  <2> DEFINE e == Worst(entries)
  <2>6. top[1] = e /\ e \in entries /\ ~RanksBefore(d, e)
    BY <1>1, <2>5
  <2> HIDE DEF e
  <2>7. PICK t \in S : \E g \in FindingsOf(t) : e.rule_id = g.rule_id /\ e.severity = g.severity
    BY <1>2, <2>6
  <2>8. PICK g \in FindingsOf(t) : e.rule_id = g.rule_id /\ e.severity = g.severity
    BY <2>7
  <2>9. e.severity \in Graded
    BY <1>3, <2>8
  <2>10. SeverityIndex(verdict) \in 1..4 /\ SeverityIndex(e.severity) \in 1..4
    BY <1>8, <2>4, <2>9
  <2>11. SeverityIndex(e.severity) <= SeverityIndex(verdict)
    BY <2>5, <2>6, <2>10 DEF RanksBefore
  <2>12. SeverityIndex(verdict) <= SeverityIndex(e.severity)
    <3>1. CASE g.rule_id \in Advisory
      <4>1. e.severity = "LOW"
        BY <1>3, <2>8, <3>1
      <4>2. SeverityIndex(e.severity) = 4
        BY <4>1, IndexIs
      <4> QED
        BY <2>10, <4>2
    <3>2. CASE g.rule_id \notin Advisory
      <4>1. Severity(t) \in Graded /\ SeverityIndex(Severity(t)) <= SeverityIndex(e.severity)
        BY <1>3, <2>8, <3>2
      <4>2. SeverityIndex(verdict) <= SeverityIndex(Severity(t))
        BY <1>5, <1>6, <2>1
      <4>3. SeverityIndex(Severity(t)) \in 1..4
        BY <1>8, <4>1
      <4> QED
        BY <2>10, <4>1, <4>2, <4>3
    <3> QED
      BY <3>1, <3>2
  <2>13. SeverityIndex(verdict) = SeverityIndex(e.severity)
    BY <2>10, <2>11, <2>12
  <2>14. verdict \in SeverityNames /\ e.severity \in SeverityNames
    BY <2>4, <2>9 DEF Graded, SeverityNames
  <2> QED
    BY <2>6, <2>13, <2>14, IndexIs
<1> QED
  BY <1>9, <1>10 DEF VerdictStands, top, verdict
-----------------------------------------------------------------------------
(* What the summaries say *)

\* The rows of a job: each with a sound assessment.
SoundRows(S) == IsFiniteSet(S) /\ \A s \in S : SoundAssessment(s.security_assessment)

\* The rows have finitely many severities.
LEMMA SeveritiesAreFew ==
    ASSUME NEW S, SoundRows(S)
    PROVE  IsFiniteSet(SeveritiesOf(S)) /\ SeveritiesOf(S) \in SUBSET SeverityNames
<1>1. IsFiniteSet(SeverityNames)
  <2>1. IsFiniteSet({"CRITICAL", "HIGH", "MEDIUM", "LOW", "SAFE", "SAFE", "SAFE"})
    BY FewAreFinite
  <2>2. SeverityNames = {"CRITICAL", "HIGH", "MEDIUM", "LOW", "SAFE", "SAFE", "SAFE"}
    BY DEF SeverityNames
  <2> QED
    BY <2>1, <2>2
<1>2. ASSUME NEW s \in S PROVE Severity(s) \in SeverityNames
  <2> DEFINE a == s.security_assessment
  <2>1. SoundAssessment(a)
    BY DEF SoundRows
  <2>2. Severity(s) = a.overall_severity
    BY DEF Severity
  <2> HIDE DEF a
  <2>3. /\ \A f \in a.findings : f.severity \in Graded
        /\ GradedAs(a.findings, a.overall_severity)
    BY <2>1 DEF SoundAssessment
  <2> QED
    BY <2>2, <2>3 DEF GradedAs, ScoredOf, Graded, SeverityNames
<1>3. SeveritiesOf(S) \in SUBSET SeverityNames
  BY <1>2 DEF SeveritiesOf
<1> QED
  BY <1>1, <1>3, FS_Subset

\* The job list and the report agree.
LEMMA SummariesAgree ==
    ASSUME NEW S, SoundRows(S)
    PROVE  /\ JobSummary(S).posture_score = posture_score(S)
           /\ JobSummary(S).severity_counts = severity_counts(S)
<1> DEFINE G == SeveritiesOf(S)
           key == [s \in S |-> Severity(s)]
           sizes == Total(GroupSizes(S, G), G)[G]
           sum == Total(GroupScores(S, G), G)[G]
           n == Cardinality(S)
           mu == Total(Scores(S), S)
           all == MapThenSumSet(Score, S)
<1>1. IsFiniteSet(S) /\ IsFiniteSet(G)
  BY SeveritiesAreFew DEF SoundRows
<1>2. /\ JobSummary(S).posture_score = IF sizes = 0 THEN 100 ELSE Rounded(sum, sizes)
      /\ JobSummary(S).severity_counts
           = [sev \in ToSet(SEVERITY_ORDER) |-> Cardinality(InGroup(S, sev))]
  BY <1>1, JobSums
<1>3. severity_counts(S) = [sev \in ToSet(SEVERITY_ORDER) |-> Cardinality(InGroup(S, sev))]
  BY DEF severity_counts, InGroup
<1>4. \A x \in S : key[x] \in G
  BY DEF SeveritiesOf
<1>5. \A g : Under(S, key, g) = InGroup(S, g)
  BY DEF Under, InGroup
<1>6. \A g : InGroup(S, g) \in SUBSET S
  BY DEF InGroup
<1> HIDE DEF key
<1>7. sizes = n
  <2> DEFINE h == GroupSizes(S, G)
  <2>1. IsMeasure(Sizes(S), S)
    BY <1>1, SizesMeasure
  <2>2. ASSUME NEW g \in G PROVE h[g] = Sizes(S)[Under(S, key, g)] /\ h[g] \in Int
    <3>1. h[g] = Cardinality(InGroup(S, g))
      BY DEF GroupSizes
    <3>2. Sizes(S)[InGroup(S, g)] = Cardinality(InGroup(S, g))
      BY <1>6 DEF Sizes
    <3>3. Cardinality(InGroup(S, g)) \in Nat
      BY <1>1, <1>6, OthersAre
    <3> QED
      BY <1>5, <3>1, <3>2, <3>3
  <2> HIDE DEF h, G
  <2>3. Total(h, G)[G] = Sizes(S)[S]
    BY <1>1, <1>4, <2>1, <2>2, GroupsAddUp
  <2> QED
    BY <2>3 DEF h, Sizes
<1>8. \A x \in S : Scores(S)[x] \in Int
  BY DEF Scores, Score, SoundRows, SoundAssessment
<1>9. all = mu[S]
  BY <1>1, ReportSum
<1>10. sum = mu[S]
  <2> DEFINE h == GroupScores(S, G)
  <2>1. IsMeasure(mu, S)
    BY <1>1, <1>8, SumsMeasure
  <2>2. ASSUME NEW g \in G PROVE h[g] = mu[Under(S, key, g)] /\ h[g] \in Int
    <3>1. h[g] = MapThenSumSet(Score, InGroup(S, g))
      BY DEF GroupScores
    <3>2. InGroup(S, g) \in SUBSET S
      BY <1>6
    <3>3. MapThenSumSet(Score, InGroup(S, g)) = mu[InGroup(S, g)]
      BY <1>1, <3>2, ReportSum
    <3>4. mu[InGroup(S, g)] \in Int
      BY <1>1, <1>8, <3>2, TotalIsNumber
    <3> QED
      BY <1>5, <3>1, <3>3, <3>4
  <2> HIDE DEF h, G, mu
  <2>3. Total(h, G)[G] = mu[S]
    BY <1>1, <1>4, <2>1, <2>2, GroupsAddUp
  <2> QED
    BY <2>3 DEF h
<1>11. posture_score(S) = IF S = {} THEN 100 ELSE Rounded(all, n)
  BY DEF posture_score
<1>12. n = 0 <=> S = {}
  BY <1>1, FS_EmptySet
<1> HIDE DEF sizes, sum, n, mu, all
<1> QED
  BY <1>2, <1>3, <1>7, <1>9, <1>10, <1>11, <1>12

RowOf(s, id) == CHOOSE c \in s.security_assessment.compliance : c.baseline_id = id
WithStatus(S, id, status) == {s \in S : RowOf(s, id).status = status}

\* Every baseline accounts for every session.
LEMMA ComplianceAddsUp ==
    ASSUME NEW S, SoundRows(S), NEW id \in DOMAIN compliance(S)
    PROVE  LET row == compliance(S)[id]
           IN  row.pass + row.fail + row.not_assessed = Cardinality(S)
<1> DEFINE ids == {c.baseline_id : c \in UNION {s.security_assessment.compliance : s \in S}}
           P == WithStatus(S, id, "pass")
           F == WithStatus(S, id, "fail")
           N == WithStatus(S, id, "not_assessed")
           Counted(x) == [pass |-> Cardinality(WithStatus(S, x, "pass")),
                          fail |-> Cardinality(WithStatus(S, x, "fail")),
                          not_assessed |-> Cardinality(WithStatus(S, x, "not_assessed"))]
<1>1. compliance(S) = [x \in ids |-> Counted(x)]
  BY DEF compliance, WithStatus, RowOf
<1>2. id \in ids
  BY <1>1
<1>3. PICK b \in Baselines : b.id = id
  BY <1>2 DEF SoundRows, SoundAssessment
<1>4. compliance(S)[id] = Counted(id)
  BY <1>1, <1>2
<1>5. ASSUME NEW s \in S PROVE RowOf(s, id).status \in Statuses
  <2>1. \E c \in s.security_assessment.compliance : c.baseline_id = id
    BY <1>3 DEF SoundRows, SoundAssessment
  <2>2. RowOf(s, id) \in s.security_assessment.compliance
    BY <2>1 DEF RowOf
  <2> QED
    BY <2>2 DEF SoundRows, SoundAssessment
<1>6. P \cup F \cup N = S /\ P \cap F = {} /\ (P \cup F) \cap N = {}
  <2>1. \A s \in S : s \in P \/ s \in F \/ s \in N
    BY <1>5 DEF WithStatus, Statuses
  <2>2. \A s : s \in P \/ s \in F \/ s \in N => s \in S
    BY DEF WithStatus
  <2>3. \A s : /\ s \in P => RowOf(s, id).status = "pass"
               /\ s \in F => RowOf(s, id).status = "fail"
               /\ s \in N => RowOf(s, id).status = "not_assessed"
    BY DEF WithStatus
  <2> HIDE DEF P, F, N
  <2> QED
    BY <2>1, <2>2, <2>3
<1>7. P \in SUBSET S /\ F \in SUBSET S /\ N \in SUBSET S
  BY DEF WithStatus
<1> HIDE DEF P, F, N, ids
<1>8. /\ IsFiniteSet(P) /\ IsFiniteSet(F) /\ IsFiniteSet(N)
      /\ Cardinality(P) \in Nat /\ Cardinality(F) \in Nat /\ Cardinality(N) \in Nat
  BY <1>7, OthersAre DEF SoundRows
<1>9. Cardinality({}) = 0
  BY FS_EmptySet
<1>10. IsFiniteSet(P \cup F) /\ Cardinality(P \cup F) = Cardinality(P) + Cardinality(F)
  <2>1. /\ IsFiniteSet(P \cup F)
        /\ Cardinality(P \cup F) = Cardinality(P) + Cardinality(F) - Cardinality(P \cap F)
    BY <1>8, FS_Union
  <2>2. Cardinality(P \cup F) = Cardinality(P) + Cardinality(F) - 0
    BY <1>6, <1>9, <2>1
  <2>3. Cardinality(P) + Cardinality(F) - 0 = Cardinality(P) + Cardinality(F)
    BY <1>8
  <2> QED
    BY <2>1, <2>2, <2>3
<1>11. Cardinality(P \cup F \cup N) = Cardinality(P) + Cardinality(F) + Cardinality(N)
  <2> DEFINE Q == P \cup F
  <2>1. /\ IsFiniteSet(Q) /\ Q \cap N = {}
        /\ Cardinality(Q) = Cardinality(P) + Cardinality(F)
    BY <1>6, <1>10
  <2> HIDE DEF Q
  <2>2. Cardinality(Q \cup N) = Cardinality(Q) + Cardinality(N) - Cardinality(Q \cap N)
    BY <1>8, <2>1, FS_Union
  <2>3. Cardinality(Q \cup N) = Cardinality(Q) + Cardinality(N) - 0
    BY <1>9, <2>1, <2>2
  <2>4. Cardinality(Q) + Cardinality(N) - 0 = Cardinality(P) + Cardinality(F) + Cardinality(N)
    BY <1>8, <2>1
  <2> QED
    BY <2>3, <2>4 DEF Q
<1> QED
  BY <1>4, <1>6, <1>11 DEF P, F, N
-----------------------------------------------------------------------------
(* Addresses *)

\* A frame has the source of its packet, which is a packet of IP.
LEMMA SourceOf ==
    ASSUME NEW p, NEW n, FrameOf(p, n).kind \in {"ike", "esp"}
    PROVE  FrameOf(p, n).src = p.src /\ p.ip # None
<1>1. Skipped.kind = "none"
  BY DEF Skipped
<1>2. \A proto : EspFrame(p, proto, n).src = p.src
  BY DEF EspFrame
<1>3. IkeFrame(p, n).src = p.src
  BY DEF IkeFrame
<1>4. \/ FrameOf(p, n) = Skipped
      \/ p.ip # None /\ FrameOf(p, n) = EspFrame(p, p.proto, n)
      \/ p.ip # None /\ FrameOf(p, n) = EspFrame(p, "ESP", n)
      \/ p.ip # None /\ FrameOf(p, n) = IkeFrame(p, n)
  BY DEF FrameOf
<1> QED
  BY <1>1, <1>2, <1>3, <1>4

\* Every packet of IP shows where it is from.
AddressesShown == \A p \in Alphabet : p.ip # None => p.src # ""

\* A packet of IP shows its source: that is assumed.
LEMMA AddressesAreShown == AddressAssumption => AddressesShown
BY DEF AddressAssumption, AddressesShown

\* Every frame that is read shows its source.
LEMMA FramesShowSource ==
    ASSUME AddressesShown, Analysed
    PROVE  /\ \A j \in 1..Len(Read.ike) : Read.ike[j].src # ""
           /\ \A j \in 1..Len(Read.esp) : Read.esp[j].src # ""
<1> DEFINE frames == [n \in 1..Len(capture) |-> FrameOf(capture[n], n)]
           I == {i \in 1..Len(capture) : frames[i].kind = "ike"}
           E == {i \in 1..Len(capture) : frames[i].kind = "esp"}
           ike == Picked(frames, I)
           esp == Picked(frames, E)
<1>1. /\ capture \in Seq(Alphabet) /\ Len(capture) \in Nat
      /\ \A n \in 1..Len(capture) : capture[n] \in Alphabet
  BY DEF Analysed
<1>2. Len(frames) = Len(capture)
  BY <1>1
<1>3. Read.ike = ike /\ Read.esp = esp
  BY <1>2 DEF Read, read_capture, Filter
<1>4. \A p \in Alphabet : p.ip # None => p.src # ""
  BY DEF AddressesShown
<1>5. ASSUME NEW i \in 1..Len(capture), FrameOf(capture[i], i).kind \in {"ike", "esp"}
      PROVE  FrameOf(capture[i], i).src # ""
  <2> DEFINE p == capture[i]
  <2>1. p \in Alphabet /\ FrameOf(p, i).kind \in {"ike", "esp"}
    BY <1>1, <1>5
  <2> HIDE DEF p
  <2>2. FrameOf(p, i).src = p.src /\ p.ip # None
    BY <2>1, SourceOf
  <2>3. FrameOf(p, i).src # ""
    BY <1>4, <2>1, <2>2
  <2> QED
    BY <2>3 DEF p
<1>11. \A i \in 1..Len(capture) : frames[i] = FrameOf(capture[i], i)
  OBVIOUS
<1>12. /\ \A i \in I : i \in 1..Len(capture) /\ frames[i].kind = "ike"
       /\ \A i \in E : i \in 1..Len(capture) /\ frames[i].kind = "esp"
  OBVIOUS
<1>6. I \in SUBSET (1..Len(capture)) /\ E \in SUBSET (1..Len(capture))
  OBVIOUS
<1> HIDE DEF frames, I, E
<1>13. /\ \A i \in I : frames[i].src # ""
       /\ \A i \in E : frames[i].src # ""
  BY <1>5, <1>11, <1>12
<1>7. /\ Len(ike) \in Nat /\ ike \in Seq(ToSet(ike))
      /\ \A x : x \in ToSet(ike) <=> \E i \in I : x = frames[i]
  BY <1>1, <1>6, PickedMembers
<1>8. /\ Len(esp) \in Nat /\ esp \in Seq(ToSet(esp))
      /\ \A x : x \in ToSet(esp) <=> \E i \in E : x = frames[i]
  BY <1>1, <1>6, PickedMembers
<1> HIDE DEF ike, esp
<1>9. \A j \in 1..Len(ike) : ike[j].src # ""
  <2>1. \A j \in 1..Len(ike) : ike[j] \in ToSet(ike)
    BY <1>7
  <2> QED
    BY <1>7, <1>13, <2>1
<1>10. \A j \in 1..Len(esp) : esp[j].src # ""
  <2>1. \A j \in 1..Len(esp) : esp[j] \in ToSet(esp)
    BY <1>8
  <2> QED
    BY <1>8, <1>13, <2>1
<1> QED
  BY <1>3, <1>9, <1>10

\* A record of orphans is made of packets that were read.
LEMMA OrphansWereRead ==
    ASSUME Analysed, NEW s \in Sessions \ IkeSessions
    PROVE  \E esp : /\ Len(esp) \in Nat \ {0}
                    /\ \E j \in 1..Len(Read.esp) : esp[1] = Read.esp[j]
                    /\ s = Assess(Classify(OrphanRecord(esp), BusiestFlow(esp)))
<1> DEFINE read == read_capture(capture)
           out == bucket(read)
           sas == IkeSAs(read.ike)
           orphans == out.orphan_esp
           groups == OrphanGroups(orphans)
<1>1. Len(capture) \in Nat
  BY DEF Analysed
<1>2. Len(read.ike) \in Nat /\ Len(read.esp) \in Nat
  BY <1>1, FramesRead
<1>3. /\ Sessions = ToSet(AnalyseSAs(read, out).sessions)
      /\ Read = read
  BY DEF Analysed, analyze_capture, Sessions, Read
<1>4. Len(out.sessions) \in Nat
  BY <1>1, RawsAre
<1>5. orphans = Picked(read.esp, Owned(read, sas, {}))
  <2> HIDE DEF read
  <2> QED
    BY <1>2, BucketOf
<1>6. Owned(read, sas, {}) \in SUBSET (1..Len(read.esp))
  BY DEF Owned
<1> DEFINE J == Owned(read, sas, {})
           mine == Picked(read.esp, J)
<1>20. J \in SUBSET (1..Len(read.esp)) /\ orphans = mine
  BY <1>5, <1>6
<1> HIDE DEF read, out, sas, J
<1>21. /\ Len(mine) = Cardinality(J) /\ Cardinality(J) \in Nat
       /\ mine \in Seq(ToSet(mine))
       /\ \A x : x \in ToSet(mine) <=> \E i \in J : x = read.esp[i]
  BY <1>2, <1>20, PickedMembers
<1> HIDE DEF mine
<1>7. /\ Len(orphans) \in Nat /\ orphans \in Seq(ToSet(orphans))
      /\ \A x : x \in ToSet(orphans) <=> \E i \in J : x = read.esp[i]
  <2> HIDE DEF orphans
  <2> QED
    BY <1>20, <1>21
<1>8. \A s0 : s0 \in ToSet(AnalyseSAs(read, out).sessions)
                <=> \E t \in ToSet(SessionsIn(out)) : s0 = Assess(t)
  BY <1>4, <1>7, SessionsAre
<1>9. \A t : t \in ToSet(SessionsIn(out)) <=>
             \/ \E k \in 1..Len(out.sessions) : /\ Representable(Parse(out.sessions[k]))
                                                /\ t = Finish(Parse(out.sessions[k]))
             \/ \E k \in 1..Len(groups) :
                  t = Classify(OrphanRecord(groups[k]), BusiestFlow(groups[k]))
  BY <1>4, <1>7, SessionsAre
<1>10. \A k \in 1..Len(groups) : PeerGroup(groups[k], orphans)
  BY <1>7, OrphanGroupsOf
<1> HIDE DEF groups, orphans
<1>11. PICK t \in ToSet(SessionsIn(out)) : s = Assess(t)
  BY <1>3, <1>8
<1>12. s.session_id[1] # "ike"
  BY DEF IkeSessions
<1>13. ~ \E k \in 1..Len(out.sessions) : t = Finish(Parse(out.sessions[k]))
  BY <1>11, <1>12, SaReported
<1>14. PICK k \in 1..Len(groups) : t = Classify(OrphanRecord(groups[k]), BusiestFlow(groups[k]))
  BY <1>9, <1>13
<1> DEFINE g == groups[k]
<1>15. /\ PeerGroup(g, orphans)
       /\ s = Assess(Classify(OrphanRecord(g), BusiestFlow(g)))
  BY <1>10, <1>11, <1>14
<1> HIDE DEF g
<1>16. Len(g) \in Nat \ {0} /\ g[1] \in ToSet(g)
  BY <1>15 DEF PeerGroup
<1>17. PICK j \in 1..Len(orphans) : g[1] = orphans[j]
  BY <1>15, <1>16 DEF PeerGroup
<1>18. orphans[j] \in ToSet(orphans)
  BY <1>7
<1>19. \E i \in 1..Len(read.esp) : g[1] = read.esp[i]
  BY <1>7, <1>17, <1>18, <1>20
<1> QED
  BY <1>3, <1>15, <1>16, <1>19

\* A parsed SA names the source of the message that opened it.
LEMMA ParsedNames ==
    ASSUME NEW raw
    PROVE  Parse(raw).session.initiator_ip = Opener(raw.ike_frames).src
<1> DEFINE ctx == FramesCtx(raw.ike_frames, raw.esp_frames)
<1>1. ctx.initiator_ip = Opener(raw.ike_frames).src
  BY DEF FramesCtx
<1> HIDE DEF ctx
<1>2. ParseV1(raw).initiator_ip = ctx.initiator_ip
  BY SessionShape DEF ParseV1, AnalyseV1, ctx
<1>3. ParseV2(raw).initiator_ip = ctx.initiator_ip
  BY SessionShape DEF ParseV2, AnalyseV2, AnalyseApplied, ctx
<1>4. Parse(raw).session = ParseV1(raw) \/ Parse(raw).session = ParseV2(raw)
  BY DEF Parse
<1> QED
  BY <1>1, <1>2, <1>3, <1>4

\* The opener of an SA is one of its messages.
LEMMA OpenerIs ==
    ASSUME NEW frames, Len(frames) \in Nat \ {0}
    PROVE  \E m \in 1..Len(frames) : Opener(frames) = frames[m]
<1> DEFINE found == {k \in 1..Len(frames) : ~frames[k].msg.is_response
                                            /\ frames[k].msg.message_id = 0}
<1>1. Opener(frames) = IF found = {} THEN frames[1] ELSE frames[Min(found)]
  BY DEF Opener, First
<1>2. found \in SUBSET (1..Len(frames))
  OBVIOUS
<1> HIDE DEF found
<1>3. CASE found = {}
  <2>1. 1 \in 1..Len(frames) /\ Opener(frames) = frames[1]
    BY <1>1, <1>3
  <2> QED
    BY <2>1
<1>4. CASE found # {}
  <2>1. Min(found) \in found
    BY <1>4, <1>2, ExtremesOf
  <2>2. Min(found) \in 1..Len(frames) /\ Opener(frames) = frames[Min(found)]
    BY <1>1, <1>2, <1>4, <2>1
  <2> QED
    BY <2>2
<1> QED
  BY <1>3, <1>4

\* Every session of a report names its initiator.
LEMMA SessionsNamePeers ==
    ASSUME AddressesShown, Analysed, NEW s \in Sessions
    PROVE  s.initiator_ip # ""
<1>1. CASE s \in IkeSessions
  <2>1. PICK raw \in RawSas : IsOf(s, raw)
    BY <1>1, SessionsOfRaws
  <2>2. s = Assess(Finish(Parse(raw))) /\ SaShape(raw, Read.ike)
    BY <2>1 DEF IsOf, RawIs
  <2> DEFINE frames == raw.ike_frames
  <2>3. FramesShape(frames, Read.ike, raw.spi)
    BY <2>2 DEF SaShape
  <2>4. s.initiator_ip = Parse(raw).session.initiator_ip
    BY <2>2, SessionRecord DEF SessionKeys
  <2>5. s.initiator_ip = Opener(frames).src
    BY <2>4, ParsedNames
  <2> HIDE DEF frames
  <2>6. PICK m \in 1..Len(frames) : Opener(frames) = frames[m]
    BY <2>3, OpenerIs DEF FramesShape
  <2>7. frames[m] \in ToSet(frames)
    BY <2>3 DEF FramesShape
  <2>8. PICK j \in 1..Len(Read.ike) : frames[m] = Read.ike[j]
    BY <2>3, <2>7 DEF FramesShape
  <2> QED
    BY <2>5, <2>6, <2>8, FramesShowSource
<1>2. CASE s \notin IkeSessions
  <2>1. PICK esp : /\ Len(esp) \in Nat \ {0}
                   /\ \E j \in 1..Len(Read.esp) : esp[1] = Read.esp[j]
                   /\ s = Assess(Classify(OrphanRecord(esp), BusiestFlow(esp)))
    BY <1>2, OrphansWereRead
  <2>2. esp[1].src # ""
    BY <2>1, FramesShowSource
  <2> DEFINE rec == OrphanRecord(esp)
             t == Classify(rec, BusiestFlow(esp))
  <2>3. s = Assess(t)
    BY <2>1
  <2>4. DOMAIN rec = SessionKeys /\ rec.initiator_ip = esp[1].src
    BY OrphanShape
  <2> HIDE DEF rec
  <2>5. /\ DOMAIN t = DOMAIN rec \cup {"pkt_total", "traffic_prediction"}
        /\ \A x \in DOMAIN rec : t[x] = rec[x]
    BY ClassifyKeeps
  <2> HIDE DEF t
  <2>6. \A x \in DOMAIN t : s[x] = t[x]
    BY <2>3, AssessKeeps
  <2>7. s.initiator_ip = rec.initiator_ip
    BY <2>4, <2>5, <2>6 DEF SessionKeys
  <2> QED
    BY <2>2, <2>4, <2>7
<1> QED
  BY <1>1, <1>2
-----------------------------------------------------------------------------
(* The sessions that events are of *)

\* The members of seq are what it has at its places.
Listed(seq) ==
    /\ Len(seq) \in Nat
    /\ \A x : x \in ToSet(seq) <=> \E k \in 1..Len(seq) : x = seq[k]

\* What is picked of a list is a list of its members.
LEMMA PickedFrom ==
    ASSUME NEW seq, Listed(seq), NEW I \in SUBSET (1..Len(seq))
    PROVE  Listed(Picked(seq, I)) /\ \A x \in ToSet(Picked(seq, I)) : x \in ToSet(seq)
<1> DEFINE out == Picked(seq, I)
<1>1. Len(seq) \in Nat /\ \A x : x \in ToSet(seq) <=> \E k \in 1..Len(seq) : x = seq[k]
  BY DEF Listed
<1>2. /\ Len(out) = Cardinality(I) /\ Cardinality(I) \in Nat
      /\ out \in Seq(ToSet(out))
      /\ \A x : x \in ToSet(out) <=> \E i \in I : x = seq[i]
  BY <1>1, PickedMembers
<1> HIDE DEF out
<1>3. \A x : x \in ToSet(out) <=> \E k \in 1..Len(out) : x = out[k]
  BY <1>2 DEF ToSet
<1>4. \A x \in ToSet(out) : x \in ToSet(seq)
  BY <1>1, <1>2
<1>5. Listed(out)
  BY <1>2, <1>3 DEF Listed
<1> QED
  BY <1>4, <1>5 DEF out

\* A group has a first member, and all of them are members of the list.
LEMMA GroupedFrom ==
    ASSUME NEW seq, Listed(seq), NEW keys, Len(keys) = Len(seq),
           NEW g \in ToSet(Groups(seq, keys))
    PROVE  g[1] \in ToSet(g) /\ \A x \in ToSet(g) : x \in ToSet(seq)
<1> DEFINE groups == Groups(seq, keys)
           n == Len(seq)
<1>1. n \in Nat /\ \A x : x \in ToSet(seq) <=> \E k \in 1..n : x = seq[k]
  BY DEF Listed
<1>2. Len(groups) \in Nat /\ Len(groups) = Len(Uniques(keys))
  BY <1>1, GroupsOf DEF OneForEach
<1>3. groups = [k \in 1..Len(Uniques(keys)) |->
                  Picked(seq, {i \in 1..n : keys[i] = Uniques(keys)[k]})]
  BY DEF Groups
<1>4. \A k \in 1..Len(groups) : HasUnder(groups[k], seq, keys, Uniques(keys)[k])
  BY <1>1, GroupMembers
<1> HIDE DEF groups, n
<1>5. PICK k \in 1..Len(groups) : g = groups[k]
  BY <1>2, <1>3 DEF ToSet, groups
<1>6. HasUnder(g, seq, keys, Uniques(keys)[k])
  BY <1>4, <1>5
<1>7. g[1] \in ToSet(g)
  <2>1. Len(g) \in Nat \ {0} /\ \A x : x \in ToSet(g) <=> \E m \in 1..Len(g) : x = g[m]
    BY <1>6 DEF HasUnder
  <2>2. 1 \in 1..Len(g)
    BY <2>1
  <2> QED
    BY <2>1, <2>2
<1>8. ASSUME NEW x \in ToSet(g) PROVE x \in ToSet(seq)
  <2>1. PICK j \in 1..n : x = seq[j]
    BY <1>6, <1>8 DEF HasUnder, n
  <2> QED
    BY <1>1, <2>1
<1> QED
  BY <1>7, <1>8

\* So it is with the groups of what was picked of a list.
LEMMA PickedGroups ==
    ASSUME NEW seq, Listed(seq), NEW I \in SUBSET (1..Len(seq)), NEW keys,
           Len(keys) = Len(Picked(seq, I)), NEW g \in ToSet(Groups(Picked(seq, I), keys))
    PROVE  \A x \in ToSet(g) : x \in ToSet(seq)
<1> DEFINE mine == Picked(seq, I)
<1>1. Listed(mine) /\ \A x \in ToSet(mine) : x \in ToSet(seq)
  BY PickedFrom
<1> HIDE DEF mine
<1>2. \A x \in ToSet(g) : x \in ToSet(mine)
  BY <1>1, GroupedFrom DEF mine
<1> QED
  BY <1>1, <1>2

OfSome(event, sessions) == \E s \in ToSet(sessions) : event.session_id = s.session_id

\* An event is of the session that it is made of.
LEMMA EventNames ==
    /\ \A kind, severity, id, evidence, says :
         Event(kind, severity, id, evidence, says).session_id = id
    /\ \A s, kind, severity, says : EventOf(s, kind, severity, says).session_id = s.session_id
BY DEF EventOf, Event

\* Each detector reports the sessions it was given.
LEMMA ProbesAreOfSessions ==
    ASSUME NEW sessions, Listed(sessions), NEW e \in detect_aggressive_mode_probe(sessions)
    PROVE  OfSome(e, sessions)
<1> DEFINE Probes(s) == s.ike.version = "IKEv1" /\ s.ike.aggressive_mode
           I == {i \in 1..Len(sessions) : Probes(sessions[i])}
           seen == Picked(sessions, I)
           keys == [i \in 1..Len(seen) |-> Responder(seen[i])]
           groups == ToSet(GroupBy(Filter(sessions, Probes), Responder))
           Repeated(g) == Len(g) >= AGGRESSIVE_PROBE_THRESHOLD
           Grade(g) == IF Repeated(g) THEN "CRITICAL" ELSE "HIGH"
           Says(g, s) == <<IF Repeated(g) THEN Len(g) ELSE 1, <<s.responder_ip>>>>
<1>1. detect_aggressive_mode_probe(sessions)
        = UNION {{EventOf(s, "AGGRESSIVE_MODE_PROBE", Grade(g), Says(g, s)) :
                    s \in ToSet(g)} : g \in groups}
  BY DEF detect_aggressive_mode_probe
<1>2. groups = ToSet(Groups(seen, keys))
  BY DEF GroupBy, Filter
<1>3. I \in SUBSET (1..Len(sessions))
  OBVIOUS
<1> HIDE DEF groups, Grade, Says, I
<1>4. Len(seen) \in Nat
  BY <1>3, PickedFrom DEF Listed
<1> HIDE DEF seen
<1>5. Len(keys) = Len(seen)
  BY <1>4
<1> HIDE DEF keys
<1>6. PICK g \in groups : \E s \in ToSet(g) :
        e = EventOf(s, "AGGRESSIVE_MODE_PROBE", Grade(g), Says(g, s))
  BY <1>1
<1>7. \A x \in ToSet(g) : x \in ToSet(sessions)
  BY <1>2, <1>3, <1>5, PickedGroups DEF seen
<1> QED
  BY <1>6, <1>7, EventNames DEF OfSome

\* So does the one for brute force.
LEMMA BruteforceIsOfSessions ==
    ASSUME NEW sessions, Listed(sessions), NEW e \in detect_transform_bruteforce(sessions)
    PROVE  OfSome(e, sessions)
<1> DEFINE I == {i \in 1..Len(sessions) : observed(sessions[i])}
           seen == Picked(sessions, I)
           keys == [i \in 1..Len(seen) |-> Pair(seen[i])]
           Suites(g) == {<<s.ike.encryption, s.ike.integrity, s.ike.dh_group>> : s \in ToSet(g)}
           groups == {g \in ToSet(GroupBy(Filter(sessions, observed), Pair)) :
                        Cardinality(Suites(g)) >= TRANSFORM_BRUTEFORCE_THRESHOLD}
           Says(g, s) == <<Cardinality(Suites(g)), Pair(s)>>
<1>1. detect_transform_bruteforce(sessions)
        = UNION {{EventOf(s, "TRANSFORM_BRUTEFORCE", "HIGH", Says(g, s)) : s \in ToSet(g)} :
                   g \in groups}
  BY DEF detect_transform_bruteforce
<1>2. \A g \in groups : g \in ToSet(Groups(seen, keys))
  BY DEF GroupBy, Filter
<1>3. I \in SUBSET (1..Len(sessions))
  OBVIOUS
<1> HIDE DEF groups, Says, I
<1>4. Len(seen) \in Nat
  BY <1>3, PickedFrom DEF Listed
<1> HIDE DEF seen
<1>5. Len(keys) = Len(seen)
  BY <1>4
<1> HIDE DEF keys
<1>6. PICK g \in groups : \E s \in ToSet(g) :
        e = EventOf(s, "TRANSFORM_BRUTEFORCE", "HIGH", Says(g, s))
  BY <1>1
<1>7. \A x \in ToSet(g) : x \in ToSet(sessions)
  BY <1>2, <1>3, <1>5, PickedGroups DEF seen
<1> QED
  BY <1>6, <1>7, EventNames DEF OfSome

\* A collision is reported of the first of the sessions that collide.
LEMMA CollisionsAreOfSessions ==
    ASSUME NEW sessions, Listed(sessions), NEW e \in detect_spi_collision(sessions)
    PROVE  OfSome(e, sessions)
<1> DEFINE keys == [i \in 1..Len(sessions) |-> SessionId(sessions[i])]
           Pairs(g) == {Pair(s) : s \in ToSet(g)}
           Refs(g) == UNION {ToSet(s.packet_refs) : s \in ToSet(g)}
           groups == {g \in ToSet(GroupBy(sessions, SessionId)) : Cardinality(Pairs(g)) > 1}
           Evidence(g) == SetToSortSeq(Refs(g), LAMBDA x, y : x < y)
           Says(g) == <<Cardinality(Pairs(g)), <<>>>>
<1>1. detect_spi_collision(sessions)
        = {Event("SPI_COLLISION", "CRITICAL", g[1].session_id, Evidence(g), Says(g)) : g \in groups}
  BY Zenon DEF detect_spi_collision
<1>2. \A g \in groups : g \in ToSet(Groups(sessions, keys))
  BY DEF GroupBy
<1>3. Len(keys) = Len(sessions)
  BY DEF Listed
<1> HIDE DEF groups, Evidence, Says, keys
<1>4. PICK g \in groups :
        e = Event("SPI_COLLISION", "CRITICAL", g[1].session_id, Evidence(g), Says(g))
  BY <1>1
<1>5. g[1] \in ToSet(g) /\ \A x \in ToSet(g) : x \in ToSet(sessions)
  BY <1>2, <1>3, GroupedFrom
<1>6. e.session_id = g[1].session_id
  BY <1>4, EventNames
<1> QED
  BY <1>5, <1>6 DEF OfSome

\* A downgrade is reported of the weak session.
LEMMA DowngradesAreOfSessions ==
    ASSUME NEW sessions, Listed(sessions), NEW e \in detect_downgrade(sessions)
    PROVE  OfSome(e, sessions)
<1>1. PICK s, t \in ToSet(sessions) : Downgraded(e, s, t)
  BY DowngradeOf DEF Listed
<1> QED
  BY <1>1 DEF Downgraded, OfSome

\* NAT traversal is reported of the session that uses it.
LEMMA NatIsOfSessions ==
    ASSUME NEW sessions, Listed(sessions), NEW e \in detect_nat_t_unexpected(sessions)
    PROVE  OfSome(e, sessions)
<1> DEFINE Odd(s) == s.ike.nat_traversal /\ s.initiator_ip \in PublicIp
           I == {i \in 1..Len(sessions) : Odd(sessions[i])}
           Says(s) == <<0, <<s.initiator_ip>>>>
<1>1. detect_nat_t_unexpected(sessions)
        = {EventOf(s, "NAT_T_UNEXPECTED", "MEDIUM", Says(s)) : s \in ToSet(Picked(sessions, I))}
  BY DEF detect_nat_t_unexpected, Filter
<1>2. I \in SUBSET (1..Len(sessions))
  OBVIOUS
<1> HIDE DEF I, Says
<1>3. PICK s \in ToSet(Picked(sessions, I)) : e = EventOf(s, "NAT_T_UNEXPECTED", "MEDIUM", Says(s))
  BY <1>1
<1>4. s \in ToSet(sessions)
  BY <1>2, PickedFrom
<1> QED
  BY <1>3, <1>4, EventNames DEF OfSome

\* A storm is reported of each session of its pair.
LEMMA StormsAreOfSessions ==
    ASSUME NEW sessions, Listed(sessions), NEW e \in detect_rekey_storm(sessions)
    PROVE  OfSome(e, sessions)
<1> DEFINE Timed(s) == s.timestamp # None
           I == {i \in 1..Len(sessions) : Timed(sessions[i])}
           seen == Picked(sessions, I)
           keys == [i \in 1..Len(seen) |-> Pair(seen[i])]
           Times(g) == {s.timestamp : s \in ToSet(g)}
           Span(g) == Max(Times(g)) - Min(Times(g))
           groups == {g \in ToSet(GroupBy(Filter(sessions, Timed), Pair)) :
                        /\ Len(g) >= REKEY_STORM_THRESHOLD
                        /\ Span(g) <= REKEY_STORM_WINDOW_SEC}
           Says(g, s) == <<Len(g), Pair(s) \o <<ToString(Span(g))>>>>
<1>1. detect_rekey_storm(sessions)
        = UNION {{EventOf(s, "REKEY_STORM", "MEDIUM", Says(g, s)) : s \in ToSet(g)} : g \in groups}
  BY DEF detect_rekey_storm
<1>2. \A g \in groups : g \in ToSet(Groups(seen, keys))
  BY DEF GroupBy, Filter
<1>3. I \in SUBSET (1..Len(sessions))
  OBVIOUS
<1> HIDE DEF groups, Says, I
<1>4. Len(seen) \in Nat
  BY <1>3, PickedFrom DEF Listed
<1> HIDE DEF seen
<1>5. Len(keys) = Len(seen)
  BY <1>4
<1> HIDE DEF keys
<1>6. PICK g \in groups : \E s \in ToSet(g) : e = EventOf(s, "REKEY_STORM", "MEDIUM", Says(g, s))
  BY <1>1
<1>7. \A x \in ToSet(g) : x \in ToSet(sessions)
  BY <1>2, <1>3, <1>5, PickedGroups DEF seen
<1> QED
  BY <1>6, <1>7, EventNames DEF OfSome

\* Every event is of a session that was looked at.
LEMMA EventsAreOfSessions ==
    ASSUME NEW sessions, Listed(sessions), NEW e \in detect_anomalies(sessions)
    PROVE  OfSome(e, sessions)
<1>1. \/ e \in detect_aggressive_mode_probe(sessions) \/ e \in detect_transform_bruteforce(sessions)
      \/ e \in detect_spi_collision(sessions) \/ e \in detect_downgrade(sessions)
      \/ e \in detect_nat_t_unexpected(sessions) \/ e \in detect_rekey_storm(sessions)
  BY DEF detect_anomalies
<1> QED
  BY <1>1, ProbesAreOfSessions, BruteforceIsOfSessions, CollisionsAreOfSessions,
     DowngradesAreOfSessions, NatIsOfSessions, StormsAreOfSessions
-----------------------------------------------------------------------------
(* One story *)

\* Rows are some of the sessions, and every id has a row.
LEMMA RowsNameAll ==
    ASSUME NEW sessions, Len(sessions) \in Nat
    PROVE  /\ IsFiniteSet(Rows(sessions))
           /\ \A k \in 1..Len(sessions) :
                \E w \in Rows(sessions) : w.session_id = sessions[k].session_id
<1> DEFINE n == Len(sessions)
           last == {i \in 1..n : \A j \in i + 1..n : sessions[j].session_id # sessions[i].session_id}
           T == Rows(sessions)
           row == [i \in last |-> sessions[i]]
<1>1. T = {sessions[k] : k \in last}
  BY DEF Rows
<1>2. last \in SUBSET (1..n)
  OBVIOUS
<1>3. row \in Surjection(last, T)
  <2> HIDE DEF last
  <2>1. row \in [last -> T]
    BY <1>1
  <2>2. \A t \in T : \E i \in last : row[i] = t
    BY <1>1
  <2> HIDE DEF row, T
  <2> QED
    BY <2>1, <2>2 DEF Surjection
<1>4. IsFiniteSet(T)
  <2>1. IsFiniteSet(1..n)
    BY FS_Interval
  <2>2. IsFiniteSet(last)
    <3> HIDE DEF last
    <3> QED
      BY <1>2, <2>1, FS_Subset
  <2> HIDE DEF last, T, row
  <2> QED
    BY <1>3, <2>2, FS_Surjection
<1>5. ASSUME NEW k \in 1..n
      PROVE  \E w \in T : w.session_id = sessions[k].session_id
  <2> DEFINE id == sessions[k].session_id
             same == {i \in 1..n : sessions[i].session_id = id}
  <2>1. k \in same /\ same \in SUBSET (1..n)
    BY <1>5
  <2>2. PICK m \in same : \A i \in same : i <= m
    <3> HIDE DEF same
    <3>1. same # {}
      BY <2>1
    <3> QED
      BY <2>1, <3>1, ExtremesOf
  <2>3. m \in 1..n /\ sessions[m].session_id = id
    BY <2>2
  <2>4. ASSUME NEW j \in m + 1..n PROVE sessions[j].session_id # id
    <3>1. j \in 1..n /\ ~(j <= m)
      BY <2>3, <2>4
    <3> QED
      BY <2>2, <3>1
  <2>5. m \in last
    BY <2>3, <2>4
  <2> QED
    BY <1>1, <2>3, <2>5
<1> QED
  BY <1>4, <1>5

\* An assessed session has the assessment of what it was before.
LEMMA AssessmentOf ==
    ASSUME NEW t, "security_assessment" \notin DOMAIN t
    PROVE  Assess(t).security_assessment = evaluate_rules(t)
<1> DEFINE extra == [security_assessment |-> evaluate_rules(t)]
<1>1. Assess(t) = Joined(t, extra)
  BY DEF Assess
<1>2. DOMAIN extra = {"security_assessment"} /\ extra["security_assessment"] = evaluate_rules(t)
  OBVIOUS
<1> HIDE DEF extra
<1>3. \A x \in DOMAIN extra \ DOMAIN t : Joined(t, extra)[x] = extra[x]
  BY JoinedOf
<1> QED
  BY <1>1, <1>2, <1>3

\* The rows of an analysis: soundly assessed, with addresses, and one for each event.
TellableRows ==
    /\ SoundRows(Rows(report.sessions))
    /\ \A w \in Rows(report.sessions) : w.initiator_ip # ""
    /\ \A e \in report.anomalies :
         \E w \in Rows(report.sessions) : w.session_id = e.session_id

\* The rows of a report that is the analysis of its capture are such rows.
LEMMA AnalysedRowsTell == AddressesShown /\ Analysed => TellableRows
<1> SUFFICES ASSUME AddressesShown, Analysed PROVE TellableRows
  OBVIOUS
<1> DEFINE sessions == SessionsIn(Ingested)
           n == Len(sessions)
           rows == Rows(report.sessions)
<1>1. /\ report.anomalies = detect_anomalies(sessions)
      /\ n \in Nat
      /\ \A t : t \in ToSet(sessions) <=> \E k \in 1..n : t = sessions[k]
      /\ \A t \in ToSet(sessions) :
           /\ Assess(t) \in Sessions
           /\ DOMAIN t = SessionKeys \cup {"pkt_total", "traffic_prediction"}
  BY DetectedIn
<1>2. report.sessions = [k \in 1..n |-> Assess(sessions[k])]
  BY DEF Analysed, analyze_capture, AnalyseSAs, Assembled, Ingested, Read
<1> HIDE DEF sessions, n
<1>3. Len(report.sessions) = n /\ \A k \in 1..n : report.sessions[k] = Assess(sessions[k])
  BY <1>1, <1>2
<1>4. \A k \in 1..n : sessions[k] \in ToSet(sessions)
  BY <1>1
<1>5. ASSUME NEW t \in ToSet(sessions)
      PROVE  /\ SoundAssessment(Assess(t).security_assessment)
             /\ Assess(t).session_id = t.session_id
             /\ Assess(t).initiator_ip # ""
  <2>1. DOMAIN t = SessionKeys \cup {"pkt_total", "traffic_prediction"}
    BY <1>1
  <2>2. "security_assessment" \notin DOMAIN t /\ "session_id" \in DOMAIN t
    BY <2>1 DEF SessionKeys
  <2>3. SoundAssessment(Assess(t).security_assessment)
    BY <2>2, AssessmentOf, AssessmentIsSound
  <2>4. Assess(t).session_id = t.session_id
    BY <2>2, AssessKeeps
  <2>5. Assess(t).initiator_ip # ""
    BY <1>1, SessionsNamePeers
  <2> QED
    BY <2>3, <2>4, <2>5
<1>6. /\ IsFiniteSet(rows)
      /\ \A w \in rows : \E k \in 1..n : w = report.sessions[k]
      /\ \A k \in 1..n : \E w \in rows : w.session_id = report.sessions[k].session_id
  BY <1>1, <1>3, RowsOf, RowsNameAll
<1> HIDE DEF rows
<1>7. ASSUME NEW w \in rows
      PROVE  SoundAssessment(w.security_assessment) /\ w.initiator_ip # ""
  <2>1. PICK k \in 1..n : w = report.sessions[k]
    BY <1>6
  <2>2. w = Assess(sessions[k]) /\ sessions[k] \in ToSet(sessions)
    BY <1>3, <1>4, <2>1
  <2> QED
    BY <1>5, <2>2
<1>8. ASSUME NEW e \in report.anomalies
      PROVE  \E w \in rows : w.session_id = e.session_id
  <2>1. Listed(sessions)
    BY <1>1 DEF Listed, n
  <2>2. PICK t \in ToSet(sessions) : e.session_id = t.session_id
    BY <1>1, <1>8, <2>1, EventsAreOfSessions DEF OfSome
  <2>3. PICK k \in 1..n : t = sessions[k]
    BY <1>1
  <2>4. report.sessions[k].session_id = e.session_id
    BY <1>3, <1>5, <2>2, <2>3
  <2> QED
    BY <1>6, <2>4
<1> QED
  BY <1>6, <1>7, <1>8 DEF TellableRows, SoundRows, rows

\* What is stored can be told: the rows are soundly assessed, and have the ids and
\* the addresses of the rows of the analysis.
Tellable ==
    /\ SoundRows(stored)
    /\ \A s \in stored : \E w \in Rows(report.sessions) : SameIds(s, w)
    /\ \A w \in Rows(report.sessions) : \E s \in stored : SameIds(s, w)

\* A rescored row has the assessment of what it says then.
LEMMA RescoredIsSound ==
    ASSUME NEW s, RowKeys \subseteq DOMAIN s, NEW records
    PROVE  SoundAssessment(Rescored(Attached(s, records)).security_assessment)
<1> DEFINE ike == IkeAfter(s, records)[Len(records)]
           mid == Attached(s, records)
           score == evaluate_rules(mid)
           t == Rescored(mid)
<1>1. mid = [s EXCEPT !.ike = ike] /\ t = [mid EXCEPT !.security_assessment = score]
  BY DEF Attached, Rescored
<1>2. SoundAssessment(score)
  BY AssessmentIsSound
<1> HIDE DEF ike, mid, score, t
<1>3. DOMAIN mid = DOMAIN s
  BY <1>1
<1>4. t.security_assessment = score
  BY <1>1, <1>3 DEF RowKeys
<1> QED
  BY <1>2, <1>4 DEF t, mid

\* Every step keeps what is stored so.
LEMMA TellableStep ==
    ASSUME Tellable, Kept, TellableRows', [StoredNext]_storedVars
    PROVE  Tellable'
<1>1. ASSUME Analyse PROVE Tellable'
  <2>1. stored' = Rows(report.sessions)'
    BY <1>1 DEF Analyse
  <2>2. SoundRows(stored')
    BY <2>1 DEF TellableRows
  <2>3. \A s : SameIds(s, s)
    BY DEF SameIds
  <2> QED
    BY <2>1, <2>2, <2>3 DEF Tellable
<1>2. ASSUME NEW text \in Texts, ImportGatewayState(text) PROVE Tellable'
  <2> DEFINE records == parse_gateway_state(text)
             After(s) == Rescored(Attached(s, records))
             after == [s \in stored |-> After(s)]
  <2>1. /\ stored' = {Rescored(s) : s \in apply_gateway_state(stored, records)}
        /\ report' = report
    BY <1>2 DEF ImportGatewayState, vars
  <2>2. /\ \A t \in stored' : \E s \in stored : t = After(s)
        /\ \A s \in stored : After(s) \in stored'
    BY <2>1 DEF apply_gateway_state
  <2> HIDE DEF records
  <2>3. \A s \in stored : RowKeys \subseteq DOMAIN s
    BY DEF Kept, KeptRow
  <2>4. ASSUME NEW s \in stored
        PROVE  SoundAssessment(After(s).security_assessment) /\ SameIds(After(s), s)
    BY <2>3, RescoredIsSound, RescoredRow
  <2>5. IsFiniteSet(stored')
    <3>1. IsFiniteSet(stored)
      BY DEF Tellable, SoundRows
    <3>2. after \in Surjection(stored, stored')
      <4> HIDE DEF After
      <4>1. after \in [stored -> stored'] /\ \A t \in stored' : \E s \in stored : after[s] = t
        BY <2>2
      <4> HIDE DEF after
      <4> QED
        BY <4>1 DEF Surjection
    <3> HIDE DEF after
    <3> QED
      BY <3>1, <3>2, FS_Surjection
  <2>6. SoundRows(stored')
    BY <2>2, <2>4, <2>5 DEF SoundRows
  <2>7. ASSUME NEW t \in stored' PROVE \E w \in Rows(report.sessions) : SameIds(t, w)
    <3>1. PICK s \in stored : t = After(s)
      BY <2>2
    <3>2. PICK w \in Rows(report.sessions) : SameIds(s, w)
      BY DEF Tellable
    <3> QED
      BY <2>4, <3>1, <3>2 DEF SameIds
  <2>8. ASSUME NEW w \in Rows(report.sessions) PROVE \E t \in stored' : SameIds(t, w)
    <3>1. PICK s \in stored : SameIds(s, w)
      BY DEF Tellable
    <3>2. SameIds(After(s), w)
      BY <2>4, <3>1 DEF SameIds
    <3> QED
      BY <2>2, <3>2
  <2> QED
    BY <2>1, <2>6, <2>7, <2>8 DEF Tellable
<1>3. CASE UNCHANGED storedVars
  BY <1>3 DEF Tellable, storedVars, vars
<1> QED
  BY <1>1, <1>2, <1>3 DEF StoredNext

\* A line of the feed names its peer.
LEMMA FeedNamesPeers ==
    ASSUME Tellable, TellableRows, NEW line \in to_cef(stored, report.anomalies)
    PROVE  line.src # ""
<1>1. ASSUME NEW s \in stored PROVE s.initiator_ip # ""
  BY DEF Tellable, TellableRows, SameIds
<1>2. ASSUME NEW s \in stored, line \in CefSession(s) PROVE line.src = s.initiator_ip
  BY <1>2 DEF CefSession
<1>3. ASSUME NEW e \in report.anomalies, line = CefAnomaly(e, stored)
      PROVE  line.src # ""
  <2> DEFINE own == {s \in stored : s.session_id = e.session_id}
             s0 == CHOOSE s \in own : TRUE
  <2>1. PICK w \in Rows(report.sessions) : w.session_id = e.session_id
    BY DEF TellableRows
  <2>2. PICK s \in stored : SameIds(s, w)
    BY DEF Tellable
  <2>3. s \in own
    BY <2>1, <2>2 DEF SameIds
  <2>4. s0 \in own
    BY <2>3
  <2>5. s0 \in stored
    BY <2>4
  <2>6. CefAnomaly(e, stored).src = s0.initiator_ip
    BY <2>3 DEF CefAnomaly
  <2> HIDE DEF s0
  <2> QED
    BY <1>1, <1>3, <2>5, <2>6
<1>4. \/ \E s \in stored : line \in CefSession(s)
      \/ \E e \in report.anomalies : line = CefAnomaly(e, stored)
  <2> DEFINE told == {CefSession(s) : s \in stored}
             found == {CefAnomaly(e, stored) : e \in report.anomalies}
  <2>1. to_cef(stored, report.anomalies) = (UNION told) \cup found
    BY Zenon DEF to_cef
  <2>2. \A x \in UNION told : \E s \in stored : x \in CefSession(s)
    OBVIOUS
  <2>3. \A x \in found : \E e \in report.anomalies : x = CefAnomaly(e, stored)
    OBVIOUS
  <2> HIDE DEF told, found
  <2>4. line \in UNION told \/ line \in found
    BY <2>1
  <2> QED
    BY <2>2, <2>3, <2>4
<1> QED
  BY <1>1, <1>2, <1>3, <1>4

\* Of what can be told, the job list, the report and the feed tell one story.
LEMMA TellableIsOneStory == Tellable /\ TellableRows => OneStory
<1> SUFFICES ASSUME Tellable, TellableRows PROVE OneStory
  OBVIOUS
<1> DEFINE summary == summarise(stored)
<1>1. SoundRows(stored)
  BY DEF Tellable
<1>2. /\ summary.posture_score = posture_score(stored)
      /\ summary.severity_counts = severity_counts(stored)
      /\ summary.compliance = compliance(stored)
      /\ summary.session_count = Cardinality(stored)
      /\ summary.top_findings = top_findings(stored)
  BY DEF summarise
<1> HIDE DEF summary
<1>3. /\ JobSummary(stored).posture_score = summary.posture_score
      /\ JobSummary(stored).severity_counts = summary.severity_counts
  BY <1>1, <1>2, SummariesAgree
<1>4. ASSUME NEW id \in DOMAIN summary.compliance
      PROVE  LET row == summary.compliance[id]
             IN  row.pass + row.fail + row.not_assessed = summary.session_count
  BY <1>1, <1>2, ComplianceAddsUp
<1>5. VerdictStands(stored)
  BY <1>1, VerdictIs DEF SoundRows
<1>6. \A line \in to_cef(stored, report.anomalies) : line.src # ""
  BY FeedNamesPeers
<1> QED
  BY <1>2, <1>3, <1>4, <1>5, <1>6 DEF OneStory, VerdictStands, summary

\* In every reachable state the job list, the report and the SIEM feed tell one story of
\* the stored rows (_summary, summarise, overall_severity, to_cef).
THEOREM ReportsTellOneStory == StoredSpec => []OneStory
<1>1. AddressesShown
  BY AddressAssumption, AddressesAreShown
<1>2. Analysed => TellableRows
  BY <1>1, AnalysedRowsTell
<1>3. StoredSpec => []TellableRows
  BY <1>2, AnalysisFollows, PTL
<1>4. StoredInit /\ TellableRows => Tellable
  BY DEF StoredInit, Tellable, TellableRows, SameIds
<1>5. Tellable /\ Kept /\ TellableRows' /\ [StoredNext]_storedVars => Tellable'
  BY TellableStep
<1>6. Tellable /\ TellableRows => OneStory
  BY TellableIsOneStory
<1> QED
  BY <1>3, <1>4, <1>5, <1>6, StoreKeepsTheTold, PTL DEF StoredSpec
=============================================================================
