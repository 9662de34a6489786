------------------------------ MODULE JobStore ------------------------------
(***************************************************************************)
(* The persisted state of the backend and the transactions on it           *)
(* (api/store.py): the jobs, sessions and events tables, the hash-chained  *)
(* audit log, and the capture directory the jobs point into.               *)
(*                                                                         *)
(* sqlite3 opens one write transaction per `with connect()` block, taken   *)
(* at its first INSERT or DELETE, so save_analysis and the DELETEs of      *)
(* delete_job are single steps.  A SELECT outside a write is a step of its *)
(* own: the callers' interleavings are in Requests.                        *)
(*                                                                         *)
(* Data: a capture is the number of packets in it; a stored document keeps *)
(* its key and what later code can tell apart, the capture it describes    *)
(* and the gateway output applied to it.  A SHA-256 is an injective term.  *)
(***************************************************************************)
EXTENDS Naturals, Sequences, FiniteSets, SequencesExt

CONSTANTS Job,        \* job identifiers (uuid4: never reused)
          Id,         \* session ids and anomaly ids
          Report,     \* recognised gateway outputs
          NoReport,   \* a session no gateway output was applied to
          MaxPackets, \* bound on the packets of one capture
          AnalysisOf, \* AnalysisOf[c]: the lists analyze_capture returns for c
          Missing,    \* no file, and the hash of no file (None)
          NoRow       \* no row in the jobs table

VARIABLES jobs,     \* jobs[j]: the row of j, or NoRow
          sessions, \* sessions[j]: the session rows of j by session_id
          events,   \* events[j]: the event rows of j by anomaly_id
          auditLog, \* the audit_log rows in seq order
          disk,     \* disk[j]: the content of j's file in CAPTURE_DIR
          deleted   \* history: the jobs a DELETE has forgotten

storeVars == <<jobs, sessions, events, auditLog, disk, deleted>>

Capture == 0..MaxPackets
SessionDoc == [id : Id, wire : Capture, gateway : Report \cup {NoReport}]
EventDoc == [id : Id, wire : Capture]
Row == [stats : Capture, kept : BOOLEAN]

\* What save_analysis is given: the statistics and the two lists of records.
Draft == [stats : Capture, sessions : Seq(SessionDoc), events : Seq(EventDoc)]

ASSUME IdAssumption == IsFiniteSet(Id)
ASSUME BoundAssumption == MaxPackets \in Nat
ASSUME SentinelAssumption == /\ NoReport \notin Report
                             /\ Missing \notin Capture
                             /\ NoRow \notin Row
ASSUME AnalysisAssumption ==
    \A c \in Capture : /\ AnalysisOf[c].sessions \in Seq(SessionDoc)
                       /\ AnalysisOf[c].events \in Seq(EventDoc)
-----------------------------------------------------------------------------
(* Documents and digests *)

Analysis(c) == [stats |-> c, sessions |-> AnalysisOf[c].sessions,
                events |-> AnalysisOf[c].events]

\* Mutant of RowsOf: keys and documents are paired from two orders.
RowsMispaired(list) ==
    [k \in {list[i].id : i \in DOMAIN list} |->
        Reverse(list)[Max({i \in DOMAIN list : list[i].id = k})]]

\* INSERT OR REPLACE in list order: of two records with one key the last stays.
RowsOf(list) ==
    [k \in {list[i].id : i \in DOMAIN list} |->
        list[Max({i \in DOMAIN list : list[i].id = k})]]

\* The rows of a table as the list a SELECT over them returns.
Listing(rows) == SetToSeq(Range(rows))

\* The digest sorts the documents, so it is a function of their bags.
Digest(d) == [stats |-> d.stats, sessions |-> ToBag(d.sessions),
              events |-> ToBag(d.events)]

\* No two documents of the bag share their key.
OnePerId(bag) == \A x, y \in DOMAIN bag : bag[x] = 1 /\ (x.id = y.id => x = y)

\* The rows of the list a save was given: one of its documents for each id.
OneOfEach(given, stored) ==
    /\ OnePerId(stored)
    /\ DOMAIN stored \subseteq DOMAIN given
    /\ \A x \in DOMAIN given : \E y \in DOMAIN stored : y.id = x.id

\* Nothing in the digest had to give way to a record of the same id.
Keyed(digest) == OnePerId(digest.sessions) /\ OnePerId(digest.events)

\* Digest b is what the tables hold of an analysis of digest a.
Keeps(a, b) == /\ b.stats = a.stats
               /\ OneOfEach(a.sessions, b.sessions)
               /\ OneOfEach(a.events, b.events)

\* The digest verify_audit_chain recomputes from the rows of j.
StoredDigest(j) == Digest([stats |-> jobs[j].stats, sessions |-> sessions[j],
                           events |-> events[j]])

\* apply_gateway_state on one session: it fills what is still unobserved.
ApplyGateway(g, doc) == [doc EXCEPT !.gateway = IF @ = NoReport THEN g ELSE @]
-----------------------------------------------------------------------------
(* The audit log *)

Genesis == <<>>

\* Mutant of EntryHash: the capture hash is left out.
HashWithoutCapture(seq, j, analysis, capture, prev) == Append(prev, <<seq, j, analysis>>)

\* Injective in every field and in the previous hash, as a SHA-256 is taken
\* to be.  recorded_at only makes hashes differ more often and is left out.
EntryHash(seq, j, analysis, capture, prev) ==
    Append(prev, <<seq, j, analysis, capture>>)

\* Entry i of log is the newest of job j.
IsNewestOf(log, i, j) == /\ log[i].job = j
                         /\ \A k \in DOMAIN log : log[k].job = j => k <= i

\* The newest entry of j in log records this analysis.
IsLogged(log, j, analysis) ==
    \E i \in DOMAIN log : IsNewestOf(log, i, j) /\ log[i].analysis = analysis

HeadHash(log) == IF log = <<>> THEN Genesis ELSE log[Len(log)].hash

NextEntry(log, j, analysis, capture) ==
    LET seq == IF log = <<>> THEN 1 ELSE log[Len(log)].seq + 1
    IN  [seq |-> seq, job |-> j, analysis |-> analysis, capture |-> capture,
         prev |-> HeadHash(log),
         hash |-> EntryHash(seq, j, analysis, capture, HeadHash(log))]

\* Mutant of AppendAudit: any entry of the job will do, not only its newest.
AppendAuditOnce(j, analysis, capture) ==
    auditLog' = IF \E i \in DOMAIN auditLog :
                     auditLog[i].job = j /\ auditLog[i].analysis = analysis
                THEN auditLog
                ELSE Append(auditLog, NextEntry(auditLog, j, analysis, capture))

AppendAudit(j, analysis, capture) ==
    auditLog' = IF IsLogged(auditLog, j, analysis) THEN auditLog
                ELSE Append(auditLog, NextEntry(auditLog, j, analysis, capture))

\* The loop of verify_audit_chain over the entries read: no link is broken.
ChainIntact(log) ==
    \A i \in DOMAIN log :
        LET prev == IF i = 1 THEN Genesis ELSE log[i - 1].hash
        IN  /\ log[i].prev = prev
            /\ log[i].hash = EntryHash(log[i].seq, log[i].job, log[i].analysis,
                                       log[i].capture, prev)
-----------------------------------------------------------------------------
(* Transactions *)

StoreInit == /\ jobs = [j \in Job |-> NoRow]
             /\ sessions = [j \in Job |-> <<>>]
             /\ events = [j \in Job |-> <<>>]
             /\ auditLog = <<>>
             /\ disk = [j \in Job |-> Missing]
             /\ deleted = {}

\* save_analysis: the file is hashed as it is now, not as it was analysed.
SaveAnalysis(j, d, kept) ==
    /\ jobs' = [jobs EXCEPT ![j] = [stats |-> d.stats, kept |-> kept]]
    /\ sessions' = [sessions EXCEPT ![j] = RowsOf(d.sessions)]
    /\ events' = [events EXCEPT ![j] = RowsOf(d.events)]
    /\ AppendAudit(j, Digest(d), IF kept THEN disk[j] ELSE Missing)
    /\ UNCHANGED <<disk, deleted>>

\* Mutant of DeleteRows: the events table is forgotten.
DeleteJobAndSessions(j) ==
    /\ jobs' = [jobs EXCEPT ![j] = NoRow]
    /\ sessions' = [sessions EXCEPT ![j] = <<>>]
    /\ deleted' = deleted \cup {j}
    /\ UNCHANGED <<events, auditLog, disk>>

\* Mutant of DeleteRows: the job's audit entries go with it.
DeleteRowsAndHistory(j) ==
    /\ jobs' = [jobs EXCEPT ![j] = NoRow]
    /\ sessions' = [sessions EXCEPT ![j] = <<>>]
    /\ events' = [events EXCEPT ![j] = <<>>]
    /\ auditLog' = SelectSeq(auditLog, LAMBDA e : e.job # j)
    /\ deleted' = deleted \cup {j}
    /\ UNCHANGED disk

\* The transaction of delete_job.
DeleteRows(j) ==
    /\ jobs' = [jobs EXCEPT ![j] = NoRow]
    /\ sessions' = [sessions EXCEPT ![j] = <<>>]
    /\ events' = [events EXCEPT ![j] = <<>>]
    /\ deleted' = deleted \cup {j}
    /\ UNCHANGED <<auditLog, disk>>

PutFile(j, c) == /\ disk' = [disk EXCEPT ![j] = c]
                 /\ UNCHANGED <<jobs, sessions, events, auditLog, deleted>>

Unlink(j) == PutFile(j, Missing)

\* capture_path: the job's file, if the row names one and it is on disk.
CaptureAvailable(j) == jobs[j] # NoRow /\ jobs[j].kept /\ disk[j] # Missing
-----------------------------------------------------------------------------
(* Typing *)

\* Rows under their primary keys.
Rows(Doc) == {rows \in UNION {[K -> Doc] : K \in SUBSET Id} :
                 \A k \in DOMAIN rows : rows[k].id = k}

IsEntry(e) == e \in [seq : Nat, job : Job, analysis : {e.analysis},
                     capture : Capture \cup {Missing}, prev : {e.prev}, hash : {e.hash}]

StoreTypeOK ==
    /\ jobs \in [Job -> Row \cup {NoRow}]
    /\ sessions \in [Job -> Rows(SessionDoc)]
    /\ events \in [Job -> Rows(EventDoc)]
    /\ auditLog \in Seq(Range(auditLog))
    /\ \A i \in DOMAIN auditLog : IsEntry(auditLog[i])
    /\ disk \in [Job -> Capture \cup {Missing}]
    /\ deleted \subseteq Job
=============================================================================
