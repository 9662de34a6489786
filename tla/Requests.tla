------------------------------ MODULE Requests ------------------------------
(***************************************************************************)
(* The requests of the backend that write the job store (api/main.py), the *)
(* saves of a live run (api/live.py), the demo seed, and the audit check,  *)
(* interleaved as the event loop and its thread pool interleave them.      *)
(*                                                                         *)
(* An async handler runs to its next await; asyncio.to_thread and the sync *)
(* handlers run on threads, so every SELECT and every transaction is a     *)
(* step of its own.  A save may raise (the database stays locked for five  *)
(* seconds, the disk is full).  Crash loses every request and keeps the    *)
(* database and the files.                                                 *)
(*                                                                         *)
(* The live run is the part of LiveRun the store sees: a file that grows,  *)
(* analyses of it that are saved, an end.  Reads that answer a client and  *)
(* change nothing (list, get, diff, report, simulate) are not here.        *)
(***************************************************************************)
EXTENDS JobStore

CONSTANTS Request,      \* slots for requests in flight
          NoJob,        \* no job
          KeepCaptures, \* the values of VAULTSCOPE_KEEP_CAPTURES an upload may find
          SeedDemo,     \* VAULTSCOPE_SEED_DEMO
          DemoCapture,  \* the packets of the bundled demo capture
          MaxCrashes,   \* bound on the crashes of a behaviour
          MaxRuns,      \* bound on the live runs started
          Auditing      \* whether anyone asks for /audit/verify

ASSUME RequestAssumption == /\ NoJob \notin Job
                            /\ {SeedDemo, Auditing} \subseteq BOOLEAN
                            /\ KeepCaptures \subseteq BOOLEAN
                            /\ DemoCapture \in Capture
                            /\ {MaxCrashes, MaxRuns} \subseteq Nat

VARIABLES pc,      \* pc[r]: where request r is
          target,  \* target[r]: the job r works on
          draft,   \* draft[r]: the analysis r holds in memory
          keeps,   \* keeps[r]: r found, or will record, a capture path
          run,     \* the live run: its state, its job, the analysis in hand
          check,   \* the GET /audit/verify in progress
          issued,  \* job ids handed out so far
          seeding, \* the start-up seed has not run yet
          crashes, \* crashes so far
          runs     \* live runs so far

reqVars == <<pc, target, draft, keeps>>
bounds == <<crashes, runs>>
vars == <<storeVars, reqVars, run, check, issued, seeding, bounds>>

NoDraft == [stats |-> 0, sessions |-> <<>>, events |-> <<>>]
IdleRun == [state |-> "idle", job |-> NoJob, growing |-> FALSE,
            analysed |-> FALSE, draft |-> NoDraft]
IdleCheck == [pc |-> "idle", log |-> <<>>, todo |-> {}, job |-> NoJob,
              stats |-> 0, sessions |-> <<>>, flagged |-> {}]

Init == /\ StoreInit
        /\ pc = [r \in Request |-> "idle"]
        /\ target = [r \in Request |-> NoJob]
        /\ draft = [r \in Request |-> NoDraft]
        /\ keeps = [r \in Request |-> FALSE]
        /\ run = IdleRun
        /\ check = IdleCheck
        /\ issued = {}
        /\ seeding = SeedDemo
        /\ crashes = 0
        /\ runs = 0

\* r moves from one label to the next, on the same job.
Goto(r, from, to) == /\ pc[r] = from
                     /\ pc' = [pc EXCEPT ![r] = to]

\* r answers, or raises: its locals are gone.
Finish(r, from) == /\ pc[r] = from
                   /\ pc' = [pc EXCEPT ![r] = "idle"]
                   /\ target' = [target EXCEPT ![r] = NoJob]
                   /\ draft' = [draft EXCEPT ![r] = NoDraft]
                   /\ keeps' = [keeps EXCEPT ![r] = FALSE]
-----------------------------------------------------------------------------
(* POST /ingest *)

\* A fresh job id, and the file opened for writing.
OpenUpload(r) ==
    \E j \in Job \ issued, keep \in KeepCaptures :
        /\ Goto(r, "idle", "receiving")
        /\ target' = [target EXCEPT ![r] = j]
        /\ keeps' = [keeps EXCEPT ![r] = keep]
        /\ issued' = issued \cup {j}
        /\ PutFile(j, 0)
        /\ UNCHANGED <<draft, run, check, seeding, bounds>>

ReceiveRest(r) ==
    \E c \in Capture :
        /\ Goto(r, "receiving", "received")
        /\ PutFile(target[r], c)
        /\ UNCHANGED <<target, draft, keeps, run, check, issued, seeding, bounds>>

\* Too large, or the client went away: the partial file is removed.
RefuseUpload(r) ==
    /\ Finish(r, "receiving")
    /\ Unlink(target[r])
    /\ UNCHANGED <<run, check, issued, seeding, bounds>>

AnalyseUpload(r) ==
    /\ Goto(r, "received", "analysed")
    /\ draft' = [draft EXCEPT ![r] = Analysis(disk[target[r]])]
    /\ UNCHANGED <<storeVars, target, keeps, run, check, issued, seeding, bounds>>

\* analyze_capture raised: 422, and the file goes.
RejectUpload(r) ==
    /\ Finish(r, "received")
    /\ Unlink(target[r])
    /\ UNCHANGED <<run, check, issued, seeding, bounds>>

\* Mutant of SaveUpload: the file is never discarded.
SaveUploadOnly(r) ==
    /\ Finish(r, "analysed")
    /\ SaveAnalysis(target[r], draft[r], keeps[r])
    /\ UNCHANGED <<run, check, issued, seeding, bounds>>

SaveUpload(r) ==
    /\ \/ keeps[r] /\ Finish(r, "analysed")
       \/ ~keeps[r] /\ Goto(r, "analysed", "saved") /\ UNCHANGED <<target, draft, keeps>>
    /\ SaveAnalysis(target[r], draft[r], keeps[r])
    /\ UNCHANGED <<run, check, issued, seeding, bounds>>

\* Nothing catches an exception of the save: the file stays.
SaveUploadFails(r) ==
    /\ Finish(r, "analysed")
    /\ UNCHANGED <<storeVars, run, check, issued, seeding, bounds>>

DiscardUpload(r) ==
    /\ Finish(r, "saved")
    /\ Unlink(target[r])
    /\ UNCHANGED <<run, check, issued, seeding, bounds>>
-----------------------------------------------------------------------------
(* The demo job seeded at start-up *)

SeedCopy(r) ==
    /\ seeding
    /\ jobs = [j \in Job |-> NoRow]
    /\ \E j \in Job \ issued :
        /\ Goto(r, "idle", "seeded")
        /\ target' = [target EXCEPT ![r] = j]
        /\ issued' = issued \cup {j}
        /\ PutFile(j, DemoCapture)
    /\ seeding' = FALSE
    /\ UNCHANGED <<draft, keeps, run, check, bounds>>

\* The store already holds a job: nothing to seed.
SeedSkipped ==
    /\ seeding
    /\ jobs # [j \in Job |-> NoRow]
    /\ seeding' = FALSE
    /\ UNCHANGED <<storeVars, reqVars, run, check, issued, bounds>>

SeedAnalyse(r) ==
    /\ Goto(r, "seeded", "seedAnalysed")
    /\ draft' = [draft EXCEPT ![r] = Analysis(disk[target[r]])]
    /\ UNCHANGED <<storeVars, target, keeps, run, check, issued, seeding, bounds>>

SeedSave(r) ==
    /\ Finish(r, "seedAnalysed")
    /\ SaveAnalysis(target[r], draft[r], TRUE)
    /\ UNCHANGED <<run, check, issued, seeding, bounds>>

\* "a failed seed must never stop the API from serving": logged, no clean-up.
SeedFails(r) ==
    /\ Finish(r, "seeded") \/ Finish(r, "seedAnalysed")
    /\ UNCHANGED <<storeVars, run, check, issued, seeding, bounds>>
-----------------------------------------------------------------------------
(* POST /jobs/{job_id}/gateway-state *)

\* get_job, before the upload of the report is awaited.
ImportJob(r) ==
    \E j \in Job :
        /\ jobs[j] # NoRow
        /\ Report # {}
        /\ Goto(r, "idle", "importing")
        /\ target' = [target EXCEPT ![r] = j]
        /\ draft' = [draft EXCEPT ![r].stats = jobs[j].stats]
        /\ UNCHANGED <<storeVars, keeps, run, check, issued, seeding, bounds>>

\* list_sessions, then the report applied to every session it matches.
ImportSessions(r) ==
    /\ pc[r] = "importing"
    /\ \E g \in Report, matched \in SUBSET Id :
        LET listed == Listing(sessions[target[r]])
            merged == [i \in DOMAIN listed |->
                          IF listed[i].id \in matched
                          THEN ApplyGateway(g, listed[i]) ELSE listed[i]]
        IN  /\ Goto(r, "importing", "importMerged")
            /\ draft' = [draft EXCEPT ![r].sessions = merged]
            /\ UNCHANGED <<storeVars, target, keeps, run, check, issued, seeding, bounds>>

ImportEvents(r) ==
    /\ Goto(r, "importMerged", "importListed")
    /\ draft' = [draft EXCEPT ![r].events = Listing(events[target[r]])]
    /\ UNCHANGED <<storeVars, target, keeps, run, check, issued, seeding, bounds>>

ImportPath(r) ==
    /\ Goto(r, "importListed", "importReady")
    /\ keeps' = [keeps EXCEPT ![r] = CaptureAvailable(target[r])]
    /\ UNCHANGED <<storeVars, target, draft, run, check, issued, seeding, bounds>>

ImportSave(r) ==
    /\ Finish(r, "importReady")
    /\ SaveAnalysis(target[r], draft[r], keeps[r])
    /\ UNCHANGED <<run, check, issued, seeding, bounds>>

ImportFails(r) ==
    /\ \E from \in {"importing", "importReady"} : Finish(r, from)
    /\ UNCHANGED <<storeVars, run, check, issued, seeding, bounds>>
-----------------------------------------------------------------------------
(* DELETE /jobs/{job_id} *)

\* The job ids a client can have been told: by the stored jobs or a live status.
Known(j) == run.job = j \/ \E i \in DOMAIN auditLog : auditLog[i].job = j

\* Mutant of DeleteJob: the live run is not asked.
DeleteAnyJob(r) ==
    \E j \in Job :
        /\ Known(j)
        /\ Goto(r, "idle", "deleting")
        /\ target' = [target EXCEPT ![r] = j]
        /\ keeps' = [keeps EXCEPT ![r] = CaptureAvailable(j)]
        /\ UNCHANGED <<storeVars, draft, run, check, issued, seeding, bounds>>

\* Mutant of DeleteJob: the file goes first, the rows after it.
DeleteFileFirst(r) ==
    \E j \in Job :
        /\ Known(j)
        /\ ~(run.job = j /\ run.state = "running")
        /\ Goto(r, "idle", "deleting")
        /\ target' = [target EXCEPT ![r] = j]
        /\ Unlink(j)
        /\ UNCHANGED <<draft, keeps, run, check, issued, seeding, bounds>>

\* The guard on the live run, then capture_path.
DeleteJob(r) ==
    \E j \in Job :
        /\ Known(j)
        /\ ~(run.job = j /\ run.state = "running")
        /\ Goto(r, "idle", "deleting")
        /\ target' = [target EXCEPT ![r] = j]
        /\ keeps' = [keeps EXCEPT ![r] = CaptureAvailable(j)]
        /\ UNCHANGED <<storeVars, draft, run, check, issued, seeding, bounds>>

DeleteCommit(r) ==
    /\ \/ keeps[r] /\ Goto(r, "deleting", "unlinking") /\ UNCHANGED <<target, draft, keeps>>
       \/ ~keeps[r] /\ Finish(r, "deleting")
    /\ DeleteRows(target[r])
    /\ UNCHANGED <<run, check, issued, seeding, bounds>>

DeleteFails(r) ==
    /\ Finish(r, "deleting")
    /\ UNCHANGED <<storeVars, run, check, issued, seeding, bounds>>

DeleteFile(r) ==
    /\ Finish(r, "unlinking")
    /\ Unlink(target[r])
    /\ UNCHANGED <<run, check, issued, seeding, bounds>>
-----------------------------------------------------------------------------
(* The live run, as the store sees it *)

LiveStart ==
    /\ run.state # "running"
    /\ runs < MaxRuns
    /\ runs' = runs + 1
    /\ \E j \in Job \ issued :
        /\ run' = [IdleRun EXCEPT !.state = "running", !.job = j, !.growing = TRUE]
        /\ issued' = issued \cup {j}
    /\ UNCHANGED <<storeVars, reqVars, check, seeding, crashes>>

\* The source creates the file, then appends packets to it.
SourceWrites ==
    /\ run.growing
    /\ \/ disk[run.job] = Missing /\ PutFile(run.job, 0)
       \/ disk[run.job] \in 0..(MaxPackets - 1) /\ PutFile(run.job, disk[run.job] + 1)
    /\ UNCHANGED <<reqVars, run, check, issued, seeding, bounds>>

SourceEnds ==
    /\ run.growing
    /\ run' = [run EXCEPT !.growing = FALSE]
    /\ UNCHANGED <<storeVars, reqVars, check, issued, seeding, bounds>>

\* Mutant of LiveAnalyse: only the packets since the last tick are analysed.
LiveAnalyseTail ==
    /\ run.state = "running" /\ ~run.analysed
    /\ disk[run.job] # Missing
    /\ LET done == IF jobs[run.job] = NoRow THEN 0 ELSE jobs[run.job].stats
       IN  /\ disk[run.job] >= done
           /\ run' = [run EXCEPT !.analysed = TRUE,
                                 !.draft = Analysis(disk[run.job] - done)]
    /\ UNCHANGED <<storeVars, reqVars, check, issued, seeding, bounds>>

LiveAnalyse ==
    /\ run.state = "running" /\ ~run.analysed
    /\ disk[run.job] # Missing
    /\ run' = [run EXCEPT !.analysed = TRUE, !.draft = Analysis(disk[run.job])]
    /\ UNCHANGED <<storeVars, reqVars, check, issued, seeding, bounds>>

LiveSave ==
    /\ run.analysed
    /\ SaveAnalysis(run.job, run.draft, TRUE)
    /\ run' = [run EXCEPT !.analysed = FALSE, !.draft = NoDraft]
    /\ UNCHANGED <<reqVars, check, issued, seeding, bounds>>

\* The loop ends: after a tick, or because the analysis or the save raised.
LiveEnd ==
    /\ run.state = "running"
    /\ ~run.growing
    /\ \E s \in {"stopped", "error"} :
        /\ s = "stopped" => ~run.analysed
        /\ run' = [IdleRun EXCEPT !.state = s, !.job = run.job]
    /\ UNCHANGED <<storeVars, reqVars, check, issued, seeding, bounds>>
-----------------------------------------------------------------------------
(* GET /audit/verify *)

CheckEntries ==
    /\ Auditing
    /\ check.pc = "idle"
    /\ check' = [IdleCheck EXCEPT !.pc = "jobs", !.log = auditLog,
                                  !.todo = {auditLog[i].job : i \in DOMAIN auditLog}]
    /\ UNCHANGED <<storeVars, reqVars, run, issued, seeding, bounds>>

\* SELECT stats: a job deleted since is passed over.
CheckJob ==
    /\ check.pc = "jobs"
    /\ \E j \in check.todo :
        check' = IF jobs[j] = NoRow
                 THEN [check EXCEPT !.todo = @ \ {j}]
                 ELSE [check EXCEPT !.pc = "sessions", !.todo = @ \ {j},
                                    !.job = j, !.stats = jobs[j].stats]
    /\ UNCHANGED <<storeVars, reqVars, run, issued, seeding, bounds>>

CheckSessions ==
    /\ check.pc = "sessions"
    /\ check' = [check EXCEPT !.pc = "events", !.sessions = sessions[check.job]]
    /\ UNCHANGED <<storeVars, reqVars, run, issued, seeding, bounds>>

\* Mutant of CheckEvents: compared with the job's first entry, not its newest.
CheckAgainstFirst ==
    /\ check.pc = "events"
    /\ LET found == Digest([stats |-> check.stats, sessions |-> check.sessions,
                            events |-> events[check.job]])
           first == Min({i \in DOMAIN check.log : check.log[i].job = check.job})
           flag == IF check.log[first].analysis = found THEN {} ELSE {check.job}
       IN  check' = [check EXCEPT !.pc = "jobs", !.job = NoJob, !.stats = 0,
                                  !.sessions = <<>>, !.flagged = @ \cup flag]
    /\ UNCHANGED <<storeVars, reqVars, run, issued, seeding, bounds>>

\* SELECT events, and the comparison with the entry read at the start.
CheckEvents ==
    /\ check.pc = "events"
    /\ LET found == Digest([stats |-> check.stats, sessions |-> check.sessions,
                            events |-> events[check.job]])
           flag == IF IsLogged(check.log, check.job, found) THEN {} ELSE {check.job}
       IN  check' = [check EXCEPT !.pc = "jobs", !.job = NoJob, !.stats = 0,
                                  !.sessions = <<>>, !.flagged = @ \cup flag]
    /\ UNCHANGED <<storeVars, reqVars, run, issued, seeding, bounds>>

CheckAnswers ==
    /\ check.pc = "jobs" /\ check.todo = {}
    /\ check' = IdleCheck
    /\ UNCHANGED <<storeVars, reqVars, run, issued, seeding, bounds>>
-----------------------------------------------------------------------------
\* The process dies and comes back on the same database and directory.
Crash ==
    /\ crashes < MaxCrashes
    /\ crashes' = crashes + 1
    /\ pc' = [r \in Request |-> "idle"]
    /\ target' = [r \in Request |-> NoJob]
    /\ draft' = [r \in Request |-> NoDraft]
    /\ keeps' = [r \in Request |-> FALSE]
    /\ run' = IdleRun
    /\ check' = IdleCheck
    /\ seeding' = SeedDemo
    /\ UNCHANGED <<storeVars, issued, runs>>

Upload(r) == \/ OpenUpload(r) \/ ReceiveRest(r) \/ RefuseUpload(r)
             \/ AnalyseUpload(r) \/ RejectUpload(r)
             \/ SaveUpload(r) \/ SaveUploadFails(r) \/ DiscardUpload(r)
Seed(r) == SeedCopy(r) \/ SeedAnalyse(r) \/ SeedSave(r) \/ SeedFails(r)
Import(r) == \/ ImportJob(r) \/ ImportSessions(r) \/ ImportEvents(r)
             \/ ImportPath(r) \/ ImportSave(r) \/ ImportFails(r)
Delete(r) == DeleteJob(r) \/ DeleteCommit(r) \/ DeleteFails(r) \/ DeleteFile(r)
Live == LiveStart \/ SourceWrites \/ SourceEnds \/ LiveAnalyse \/ LiveSave \/ LiveEnd
Verify == CheckEntries \/ CheckJob \/ CheckSessions \/ CheckEvents \/ CheckAnswers

Next == \/ \E r \in Request : Upload(r) \/ Seed(r) \/ Import(r) \/ Delete(r)
        \/ SeedSkipped \/ Live \/ Verify \/ Crash

Spec == Init /\ [][Next]_vars
-----------------------------------------------------------------------------
(* Properties *)

Labels == {"idle", "receiving", "received", "analysed", "saved",
           "seeded", "seedAnalysed",
           "importing", "importMerged", "importListed", "importReady",
           "deleting", "unlinking"}

\* A request that is not idle works on a job.
LocalsTypeOK == /\ pc \in [Request -> Labels]
                /\ target \in [Request -> Job \cup {NoJob}]
                /\ \A r \in Request : pc[r] # "idle" => target[r] \in Job
                /\ draft \in [Request -> Draft]
                /\ keeps \in [Request -> BOOLEAN]

RunTypeOK ==
    /\ run \in [state : {"idle", "running", "stopped", "error"},
                job : Job \cup {NoJob}, growing : BOOLEAN,
                analysed : BOOLEAN, draft : Draft]
    /\ run.state = "running" \/ run.growing \/ run.analysed => run.job \in Job

CheckTypeOK ==
    /\ check \in [pc : {"idle", "jobs", "sessions", "events"}, log : {check.log},
                  todo : SUBSET Job, job : Job \cup {NoJob}, stats : Capture,
                  sessions : {check.sessions}, flagged : SUBSET Job]
    /\ check.pc \in {"sessions", "events"} => check.job \in Job

CountersTypeOK == /\ issued \subseteq Job
                  /\ seeding \in BOOLEAN
                  /\ crashes \in 0..MaxCrashes
                  /\ runs \in 0..MaxRuns

\* Every variable has its type, and whoever works on a job has one.
TypeOK == StoreTypeOK /\ LocalsTypeOK /\ RunTypeOK /\ CheckTypeOK /\ CountersTypeOK

\* A session or an event row belongs to a job that exists (store.py has no
\* foreign keys: only the order and the atomicity of its writes say so).
NoStrayRows ==
    \A j \in Job : jobs[j] = NoRow => sessions[j] = <<>> /\ events[j] = <<>>

\* The newest entry of j is of the analysis its rows were written from.
Committed(j) ==
    \E i \in DOMAIN auditLog :
        /\ IsNewestOf(auditLog, i, j)
        /\ Keeps(auditLog[i].analysis, StoredDigest(j))
        /\ Keyed(auditLog[i].analysis) => auditLog[i].analysis = StoredDigest(j)

\* Whatever raced with whatever, the newest audit entry of a job is of the
\* analysis its rows were written from: they hash to that entry's digest, which
\* verify_audit_chain relies on, unless two records of the analysis shared an
\* id (pipeline.py:130), and then one row is left of each id.
AuditCommitsStore == \A j \in Job : jobs[j] # NoRow => Committed(j)

\* The chain of entries is unbroken, and changing the job, the analysis or the
\* capture hash of an entry, or taking out any entry but the last, breaks it.
RewriteIsDetected ==
    /\ ChainIntact(auditLog)
    /\ \A i, k \in DOMAIN auditLog :
         LET e == auditLog[i]
             forged == {[e EXCEPT !.job = auditLog[k].job],
                        [e EXCEPT !.analysis = auditLog[k].analysis],
                        [e EXCEPT !.capture = auditLog[k].capture]}
         IN  /\ \A f \in forged : f # e => ~ChainIntact([auditLog EXCEPT ![i] = f])
             /\ i < Len(auditLog) => ~ChainIntact(RemoveAt(auditLog, i))

\* A row that names a capture has the capture on disk, at every crash point too:
\* the file is written before the row and removed after it.  A row that names
\* none (VAULTSCOPE_KEEP_CAPTURES=0) has no file left once its request is done,
\* unless the process died between the save and the unlink.  A job an import
\* stored again after its DELETE (main.py:463) is left out: its file is gone.
RowsMatchFiles ==
    \A j \in Job \ deleted : jobs[j] # NoRow =>
        IF jobs[j].kept THEN disk[j] # Missing
        ELSE disk[j] = Missing \/ crashes > 0 \/ \E r \in Request : target[r] = j

\* j was deleted, was saved since the check began, or has records of one id.
Moved(j) == \/ j \in deleted
            \/ \E i \in DOMAIN auditLog : auditLog[i].job = j /\ i > Len(check.log)
            \/ \E i \in DOMAIN auditLog : /\ IsNewestOf(auditLog, i, j)
                                           /\ ~Keyed(auditLog[i].analysis)

\* GET /audit/verify names a job only if the job was saved while the check was
\* under way, or was deleted, or has records that share an id (pipeline.py:130):
\* it never accuses any other record nobody touched.
FlaggedMeansMoved == \A j \in check.flagged : Moved(j)

\* A deleted job is never stored again: "Forget a job and everything it found".
\* Its audit entries stay, which is how a deleted job is told from a new one.
DeletedStaysDeleted ==
    [][\A i \in DOMAIN auditLog : jobs[auditLog[i].job] = NoRow
                                    => jobs'[auditLog[i].job] = NoRow]_vars

\* A save never replaces a job's analysis by one of a shorter capture: "the
\* newest analysis of the whole file is the truth".
NeverOlder ==
    [][\A j \in Job : jobs[j] # NoRow /\ jobs'[j] # NoRow
                         => jobs'[j].stats >= jobs[j].stats]_vars

\* The step stores a deleted job again, or an analysis of less than was analysed.
Undone(j) ==
    \/ /\ jobs[j] = NoRow /\ jobs'[j] # NoRow
       /\ \E i \in DOMAIN auditLog : auditLog[i].job = j
    \/ jobs[j] # NoRow /\ jobs'[j] # NoRow /\ jobs'[j].stats < jobs[j].stats

\* Uploads, the seed, the live run and deletes never undo one another's work,
\* whatever races and wherever the process dies: only the save of a gateway
\* import (main.py:463) restores a deleted job or brings back an older analysis.
OnlyImportsUndo ==
    [][\A j \in Job : Undone(j) =>
          \E r \in Request : target[r] = j /\ pc[r] = "importReady" /\ pc'[r] = "idle"]_vars

\* The audit check accuses nobody: nothing in this model edits a stored row.
NoFalseAlarm == check.flagged = {}

\* The promise of AuditedStore: a job's record is the digest of its rows, as the
\* set of it, and the empty set is the record of a job that has no row.
SomeKeeps(given, stored) == \E a \in given, b \in stored : Keeps(a, b)

Ledger == INSTANCE AuditedStore
            WITH Nothing <- {},
                 Keeps <- SomeKeeps,
                 current <- [j \in Job |-> IF jobs[j] = NoRow THEN {}
                                           ELSE {StoredDigest(j)}],
                 history <- [i \in DOMAIN auditLog |->
                                [job |-> auditLog[i].job,
                                 analysis |-> {auditLog[i].analysis}]]

\* The tables and the log implement the promised store, step for step.
ImplementsLedger == Ledger!Spec
=============================================================================
