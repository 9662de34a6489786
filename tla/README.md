# VaultScope: a TLA+ verification project

VaultScope reads captures of IPsec VPN traffic, recovers the IKE and ESP
sessions in them, scores each session against a rule table, and shows the result
in a web console. This directory holds TLA+ specifications of the program, the
TLC configurations that check them on small instances, and theorems about them
checked by TLAPS.

Paths below are relative to `src/`. Line numbers are those of the commit the
project was written against.

## 1. Inventory

### The backend process

One asyncio event loop serves every request (FastAPI under uvicorn).

- `async def` handlers (`/ingest`, gateway import, `/live/start`, `/live/stop`,
  `/ws/live`, `/report`) run on the loop and interleave at their awaits.
- `def` handlers (`DELETE /jobs/{id}`, the lists, `/audit/verify`) run on
  threads of a pool, so they interleave with everything at every call.
- CPU and database work of async handlers goes to `asyncio.to_thread`.
- Each `store.connect()` block is a sqlite connection of its own. sqlite3 opens
  a transaction at the first INSERT, UPDATE or DELETE and commits it at the end
  of the block. A SELECT with no write before it commits by itself.

| component | files | state it keeps | operations | what makes it correct |
|---|---|---|---|---|
| Job store and audit chain | `api/store.py` | tables `jobs`, `sessions`, `events`, `audit_log`; files in the capture directory | `save_analysis`, `delete_job`, `verify_audit_chain`, the SELECTs, `init_db` | rows of a job belong together; the newest audit entry of a job commits to its rows; the chain shows rewriting; a row that names a file has it |
| Requests on jobs | `api/main.py` | locals of the handlers | upload, demo seed, gateway import, delete, audit check, reads | requests that race leave the store as one of them would; a deleted job stays deleted |
| Live runs | `api/live.py`, `api/main.py` | `_run`, `_start_lock`, one `LiveRun` with its status, stop event and task | start, stop, the loop with its tick | one run at a time; the last tick sees the whole capture; a run that is over is final; a stop is answered |
| Capture sources | `core/live.py` | a thread or a `dumpcap` process, a stop flag, the growing file | `start`, `stop`, `running`, `wait_for_file` | ends when told to or at its end |
| Live feed and console | `api/main.py`, `api/live.py`, `useLive.ts` | subscribers; what the run has pushed; what a page shows | `_publish`, `_tick`, `live_socket`, `onmessage` | what a console shows is what the newest analysis holds |
| Capture reading, ingestion | `core/capture.py`, `core/ingestion/engine.py` | none | `read_capture`, `bucket`, `nat_owner` | each frame goes to one SA; ESP goes to the SAs of its peer pair |
| IKE parsers | `core/ike_parser/` | none | decode, group, `_analyse`, anti-replay | nothing is read that does not stand in the bytes; no field is scored that was not seen |
| Flow features, classifiers | `core/flow/`, `core/classifiers/` | trained models | feature vectors, predictions | (statistics) |
| Rules, compliance, exposure | `core/rules/`, `core/exposure.py` | the rule tables | `evaluate_rules`, `assess_compliance` | score and verdict follow from the rules that fire |
| Anomaly detectors | `core/anomalies.py` | none | the detectors | ids depend on the evidence alone |
| Gateway state | `core/gateway_state.py` | fields of a session | the four parsers, `apply_gateway_state` | fills what was not seen, never overrides the wire; a contradiction is reported |
| Pipeline | `core/pipeline.py` | none | `analyze_capture` | stages compose; one bad SA does not sink a capture |
| Reports | `reporting/`, `_summary` of `api/store.py` | files in the report directory | aggregate, export, render | job list, report and SIEM feed agree about the same rows |
| Dataset generation, testbed | `scripts/`, `testbed/` | captures, labels and a manifest on disk, a pool of slots, containers | `capture_cell`, the pool, resumption, `validate_dataset` | one cell per slot and per pair of containers; a resumed run keeps what is finished and redoes the rest |
| Console data hooks | `frontend/src/lib/` | the job list, the selection, the rows loaded | loads that overlap | the rows shown belong to the job shown and never step back; loading ends |
| Console pages | `frontend/src/app/` | none beyond the hooks | rendering | (presentation) |

How they interact: an upload or a tick of a live run calls `analyze_capture` on a
file and hands the result to `save_analysis`; a gateway import reads a job's rows,
changes them and saves them again; a delete takes rows and file away; the audit
check reads everything. A live run's loop, its source and the clients that start
and stop it share the stop event, the source's flag and the file. Uploads and
ticks publish to every socket. The console lists jobs and loads the rows of one.

### What is hard

The hazards are listed in `PROJECT.json`, each at its line. The main kinds:

- **Interleaving of requests on one job.** A gateway import holds rows in memory
  over two awaits; saves are upserts; the audit check reads in many transactions.
- **Files against rows.** The file is written before the row and removed after
  it, with crashes, refused uploads and failing saves in between.
- **Start, stop and the end of a run.** Two starts, a stop during a start, a
  source that ends by itself, hangs or fails, a tick that raises, a limit that
  ends the loop by another way.
- **Waiting.** A stop waits for the loop, which waits for the source.
- **The feed.** Deltas against what was already pushed, published socket by
  socket by several tasks at once.
- **Data.** ids that collide, sequence numbers that were cut off, NAT, lengths
  that come from the wire, ciphertext that frames by accident.
- **Late answers in the browser.** Two effects, two lists, two halves of one pair
  of requests, in any order.
- **Scripts that are killed.** What is finished is decided by two files, and
  containers outlive the process that started them.

## 2. Modules

| module | what it is |
|---|---|
| `AuditedStore` | abstract: what the store promises (a record per job, a history that only grows) |
| `JobStore` | the tables, the log, the files, and the transactions on them |
| `Requests` | the handlers and the live run's saves, step by step, over `JobStore`; states that it implements `AuditedStore` |
| `MCRequests` | small analyses for TLC, one with two records of one id, and the bounds of its runs |
| `RequestsProofs` | lemmas about the store's operators; theorems about `Requests`: requests that race, crashes, the audit check, the refinement of `AuditedStore` |
| `LiveRun` | clients, loops and sources of live runs |
| `LiveRunProofs` | theorems about `LiveRun` |
| `LiveFeed` | what a run publishes, the sockets, and what the pages show |
| `MCLiveFeed` | small analyses for TLC |
| `LiveFeedProofs` | theorems about `LiveFeed` |
| `Capture`, `Ingestion` | Stage 1: packets to frames, frames to SAs with their ESP |
| `Transforms`, `Ikev2`, `Ikev1` | Stage 2: IANA numbers to names, messages to the record of an SA |
| `Rules` | Stage 4c: rules, score, compliance baselines, exposure |
| `Anomalies` | the detectors that look across sessions |
| `Pipeline` | `analyze_capture` over a capture that grows |
| `AnalysisProperties` | what an analysis promises, and what a proof asks of the packets |
| `AnalysisProofs` | theorems about any capture: what `AnalysisProperties` promises, over `StoredAnalysis` |
| `GatewayState` | gateway output to records, records into sessions |
| `Reports` | what the report, the SIEM feed and the job list say of the rows of a job |
| `StoredAnalysis` | composes `Pipeline`, `GatewayState` and `Reports`: a job, its rows, its imports |
| `StoredProofs` | theorems about what imports do to the rows of a job, and what is reported of them |
| `MCPipeline` | the packets and the pasted texts of the small instances |
| `Wire` | the bytes of an IKE message, cut off and damaged, decoded |
| `MCWire` | messages and their encoder |
| `WireProofs` | theorem about the decoder, for any message, any prefix and any damage |
| `DatasetRun` | the generator of the corpus: pool, cells, containers, files, kills |
| `DatasetProofs` | theorems about `DatasetRun` |
| `ConsoleHooks` | the job list, the selection and the rows of one viewer |
| `ConsoleProofs` | theorems about `ConsoleHooks` |

### JobStore and Requests

*State.* `jobs`, `sessions`, `events` are the tables by job id, `auditLog` the
rows of `audit_log` in order, `disk` the capture directory by job id; `deleted` is a
history variable, the jobs a DELETE has forgotten. Each slot of
`Request` has a label `pc` (the await or the SELECT it stands at), the job it works
on, the analysis it holds and whether it will name a file. `run` is the part of
the live run the store sees. `check` is one `GET /audit/verify` with what it has
read so far.

*Data.* A capture is its number of packets. `AnalysisOf` is `analyze_capture` as a
function of the capture: any function into lists of session and event records. A
stored document is its key, the capture it was found in and the gateway output
applied to it: enough to tell two writers apart. The digest of an analysis is a
bag of documents, because `_analysis_digest` sorts them; an entry hash is a term
that holds every hashed field and the previous hash, which is what SHA-256 is
relied on for. `recorded_at` is left out: leaving it out makes fewer hashes
differ. An analysis may hold two records of one id, as `core/pipeline.py:130` can
make them: the digest is of both, the table keeps the last (`RowsOf`), and `Keeps`
says what rows and digest still have in common. A second gateway output leaves a
document as it is; that it may add drift is in `GatewayState`.

*Actions.* One per step between two awaits or two transactions:

| code | actions |
|---|---|
| `POST /ingest` | `OpenUpload`, `ReceiveRest` or `RefuseUpload`, `AnalyseUpload` or `RejectUpload`, `SaveUpload` or `SaveUploadFails`, `DiscardUpload` |
| `_seed_demo_job` | `SeedCopy` or `SeedSkipped`, `SeedAnalyse`, `SeedSave`, `SeedFails` |
| `POST /jobs/{id}/gateway-state` | `ImportJob`, `ImportSessions`, `ImportEvents`, `ImportPath`, `ImportSave`, `ImportFails` |
| `DELETE /jobs/{id}` | `DeleteJob`, `DeleteCommit`, `DeleteFails`, `DeleteFile` |
| the live run | `LiveStart`, `SourceWrites`, `SourceEnds`, `LiveAnalyse`, `LiveSave`, `LiveEnd` |
| `GET /audit/verify` | `CheckEntries`, then `CheckJob`, `CheckSessions`, `CheckEvents` per job, `CheckAnswers` |
| the process dies | `Crash`: every local is lost, tables and files stay |

`SaveAnalysis` and `DeleteRows` are whole transactions: sqlite commits them
atomically. A save may raise (the database stays locked for five seconds).

### LiveRun

*State.* `lock` is `_start_lock`, `active` is `_run`. A run is a number; `status`,
`stopping` (the event of `stop()`), `task` (the loop's label and its locals),
`source`, `file` and `stored` (what the last save analysed) are functions of it.
A client has a label, the run it builds or stops, and the last answer it got.

*Actions.* `StartBuild` to `StartLoop` are `live_start` between its awaits;
`StopRequest` and `StopAnswer` are `live_stop`; one action per await of
`LiveRun._loop` and `_tick`; the source's actions are its calls on the file. A
source looks at its stop flag, then writes: it can write one more packet after it
was told to stop. `Halts` and `Join` are `source.stop`, which sets the flag and
waits five seconds: for the runs in `MayHang` the wait may end with the source still
alive.

*Abstractions.* A tick's messages are in `LiveFeed`; `PublishTick` and
`PublishLast` are the awaits they take, which return: `_publish` catches a socket that
has gone (`main.py:634`). Any other exception there, on the last publish outside the
`try` of `live.py:104-109`, is not modelled. A run's file is shared with nobody else.

### LiveFeed

*State.* `link` is where `live_socket` is with each connection, `subscribers` is
`_subscribers`, `console` the rows and the anomalies of each page (`useLive`).
What an upload publishes, sessions and anomalies, is given by `UploadDocs` and
`UploadEvents`.
`found` and `events` are what the newest tick found, `seen` and `seenEvents` are
`_seen_sessions` and `_seen_events`. `post` holds one call of `_publish` for the
run, for `live_start` and for each upload: the sockets it has still to come to,
the one it is sending to, what is left of the batch, and the dead ones.
`complete` is a history variable: the pages that were there before the first tick
and were never cleared.

*Actions.* `Connect`, `Leave`, `Unsubscribe`, `Clear` are the page and its
handler; `Send`, `SendFails`, `Published` are one `send_json` and the end of a
call; `Start`, `Tick`, `Finish`, `UploadDone` are what publishes. The messages of
one connection arrive in order, so a page here shows what it has been sent.

### The analysis: Capture to Pipeline

*State.* `capture` is the packets so far, `report` the analysis of them. The one
action, `Packet`, appends a packet and analyses the whole capture again, which is
what a live run does tick by tick; an upload is the last state. All else is
operators, one module per stage, each named for the function it models.

*Data.* A packet is what scapy shows of one; an IKE message is its header fields
and a sequence of decoded payloads; a proposal is a sequence of transforms with
their IANA numbers, which `Transforms` turns into the names the rules read. A
vendor id knows its vendor, a certificate what `_parse_x509` makes of it, an SK
payload the payloads that could be read in it. Confidences are percentages.

*How a loop became an expression.* The parsers walk the messages of an SA and
write into a dict. Here each field is stated by itself: the last message that
writes it (`LastOf`), the first (`FirstOf`), or whether there is one. `Unset` is a
key that is not in the dict; `mark_unobserved` is where it becomes unknown.

*Left out.* `retransmit_interval_ms`, `msg_sizes`, `dpd_interval_sec`, the wording
of findings and events, their timestamps beyond the first of an SA, remediation.
The trained models are constant operators (`PredictIke`, `PredictMode`,
`PredictTraffic`): any function of what they read. The bytes are in `Wire`.

### StoredAnalysis: GatewayState and Reports

*State.* Besides `capture` and `report`, `stored` is the rows the job has (one per
session id, as `INSERT OR REPLACE` leaves them) and `imported` a history variable:
the records that were attached since the last analysis, in their order.

*Actions.* `Analyse` is a tick: the rows are replaced, and what was attached is
gone. `ImportGatewayState` is the whole of `POST /jobs/{id}/gateway-state` over the
rows: parse, refuse a text without records, merge, re-score, save.

*Data.* The regular expressions decide which line is which; here a text is what
they found: the SAs of `swanctl --list-sas`, the connections of `--list-conns`, the
SAs of `ip xfrm state`, and `swanctl.conf` as its lines, because that parser cuts
the file by position (`ConfRecord`). `TextAssumption` says what these expressions let
through: a version, a mode or an authentication method that becomes a value of a record
is one of those that such a field may have. The functions of `aggregate.py`,
`_overall_severity`, `to_cef` and `store._summary` are operators on the rows, each
counting by itself as in the code.

### Wire

*State.* `message` is a message under way (its header one record, its body a
sequence of bytes whose number the header gives, and what its sender made it of), `kept` how many of its bytes
the capture has, `damaged` whether one byte is another, `decoded` the result of
`decode_message`.

*Actions.* `Keep`: the capture has one byte more, so each prefix is decoded.
`Spoil`: one byte of the body is not what was sent.

*Operators.* Each loop over bytes is a recursive function of the offset
(`Attributes`, `TransformsOf`, `Proposals`), or, where the type of a payload stands in
the one before it, of the pair of offset and type (`FrameChain`, `TopLevel`). What is
left of a prefix is `Cut`. An exception
is `Malformed`, which `Prepend` carries outwards, as `_frame_chain` lets it out and
`decode_message` catches it. `MCWire` holds an encoder written from the formats, to
read the decoder against. The header is not damaged.

### DatasetRun

*State.* For each cell a label `pc` (a statement of `capture_cell` or of
`peer_pair`), the line it returned, its slot and what tcpdump holds; `free` is the
queue, `pair` who started the containers named after a slot; `pcap`, `label`,
`manifest` are the disk. `reported` is a history variable.

*Actions.* One per command that can fail or be interrupted. `Raise` is the failure
of any of them, which leaves through the `finally` clauses (`TearDown`, `GiveBack`).
`Kill` takes threads and queue and leaves containers and files; `Restart` starts the
script over them; `WriteManifest` and `Accepted` are `validate_dataset.py`.

*Assumptions.* Docker's commands return, and `docker rm -f` removes. tcpdump has
its file open after the second the code sleeps. Two captures have the same hash if
they are the same kind of capture, which favours acceptance. One script runs at a
time, and a directory belongs to sampled runs or to `--from-labels` runs.

### ConsoleHooks

*State.* The backend's jobs (`made`, `listed`) and how often the rows of each have
changed (`rev`); the provider's `jobs`, `selected` and `loading`; the list requests
on their way; of `useSessions` the job its effect is for, the pairs of requests on
their way with their `cancelled` flag, and what arrived or failed last.

*Actions.* The backend (`Make`, `Analyse`, `Delete`), the viewer (`Select`,
`Reload`, `Upload`, `Navigate`), React (`Effect`), and the answers: each request is
read by the backend at one moment (`ReadList`, `ReadRows` for each half of a pair)
and arrives, or fails, at another.

## 3. Runs

| run | instance | checks |
|---|---|---|
| `requests` | two jobs, two requests of any kind, captures of up to two packets, kept or not, an analysis with two records of one id, one gateway output, the audit check, the seed, one live run, one crash | `TypeOK`, `NoStrayRows`, `RowsMatchFiles`, `AuditCommitsStore`, `FlaggedMeansMoved`, `RewriteIsDetected`, `ImplementsLedger`, `OnlyImportsUndo` |
| `live` | two clients, two runs, one packet each and a limit of one, the second run's source may hang | `TypeOK`, `OneRunning`, `OverIsQuiet`, `LastTickSeesAll`, `OverIsFinal`, `StopIsAnswered`, `RunEnds` |
| `feed` | two pages, three ticks of a run with one session and anomalies, an upload of another session and another anomaly | `Mirror`, `NoGhost` |
| `analysis` | captures of up to four packets of sixteen kinds; imports of four texts, up to five records in all, into captures of up to two packets | `Accounted`, `SameUnlessMoved`, `ObservedOnly`, `FindingsRest`, `AcceptedWins`, `ReplayVerdict`, `DowngradeWitness`, `OrderIrrelevant`, `WireThenGateway`, `DriftIsReported`, `OneStory`, `KnownStaysKnown`, `RetransmissionTellsNothing` |
| `wire` | eight messages, every prefix, one byte of the body damaged to one of twelve values | `NothingInvented`, `ReadsBack` |
| `dataset` | three cells, two slots, two starts of the script | `PoolIsExact`, `PairIsOwn`, `OkIsKept`, `ValidatedIsWhole`, `RunEnds` |
| `console` | two jobs, rows that change once, two clicks | `NeverStepsBack`, `LoadingEnds` |

Five runs are violated, each by what the code does (see Findings): `requests_resurrect`
(`DeletedStaysDeleted`), `requests_stale` (`NeverOlder`), `requests_alarm`
(`NoFalseAlarm`), `analysis_moved` (`SameAttribution`), `analysis_cut`
(`ReplayIsSeen`).

### What the runs show

- **The store keeps its promise.** Whatever imports, ticks, uploads and deletes
  race, the three tables of a job are those of one save, and the newest audit
  entry of the job is of the analysis of that save: its digest is that of exactly
  these rows, unless two records of the analysis share an id, and then one row of
  each id is left (`AuditCommitsStore`). With the mapping `current[j]` = the set of
  the digest of j's rows, empty if it has none, `history` = the entries without their
  hashes, every step of `Requests` is a step of `AuditedStore` or changes nothing of
  it (`ImplementsLedger`).
- **Only imports undo.** No upload, seed, tick, delete or crash stores a deleted job
  again, or replaces an analysis by one of a shorter capture; the save of a gateway
  import is the only step that can (`OnlyImportsUndo`), and it does
  (`requests_resurrect`, `requests_stale`).
- **The chain shows rewriting**, in the sense of `store.py:60-64`: changing the
  job, the analysis or the capture hash of an entry, or taking an entry out,
  breaks a link, unless it is the last that is taken out.
- **A file outlives its row** at every crash point, and an upload that is not kept
  loses its file (`RowsMatchFiles`). Left out are the jobs that a DELETE has
  forgotten: an import that stores one again names a file that is gone.
- **The audit check accuses only jobs that moved** (`FlaggedMeansMoved`): saved while
  it was under way, deleted, or with records that share an id. It may accuse those
  (`requests_alarm`).
- **Starts exclude one another** (`OneRunning`): the check, the awaited start of
  the source and the assignment of `_run` are one critical section.
- **The end of a run is the end.** When the status says "stopped" or "error" the
  source has ended (`OverIsQuiet`), nothing more is stored (`OverIsFinal`), and
  if the run was stopped or its source ended by itself, what is stored is the
  analysis of every packet (`LastTickSeesAll`). Two ways out are excluded, and
  for them it is false: a tick that raised, and `MAX_PACKETS`, where the loop
  breaks before the source is stopped (`live.py:97-103`).
- **Nobody waits for ever.** A stop is answered, also of a run whose source hangs
  (`StopIsAnswered`); a run whose source comes to its end ends by itself (`RunEnds`).
- **A page mirrors the run.** Between two ticks a page that heard them all shows
  the rows and anomalies of the newest analysis (`Mirror`), up to what the
  fingerprint of `live.py:131` tells apart, and no page shows what an analysis
  has superseded, whenever it came (`NoGhost`). Both are about the sessions and the
  anomalies that come from the run alone (`OfRun`, `EventOfRun`): a page keys what it
  shows by id, an upload of the same traffic replaces the run's row, its anomalies
  reach every page, and nothing takes them back.
- **ESP finds its SA.** Every ESP packet goes to the SAs of its own peers, behind
  NAT to those of the only pair it can belong to, and otherwise to one orphan
  record (`Accounted`); the parser, given the file, decides as Stage 1 does, unless
  the first frame of some SA has other addresses than its opener (`SameUnlessMoved`);
  then it may not (`analysis_moved`).
- **A report says what the capture showed.** A field of the suite is unknown, or
  told by a message of the SA, or marked as inferred (`ObservedOnly`), and so is
  every field a finding rests on (`FindingsRest`). The responder's choice is the
  suite, whatever request is seen when (`AcceptedWins`).
- **Order and repetition do not matter** where they should not: packets of
  strangers may be swapped (`OrderIrrelevant`), an IKE message that repeats the
  last of its SA changes no verdict (`RetransmissionTellsNothing`), and a longer
  capture takes back nothing that was read in a shorter one (`KnownStaysKnown`).
  The last has an exception which the property names: an SA whose new message
  cannot be represented leaves the report.
- **Verdicts have their grounds.** Where every ESP header of a session shows its
  number, anti-replay is off exactly when one ESP SA stands still (`ReplayVerdict`);
  headers that are cut off can call it off too (`analysis_cut`). A downgrade has a sound SA of the same peers beside it
  (`DowngradeWitness`).
- **The wire comes first, then the gateway.** However many outputs are attached, a
  field says what the capture showed, else what the first record that knew it said
  (`WireThenGateway`), and rule R21 fires exactly when a record contradicts the
  capture (`DriftIsReported`); records that contradict each other are no drift.
- **One story.** Job list, report and SIEM feed are computed from the same rows by
  three modules, and agree (`OneStory`).
- **The decoder is safe and exact.** Whatever the bytes, a payload stands on bytes of
  its own, and nothing is read from what may be ciphertext unless it is payloads to
  the last byte (`NothingInvented`); an undamaged message reads as what was sent, as
  far as it was captured, and says when it was cut off (`ReadsBack`).
- **A corpus is what it says.** Slots are neither lost nor shared, on the failing
  paths too (`PoolIsExact`); the containers under a slot are those of the cell that
  holds it (`PairIsOwn`), so a capture is of its own configuration; what was reported
  ok is never touched again (`OkIsKept`); what the validator accepts of a sampled
  corpus is whole captures, handshake included (`ValidatedIsWhole`); a run that is
  not killed ends (`RunEnds`).
- **The browser does not go back in time.** Rows of a job never step back while a page
  stays (`NeverStepsBack`), and a page that says it loads comes to show rows or an
  error (`LoadingEnds`).

### Bounds, and why they are enough

- *Two jobs*: no action touches more than one job, and no property relates more
  than two.
- *Captures of up to two packets*: an empty one, one whose SA is mid-handshake (or
  has two records of one id), one that adds a second SA and an anomaly: both tables
  gain and change rows, and an analysis can be overtaken by a longer one.
- *Two requests* besides the live run, the seed and the audit check: every pair of
  handlers meets. `ShortLog`, `Load`, `QuietCheck` and `FewImports` in `MCRequests`
  bound what goes on at once: three audit entries on one job or two on two jobs; three
  actors (requests under way, the run, the seed, the check) on one job or two on two,
  one fewer after the crash; the check, which a crash only drops, without crashes, and
  against a live run on one job; imports, which commit in one step, on one job and
  without a crash. What an import meets there is another request, a tick, a delete or
  the check.
- *One crash*, at every state; a second one meets the same tables and files.
- *Two runs, two clients*: the next run starts while the last one's stop is being
  answered, while a source that hangs may still write, or not. *One packet and a limit
  of one*: a run ticks before and after its packet, with and without having reached
  the limit.
- *Two pages*: one that fails and one that must not suffer for it. *Three ticks*:
  a row or an anomaly comes, goes and comes back. *`FewAtOnce`*: two calls of
  `_publish` at a time and one page that leaves; the batches of a third call
  would meet the same two kinds of sockets. A run that finds the upload's anomaly is
  not followed further: that anomaly is not of the run alone, and the others are found
  without it as well.
- *Four packets*: two SAs and the ESP of their peers; a request, its answer, the
  request again and another SA; three messages and a retransmission; two ESP
  packets of one SPI, one of another and the handshake. *Sixteen kinds*: an SA
  with a weak choice, a responder that asks for something at the initiator's new address, a readable, an opaque and an unrepresentable IKE_AUTH, and a
  rekey; an SA whose proposal is missing; a strong SA of the same peers; Main,
  Quick and Aggressive Mode with another host; ESP that is direct, NATed, ambiguous
  and cut off. *Thresholds of two* (`ReplaySample` and those of the detectors are 4,
  4, 3 and 4 in the code): what takes four packets or SAs there happens within four
  packets here.
- *Five records into two packets*, several of one text or of one each: a record before and after another that says the
  same, the opposite or nothing, by SPI and by peers, on a session the wire tells
  much, little or only ESP of.
- *Three packets* for `analysis_moved` and `analysis_cut`: of the same kinds, as many
  as the counterexamples take.
- *Eight messages*: proposals with two transforms each and with an SPI, key lengths,
  notifications, readable and opaque SK, IKEv1 with long and short attributes, in the
  clear, encrypted and readable, encrypted and not. *Twelve values* of a damaged byte:
  those that are a type, a length or a flag somewhere, and their neighbours.
- *Three cells on two slots*: one waits for a slot that another gives back or keeps.
  *Two starts*: what a killed run left is met once; a third start meets the same
  kinds of files.
- *Two jobs, two clicks, one change*: switch away and back, or upload and reload.

### Fairness

The runs of `Requests`, `LiveFeed`, `StoredAnalysis` and `Wire` check safety and assume
none. `FairSpec` of `LiveRun` assumes weak fairness of each run's loop and of the answer
of a stop: the event loop runs every ready coroutine, and each wait in `_loop` ends by
itself (`wait_for_file` after five seconds, the sleep after `TICK_SEC`, a join after five
seconds; a publish when the socket is written or its ping times out). Of the sources it
assumes that those which do not hang (`Run \ MayHang`) go on: a replay reads a finite
capture on a thread of its own. Of the others it assumes nothing: `StopIsAnswered` holds of
every run, also when one hangs, `RunEnds` is about the runs whose source does not.

`DatasetRun` assumes weak fairness of each cell's thread and of `main` leaving the
pool: a command returns (`establish` gives up after its timeout), and the pool's
threads are scheduled. `ConsoleHooks` assumes that React runs the effects it owes
and that each request is answered or fails, which the browser sees to; of the viewer
and the backend it assumes nothing.

`CHECK_DEADLOCK FALSE` stands in every configuration because the counters of
issued ids, runs, crashes, entries, packets, bytes, starts and clicks are bounded:
when they are used up and everything under way is over, the instance has nothing
left to do.

## 4. Findings

- `requests_resurrect` (`main.py:463`): an import that found its job saves it
  after a delete of that job has committed; the job is back, with no file.
- `requests_alarm` (`store.py:206`): the audit check reads the log first and the
  tables later; a save or a delete in between makes it report an untouched job as
  tampered. A second call answers correctly.
- `requests_stale` (`main.py:463`): an import reads the job and its sessions, awaits, and
  saves them over what a live tick saved in between. The older analysis stands until the
  next tick, which in turn drops what the import filled in; "the newest analysis of the
  whole file is the truth" (`store.py:243`).
- `analysis_moved` (`ikev2.py:134`): grouping a file by itself, the parser takes the peers
  of an SA from its first frame, Stage 1 from the first request with message id 0
  (`ingestion/engine.py:129`). The responder's first own request has that id too: when a
  capture begins within an SA, the initiator moves and the responder then asks it for
  something, the opener is between other addresses than the first frame. The two disagree
  on whose ESP it is, against the comment "same attribution as Stage 1, NAT included"
  (`ikev2.py:136`).
- `analysis_cut` (`ingestion/engine.py:43`): an ESP header that is cut off before its
  sequence number is recorded with number 0. Enough of them read as an SA that never
  advances, and R15 fires, though "a parameter the capture never revealed reads `unknown`
  and triggers no rule" (`README.md:362`).

Known, seen while modelling, without a run of their own:

- Two orphan-ESP records of two peer pairs get one session id when their first
  packets carry one SPI (`pipeline.py:130`). The digest covers both documents and
  the table keeps one: the audit check reports the job until it is analysed again.
  The analysis of one packet in the run `requests` is such a one; `AuditCommitsStore` and
  `FlaggedMeansMoved` name the exception.
- A session of which the capture shows neither cipher nor group fires no rule and
  passes the four baselines without a `requires` clause (`compliance.py:49`).
- `/live/stop` answers with the status of a run that was started while it waited
  (`main.py:691`).
- The capture hash in a live run's audit entry may be that of a longer file than was
  analysed. A save that raises leaves the file of an upload that was not to be kept.
- An SA with an authentication method outside the Literal of `IkeParams` is dropped
  with its ESP. A suite that Stage 4a guessed counts as observed for the downgrade
  detector.
- A `version` line that stands above the `remote_addrs` of the next connection in
  `swanctl.conf` is taken for the connection before it (`gateway_state.py:116`).
- With `--from-labels` the label is there before the capture: a copy that fails or
  is killed leaves a partial capture which a resumed run skips
  (`generate_dataset.py:102`); the published manifest shows it.
- A report reads sessions and events at two moments (`main.py:597-600`), and a
  deleted job's report files stay.
- `_phase1_initial` looks for the first SA payload of a message with id 0, whatever its
  exchange (`ikev1.py:154`): a Quick Mode that carries id 0 would be read as phase 1.
- In the console, the list that arrives last wins, older or not (`jobs.tsx:49`); an
  upload selects its job even if its list load failed; sessions and events of one
  page may be of two analyses (`useSessions.ts:36`), and are not fetched again when
  the rows of the same job change.

## 5. Proofs

TLAPS checks these for every value of the constants.

`RequestsProofs`:

- `TypeCorrect`: `Spec => []TypeOK`. `TypeOK` alone is not inductive: an upload
  analyses the file it wrote, and must find it. The inductive invariant `TypeInv`
  adds `IssuedOK` (every job id in use was issued, every row has an entry) and
  `PrivateOK` (an upload or a seed under way has its job to itself: no row, no
  entry, no other request, and its file is there).
- `NoStray`: `Spec => []NoStrayRows`.
- `AuditCommits`: `Spec => []AuditCommitsStore`, for any analyses, also those with records
  that share an id. `SaveCommits` compares what a save inserts with the digest it logs:
  one document of each id (`OneOfEach`), and the same bag where no id is shared
  (`Keyed`).
- `Detected`: `Spec => []RewriteIsDetected`, from the lemmas
  that an entry hash is injective, that appending keeps the chain, and that a
  forged or a missing entry breaks it.

- `Implements`: `Spec => ImplementsLedger`. Each action is shown to be `Record(j)`,
  `Forget(j)` or a stutter of `AuditedStore`: what a save inserts is one transaction, so
  what is left of its digest enters the record and the digest the history at once; a save
  that repeats the newest digest of its job appends nothing.
- `FilesMatch`: `Spec => []RowsMatchFiles`. The invariant `FilesInv` adds what each request
  in the middle of its work knows of its job's file and row: a row kept has its file, a
  delete past its commit has no row left, an upload has the only claim on its file, the
  live run's file is there. It speaks of jobs that no DELETE has forgotten: an import can
  store those again (`requests_resurrect`).
- `ImportsUndo`: `Spec => OnlyImportsUndo`. `GrowsInv` adds that the file of a running live
  job is never shorter than its analyses, and that the analysis in hand is no older than the
  last one the run saved. No import is excluded: the theorem says of every other step that
  it undoes nothing.
- `FlagsAreMoves`: `Spec => []FlaggedMeansMoved`. `CheckInv` follows the four reads of the
  check: as long as no entry of the job follows those it has read, and the job is not
  deleted, what it has read of the job is what is stored; `AuditCommitsStore` then says that
  it hashes to the newest entry, unless records share an id.

None of these assumes anything beyond the named assumptions of the modules.

`LiveFeedProofs`, for any number of pages, ids, anomalies, ticks and uploads:

- `PagesFollow`: `Spec => []FeedInv`, and from it `PageMirrors` (`Mirror`) and
  `PageHasNoGhost` (`NoGhost`). Neither property is inductive: they are about the
  moments between two ticks, and say nothing while a call of `_publish` is under way.
  `AllFollow` is: whatever of the run an open page does not show as the newest analysis has
  it, a message about it is still due to this page (`Due`: the rest of the batch at
  hand, or the whole batch if its turn is to come). It needs that every message of
  the run under way says what the newest analysis says (`PostOK`), that `seen` and
  `seenEvents` are what the last tick found (`RunRemembers`), and that a page that
  is open is subscribed and given up by nobody (`SocketsOK`).
- The lemma `TickTells` is about the differences: what `TickMessages` leaves out is
  unchanged, up to the fingerprint. It assumes that ids and anomalies are finite
  sets (`FeedAssumption`), as those of a capture are.

`LiveRunProofs`:

- `TypeCorrect`: `Spec => []TypeOK`, with what each label promises (`DataOK`).
- `OnlyOneRuns`: `Spec => []OneRunning`. The invariant `LockOK`: who is in the
  critical section holds the lock and works on the run built last, no other run
  is running meanwhile, and nothing runs but that one and `_run`.
- `OverMeansQuiet`, `LastTickIsWhole`, `OverStays`: `OverIsQuiet`,
  `LastTickSeesAll` and `OverIsFinal`, from one invariant `RunInv`. It adds that a
  run being started has no loop and a new source (`FreshOK`), that the status
  follows the label (`Phase`), that a loop past its join has a source that has
  ended (`Quiet`), that what was seen and stored are beginnings of the file
  (`Seen`), and that after a last tick they are the file (`Whole`).

`DatasetProofs`, for any number of cells, slots and starts:

- `PoolStaysExact`: `Spec => []PoolIsExact`. The last part, that a cell which asks
  for a slot finds one, is a matter of counting: no more than `Parallel` cells are
  past `Take`, so those that hold a slot, without the one that asks, are fewer than
  the slots. The invariant `PoolInv` says who holds which slot at which label and
  bounds the cells that are under way.
- `PairStaysOwn`: `Spec => []PairIsOwn`, from `PairInv`: a pair that was started in
  this run is that of the cell which holds its slot, and a cell past `RunPair` has
  its own.
- `OkStaysKept`, `AcceptedIsWhole`: `Spec => []OkIsKept` and
  `Spec => []ValidatedIsWhole`, from `DataInv`: the tape at each label holds what the
  steps before it sent, so that a capture with a label, or about to get one, is whole;
  and the manifest never names anything else.

The inductive invariant is `TypeInv /\ PoolInv /\ PairInv /\ DataInv`.

`ConsoleProofs`, for any number of jobs, changes of their rows and clicks:

- `RowsNeverStepBack`: `Spec => NeverStepsBack`, from the invariant of
  `Invariance`. `ServerInv`: the rows of a job only grow newer, and those of a
  deleted job change for the last time. `ReadInv`: nothing read, under way or shown,
  is newer than what the backend has. `MineInv`: at most one pair of requests belongs
  to the running effect, and neither half of it is older than the rows shown of its
  job; without the cleanup that disowns the earlier pairs it fails. That the
  chosen job is one of the list (`CurrentIsJob`) needs that a set of jobs has a
  newest, which comes from the well-foundedness of the naturals.

`AnalysisProofs`, for captures of any length, of any packets, with any classifiers,
thresholds and imports:

- `AnalysisFollows`: `StoredSpec => []Analysed`. The invariant says that the report is
  the analysis of the capture, and that the capture is a sequence of packets of the
  alphabet: all state there is follows from it. Each of the theorems below is then a
  fact about `analyze_capture`, proved stage by stage (`Analysed => P`), with a lemma
  for what each stage keeps, adds or takes away.
- The lists: `Picked` (what a filter keeps, in order), `Uniques` and `Groups` (a dict
  that is filled in a loop), `LastSet` and `FirstSet` (a key that is written again and
  again) are functions of the positions of a sequence, and so their lemmas need no
  induction over data (`NthOfSet`, `PickedMembers`, `GroupsOf`, `LastNth`).
- `EspIsAccounted`: `Accounted`. `BucketOf` says what ingestion gives each SA, by the
  position of a packet, `SessionsAre` which sessions a report has.
- `ReplayIsRight`: `ReplayVerdict`. Groups by SPI partition the records of an SA; the lemma
  `AnalysedReplay` says what the code does of every session, with a number that is cut off
  counting as zero, and where none is cut off that is the property (`StuckAlike`).
- `OnlyTheObserved`, `FindingsAreFounded`: `ObservedOnly` and `FindingsRest`, from what
  each parser writes (`ToldInV2`, and for IKEv1 phase 1 and Quick Mode), and from what
  the later stages fill in, which they mark.
- `TheAcceptedWins`: `AcceptedWins`. Of the proposals that are applied, the last one is
  the responder's, wherever the requests are.
- `DowngradesAreWitnessed`: `DowngradeWitness`, through the order of the detectors.
- `AttributionAgrees`: `SameUnlessMoved`. Where no SA moved, the two lists of peer pairs are
  the same (`GroupedAlike`), and with them the owner of every ESP packet.

They assume `PipelineAssumption`, which TLC evaluates: sizes are naturals, no rule looks
for a value that is missing, and no transform is called "unknown".
`ReportsTellOneStory` assumes `AddressAssumption` too, which TLC also evaluates: a packet
of IP shows its source (`core/capture.py:114`). Three need one hypothesis more, stated in `AnalysisProperties`:

- `QuickModeIsNumbered` (`OnlyTheObserved`, `FindingsAreFounded`): a Quick Mode has a
  message id other than 0, as RFC 2409 has it. The parser does not check (see Findings),
  and would take its lifetime and transform for those of phase 1.
- `GuessesAreNames` (`DowngradesAreWitnessed`): a guess at a cipher or a group is a
  label the model was trained on, never a missing value (`protocol.py:112-123`).

The alphabet of `analysis` satisfies the one that is about packets (`AlphabetIsUsual` in
`MCPipeline`).

`StoredProofs`, over the same specification and for any texts that satisfy
`TextAssumption`, in any number and order:

- `StoreKeepsTheTold`: `StoredSpec => []Kept`. Every stored row is a row of the analysis
  with the attached records told to it in turn (`AllTold`): field by field, the first
  record that matches the row and speaks of a field the wire does not show decides it,
  and drift is what contradicts the wire. `WireThenGateway` by itself is not inductive:
  it does not say that drift is kept, nor that a row comes from the analysis.
- `GatewayFillsTheRest`, `DriftIsWhatContradicts`: `WireThenGateway` and
  `DriftIsReported`, from `Kept`.
- `ReportsTellOneStory`: `StoredSpec => []OneStory`. The numbers come from three modules
  in two ways, so the proof is about sums over finite sets: a sum does not depend on the
  order in which it is taken, it is that of its groups (`GroupsAddUp`), hence what SQL
  adds up by severity is what the report adds up row by row (`SummariesAgree`). The rest
  is about what an assessment is (`AssessmentIsSound`, of the code's own rules and
  baselines), about the order of the findings (`VerdictIs`), and about where an event
  comes from (`EventsAreOfSessions`: each of the six detectors reports a session it was
  given, and every session has a row with its id). The invariant is `Tellable`: the
  stored rows are soundly assessed, and have the ids and addresses of those of the
  analysis, each of which is stored. `OneStory` alone says nothing of what an import
  leaves.
- The lemma `ParsersSay`: whatever `parse_gateway_state` makes of such a text, its
  records speak of the fields of the gateway, with a value such a field may have. What
  a fold over records or lines does is proved position by position (`AppliedInTurn`,
  `RecordsJoin`): of the positions at which a formula fails, take the least.

`WireProofs`, for messages of any bytes, cut off anywhere, with any damage:

- `NothingIsInvented`: `Spec => []NothingInvented`, with the invariant `Decodes`, that
  what is decoded is what `decode_message` makes of the bytes that are left. The four
  recursive readings (`TransformsOf`, `Proposals`, `FrameChain`, `TopLevel`) are one walk
  each, from a place to the place it leads to, always nearer to the end. `WalkExists` says
  that the recursive function is defined, `WalkHasPath` that its result is the places of a
  path, each element read where the one before it ends. From that: elements stand on
  bytes of their own (`StoodTiles`), proposals fit into the payload they are of
  (`ProposalsFit`), a chain that is read from ciphertext tiles it to the last byte
  (`ChainIsExact`), and the payloads at the top tile what is left of the message
  (`TopIsRead`).

The theorems of the library that state induction take an operator as a parameter, and
cannot be used here. Where a recursive function had to be followed, the proof supposes a
place where the formula fails, takes the least (`LeastNumber`, from the well-foundedness
of the naturals), and shows that it fails before.

TLC checked each strengthening as an invariant before it was proved. The
assumptions are the named ones of the modules: sentinels differ from values,
bounds are naturals, `AnalysisOf` returns lists of records.

Only model-checked:

- the liveness properties (`StopIsAnswered`, both `RunEnds`, `LoadingEnds`): TLAPS
  proves none under fairness;
- `ReadsBack` of `Wire`: what a message says is given by the encoder of the instance,
  which writes it from nested lists of payloads, proposals and transforms;
- of the analysis, the properties that compare two captures (`OrderIrrelevant`,
  `KnownStaysKnown`, `RetransmissionTellsNothing`): they need the positions of the
  longer or swapped capture related to those of the other through every stage.

## 6. Not modelled, and the plan

Never: the trained classifiers and the floating-point statistics (nothing a model
checker could say about them), rendering, remediation texts, the regular expressions
that cut the output of swanctl and ip, docker and strongSwan, the sampling of
configurations. They appear, where they matter, as functions or as choices.

Not modelled: the rebuild of an old events table in `init_db`, which runs once and
before any request; the handlers that only read (`/simulate`, `/sessions/diff`,
the lists); the report files, which `POST /report` writes and no handler removes;
the threat matrix and the mean confidence of a report; the console's pages, which
keep no state beyond the hooks.

What would come next:

1. Proofs: that `LiveRun` implements the live run of `Requests`; `KnownStaysKnown` and
   `RetransmissionTellsNothing`, from the lemmas of `AnalysisProofs` on a capture and the
   same with a packet more.
2. `SchemaUpgrade`: the rebuild of the events table with a crash between its
   statements.
3. The comparison of two jobs (`/sessions/diff`) over the rows of `StoredAnalysis`.
