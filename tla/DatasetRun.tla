----------------------------- MODULE DatasetRun -----------------------------
(***************************************************************************)
(* The generator of the labelled corpus (scripts/generate_dataset.py over   *)
(* testbed/harness.py and testbed/labels.py) and the script that accepts    *)
(* it (scripts/validate_dataset.py).  A pool of threads runs one cell each; *)
(* a cell borrows a slot number, and the slot names its Docker containers.  *)
(* A run can be killed between any two steps and started again over the     *)
(* files and the containers it left.                                        *)
(***************************************************************************)
EXTENDS Naturals, FiniteSets, Sequences

CONSTANTS
  NumCells,   \* cells of the sample, in the order they are submitted
  Parallel,   \* --parallel: threads of the pool, and slots
  MaxRuns     \* bound: how often the script is started

ASSUME DatasetAssumption ==
  /\ NumCells \in Nat \ {0}
  /\ Parallel \in Nat \ {0}
  /\ MaxRuns  \in Nat \ {0}

Cell == 1..NumCells
Slot == 10..(9 + Parallel)

NoSlot == 0
NoPair == [run |-> 0, cell |-> 0]

VARIABLES
  fromLabels, \* --from-labels: the cells are those of labels already there
  run,        \* number of the running (or last) start of the script
  phase,      \* "running", "killed" or "over"
  pc,         \* pc[c]: what the thread that runs cell c does next
  result,     \* result[c]: the line capture_cell returns for c
  slot,       \* slot[c]: the slot c borrowed
  free,       \* the slots in the queue
  pair,       \* pair[s]: who started the containers named after slot s
  tape,       \* tape[c]: what tcpdump holds; "on" while it runs
  pcap,       \* pcap[c]: the capture on disk
  label,      \* label[c]: the label on disk
  manifest,   \* manifest[c]: the capture whose hash MANIFEST.sha256 has
  reported    \* history: cells some run has reported ok

local == <<pc, result, slot, tape>>
disk  == <<pcap, label, manifest>>
vars  == <<fromLabels, run, phase, local, free, pair, disk, reported>>

-----------------------------------------------------------------------------

(* Mutant: the SA is established before tcpdump runs.                       *)
StepsLate == <<"establish", "capture", "traffic", "stop", "copy">>

(* Inside the pair's context, in the order of the code: the capture first,  *)
(* because the IKE handshake happens while establishing.                    *)
Steps == <<"capture", "establish", "traffic", "stop", "copy">>

After(step) == Steps[1 + CHOOSE i \in 1..4 : Steps[i] = step]

(* Steps at which a docker command with check=True, or the timeout of       *)
(* establish, raises: the exception leaves the context and becomes a FAIL.  *)
MayRaise == {"run", "capture", "establish", "traffic", "copy", "copying"}

(* The pair of a cell at these steps is up, in whole or in part.            *)
HasPair == (MayRaise \ {"run"}) \cup {"stop"}

HoldsSlot == HasPair \cup {"clean", "run", "down", "back"}

Idle == {"queued", "done"}

Running(c, step) == phase = "running" /\ pc[c] = step

Goto(c, step) == pc' = [pc EXCEPT ![c] = step]

Ends(c, line) ==
  /\ Goto(c, "done")
  /\ result' = [result EXCEPT ![c] = line]

(* A packet reaches the tape only while tcpdump runs.                       *)
Taped(c, what) == IF "on" \in tape[c] THEN tape[c] \cup {what} ELSE tape[c]

(* What docker cp can bring: "few" is under 200 bytes or MIN_PACKETS, "bad" *)
(* is what scapy cannot read, "blind" is readable but has no handshake.     *)
Copied(c) ==
  {"few", "bad"} \cup IF {"ike", "esp"} \subseteq tape[c] THEN {"whole"} ELSE {"blind"}

Finished(c) == pcap[c] # "none" /\ label[c] # "none"

-----------------------------------------------------------------------------

(* Mutant: a resumed run does every cell again.                             *)
TakeAll(c) ==
  /\ Running(c, "queued")
  /\ \A d \in 1..(c - 1) : pc[d] # "queued"
  /\ Cardinality({d \in Cell : pc[d] \notin Idle}) < Parallel
  /\ Goto(c, "borrow")
  /\ UNCHANGED <<fromLabels, run, phase, result, slot, tape, free, pair, disk, reported>>

(* Mutant: the slot is the cell's position, not one from the queue.         *)
BorrowByPosition(c) ==
  /\ Running(c, "borrow")
  /\ slot' = [slot EXCEPT ![c] = 10 + ((c - 1) % Parallel)]
  /\ Goto(c, "clean")
  /\ UNCHANGED <<fromLabels, run, phase, result, tape, free, pair, disk, reported>>

(* A pool thread takes the next cell; one with both files is skipped.       *)
Take(c) ==
  /\ Running(c, "queued")
  /\ \A d \in 1..(c - 1) : pc[d] # "queued"
  /\ Cardinality({d \in Cell : pc[d] \notin Idle}) < Parallel
  /\ IF Finished(c) THEN Ends(c, "skip") ELSE Goto(c, "borrow") /\ UNCHANGED result
  /\ UNCHANGED <<fromLabels, run, phase, slot, tape, free, pair, disk, reported>>

Borrow(c) ==
  /\ Running(c, "borrow")
  /\ \E s \in free :
       /\ slot' = [slot EXCEPT ![c] = s]
       /\ free' = free \ {s}
  /\ Goto(c, "clean")
  /\ UNCHANGED <<fromLabels, run, phase, result, tape, pair, disk, reported>>

(* peer_pair removes whatever stands under its names before it starts.      *)
Clean(c) ==
  /\ Running(c, "clean")
  /\ pair' = [pair EXCEPT ![slot[c]] = NoPair]
  /\ Goto(c, "run")
  /\ UNCHANGED <<fromLabels, run, phase, result, slot, tape, free, disk, reported>>

(* docker run refuses a name that is in use.  Both containers: the second   *)
(* one failing is the exception of the next step.                           *)
RunPair(c) ==
  /\ Running(c, "run")
  /\ pair[slot[c]] = NoPair
  /\ pair' = [pair EXCEPT ![slot[c]] = [run |-> run, cell |-> c]]
  /\ Goto(c, Head(Steps))
  /\ UNCHANGED <<fromLabels, run, phase, result, slot, tape, free, disk, reported>>

(* One step inside the context, and what it leaves on the tape.             *)
Record(c, step, taped) ==
  /\ Running(c, step)
  /\ tape' = [tape EXCEPT ![c] = taped]
  /\ Goto(c, After(step))
  /\ UNCHANGED <<fromLabels, run, phase, result, slot, free, pair, disk, reported>>

StartCapture(c) == Record(c, "capture", tape[c] \cup {"on"})
Establish(c)    == Record(c, "establish", Taped(c, "ike"))
RunTraffic(c)   == Record(c, "traffic", Taped(c, "esp"))
StopCapture(c)  == Record(c, "stop", tape[c] \ {"on"})

(* docker cp creates the file before it has all of it.                      *)
OpenCopy(c) ==
  /\ Running(c, "copy")
  /\ pcap' = [pcap EXCEPT ![c] = "part"]
  /\ Goto(c, "copying")
  /\ UNCHANGED <<fromLabels, run, phase, result, slot, tape, free, pair, label, manifest, reported>>

CloseCopy(c) ==
  /\ Running(c, "copying")
  /\ \E file \in Copied(c) : pcap' = [pcap EXCEPT ![c] = file]
  /\ Goto(c, "down")
  /\ UNCHANGED <<fromLabels, run, phase, result, slot, tape, free, pair, label, manifest, reported>>

(* Any of these steps raises: the pair is torn down on the way out.         *)
Raise(c) ==
  /\ phase = "running"
  /\ pc[c] \in MayRaise
  /\ result' = [result EXCEPT ![c] = "FAIL"]
  /\ Goto(c, "down")
  /\ UNCHANGED <<fromLabels, run, phase, slot, tape, free, pair, disk, reported>>

TearDown(c) ==
  /\ Running(c, "down")
  /\ pair' = [pair EXCEPT ![slot[c]] = NoPair]
  /\ tape' = [tape EXCEPT ![c] = {}]
  /\ Goto(c, "back")
  /\ UNCHANGED <<fromLabels, run, phase, result, slot, free, disk, reported>>

(* Mutant: a cell that fails keeps its slot.                                *)
GiveBackUnlessFailed(c) ==
  /\ Running(c, "back")
  /\ free' = IF result[c] = "FAIL" THEN free ELSE free \cup {slot[c]}
  /\ slot' = [slot EXCEPT ![c] = NoSlot]
  /\ Goto(c, IF result[c] = "FAIL" THEN "done" ELSE "check")
  /\ UNCHANGED <<fromLabels, run, phase, result, tape, pair, disk, reported>>

(* The finally clause: on every path, the failing one included.             *)
GiveBack(c) ==
  /\ Running(c, "back")
  /\ free' = free \cup {slot[c]}
  /\ slot' = [slot EXCEPT ![c] = NoSlot]
  /\ Goto(c, IF result[c] = "FAIL" THEN "done" ELSE "check")
  /\ UNCHANGED <<fromLabels, run, phase, result, tape, pair, disk, reported>>

(* Too little is unlinked and fails.                                        *)
CheckFails(c) ==
  /\ Running(c, "check")
  /\ pcap[c] \in {"none", "few"}
  /\ pcap' = [pcap EXCEPT ![c] = "none"]
  /\ Ends(c, "FAIL")
  /\ UNCHANGED <<fromLabels, run, phase, slot, tape, free, pair, label, manifest, reported>>

(* A file scapy cannot read raises out of capture_cell, outside its try.    *)
CheckRaises(c) ==
  /\ Running(c, "check")
  /\ pcap[c] = "bad"
  /\ Ends(c, "raised")
  /\ UNCHANGED <<fromLabels, run, phase, slot, tape, free, pair, disk, reported>>

(* The label is written in place: opening it truncates, then the text comes. *)
CheckPasses(c) ==
  /\ Running(c, "check")
  /\ pcap[c] \notin {"none", "few", "bad"}
  /\ label' = [label EXCEPT ![c] = "part"]
  /\ Goto(c, "writing")
  /\ UNCHANGED <<fromLabels, run, phase, result, slot, tape, free, pair, pcap, manifest, reported>>

WriteLabel(c) ==
  /\ Running(c, "writing")
  /\ label' = [label EXCEPT ![c] = "full"]
  /\ Ends(c, "ok")
  /\ reported' = reported \cup {c}
  /\ UNCHANGED <<fromLabels, run, phase, slot, tape, free, pair, pcap, manifest>>

-----------------------------------------------------------------------------

(* main leaves the pool once every future is done, also when one raised.    *)
Finish ==
  /\ phase = "running"
  /\ \A c \in Cell : pc[c] = "done"
  /\ phase' = "over"
  /\ UNCHANGED <<fromLabels, run, local, free, pair, disk, reported>>

(* A start has every cell before it and every slot in the queue.            *)
Fresh ==
  /\ pc' = [c \in Cell |-> "queued"]
  /\ result' = [c \in Cell |-> "none"]
  /\ slot' = [c \in Cell |-> NoSlot]
  /\ tape' = [c \in Cell |-> {}]
  /\ free' = Slot

(* The process is killed: threads and queue are gone, containers are not.   *)
Kill ==
  /\ phase = "running"
  /\ phase' = "killed"
  /\ Fresh
  /\ UNCHANGED <<fromLabels, run, pair, disk, reported>>

(* Started again; cells_from_labels cannot parse half a label.              *)
Restart ==
  /\ phase # "running"
  /\ run < MaxRuns
  /\ fromLabels => \A c \in Cell : label[c] # "part"
  /\ phase' = "running"
  /\ run' = run + 1
  /\ Fresh
  /\ UNCHANGED <<fromLabels, pair, disk, reported>>

(* validate_dataset --write-manifest hashes every labelled capture.         *)
WriteManifest ==
  /\ phase # "running"
  /\ \A c \in Cell : label[c] # "none" => pcap[c] # "none"
  /\ manifest' = [c \in Cell |-> IF label[c] # "none" THEN pcap[c] ELSE "none"]
  /\ UNCHANGED <<fromLabels, run, phase, local, free, pair, pcap, label, reported>>

(* validate_dataset --require-pcaps reports no problem.                     *)
Accepted ==
  /\ \E c \in Cell : manifest[c] # "none"
  /\ \A c \in Cell :
       /\ label[c] # "part"
       /\ (label[c] = "none") = (manifest[c] = "none")
       /\ label[c] # "none" => pcap[c] = manifest[c]

-----------------------------------------------------------------------------

(* With --from-labels the published labels and manifest are there, and the  *)
(* captures are not.                                                        *)
Init ==
  /\ fromLabels \in BOOLEAN
  /\ run = 1
  /\ phase = "running"
  /\ pc = [c \in Cell |-> "queued"]
  /\ result = [c \in Cell |-> "none"]
  /\ slot = [c \in Cell |-> NoSlot]
  /\ free = Slot
  /\ pair = [s \in Slot |-> NoPair]
  /\ tape = [c \in Cell |-> {}]
  /\ pcap = [c \in Cell |-> "none"]
  /\ label = [c \in Cell |-> IF fromLabels THEN "full" ELSE "none"]
  /\ manifest = [c \in Cell |-> IF fromLabels THEN "published" ELSE "none"]
  /\ reported = {}

CellStep(c) ==
  \/ Take(c) \/ Borrow(c) \/ Clean(c) \/ RunPair(c)
  \/ StartCapture(c) \/ Establish(c) \/ RunTraffic(c) \/ StopCapture(c)
  \/ OpenCopy(c) \/ CloseCopy(c) \/ Raise(c) \/ TearDown(c) \/ GiveBack(c)
  \/ CheckFails(c) \/ CheckRaises(c) \/ CheckPasses(c) \/ WriteLabel(c)

Next ==
  \/ \E c \in Cell : CellStep(c)
  \/ Finish \/ Kill \/ Restart \/ WriteManifest

(* Every docker command returns, establish gives up after its timeout, and  *)
(* the pool's threads and main are scheduled.                               *)
Fairness == WF_vars(Finish) /\ \A c \in Cell : WF_vars(CellStep(c))

Spec == Init /\ [][Next]_vars /\ Fairness

-----------------------------------------------------------------------------

(* Slots are neither lost nor doubled while a run lasts, on the failing     *)
(* paths too: what is not lent is in the queue, no two cells hold the same  *)
(* number, and a cell that asks for one never waits (capture_cell, 105).    *)
PoolIsExact ==
  phase = "running" =>
    /\ free = Slot \ {slot[c] : c \in Cell}
    /\ \A c, d \in Cell : slot[c] = slot[d] /\ slot[c] # NoSlot => c = d
    /\ \A c \in Cell : pc[c] = "borrow" => free # {}

(* The containers a run started are those of the cell that now holds their  *)
(* slot: no cell works in, or removes, another's pair, and none that ended  *)
(* leaves its own behind (peer_pair's finally, the slot as a name).         *)
PairIsOwn ==
  phase # "killed" =>
    /\ \A s \in Slot :
         pair[s].run = run => LET c == pair[s].cell
                              IN  slot[c] = s /\ pc[c] \in HoldsSlot
    /\ \A c \in Cell :
         pc[c] \in HasPair => pair[slot[c]] = [run |-> run, cell |-> c]

(* A cell once reported ok keeps a whole capture and label through every    *)
(* kill and every later run: a resumed run never touches it again.          *)
OkIsKept ==
  \A c \in reported : pcap[c] = "whole" /\ label[c] = "full"

(* A sampled corpus the validator accepts holds nothing but whole captures, *)
(* handshake included, however often its runs were killed.                  *)
ValidatedIsWhole ==
  ~fromLabels /\ Accepted => \A c \in Cell : label[c] # "none" => pcap[c] = "whole"

(* A run that is not killed gets to its end: no cell waits for ever, not    *)
(* even after another raised.                                               *)
RunEnds == phase = "running" ~> phase # "running"

=============================================================================
