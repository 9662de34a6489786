------------------------------- MODULE LiveRun -------------------------------
(***************************************************************************)
(* Live capture: the clients that start and stop runs (api/main.py), the   *)
(* loop of each run on the event loop (api/live.py), and the source that   *)
(* grows its file from a thread or a process of its own (core/live.py).    *)
(*                                                                         *)
(* A run is a number: runs are started one after another.  Its status      *)
(* outlives it, and so may its last publish.  A step of a loop or a client *)
(* ends where the code awaits; a step of a source is one call on the file. *)
(*                                                                         *)
(* A capture is its number of packets; NoFile is a file that is absent or  *)
(* shorter than a pcap header.  Requests shows what the saves do to the    *)
(* job store; here a save keeps what it stored.                            *)
(***************************************************************************)
EXTENDS Integers, FiniteSets

CONSTANTS Client,       \* clients of /live/start and /live/stop
          NoClient,     \* nobody holds _start_lock
          NoFile,       \* no capture yet, or less than a pcap header of one
          MaxRuns,      \* bound on the runs of a behaviour
          Supply,       \* the packets a source has to write
          PacketLimit,  \* MAX_PACKETS
          MayHang       \* the runs whose source may hang, and outlive stop()'s five seconds

ASSUME LiveAssumption == /\ NoClient \notin Client
                         /\ {MaxRuns, Supply, PacketLimit} \subseteq Nat
                         /\ MayHang \subseteq 1..MaxRuns
                         /\ NoFile \notin 0..Supply

Run == 1..MaxRuns
Content == 0..Supply \cup {NoFile}
Over == {"stopped", "error"}

VARIABLES pc,       \* pc[c]: where client c's request is
          asked,    \* asked[c]: the run c builds, or stops; 0 for none
          lock,     \* _start_lock: the client that holds it
          active,   \* _run: the latest run started, or 0
          built,    \* runs built so far
          status,   \* status[n]: run n's state and the packets of its stats
          stopping, \* stopping[n]: the event stop() sets
          task,     \* task[n]: run n's loop and its locals
          source,   \* source[n]: run n's source, its stop flag, whether it failed
          file,     \* file[n]: the capture of run n
          stored    \* stored[n]: what the last save of run n analysed

clientVars == <<pc, asked, lock, active, built>>
vars == <<clientVars, status, stopping, task, source, file, stored>>

NewTask == [pc |-> "none", next |-> "none", finished |-> FALSE,
            size |-> NoFile, draft |-> NoFile]

Init == /\ pc = [c \in Client |-> "idle"]
        /\ asked = [c \in Client |-> 0]
        /\ lock = NoClient
        /\ active = 0
        /\ built = 0
        /\ status = [n \in Run |-> [state |-> "none", packets |-> 0]]
        /\ stopping = [n \in Run |-> FALSE]
        /\ task = [n \in Run |-> NewTask]
        /\ source = [n \in Run |-> [pc |-> "new", halt |-> FALSE, failed |-> FALSE]]
        /\ file = [n \in Run |-> NoFile]
        /\ stored = [n \in Run |-> NoFile]

Running(n) == n # 0 /\ status[n].state = "running"
Alive(n) == source[n].pc \notin {"new", "ended"}
-----------------------------------------------------------------------------
(* POST /live/start *)

\* Mutant of StartBuild: nothing excludes a second start meanwhile.
StartUnlocked(c) ==
    /\ pc[c] = "idle"
    /\ ~Running(active)
    /\ built < MaxRuns
    /\ built' = built + 1
    /\ pc' = [pc EXCEPT ![c] = "starting"]
    /\ asked' = [asked EXCEPT ![c] = built + 1]
    /\ status' = [status EXCEPT ![built + 1].state = "running"]
    /\ UNCHANGED <<lock, active, stopping, task, source, file, stored>>

\* Under the lock: no run is active, so a new one is built.  While one is, the
\* request is refused (409) and nothing changes.
StartBuild(c) ==
    /\ pc[c] = "idle"
    /\ lock = NoClient
    /\ ~Running(active)
    /\ built < MaxRuns
    /\ built' = built + 1
    /\ lock' = c
    /\ pc' = [pc EXCEPT ![c] = "starting"]
    /\ asked' = [asked EXCEPT ![c] = built + 1]
    /\ status' = [status EXCEPT ![built + 1].state = "running"]
    /\ UNCHANGED <<active, stopping, task, source, file, stored>>

\* source.start, on a thread: the replay thread or dumpcap is up.
StartSource(c) ==
    /\ pc[c] = "starting"
    /\ pc' = [pc EXCEPT ![c] = "started"]
    /\ source' = [source EXCEPT ![asked[c]].pc = "opening"]
    /\ UNCHANGED <<asked, lock, active, built, status, stopping, task, file, stored>>

\* It raised: 503, and the run is dropped.
StartFails(c) ==
    /\ pc[c] = "starting"
    /\ pc' = [pc EXCEPT ![c] = "idle"]
    /\ asked' = [asked EXCEPT ![c] = 0]
    /\ lock' = NoClient
    /\ status' = [status EXCEPT ![asked[c]].state = "none"]
    /\ UNCHANGED <<active, built, stopping, task, source, file, stored>>

\* start_loop, the assignment of _run, and the lock released.
StartLoop(c) ==
    /\ pc[c] = "started"
    /\ pc' = [pc EXCEPT ![c] = "idle"]
    /\ asked' = [asked EXCEPT ![c] = 0]
    /\ lock' = NoClient
    /\ active' = asked[c]
    /\ task' = [task EXCEPT ![asked[c]].pc = "waiting"]
    /\ UNCHANGED <<built, status, stopping, source, file, stored>>
-----------------------------------------------------------------------------
(* POST /live/stop *)

\* Mutant of StopRequest: the run is marked stopped at once.
StopMarks(c) ==
    /\ pc[c] = "idle"
    /\ active # 0
    /\ pc' = [pc EXCEPT ![c] = "stopping"]
    /\ asked' = [asked EXCEPT ![c] = active]
    /\ stopping' = [stopping EXCEPT ![active] = TRUE]
    /\ status' = [status EXCEPT ![active].state = "stopped"]
    /\ UNCHANGED <<lock, active, built, task, source, file, stored>>

StopRequest(c) ==
    /\ pc[c] = "idle"
    /\ active # 0
    /\ pc' = [pc EXCEPT ![c] = "stopping"]
    /\ asked' = [asked EXCEPT ![c] = active]
    /\ stopping' = [stopping EXCEPT ![active] = TRUE]
    /\ UNCHANGED <<lock, active, built, status, task, source, file, stored>>

\* The awaited loop is done; the answer, the status of _run by now, changes nothing.
StopAnswer(c) ==
    /\ pc[c] = "stopping"
    /\ task[asked[c]].pc = "done"
    /\ pc' = [pc EXCEPT ![c] = "idle"]
    /\ asked' = [asked EXCEPT ![c] = 0]
    /\ UNCHANGED <<lock, active, built, status, stopping, task, source, file, stored>>
-----------------------------------------------------------------------------
(* The loop of run n *)

\* Only the loop of n moves, from one label to another.
Moves(n, from, to) ==
    /\ task[n].pc = from
    /\ task' = [task EXCEPT ![n].pc = to]
    /\ UNCHANGED clientVars

\* wait_for_file: the file is there, or five seconds are over.
FileAwaited(n) == /\ Moves(n, "waiting", "top")
                  /\ UNCHANGED <<status, stopping, source, file, stored>>

\* Stop the source, then go on at `next`: source.stop sets the flag and waits.
Halts(n, from, next) ==
    /\ task[n].pc = from
    /\ task' = [task EXCEPT ![n].pc = "joining", ![n].next = next]
    /\ source' = [source EXCEPT ![n].halt = TRUE]
    /\ UNCHANGED <<clientVars, status, stopping, file, stored>>

\* Mutant of Top: a last tick is not preceded by a stop of the source.
TopWithoutStop(n) ==
    /\ task[n].pc = "top"
    /\ task' = [task EXCEPT ![n].pc = "stat",
                            ![n].finished = stopping[n] \/ ~Alive(n)]
    /\ UNCHANGED <<clientVars, status, stopping, source, file, stored>>

\* Mutant of Top: the end of a replay is not noticed.
TopUntilStopped(n) ==
    /\ task[n].pc = "top"
    /\ \/ /\ stopping[n]
          /\ task' = [task EXCEPT ![n].pc = "joining", ![n].next = "stat",
                                  ![n].finished = TRUE]
          /\ source' = [source EXCEPT ![n].halt = TRUE]
       \/ /\ ~stopping[n]
          /\ task' = [task EXCEPT ![n].pc = "stat", ![n].finished = FALSE]
          /\ UNCHANGED source
    /\ UNCHANGED <<clientVars, status, stopping, file, stored>>

\* finished is read once, here; a run that is finished gets one more tick.
Top(n) ==
    /\ task[n].pc = "top"
    /\ \/ /\ stopping[n] \/ ~Alive(n)
          /\ task' = [task EXCEPT ![n].pc = "joining", ![n].next = "stat",
                                  ![n].finished = TRUE]
          /\ source' = [source EXCEPT ![n].halt = TRUE]
       \/ /\ ~stopping[n] /\ Alive(n)
          /\ task' = [task EXCEPT ![n].pc = "stat", ![n].finished = FALSE]
          /\ UNCHANGED source
    /\ UNCHANGED <<clientVars, status, stopping, file, stored>>

\* Mutant of Join: the join has no timeout.
JoinForever(n) ==
    /\ ~Alive(n)
    /\ Moves(n, "joining", task[n].next)
    /\ UNCHANGED <<status, stopping, source, file, stored>>

\* The source has ended, or five seconds are over.
Join(n) ==
    /\ ~Alive(n) \/ n \in MayHang
    /\ Moves(n, "joining", task[n].next)
    /\ UNCHANGED <<status, stopping, source, file, stored>>

\* Mutant of Stat: a tick even before there is a capture.
StatAny(n) ==
    /\ task[n].pc = "stat"
    /\ task' = [task EXCEPT ![n].pc = "analyse", ![n].size = file[n]]
    /\ UNCHANGED <<clientVars, status, stopping, source, file, stored>>

\* stat: a tick only for a file that has changed since the last one.
Stat(n) ==
    /\ task[n].pc = "stat"
    /\ IF file[n] # NoFile /\ file[n] # task[n].size
       THEN task' = [task EXCEPT ![n].pc = "analyse", ![n].size = file[n]]
       ELSE task' = [task EXCEPT ![n].pc = "decide"]
    /\ UNCHANGED <<clientVars, status, stopping, source, file, stored>>

\* analyze_capture, on a thread: the file as it is now, not as it was at stat.
Analyse(n) ==
    /\ task[n].pc = "analyse"
    /\ task' = [task EXCEPT ![n].pc = "save", ![n].draft = file[n]]
    /\ UNCHANGED <<clientVars, status, stopping, source, file, stored>>

SaveTick(n) ==
    /\ Moves(n, "save", "publish")
    /\ stored' = [stored EXCEPT ![n] = task[n].draft]
    /\ status' = [status EXCEPT ![n].packets = task[n].draft]
    /\ UNCHANGED <<stopping, source, file>>

\* The analysis or the save raises: the source is stopped and the run fails.
TickFails(n) == Halts(n, "analyse", "fail") \/ Halts(n, "save", "fail")

PublishTick(n) == /\ Moves(n, "publish", "decide")
                  /\ UNCHANGED <<status, stopping, source, file, stored>>

\* Another round, after a sleep, or the end: the run is finished or too long.
Sleep(n) ==
    /\ ~task[n].finished /\ status[n].packets < PacketLimit
    /\ Moves(n, "decide", "sleep")
    /\ UNCHANGED <<status, stopping, source, file, stored>>

\* Mutant of Leave: the source is left running.
LeaveSource(n) ==
    /\ task[n].finished \/ status[n].packets >= PacketLimit
    /\ Moves(n, "decide", "end")
    /\ UNCHANGED <<status, stopping, source, file, stored>>

Leave(n) ==
    /\ task[n].finished \/ status[n].packets >= PacketLimit
    /\ Halts(n, "decide", "end")

\* The stopping event is set, or TICK_SEC is over.
Wake(n) == /\ Moves(n, "sleep", "top")
           /\ UNCHANGED <<status, stopping, source, file, stored>>

End(n) ==
    /\ \/ Moves(n, "end", "last") /\ status' = [status EXCEPT ![n].state =
                                        IF source[n].failed THEN "error" ELSE "stopped"]
       \/ Moves(n, "fail", "last") /\ status' = [status EXCEPT ![n].state = "error"]
    /\ UNCHANGED <<stopping, source, file, stored>>

\* The last status is published, and the task is over: also if the publish raises,
\* which is outside the try (a stop that awaits the task then answers an error).
PublishLast(n) == /\ Moves(n, "last", "done")
                  /\ UNCHANGED <<status, stopping, source, file, stored>>
-----------------------------------------------------------------------------
(* The source of run n *)

SourceMoves(n, from, to) == /\ source[n].pc = from
                            /\ source' = [source EXCEPT ![n].pc = to]
                            /\ UNCHANGED <<clientVars, status, stopping, task, stored>>

\* The output is created; dumpcap writes its header at once, scapy with the
\* first packet.
SourceOpens(n) == /\ SourceMoves(n, "opening", "checking")
                  /\ file' \in {file, [file EXCEPT ![n] = 0]}

Written(n) == IF file[n] = NoFile THEN 0 ELSE file[n]

\* The stop flag is looked at before each packet is written.
SourceChecks(n) == /\ \/ /\ ~source[n].halt /\ Written(n) < Supply
                         /\ SourceMoves(n, "checking", "writing")
                      \/ /\ source[n].halt \/ Written(n) = Supply
                         /\ SourceMoves(n, "checking", "ended")
                   /\ UNCHANGED file

SourceWrites(n) == /\ SourceMoves(n, "writing", "checking")
                   /\ file' = [file EXCEPT ![n] = Written(n) + 1]

\* A corrupt capture, or dumpcap exiting with an error; the latter is noticed
\* only if the loop asks whether the source is running before it stops it.
SourceFails(n) ==
    /\ Alive(n)
    /\ \E noticed \in BOOLEAN :
          source' = [source EXCEPT ![n].pc = "ended", ![n].failed = noticed]
    /\ UNCHANGED <<clientVars, status, stopping, task, file, stored>>
-----------------------------------------------------------------------------
Request(c) == \/ StartBuild(c) \/ StartSource(c) \/ StartFails(c) \/ StartLoop(c)
              \/ StopRequest(c) \/ StopAnswer(c)
Loop(n) == \/ FileAwaited(n) \/ Top(n) \/ Join(n) \/ Stat(n) \/ Analyse(n) \/ SaveTick(n)
           \/ TickFails(n) \/ PublishTick(n) \/ Sleep(n) \/ Leave(n) \/ Wake(n)
           \/ End(n) \/ PublishLast(n)
Source(n) == SourceOpens(n) \/ SourceChecks(n) \/ SourceWrites(n) \/ SourceFails(n)

Next == \/ \E c \in Client : Request(c)
        \/ \E n \in Run : Loop(n) \/ Source(n)

Spec == Init /\ [][Next]_vars

\* The event loop runs every ready coroutine, and every wait of a run's loop
\* ends by itself (timeouts of five and of two seconds, joins of five).  A source
\* reads a finite capture on a thread that is scheduled, unless it may hang.
Fairness == /\ \A n \in Run : WF_vars(Loop(n))
            /\ \A c \in Client : WF_vars(StopAnswer(c))
            /\ \A n \in Run \ MayHang : WF_vars(Source(n))

FairSpec == Spec /\ Fairness
-----------------------------------------------------------------------------
(* Properties *)

States == {"none", "running"} \cup Over
Status == [state : States, packets : 0..Supply]
Task == [pc : {"none", "waiting", "top", "joining", "stat", "analyse", "save",
               "publish", "decide", "sleep", "end", "fail", "last", "done"},
         next : {"none", "stat", "end", "fail"},
         finished : BOOLEAN, size : Content, draft : Content]
SourceThread == [pc : {"new", "opening", "checking", "writing", "ended"},
                 halt : BOOLEAN, failed : BOOLEAN]

ClientsTypeOK ==
    /\ pc \in [Client -> {"idle", "starting", "started", "stopping"}]
    /\ asked \in [Client -> Run \cup {0}]
    /\ \A c \in Client : pc[c] # "idle" => asked[c] \in Run
    /\ lock \in Client \cup {NoClient}
    /\ active \in Run \cup {0}
    /\ built \in 0..MaxRuns

RunsTypeOK ==
    /\ status \in [Run -> Status]
    /\ stopping \in [Run -> BOOLEAN]
    /\ task \in [Run -> Task]
    /\ source \in [Run -> SourceThread]
    /\ file \in [Run -> Content]
    /\ stored \in [Run -> Content]

\* Every variable has its type, and a request names a run unless it is idle.
TypeOK == ClientsTypeOK /\ RunsTypeOK

\* At most one live run at a time, whatever starts and stops interleave: it is
\* what the lock around the check and the assignment is for.
OneRunning == \A n, m \in Run : Running(n) /\ Running(m) => n = m

\* A run that says it is over has a source that has ended, so the capture can
\* be downloaded, replayed or deleted; a source that hangs is the exception.
OverIsQuiet == \A n \in Run \ MayHang : status[n].state \in Over => ~Alive(n)

\* A run that was stopped, or whose source ended, has stored an analysis of
\* every packet in its capture.  A failed tick and MAX_PACKETS are the exceptions.
LastTickSeesAll ==
    \A n \in Run \ MayHang :
        task[n].finished /\ task[n].next = "end" /\ status[n].state \in Over
            => stored[n] = file[n]

\* Once a run says it is over nothing of it is stored again and its status
\* stays: it is what the guard of DELETE /jobs on the live run relies on.
OverIsFinal ==
    [][\A n \in Run : status[n].state \in Over
            => stored'[n] = stored[n] /\ status'[n] = status[n]]_vars

\* Whoever asks for a run to stop is answered, even if its source hangs.
StopIsAnswered == \A c \in Client : pc[c] = "stopping" ~> pc[c] = "idle"

\* A run whose source ends, as every replay does, ends without being stopped,
\* whatever becomes of the runs beside it.
RunEnds == \A n \in Run \ MayHang : active = n /\ Running(n) ~> ~Running(n)
=============================================================================
