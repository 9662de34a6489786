---------------------------- MODULE LiveRunProofs ----------------------------
(***************************************************************************)
(* Theorems about LiveRun, for any clients, runs, supply and packet limit. *)
(***************************************************************************)
EXTENDS LiveRun, TLAPS

\* What each label of a client, a loop and a source promises about its data.
DataOK ==
    /\ \A c \in Client : pc[c] = "stopping" => active # 0
    /\ \A n \in Run :
        /\ task[n].pc = "joining" => task[n].next # "none"
        /\ task[n].pc = "analyse" => file[n] # NoFile
        /\ task[n].pc = "save" => task[n].draft # NoFile
        /\ source[n].pc = "writing" => Written(n) < Supply

TypeInv == TypeOK /\ DataOK

LEMMA TypeInvInit == Init => TypeInv
<1> SUFFICES ASSUME Init PROVE TypeInv
  OBVIOUS
<1>1. ClientsTypeOK
  BY LiveAssumption DEF Init, ClientsTypeOK, States, Run
<1>2. RunsTypeOK
  BY LiveAssumption
  DEF Init, RunsTypeOK, NewTask, Status, States, Task, SourceThread, Content
<1>3. DataOK
  BY DEF Init, DataOK, NewTask
<1> QED
  BY <1>1, <1>2, <1>3 DEF TypeInv, TypeOK
-----------------------------------------------------------------------------
(* Requests *)

\* The run numbered next is a run.
LEMMA NextRun ==
    ASSUME ClientsTypeOK, built < MaxRuns
    PROVE  built + 1 \in Run /\ built + 1 \in 0..MaxRuns
BY LiveAssumption DEF ClientsTypeOK, Run

\* A request that is under way names a run.
LEMMA AskedIsRun ==
    ASSUME ClientsTypeOK, NEW c \in Client, pc[c] # "idle"
    PROVE  asked[c] \in Run
BY DEF ClientsTypeOK

LEMMA RequestClients ==
    ASSUME TypeInv, NEW c \in Client, Request(c) PROVE ClientsTypeOK'
<1>1. ClientsTypeOK /\ RunsTypeOK
  BY DEF TypeInv, TypeOK
<1>2. CASE StartBuild(c)
  BY <1>1, <1>2, NextRun DEF StartBuild, ClientsTypeOK
<1>3. CASE StartSource(c)
  BY <1>1, <1>3 DEF StartSource, ClientsTypeOK
<1>4. CASE StartFails(c)
  BY <1>1, <1>4 DEF StartFails, ClientsTypeOK
<1>5. CASE StartLoop(c)
  BY <1>1, <1>5, AskedIsRun DEF StartLoop, ClientsTypeOK
<1>6. CASE StopRequest(c)
  BY <1>1, <1>6 DEF StopRequest, ClientsTypeOK
<1>7. CASE StopAnswer(c)
  <2>1. status[active].state \in States /\ active \in Run \cup {0}
    BY <1>1, <1>7 DEF StopAnswer, TypeInv, DataOK, ClientsTypeOK, RunsTypeOK, Status
  <2> QED
    BY <1>1, <1>7, <2>1 DEF StopAnswer, ClientsTypeOK
<1> QED
  BY <1>2, <1>3, <1>4, <1>5, <1>6, <1>7 DEF Request

\* Changing one field of one record of a typed function keeps its type.
LEMMA StatusType ==
    ASSUME status \in [Run -> Status], NEW n \in Run
    PROVE  /\ \A s \in States : [status EXCEPT ![n].state = s] \in [Run -> Status]
           /\ \A k \in 0..Supply : [status EXCEPT ![n].packets = k] \in [Run -> Status]
BY DEF Status

LEMMA TaskType ==
    ASSUME task \in [Run -> Task], NEW n \in Run, NEW t \in Task,
           task' = [task EXCEPT ![n] = t]
    PROVE  task' \in [Run -> Task] /\ task'[n] = t
OBVIOUS

LEMMA TaskMoves ==
    ASSUME NEW t \in Task
    PROVE  /\ LET u == [t EXCEPT !.pc = "stat", !.finished = FALSE]
              IN  u \in Task /\ u.pc = "stat"
           /\ LET u == [t EXCEPT !.pc = "joining", !.next = "stat", !.finished = TRUE]
              IN  u \in Task /\ u.pc = "joining" /\ u.next = "stat"
<1>1. LET u == [t EXCEPT !.pc = "stat", !.finished = FALSE]
      IN  u \in Task /\ u.pc = "stat"
  BY DEF Task
<1>2. LET u == [t EXCEPT !.pc = "joining", !.next = "stat", !.finished = TRUE]
      IN  u \in Task /\ u.pc = "joining" /\ u.next = "stat"
  BY DEF Task
<1> QED
  BY <1>1, <1>2

LEMMA SourceThreadType ==
    ASSUME source \in [Run -> SourceThread], NEW n \in Run
    PROVE  /\ [source EXCEPT ![n].halt = TRUE] \in [Run -> SourceThread]
           /\ \A m \in Run : [source EXCEPT ![n].halt = TRUE][m].pc = source[m].pc
           /\ \A p \in {"opening", "checking", "writing", "ended"} :
                 [source EXCEPT ![n].pc = p] \in [Run -> SourceThread]
           /\ \A b \in BOOLEAN :
                 [source EXCEPT ![n].pc = "ended", ![n].failed = b] \in [Run -> SourceThread]
BY DEF SourceThread

LEMMA RequestRuns ==
    ASSUME TypeInv, NEW c \in Client, Request(c) PROVE RunsTypeOK' /\ DataOK'
<1>1. ClientsTypeOK /\ RunsTypeOK /\ DataOK
  BY DEF TypeInv, TypeOK
<1>2. CASE StartBuild(c)
  <2>1. built + 1 \in Run
    BY <1>1, <1>2, NextRun DEF StartBuild
  <2>2. status' \in [Run -> Status]
    BY <1>1, <1>2, <2>1, StatusType DEF StartBuild, RunsTypeOK, States
  <2> QED
    BY <1>1, <1>2, <2>2 DEF StartBuild, RunsTypeOK, DataOK, ClientsTypeOK, Written
<1>3. CASE StartSource(c)
  <2>1. asked[c] \in Run
    BY <1>1, <1>3, AskedIsRun DEF StartSource
  <2>2. source' \in [Run -> SourceThread]
    BY <1>1, <1>3, <2>1, SourceThreadType DEF StartSource, RunsTypeOK
  <2>3. \A n \in Run : source'[n].pc = "writing" => source[n].pc = "writing"
    BY <1>1, <1>3, <2>1 DEF StartSource, RunsTypeOK, SourceThread
  <2> QED
    BY <1>1, <1>3, <2>2, <2>3
    DEF StartSource, RunsTypeOK, DataOK, ClientsTypeOK, Written
<1>4. CASE StartFails(c)
  <2>1. asked[c] \in Run
    BY <1>1, <1>4, AskedIsRun DEF StartFails
  <2>2. status' \in [Run -> Status]
    BY <1>1, <1>4, <2>1, StatusType DEF StartFails, RunsTypeOK, States
  <2> QED
    BY <1>1, <1>4, <2>2 DEF StartFails, RunsTypeOK, DataOK, ClientsTypeOK, Written
<1>5. CASE StartLoop(c)
  <2>1. asked[c] \in Run /\ asked[c] # 0
    BY <1>1, <1>5, AskedIsRun DEF StartLoop, Run
  <2>2. task' \in [Run -> Task]
    BY <1>1, <1>5, <2>1 DEF StartLoop, RunsTypeOK, Task
  <2>3. \A n \in Run : task'[n] = [task[n] EXCEPT !.pc = "waiting"] \/ task'[n] = task[n]
    BY <1>1, <1>5, <2>1 DEF StartLoop, RunsTypeOK
  <2>4. \A n \in Run : task'[n].pc # "waiting" => task'[n] = task[n]
    BY <1>1, <2>3 DEF RunsTypeOK, Task
  <2> QED
    BY <1>1, <1>5, <2>1, <2>2, <2>4
    DEF StartLoop, RunsTypeOK, DataOK, ClientsTypeOK, Written
<1>6. CASE StopRequest(c)
  BY <1>1, <1>6 DEF StopRequest, RunsTypeOK, DataOK, ClientsTypeOK, Written
<1>7. CASE StopAnswer(c)
  BY <1>1, <1>7 DEF StopAnswer, RunsTypeOK, DataOK, ClientsTypeOK, Written
<1> QED
  BY <1>2, <1>3, <1>4, <1>5, <1>6, <1>7 DEF Request
-----------------------------------------------------------------------------
(* Loops *)

LEMMA LoopClients == ASSUME TypeInv, NEW n \in Run, Loop(n) PROVE ClientsTypeOK'
<1>1. UNCHANGED clientVars
  BY DEF Loop, FileAwaited, Top, Join, Stat, Analyse, SaveTick, TickFails, PublishTick,
         Sleep, Leave, Wake, End, PublishLast, Moves, Halts
<1> QED
  BY <1>1 DEF clientVars, TypeInv, TypeOK, ClientsTypeOK

\* A loop changes nothing of the other runs.
LEMMA LoopElsewhere ==
    ASSUME TypeInv, NEW n \in Run, Loop(n), NEW m \in Run \ {n}
    PROVE  task'[m] = task[m]
BY DEF Loop, FileAwaited, Top, Join, Stat, Analyse, SaveTick, TickFails, PublishTick,
       Sleep, Leave, Wake, End, PublishLast, Moves, Halts, TypeInv, TypeOK, RunsTypeOK

LEMMA LoopRuns ==
    ASSUME TypeInv, NEW n \in Run, Loop(n)
    PROVE  /\ RunsTypeOK'
           /\ task'[n].pc = "joining" => task'[n].next # "none"
           /\ task'[n].pc = "analyse" => file'[n] # NoFile
           /\ task'[n].pc = "save" => task'[n].draft # NoFile
           /\ file' = file
           /\ \A m \in Run : source'[m].pc = source[m].pc
<1> DEFINE Goal == /\ RunsTypeOK'
                   /\ task'[n].pc = "joining" => task'[n].next # "none"
                   /\ task'[n].pc = "analyse" => file'[n] # NoFile
                   /\ task'[n].pc = "save" => task'[n].draft # NoFile
                   /\ file' = file
                   /\ \A m \in Run : source'[m].pc = source[m].pc
<1>1. RunsTypeOK /\ DataOK
  BY DEF TypeInv, TypeOK
<1>a. task \in [Run -> Task] /\ source \in [Run -> SourceThread]
  BY <1>1 DEF RunsTypeOK
<1>2. CASE FileAwaited(n) \/ PublishTick(n) \/ Sleep(n) \/ Wake(n) \/ PublishLast(n)
  BY <1>1, <1>2
  DEF FileAwaited, PublishTick, Sleep, Wake, PublishLast, Moves, RunsTypeOK, Task
<1>3. CASE Top(n)
  <2>1. source' = source \/ source' = [source EXCEPT ![n].halt = TRUE]
    BY <1>3 DEF Top
  <2>2. source' \in [Run -> SourceThread] /\ \A m \in Run : source'[m].pc = source[m].pc
    <3>1. CASE source' = source
      BY <1>a, <3>1
    <3>2. CASE source' = [source EXCEPT ![n].halt = TRUE]
      BY <1>a, <3>2, SourceThreadType
    <3> QED
      BY <2>1, <3>1, <3>2
  <2>3. /\ task' \in [Run -> Task]
        /\ task'[n].pc = "joining" => task'[n].next # "none"
        /\ task'[n].pc \in {"joining", "stat"}
    <3> DEFINE t == task[n]
    <3>t. t \in Task
      BY <1>a
    <3>1. CASE task' = [task EXCEPT ![n].pc = "stat", ![n].finished = FALSE]
      <4> DEFINE u == [t EXCEPT !.pc = "stat", !.finished = FALSE]
      <4>1. task' = [task EXCEPT ![n] = u]
        BY <3>1
      <4>2. u \in Task /\ u.pc = "stat"
        BY <3>t, TaskMoves
      <4> QED
        BY <1>a, <4>1, <4>2, TaskType
    <3>2. CASE task' = [task EXCEPT ![n].pc = "joining", ![n].next = "stat",
                                    ![n].finished = TRUE]
      <4> DEFINE u == [t EXCEPT !.pc = "joining", !.next = "stat", !.finished = TRUE]
      <4>1. task' = [task EXCEPT ![n] = u]
        BY <3>2
      <4>2. u \in Task /\ u.pc = "joining" /\ u.next = "stat"
        BY <3>t, TaskMoves
      <4> QED
        BY <1>a, <4>1, <4>2, TaskType
    <3> QED
      BY <1>3, <3>1, <3>2 DEF Top
  <2> QED
    BY <1>1, <1>3, <2>2, <2>3 DEF Top, RunsTypeOK
<1>4. CASE Join(n)
  <2>1. task[n].next \in {"stat", "end", "fail"}
    BY <1>1, <1>4 DEF Join, Moves, RunsTypeOK, DataOK, Task
  <2> QED
    BY <1>1, <1>4, <2>1 DEF Join, Moves, RunsTypeOK, Task
<1>5. CASE Stat(n)
  BY <1>1, <1>5 DEF Stat, RunsTypeOK, Task
<1>6. CASE Analyse(n)
  <2> DEFINE u == [task[n] EXCEPT !.pc = "save", !.draft = file[n]]
  <2>1. file[n] \in Content /\ file[n] # NoFile
    BY <1>1, <1>6 DEF Analyse, RunsTypeOK, DataOK
  <2>0. task[n] \in Task
    BY <1>a
  <2>2. u \in Task /\ u.pc = "save" /\ u.draft = file[n]
    BY <2>0, <2>1 DEF Task
  <2>3. task' = [task EXCEPT ![n] = u]
    BY <1>6 DEF Analyse
  <2>4. task' \in [Run -> Task] /\ task'[n] = u
    BY <1>a, <2>2, <2>3, TaskType
  <2> QED
    BY <1>1, <1>6, <2>1, <2>2, <2>4 DEF Analyse, RunsTypeOK
<1>7. CASE SaveTick(n)
  <2>1. task[n].draft \in Content /\ task[n].draft \in 0..Supply
    BY <1>1, <1>7 DEF SaveTick, Moves, RunsTypeOK, DataOK, Task, Content
  <2>2. status' \in [Run -> Status]
    BY <1>1, <1>7, <2>1, StatusType DEF SaveTick, RunsTypeOK
  <2> QED
    BY <1>1, <1>7, <2>1, <2>2 DEF SaveTick, Moves, RunsTypeOK, Task
<1>8. CASE TickFails(n) \/ Leave(n)
  <2>1. PICK next \in {"fail", "end"} :
           /\ task' = [task EXCEPT ![n].pc = "joining", ![n].next = next]
           /\ source' = [source EXCEPT ![n].halt = TRUE]
           /\ UNCHANGED <<status, stopping, file, stored>>
    BY <1>8 DEF TickFails, Leave, Halts
  <2>2. source' \in [Run -> SourceThread] /\ \A m \in Run : source'[m].pc = source[m].pc
    BY <1>a, <2>1, SourceThreadType
  <2>3. /\ task' \in [Run -> Task]
        /\ task'[n].next # "none"
        /\ task'[n].pc = "joining"
    <3> DEFINE u == [task[n] EXCEPT !.pc = "joining", !.next = next]
    <3>0. task[n] \in Task
      BY <1>a
    <3>1. u \in Task /\ u.pc = "joining" /\ u.next = next
      BY <3>0 DEF Task
    <3>2. task' = [task EXCEPT ![n] = u]
      BY <2>1
    <3> QED
      BY <1>a, <3>1, <3>2, TaskType
  <2> QED
    BY <1>1, <2>1, <2>2, <2>3 DEF RunsTypeOK
<1>9. CASE End(n)
  <2>1. PICK state \in Over : status' = [status EXCEPT ![n].state = state]
    BY <1>9 DEF End, Over
  <2>2. status' \in [Run -> Status]
    BY <1>1, <2>1, StatusType DEF RunsTypeOK, States
  <2>3. task' = [task EXCEPT ![n].pc = "last"] /\ UNCHANGED <<stopping, source, file, stored>>
    BY <1>9 DEF End, Moves
  <2> QED
    BY <1>1, <2>2, <2>3 DEF RunsTypeOK, Task
<1> QED
  BY <1>2, <1>3, <1>4, <1>5, <1>6, <1>7, <1>8, <1>9 DEF Loop

LEMMA LoopType == ASSUME TypeInv, NEW n \in Run, Loop(n) PROVE TypeInv'
<1>1. ClientsTypeOK' /\ RunsTypeOK'
  BY LoopClients, LoopRuns
<1>2. UNCHANGED <<pc, active>>
  BY DEF Loop, FileAwaited, Top, Join, Stat, Analyse, SaveTick, TickFails, PublishTick,
         Sleep, Leave, Wake, End, PublishLast, Moves, Halts, clientVars
<1>3. DataOK'
  BY <1>2, LoopRuns, LoopElsewhere DEF TypeInv, DataOK, Written
<1> QED
  BY <1>1, <1>3 DEF TypeInv, TypeOK
-----------------------------------------------------------------------------
(* Sources *)

LEMMA SourceType == ASSUME TypeInv, NEW n \in Run, Source(n) PROVE TypeInv'
<1>1. ClientsTypeOK /\ RunsTypeOK /\ DataOK
  BY DEF TypeInv, TypeOK
<1>a. source \in [Run -> SourceThread]
  BY <1>1 DEF RunsTypeOK
<1>2. /\ UNCHANGED <<clientVars, status, stopping, task, stored>>
      /\ source' \in [Run -> SourceThread]
      /\ \A m \in Run \ {n} : source'[m] = source[m]
  <2>1. \/ \E p \in {"opening", "checking", "writing", "ended"} :
              source' = [source EXCEPT ![n].pc = p]
        \/ \E b \in BOOLEAN : source' = [source EXCEPT ![n].pc = "ended", ![n].failed = b]
    BY DEF Source, SourceOpens, SourceChecks, SourceWrites, SourceFails, SourceMoves
  <2>2. UNCHANGED <<clientVars, status, stopping, task, stored>>
    BY DEF Source, SourceOpens, SourceChecks, SourceWrites, SourceFails, SourceMoves
  <2>3. source' \in [Run -> SourceThread]
    BY <1>a, <2>1 DEF SourceThread
  <2>4. \A m \in Run \ {n} : source'[m] = source[m]
    BY <1>a, <2>1
  <2> QED
    BY <2>2, <2>3, <2>4
<1>3. /\ file' \in [Run -> Content]
      /\ \A m \in Run \ {n} : file'[m] = file[m]
      /\ file[n] # NoFile => file'[n] # NoFile
      /\ source'[n].pc = "writing" => file' = file /\ Written(n) < Supply
  <2>1. CASE SourceOpens(n)
    BY <1>1, <2>1, LiveAssumption
    DEF SourceOpens, SourceMoves, RunsTypeOK, SourceThread, Content
  <2>2. CASE SourceChecks(n)
    BY <1>1, <2>2 DEF SourceChecks, SourceMoves, RunsTypeOK, SourceThread
  <2>3. CASE SourceWrites(n)
    <3>1. Written(n) \in 0..Supply /\ Written(n) < Supply
      BY <1>1, <2>3, LiveAssumption
      DEF SourceWrites, SourceMoves, RunsTypeOK, DataOK, Content, Written
    <3>2. Written(n) + 1 \in Content /\ Written(n) + 1 # NoFile
      BY <3>1, LiveAssumption DEF Content
    <3> QED
      BY <1>1, <2>3, <3>2 DEF SourceWrites, SourceMoves, RunsTypeOK, SourceThread
  <2>4. CASE SourceFails(n)
    BY <1>1, <2>4 DEF SourceFails, RunsTypeOK, SourceThread
  <2> QED
    BY <2>1, <2>2, <2>3, <2>4 DEF Source
<1>4. ClientsTypeOK' /\ RunsTypeOK'
  BY <1>1, <1>2, <1>3 DEF clientVars, ClientsTypeOK, RunsTypeOK
<1>5. DataOK'
  BY <1>1, <1>2, <1>3 DEF clientVars, DataOK, Written
<1> QED
  BY <1>4, <1>5 DEF TypeInv, TypeOK
-----------------------------------------------------------------------------
LEMMA TypeInvStep == TypeInv /\ [Next]_vars => TypeInv'
<1> SUFFICES ASSUME TypeInv, [Next]_vars PROVE TypeInv'
  OBVIOUS
<1>1. CASE UNCHANGED vars
  BY <1>1
  DEF vars, clientVars, TypeInv, TypeOK, ClientsTypeOK, RunsTypeOK, DataOK, Written
<1>2. ASSUME NEW c \in Client, Request(c) PROVE TypeInv'
  BY <1>2, RequestClients, RequestRuns DEF TypeInv, TypeOK
<1> QED
  BY <1>1, <1>2, LoopType, SourceType DEF Next

\* Every variable of a live run keeps its type.
THEOREM TypeCorrect == Spec => []TypeOK
<1>1. TypeInv => TypeOK
  BY DEF TypeInv
<1> QED
  BY <1>1, TypeInvInit, TypeInvStep, PTL DEF Spec
-----------------------------------------------------------------------------
(* One run at a time *)

\* The client in the critical section is the one that holds the lock; it works
\* on the run built last, no other run is running, and no run is running but
\* that one and _run.
LockOK ==
    /\ \A c \in Client : pc[c] \in {"starting", "started"} <=> lock = c
    /\ \A c \in Client : lock = c => asked[c] = built /\ ~Running(active)
    /\ active <= built
    /\ \A n \in Run : Running(n) => n = active \/ \E c \in Client : lock = c /\ n = asked[c]

LEMMA LockInit == Init => LockOK
BY LiveAssumption DEF Init, LockOK, Running, Run

\* A step that only takes runs out of the running ones, and nothing of the clients.
LEMMA LockKept ==
    ASSUME TypeInv, LockOK, UNCHANGED clientVars,
           \A n \in Run : status'[n].state = "running" => status[n].state = "running"
    PROVE  LockOK'
BY DEF LockOK, Running, clientVars, TypeInv, TypeOK, ClientsTypeOK

LEMMA LoopKeepsLock == ASSUME TypeInv, LockOK, NEW n \in Run, Loop(n) PROVE LockOK'
<1>1. UNCHANGED clientVars
  BY DEF Loop, FileAwaited, Top, Join, Stat, Analyse, SaveTick, TickFails, PublishTick,
         Sleep, Leave, Wake, End, PublishLast, Moves, Halts
<1>2. \/ status' = status
      \/ status' = [status EXCEPT ![n].packets = task[n].draft]
      \/ \E s \in Over : status' = [status EXCEPT ![n].state = s]
  BY DEF Loop, FileAwaited, Top, Join, Stat, Analyse, SaveTick, TickFails, PublishTick,
         Sleep, Leave, Wake, End, PublishLast, Moves, Halts, Over
<1>3. status \in [Run -> Status]
  BY DEF TypeInv, TypeOK, RunsTypeOK
<1>4. \A m \in Run : status'[m].state = "running" => status[m].state = "running"
  BY <1>2, <1>3 DEF Status, Over
<1> QED
  BY <1>1, <1>4, LockKept

LEMMA RequestKeepsLock == ASSUME TypeInv, LockOK, NEW c \in Client, Request(c) PROVE LockOK'
<1>1. ClientsTypeOK /\ status \in [Run -> Status]
  BY DEF TypeInv, TypeOK, RunsTypeOK
<1>2. active \in Run \cup {0} /\ built \in Nat /\ NoClient \notin Client
  BY <1>1, LiveAssumption DEF ClientsTypeOK
<1>3. CASE StartBuild(c)
  <2>1. built + 1 \in Run
    BY <1>1, <1>3, NextRun DEF StartBuild
  <2>2. \A n \in Run : n # built + 1 => status'[n] = status[n]
    BY <1>1, <1>3, <2>1 DEF StartBuild
  <2>3. active # built + 1
    BY <1>2 DEF LockOK, Run
  <2>4. ~Running(active)' /\ \A n \in Run : Running(n)' => n = built + 1
    BY <1>2, <1>3, <2>2, <2>3 DEF StartBuild, LockOK, Running
  <2>5. lock' = c /\ asked'[c] = built'
    BY <1>1, <1>3 DEF StartBuild, ClientsTypeOK
  <2>6. \A d \in Client : pc'[d] \in {"starting", "started"} <=> lock' = d
    BY <1>1, <1>2, <1>3 DEF StartBuild, LockOK, ClientsTypeOK
  <2>7. active' <= built'
    BY <1>2, <1>3 DEF StartBuild, LockOK, Run
  <2>8. built' = built + 1
    BY <1>3 DEF StartBuild
  <2>9. \A n \in Run : Running(n)' => \E d \in Client : lock' = d /\ n = asked'[d]
    BY <2>4, <2>5, <2>8
  <2> QED
    BY <2>4, <2>5, <2>6, <2>7, <2>9 DEF LockOK
<1>4. CASE StartSource(c)
  BY <1>1, <1>4 DEF StartSource, LockOK, Running, ClientsTypeOK
<1>5. CASE StartFails(c)
  <2>1. lock = c /\ ~Running(active)
    BY <1>5 DEF StartFails, LockOK
  <2>2. asked[c] \in Run
    BY <1>1, <1>5, AskedIsRun DEF StartFails
  <2>3. \A n \in Run : Running(n)' => Running(n) /\ n # asked[c]
    BY <1>1, <1>5, <2>2 DEF StartFails, Running, Status
  <2>4. \A n \in Run : ~Running(n)'
    BY <2>1, <2>3 DEF LockOK
  <2> QED
    BY <1>1, <1>2, <1>5, <2>1, <2>4 DEF StartFails, LockOK, ClientsTypeOK
<1>6. CASE StartLoop(c)
  <2>1. lock = c /\ ~Running(active) /\ asked[c] = built
    BY <1>6 DEF StartLoop, LockOK
  <2>2. \A n \in Run : Running(n)' => n = active'
    BY <1>6, <2>1 DEF StartLoop, LockOK, Running
  <2> QED
    BY <1>1, <1>2, <1>6, <2>1, <2>2 DEF StartLoop, LockOK, ClientsTypeOK
<1>7. CASE StopRequest(c)
  BY <1>1, <1>7 DEF StopRequest, LockOK, Running, ClientsTypeOK
<1>8. CASE StopAnswer(c)
  BY <1>1, <1>8 DEF StopAnswer, LockOK, Running, ClientsTypeOK
<1> QED
  BY <1>3, <1>4, <1>5, <1>6, <1>7, <1>8 DEF Request

LEMMA SourceKeepsLock == ASSUME TypeInv, LockOK, NEW n \in Run, Source(n) PROVE LockOK'
<1>1. UNCHANGED <<clientVars, status>>
  BY DEF Source, SourceOpens, SourceChecks, SourceWrites, SourceFails, SourceMoves
<1> QED
  BY <1>1, LockKept

LEMMA LockStep == TypeInv /\ LockOK /\ [Next]_vars => LockOK'
<1> SUFFICES ASSUME TypeInv, LockOK, [Next]_vars PROVE LockOK'
  OBVIOUS
<1>1. CASE UNCHANGED vars
  BY <1>1, LockKept DEF vars
<1> QED
  BY <1>1, RequestKeepsLock, LoopKeepsLock, SourceKeepsLock DEF Next

\* However starts and stops interleave, at most one run is running.
THEOREM OnlyOneRuns == Spec => []OneRunning
<1>1. LockOK => OneRunning
  BY LiveAssumption DEF LockOK, OneRunning, Running
<1>2. TypeInv /\ LockOK /\ [Next]_vars => (TypeInv /\ LockOK)'
  BY TypeInvStep, LockStep
<1> QED
  BY <1>1, <1>2, TypeInvInit, LockInit, PTL DEF Spec
-----------------------------------------------------------------------------
(* What a run that is over can be relied on for *)

\* A run that is not built yet or is being started has no loop, and its source
\* is new until it is started.
FreshOK ==
    /\ \A n \in Run : n > built => task[n].pc = "none" /\ source[n].pc = "new"
    /\ \A c \in Client : lock = c =>
          /\ task[asked[c]].pc = "none"
          /\ pc[c] = "starting" => source[asked[c]].pc = "new"

\* The status of a run follows the label of its loop.
Phase(n) == status[n].state \in Over <=> task[n].pc \in {"last", "done"}

\* A loop past its join has a source that has ended, unless that may hang.
Joined(n) ==
    \/ task[n].pc \in {"end", "fail", "last", "done"}
    \/ task[n].finished /\ ~(task[n].pc = "joining" /\ task[n].next = "stat")

Quiet(n) ==
    /\ task[n].finished => task[n].pc \notin {"none", "waiting", "top", "sleep"}
    /\ n \notin MayHang /\ Joined(n) => ~Alive(n)

\* One content is the start of another: a capture only grows.
StartOf(a, b) == a = NoFile \/ (b # NoFile /\ a <= b)

\* The loop has not given up: it compares with a size whose content is stored.
Compares(t) == /\ t.pc \notin {"analyse", "save", "fail", "last", "done"}
               /\ ~(t.pc = "joining" /\ t.next = "fail")

\* What the loop has seen of its capture, from the stat to the save.
Seen(n) ==
    /\ source[n].pc \in {"new", "opening"} => file[n] = NoFile
    /\ StartOf(task[n].size, file[n]) /\ StartOf(stored[n], file[n])
    /\ task[n].pc = "save" =>
          StartOf(task[n].size, task[n].draft) /\ StartOf(task[n].draft, file[n])
    /\ Compares(task[n]) => StartOf(task[n].size, stored[n])

\* A last tick stores the whole capture.
Whole(n) ==
    n \notin MayHang /\ task[n].finished =>
        /\ task[n].pc = "save" => task[n].draft = file[n]
        /\ task[n].pc \in {"publish", "decide"} \/ task[n].next = "end"
              => stored[n] = file[n]

RunOK(n) == Phase(n) /\ Quiet(n) /\ Seen(n) /\ Whole(n)

RunInv == TypeInv /\ LockOK /\ FreshOK /\ \A n \in Run : RunOK(n)

LEMMA RunInvInit == Init => RunInv
<1> SUFFICES ASSUME Init PROVE RunInv
  OBVIOUS
<1>1. FreshOK
  BY LiveAssumption DEF Init, FreshOK, NewTask
<1>2. ASSUME NEW n \in Run PROVE RunOK(n)
  BY <1>2 DEF Init, RunOK, Phase, Quiet, Seen, Whole, Joined, StartOf, NewTask, Over
<1> QED
  BY <1>1, <1>2, TypeInvInit, LockInit DEF RunInv

\* A run that a step leaves alone stays as it should be.
LEMMA RunKept ==
    ASSUME NEW m \in Run, RunOK(m), task'[m] = task[m],
           status'[m].state \in Over <=> status[m].state \in Over,
           source'[m].pc = source[m].pc, file'[m] = file[m], stored'[m] = stored[m]
    PROVE  RunOK(m)'
BY DEF RunOK, Phase, Quiet, Seen, Whole, Joined, Alive, StartOf, Compares

LEMMA RequestKeepsRuns ==
    ASSUME RunInv, NEW c \in Client, Request(c)
    PROVE  FreshOK' /\ \A m \in Run : RunOK(m)'
<1>1. /\ ClientsTypeOK /\ LockOK /\ FreshOK /\ \A n \in Run : RunOK(n)
      /\ status \in [Run -> Status] /\ task \in [Run -> Task] /\ source \in [Run -> SourceThread]
      /\ NoClient \notin Client /\ built \in Nat
  BY LiveAssumption DEF RunInv, TypeInv, TypeOK, ClientsTypeOK, RunsTypeOK
<1>2. CASE StartBuild(c)
  <2>1. built + 1 \in Run /\ built + 1 > built
    BY <1>1, <1>2, NextRun DEF StartBuild
  <2>2. task[built + 1].pc = "none" /\ source[built + 1].pc = "new"
    BY <1>1, <2>1 DEF FreshOK
  <2>3. \A m \in Run : status'[m].state \in Over <=> status[m].state \in Over
    <3>1. status[built + 1].state \notin Over
      BY <1>1, <2>1, <2>2 DEF RunOK, Phase
    <3>2. status'[built + 1].state = "running"
      BY <1>1, <1>2, <2>1 DEF StartBuild, Status
    <3>3. \A m \in Run : m # built + 1 => status'[m] = status[m]
      BY <1>1, <1>2, <2>1 DEF StartBuild
    <3> QED
      BY <3>1, <3>2, <3>3 DEF Over
  <2>4. UNCHANGED <<task, source, file, stored>>
    BY <1>2 DEF StartBuild
  <2>5. \A m \in Run : RunOK(m)'
    BY <1>1, <2>3, <2>4, RunKept
  <2>6. /\ built' = built + 1 /\ lock' = c /\ asked'[c] = built + 1
    BY <1>1, <1>2 DEF StartBuild, ClientsTypeOK
  <2>7. \A n \in Run : n > built' => task'[n].pc = "none" /\ source'[n].pc = "new"
    BY <1>1, <2>4, <2>6 DEF FreshOK, Run
  <2> QED
    BY <2>2, <2>4, <2>5, <2>6, <2>7 DEF FreshOK
<1>3. CASE StartSource(c)
  <2>1. /\ asked[c] \in Run /\ lock = c /\ asked[c] = built
        /\ task[asked[c]].pc = "none" /\ source[asked[c]].pc = "new"
    BY <1>1, <1>3, AskedIsRun DEF StartSource, LockOK, FreshOK
  <2>2. /\ \A m \in Run : m # asked[c] => source'[m] = source[m]
        /\ source'[asked[c]].pc = "opening"
    BY <1>1, <1>3, <2>1 DEF StartSource, SourceThread
  <2>3. UNCHANGED <<status, task, file, stored, asked, lock, built>> /\ pc'[c] = "started"
    BY <1>1, <1>3 DEF StartSource, ClientsTypeOK
  <2>4. RunOK(asked[c])'
    BY <1>1, <2>1, <2>2, <2>3
    DEF RunOK, Phase, Quiet, Seen, Whole, Joined, StartOf, Compares
  <2>5. \A m \in Run : RunOK(m)'
    BY <1>1, <2>2, <2>3, <2>4, RunKept
  <2>6. FreshOK'
    BY <1>1, <2>1, <2>2, <2>3 DEF FreshOK
  <2> QED
    BY <2>5, <2>6
<1>4. CASE StartFails(c)
  <2>1. asked[c] \in Run /\ lock = c /\ task[asked[c]].pc = "none"
    BY <1>1, <1>4, AskedIsRun DEF StartFails, LockOK, FreshOK
  <2>2. UNCHANGED <<built, task, source, file, stored>> /\ lock' = NoClient
    BY <1>4 DEF StartFails
  <2>3. \A m \in Run : status'[m].state \in Over <=> status[m].state \in Over
    <3>1. status[asked[c]].state \notin Over
      BY <1>1, <2>1 DEF RunOK, Phase
    <3>2. status'[asked[c]].state = "none"
      BY <1>1, <1>4, <2>1 DEF StartFails, Status
    <3>3. \A m \in Run : m # asked[c] => status'[m] = status[m]
      BY <1>1, <1>4, <2>1 DEF StartFails
    <3> QED
      BY <3>1, <3>2, <3>3 DEF Over
  <2>4. \A m \in Run : RunOK(m)'
    BY <1>1, <2>2, <2>3, RunKept
  <2> QED
    BY <1>1, <2>2, <2>4 DEF FreshOK
<1>5. CASE StartLoop(c)
  <2>1. PICK n \in Run : n = asked[c]
    BY <1>1, <1>5, AskedIsRun DEF StartLoop
  <2>2. lock = c /\ n = built /\ task[n].pc = "none"
    BY <1>1, <1>5, <2>1 DEF StartLoop, LockOK, FreshOK
  <2>3. UNCHANGED <<status, built, source, file, stored>> /\ lock' = NoClient
    BY <1>5 DEF StartLoop
  <2>4. /\ task'[n] = [task[n] EXCEPT !.pc = "waiting"]
        /\ \A m \in Run : m # n => task'[m] = task[m]
    BY <1>1, <1>5, <2>1 DEF StartLoop
  <2>5. /\ task'[n].pc = "waiting" /\ task'[n].next = task[n].next
        /\ task'[n].finished = task[n].finished
        /\ task'[n].size = task[n].size /\ task'[n].draft = task[n].draft
    BY <1>1, <2>4 DEF Task
  <2>6. ~task[n].finished
    BY <1>1, <2>2 DEF RunOK, Quiet
  <2>7. RunOK(n)'
    BY <1>1, <2>2, <2>3, <2>5, <2>6
    DEF RunOK, Phase, Quiet, Seen, Whole, Joined, StartOf, Compares
  <2>8. \A m \in Run : RunOK(m)'
    BY <1>1, <2>3, <2>4, <2>7, RunKept
  <2>9. FreshOK'
    BY <1>1, <2>2, <2>3, <2>4 DEF FreshOK
  <2> QED
    BY <2>8, <2>9
<1>6. CASE StopRequest(c) \/ StopAnswer(c)
  <2>1. UNCHANGED <<status, task, source, file, stored, lock, built>> /\ lock # c
    BY <1>1, <1>6 DEF StopRequest, StopAnswer, LockOK
  <2>2. \A d \in Client \ {c} : asked'[d] = asked[d] /\ pc'[d] = pc[d]
    BY <1>1, <1>6 DEF StopRequest, StopAnswer, ClientsTypeOK
  <2>3. \A m \in Run : RunOK(m)'
    BY <1>1, <2>1, RunKept
  <2> QED
    BY <1>1, <2>1, <2>2, <2>3 DEF FreshOK
<1> QED
  BY <1>2, <1>3, <1>4, <1>5, <1>6 DEF Request

LEMMA SourceKeepsRuns ==
    ASSUME RunInv, NEW n \in Run, Source(n)
    PROVE  FreshOK' /\ \A m \in Run : RunOK(m)'
<1>1. /\ FreshOK /\ \A m \in Run : RunOK(m)
      /\ source \in [Run -> SourceThread] /\ file \in [Run -> Content]
  BY DEF RunInv, TypeInv, TypeOK, RunsTypeOK
<1>2. /\ UNCHANGED <<pc, asked, lock, built, status, task, stored>>
      /\ \A m \in Run \ {n} : source'[m] = source[m] /\ file'[m] = file[m]
  BY <1>1
  DEF Source, SourceOpens, SourceChecks, SourceWrites, SourceFails, SourceMoves, clientVars
<1>3. Alive(n) /\ source'[n].pc \notin {"new", "opening"}
  BY <1>1
  DEF Source, SourceOpens, SourceChecks, SourceWrites, SourceFails, SourceMoves, Alive,
      SourceThread
<1>4. StartOf(file[n], file'[n]) /\ file'[n] \in Content
  <2>1. CASE SourceOpens(n)
    BY <1>1, <2>1, LiveAssumption
    DEF SourceOpens, SourceMoves, RunOK, Seen, StartOf, Content
  <2>2. CASE SourceWrites(n)
    <3>1. file'[n] = Written(n) + 1
      BY <1>1, <2>2 DEF SourceWrites
    <3>2. file[n] # NoFile => Written(n) = file[n] /\ file[n] \in 0..Supply
      BY <1>1 DEF Written, Content
    <3>3. file'[n] \in Content
      BY SourceType DEF RunInv, TypeInv, TypeOK, RunsTypeOK
    <3>4. file'[n] # NoFile
      BY <1>1, <2>2, <3>1, LiveAssumption
      DEF RunInv, TypeInv, DataOK, SourceWrites, SourceMoves, Written, Content
    <3> QED
      BY <3>1, <3>2, <3>3, <3>4 DEF StartOf
  <2>3. CASE SourceChecks(n) \/ SourceFails(n)
    BY <1>1, <2>3, LiveAssumption DEF SourceChecks, SourceFails, StartOf, Content
  <2> QED
    BY <2>1, <2>2, <2>3 DEF Source
<1>5. RunOK(n)'
  <2>1. n \in MayHang \/ ~Joined(n)
    BY <1>1, <1>3 DEF RunOK, Quiet
  <2>2. Phase(n)' /\ Quiet(n)'
    BY <1>1, <1>2, <2>1 DEF RunOK, Phase, Quiet, Joined
  <2>3. Seen(n)'
    <3>1. /\ task[n].size \in Content /\ task[n].draft \in Content
          /\ stored[n] \in Content /\ file[n] \in Content
      BY DEF RunInv, TypeInv, TypeOK, RunsTypeOK, Task
    <3>2. \A x \in Content : StartOf(x, file[n]) => StartOf(x, file'[n])
      BY <1>4, <3>1, LiveAssumption DEF StartOf, Content
    <3>3. Seen(n) /\ task' = task /\ stored' = stored
      BY <1>1, <1>2 DEF RunOK
    <3> QED
      BY <1>3, <3>1, <3>2, <3>3 DEF Seen, StartOf, Compares
  <2>4. Whole(n)'
    BY <1>1, <1>2, <2>1 DEF RunOK, Quiet, Whole, Joined
  <2> QED
    BY <2>2, <2>3, <2>4 DEF RunOK
<1>6. \A m \in Run : RunOK(m)'
  BY <1>1, <1>2, <1>5, RunKept
<1>7. FreshOK'
  <2>1. \A c \in Client : lock = c => asked[c] \in Run
    BY AskedIsRun DEF RunInv, LockOK, TypeInv, TypeOK
  <2> QED
    BY <1>1, <1>2, <1>3, <2>1 DEF FreshOK, Alive
<1> QED
  BY <1>6, <1>7

\* What a step of the loop of run n leaves alone.
LEMMA LoopFrame ==
    ASSUME RunInv, NEW n \in Run, Loop(n)
    PROVE  /\ UNCHANGED <<pc, asked, lock, built, file>>
           /\ task[n].pc # "none"
           /\ \A m \in Run : source'[m].pc = source[m].pc
           /\ \A m \in Run \ {n} : /\ task'[m] = task[m] /\ stored'[m] = stored[m]
                                   /\ status'[m] = status[m]
<1>1. /\ status \in [Run -> Status] /\ stored \in [Run -> Content]
      /\ task \in [Run -> Task] /\ TypeInv
  BY DEF RunInv, TypeInv, TypeOK, RunsTypeOK
<1>2. UNCHANGED <<pc, asked, lock, built>> /\ task[n].pc # "none"
  BY DEF Loop, FileAwaited, Top, Join, Stat, Analyse, SaveTick, TickFails, PublishTick,
         Sleep, Leave, Wake, End, PublishLast, Moves, Halts, clientVars
<1>3. file' = file /\ \A m \in Run : source'[m].pc = source[m].pc
  BY <1>1, LoopRuns
<1>4. \A m \in Run \ {n} : stored'[m] = stored[m] /\ status'[m] = status[m]
  BY <1>1
  DEF Loop, FileAwaited, Top, Join, Stat, Analyse, SaveTick, TickFails, PublishTick,
      Sleep, Leave, Wake, End, PublishLast, Moves, Halts
<1> QED
  BY <1>1, <1>2, <1>3, <1>4, LoopElsewhere

\* A step of the loop of run n that neither saves nor ends it.
LEMMA LoopQuietStep ==
    ASSUME RunInv, NEW n \in Run, Loop(n), ~SaveTick(n), ~End(n)
    PROVE  stored' = stored /\ status' = status
BY DEF Loop, FileAwaited, Top, Join, Stat, Analyse, TickFails, PublishTick, Sleep, Leave,
       Wake, PublishLast, Moves, Halts

\* The loop of run n moves to a label, and may change the rest of its locals.
LEMMA LoopRunOK == ASSUME RunInv, NEW n \in Run, Loop(n) PROVE RunOK(n)'
<1> DEFINE t == task[n]
           u == task'[n]
<1>1. /\ t \in Task /\ u \in Task /\ stored[n] \in Content /\ file[n] \in Content
      /\ task \in [Run -> Task] /\ stored \in [Run -> Content] /\ status \in [Run -> Status]
  <2>1. RunsTypeOK'
    BY LoopRuns DEF RunInv
  <2> QED
    BY <2>1 DEF RunInv, TypeInv, TypeOK, RunsTypeOK
<1>2. /\ Phase(n) /\ Quiet(n) /\ Seen(n) /\ Whole(n)
      /\ file' = file /\ source'[n].pc = source[n].pc
  BY LoopFrame DEF RunInv, RunOK
<1>3. CASE FileAwaited(n) \/ PublishTick(n) \/ Sleep(n) \/ Wake(n) \/ PublishLast(n)
  <2>0. ASSUME NEW from, NEW to \in {"top", "decide", "sleep", "done"}, Moves(n, from, to)
        PROVE  t.pc = from /\ u = [t EXCEPT !.pc = to] /\ u.pc = to
    BY <1>1, <2>0 DEF Moves, Task
  <2>1. /\ u = [t EXCEPT !.pc = u.pc] /\ stored' = stored /\ status' = status
        /\ <<t.pc, u.pc>> \in {<<"waiting", "top">>, <<"publish", "decide">>,
              <<"decide", "sleep">>, <<"sleep", "top">>, <<"last", "done">>}
        /\ u.pc = "sleep" => ~t.finished
    <3> HIDE DEF t, u
    <3> QED
      BY <1>3, <2>0 DEF FileAwaited, PublishTick, Sleep, Wake, PublishLast, t
  <2>2. /\ u.next = t.next /\ u.finished = t.finished /\ u.size = t.size
        /\ u.draft = t.draft
    BY <1>1, <2>1 DEF Task
  <2> QED
    BY <1>2, <2>1, <2>2
    DEF RunOK, Phase, Quiet, Seen, Whole, Joined, Alive, StartOf, Compares
<1>4. CASE Top(n)
  <2>1. /\ t.pc = "top" /\ u.size = t.size /\ u.draft = t.draft
        /\ \/ u.pc = "joining" /\ u.next = "stat"
           \/ u.pc = "stat" /\ ~u.finished
        /\ UNCHANGED <<stored, status>>
    BY <1>1, <1>4 DEF Top, Task
  <2> QED
    BY <1>2, <2>1
    DEF RunOK, Phase, Quiet, Seen, Whole, Joined, Alive, StartOf, Compares
<1>5. CASE Join(n)
  <2>1. /\ t.pc = "joining" /\ u.pc = t.next /\ u.next = t.next
        /\ u.size = t.size /\ u.draft = t.draft /\ u.finished = t.finished
        /\ t.next \in {"stat", "end", "fail"}
        /\ UNCHANGED <<stored, status>>
    BY <1>1, <1>5 DEF Join, Moves, Task, RunInv, TypeInv, DataOK
  <2>2. n \in MayHang \/ ~Alive(n)
    BY <1>5 DEF Join
  <2> QED
    BY <1>2, <2>1, <2>2
    DEF RunOK, Phase, Quiet, Seen, Whole, Joined, Alive, StartOf, Compares
<1>6. CASE Stat(n)
  <2>1. /\ t.pc = "stat" /\ u.next = t.next /\ u.draft = t.draft
        /\ u.finished = t.finished /\ UNCHANGED <<stored, status>>
        /\ \/ u.pc = "analyse" /\ u.size = file[n] /\ file[n] # NoFile
           \/ u.pc = "decide" /\ u.size = t.size /\ (file[n] = NoFile \/ file[n] = t.size)
    BY <1>1, <1>6 DEF Stat, Task
  <2>2. u.pc = "decide" => stored[n] = file[n]
    BY <1>1, <1>2, <2>1, LiveAssumption DEF Seen, Compares, StartOf, Content
  <2>3. StartOf(file[n], file[n])
    BY <1>1, LiveAssumption DEF StartOf, Content
  <2> QED
    BY <1>2, <2>1, <2>2, <2>3
    DEF RunOK, Phase, Quiet, Seen, Whole, Joined, Alive, StartOf, Compares
<1>7. CASE Analyse(n)
  <2>1. /\ t.pc = "analyse" /\ u.pc = "save" /\ u.next = t.next /\ u.draft = file[n]
        /\ u.size = t.size /\ u.finished = t.finished /\ UNCHANGED <<stored, status>>
    BY <1>1, <1>7 DEF Analyse, Task
  <2>2. StartOf(file[n], file[n])
    BY <1>1, LiveAssumption DEF StartOf, Content
  <2> QED
    BY <1>2, <2>1, <2>2
    DEF RunOK, Phase, Quiet, Seen, Whole, Joined, Alive, StartOf, Compares
<1>8. CASE SaveTick(n)
  <2>1. /\ t.pc = "save" /\ u.pc = "publish" /\ u.next = t.next
        /\ u.size = t.size /\ u.draft = t.draft /\ u.finished = t.finished
        /\ stored'[n] = t.draft /\ status'[n].state = status[n].state
    BY <1>1, <1>8 DEF SaveTick, Moves, Task, Status
  <2> QED
    BY <1>2, <2>1
    DEF RunOK, Phase, Quiet, Seen, Whole, Joined, Alive, StartOf, Compares
<1>9. CASE TickFails(n) \/ Leave(n)
  <2>1. /\ t.pc \in {"analyse", "save", "decide"} /\ u.pc = "joining"
        /\ u.size = t.size /\ u.draft = t.draft /\ u.finished = t.finished
        /\ u.next = IF t.pc = "decide" THEN "end" ELSE "fail"
        /\ UNCHANGED <<stored, status>>
    BY <1>1, <1>9 DEF TickFails, Leave, Halts, Task
  <2> QED
    BY <1>2, <2>1
    DEF RunOK, Phase, Quiet, Seen, Whole, Joined, Alive, StartOf, Compares
<1>10. CASE End(n)
  <2>1. /\ t.pc \in {"end", "fail"} /\ u.pc = "last" /\ u.next = t.next
        /\ u.size = t.size /\ u.draft = t.draft /\ u.finished = t.finished
        /\ stored' = stored
    BY <1>1, <1>10 DEF End, Moves, Task
  <2>2. status'[n].state \in Over
    BY <1>1, <1>10 DEF End, Status, Over
  <2> QED
    BY <1>2, <2>1, <2>2
    DEF RunOK, Phase, Quiet, Seen, Whole, Joined, Alive, StartOf, Compares
<1> QED
  BY <1>3, <1>4, <1>5, <1>6, <1>7, <1>8, <1>9, <1>10 DEF Loop

LEMMA LoopKeepsRuns ==
    ASSUME RunInv, NEW n \in Run, Loop(n)
    PROVE  FreshOK' /\ \A m \in Run : RunOK(m)'
<1>1. \A m \in Run : RunOK(m)'
  BY LoopFrame, LoopRunOK, RunKept DEF RunInv
<1>2. \A c \in Client : lock = c => asked[c] \in Run
  BY AskedIsRun DEF RunInv, LockOK, TypeInv, TypeOK
<1>3. FreshOK'
  BY <1>2, LoopFrame DEF RunInv, FreshOK
<1> QED
  BY <1>1, <1>3

LEMMA RunInvStep == RunInv /\ [Next]_vars => RunInv'
<1> SUFFICES ASSUME RunInv, [Next]_vars PROVE RunInv'
  OBVIOUS
<1>1. TypeInv' /\ LockOK'
  BY TypeInvStep, LockStep DEF RunInv
<1>2. FreshOK' /\ \A m \in Run : RunOK(m)'
  <2>1. CASE UNCHANGED vars
    BY <2>1, RunKept DEF RunInv, FreshOK, vars, clientVars
  <2> QED
    BY <2>1, RequestKeepsRuns, LoopKeepsRuns, SourceKeepsRuns DEF Next
<1> QED
  BY <1>1, <1>2 DEF RunInv

LEMMA RunInvHolds == Spec => []RunInv
BY RunInvInit, RunInvStep, PTL DEF Spec

\* A run that says it is over has no source left, when sources stop in time.
THEOREM OverMeansQuiet == Spec => []OverIsQuiet
<1>1. RunInv => OverIsQuiet
  BY DEF RunInv, RunOK, Phase, Quiet, Joined, OverIsQuiet
<1> QED
  BY <1>1, RunInvHolds, PTL

\* A run that was stopped, or whose source ended, has stored its whole capture.
THEOREM LastTickIsWhole == Spec => []LastTickSeesAll
<1>1. RunInv => LastTickSeesAll
  BY DEF RunInv, RunOK, Whole, LastTickSeesAll
<1> QED
  BY <1>1, RunInvHolds, PTL

\* No step stores anything of a run that is over, or changes its status.
THEOREM OverStays == Spec => OverIsFinal
<1>1. RunInv /\ [Next]_vars =>
        [\A n \in Run : status[n].state \in Over
            => stored'[n] = stored[n] /\ status'[n] = status[n]]_vars
  <2> SUFFICES ASSUME RunInv, Next, NEW n \in Run, status[n].state \in Over
               PROVE  stored'[n] = stored[n] /\ status'[n] = status[n]
    BY DEF vars
  <2>1. task[n].pc \in {"last", "done"}
    BY DEF RunInv, RunOK, Phase
  <2>2. status \in [Run -> Status] /\ stored \in [Run -> Content] /\ ClientsTypeOK
    BY DEF RunInv, TypeInv, TypeOK, RunsTypeOK
  <2>3. ASSUME NEW c \in Client, Request(c) PROVE stored'[n] = stored[n] /\ status'[n] = status[n]
    <3>1. n # built + 1
      BY <2>1, <2>2 DEF RunInv, FreshOK, ClientsTypeOK, Run
    <3>2. pc[c] = "starting" => asked[c] # n
      BY <2>1 DEF RunInv, LockOK, FreshOK
    <3> QED
      BY <2>2, <2>3, <3>1, <3>2
      DEF Request, StartBuild, StartSource, StartFails, StartLoop, StopRequest, StopAnswer
  <2>4. ASSUME NEW m \in Run, Loop(m) PROVE stored'[n] = stored[n] /\ status'[n] = status[n]
    <3>1. CASE m = n
      BY <2>1, <2>4, <3>1, LoopQuietStep DEF SaveTick, End, Moves
    <3> QED
      BY <2>4, <3>1, LoopFrame
  <2>5. ASSUME NEW m \in Run, Source(m) PROVE stored'[n] = stored[n] /\ status'[n] = status[n]
    BY <2>5 DEF Source, SourceOpens, SourceChecks, SourceWrites, SourceFails, SourceMoves
  <2> QED
    BY <2>3, <2>4, <2>5 DEF Next
<1> QED
  BY <1>1, RunInvHolds, PTL DEF Spec, OverIsFinal
=============================================================================
