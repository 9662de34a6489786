---------------------------- MODULE ConsoleProofs ----------------------------
(***************************************************************************)
(* What holds of the console's hooks for any number of jobs, changes and    *)
(* clicks: the rows of a job never step back.  That loading ends            *)
(* (LoadingEnds) stays with TLC.                                            *)
(***************************************************************************)
EXTENDS ConsoleHooks, WellFoundedInduction, TLAPS

Rev == 0..Unread

Types ==
  /\ made \in 0..MaxJobs
  /\ jobs \subseteq Job
  /\ selected \in 0..MaxJobs
  /\ loads \subseteq [read : BOOLEAN, list : SUBSET Job, then : 0..MaxJobs]
  /\ calls \subseteq [mine : BOOLEAN, job : Job, sessions : Rev, anomalies : Rev]
  /\ loaded \in [job : 0..MaxJobs, sessions : Rev, anomalies : Rev]

\* A deleted job does not come back, so its rows change once more than those listed.
ServerInv ==
  /\ listed \subseteq 1..made
  /\ rev \in [Job -> 0..MaxRev]
  /\ \A j \in listed : rev[j] < MaxRev
  /\ \A j \in Job : j > made => rev[j] = 0

\* What was read is no newer than what the backend has.
ReadInv ==
  /\ \A k \in calls : /\ k.sessions # Unread => k.sessions <= rev[k.job]
                      /\ k.anomalies # Unread => k.anomalies <= rev[k.job]
  /\ loaded.job # NoJob => /\ loaded.sessions <= rev[loaded.job]
                           /\ loaded.anomalies <= rev[loaded.job]

\* The effect has one pair of requests, and it was sent after the one before arrived.
MineInv ==
  /\ \A k, l \in calls : k.mine /\ l.mine => k = l
  /\ \A k \in calls : k.mine /\ k.job = loaded.job =>
       k.sessions >= loaded.sessions /\ k.anomalies >= loaded.anomalies

Inv == Types /\ ServerInv /\ ReadInv /\ MineInv
-----------------------------------------------------------------------------
Below == {p \in Nat \X Nat : p[1] < p[2]}

LEMMA BelowIsWellFounded == IsWellFoundedOn(Below, Nat)
<1>1. IsWellFoundedOn({p \in Nat \X Nat : p[1] < p[2]}, Nat)
  BY NatLessThanWellFounded DEF OpToRel
<1>. QED BY <1>1 DEF Below

\* The newest of some jobs is one of them.
LEMMA NewestIsOne ==
  ASSUME NEW S, S \subseteq Job, S # {}
  PROVE  Newest(S) \in S
<1>. DEFINE T == {MaxJobs - j : j \in S}
<1>0. MaxJobs \in Nat BY ConsoleAssumption
<1>1. T \subseteq Nat /\ T # {}
  <2>1. \A j \in S : j \in Nat /\ j <= MaxJobs BY <1>0 DEF Job
  <2>2. \A j \in S : MaxJobs - j \in Nat BY <1>0, <2>1
  <2>. QED BY <2>2
<1>2. PICK x \in T : \A y \in T : <<y, x>> \notin Below
  <2>. HIDE DEF T
  <2>. QED BY <1>1, BelowIsWellFounded, WFMin
<1>3. PICK j \in S : x = MaxJobs - j BY <1>2
<1>4. \A k \in S : k <= j
  <2>. SUFFICES ASSUME NEW k \in S PROVE k <= j OBVIOUS
  <2>1. MaxJobs - k \in T /\ MaxJobs - k \in Nat BY <1>1
  <2>2. ~(MaxJobs - k < MaxJobs - j) BY <1>1, <1>2, <1>3, <2>1 DEF Below
  <2>. QED BY <1>0, <2>2 DEF Job
<1>. QED BY <1>4 DEF Newest

\* The job the page is about is a job, or none.
LEMMA CurrentIsJob == Types => Current \in Job \cup {NoJob}
<1>. SUFFICES ASSUME Types PROVE Current \in Job \cup {NoJob} OBVIOUS
<1>1. CASE selected \in jobs BY <1>1 DEF Current, Types
<1>2. CASE selected \notin jobs /\ jobs = {} BY <1>2 DEF Current, Newest
<1>3. CASE selected \notin jobs /\ jobs # {}
  BY <1>3, NewestIsOne DEF Current, Types
<1>. QED BY <1>1, <1>2, <1>3
-----------------------------------------------------------------------------
LEMMA InitInv == Init => Inv
<1>. SUFFICES ASSUME Init PROVE Inv OBVIOUS
<1>. USE ConsoleAssumption DEF Init, Unread, Rev, Job, NoJob, NoRows
<1>1. Types BY DEF Types
<1>2. ServerInv BY DEF ServerInv
<1>3. ReadInv BY DEF ReadInv
<1>4. MineInv BY DEF MineInv
<1>. QED BY <1>1, <1>2, <1>3, <1>4 DEF Inv

\* Rows that change on the backend leave what was read behind.
LEMMA GrowthKeepsRead ==
  ASSUME Inv, UNCHANGED sessions, rev' \in [Job -> 0..MaxRev], \A j \in Job : rev[j] <= rev'[j]
  PROVE  ReadInv' /\ MineInv'
<1>. USE ConsoleAssumption DEF Inv, Types, ServerInv, sessions, Unread, Rev, Job, NoJob
<1>1. ReadInv'
  <2>1. \A k \in calls : k.job \in Job /\ k.sessions \in Nat /\ k.anomalies \in Nat OBVIOUS
  <2>2. loaded.job # NoJob => loaded.job \in Job OBVIOUS
  <2>. QED BY <2>1, <2>2 DEF ReadInv
<1>2. MineInv' BY DEF MineInv
<1>. QED BY <1>1, <1>2

LEMMA BackendInv == Inv /\ (Make \/ Upload \/ \E j \in Job : Analyse(j) \/ Delete(j)) => Inv'
<1>. USE ConsoleAssumption DEF Inv, Types, Job, NoJob, Unread, Rev
<1>1. ASSUME Inv, Make \/ Upload PROVE Inv'
  <2>1. made + 1 \in 1..MaxJobs /\ made' = made + 1 /\ listed' = listed \cup {made + 1}
    BY <1>1 DEF Make, Upload
  <2>2. rev' = rev /\ UNCHANGED <<list, sessions>> BY <1>1 DEF Make, Upload
  <2>3. Types'
    <3>1. loads' \subseteq [read : BOOLEAN, list : SUBSET Job, then : 0..MaxJobs]
      <4>1. CASE Make BY <1>1, <4>1 DEF Make
      <4>2. CASE Upload
        <5>1. [read |-> FALSE, list |-> {}, then |-> made + 1]
                \in [read : BOOLEAN, list : SUBSET Job, then : 0..MaxJobs]
          BY <2>1
        <5>2. loads' = loads \cup {[read |-> FALSE, list |-> {}, then |-> made + 1]}
          BY <4>2 DEF Upload, Load
        <5>. QED BY <1>1, <5>1, <5>2
      <4>. QED BY <1>1, <4>1, <4>2
    <3>. QED BY <1>1, <2>1, <2>2, <3>1 DEF list, sessions
  <2>4. ServerInv'
    <3>1. rev[made + 1] = 0 BY <1>1, <2>1 DEF ServerInv
    <3>. QED BY <1>1, <2>1, <2>2, <3>1 DEF ServerInv
  <2>5. ReadInv' /\ MineInv'
    <3>1. rev' \in [Job -> 0..MaxRev] /\ \A j \in Job : rev[j] <= rev'[j]
      BY <1>1, <2>2 DEF ServerInv
    <3>. QED BY <1>1, <2>2, <3>1, GrowthKeepsRead
  <2>. QED BY <2>3, <2>4, <2>5
<1>2. ASSUME Inv, NEW j \in Job, Analyse(j) \/ Delete(j) PROVE Inv'
  <2>1. Types' BY <1>2 DEF Analyse, Delete, list, sessions
  <2>2. rev' = [rev EXCEPT ![j] = @ + 1] /\ made' = made BY <1>2 DEF Analyse, Delete
  <2>4. /\ j \in listed /\ rev[j] < MaxRev /\ rev[j] \in Nat
        /\ listed' \subseteq listed
        /\ j \in listed' => rev[j] + 1 < MaxRev
    BY <1>2 DEF ServerInv, Analyse, Delete
  <2>5. ServerInv'
    <3>1. rev' \in [Job -> 0..MaxRev] BY <1>2, <2>2, <2>4 DEF ServerInv
    <3>2. \A i \in listed' : rev'[i] < MaxRev BY <1>2, <2>2, <2>4 DEF ServerInv
    <3>3. j <= made BY <1>2, <2>4 DEF ServerInv
    <3>4. \A i \in Job : i > made => rev'[i] = 0 BY <1>2, <2>2, <3>3 DEF ServerInv
    <3>. QED BY <1>2, <2>2, <2>4, <3>1, <3>2, <3>4 DEF ServerInv
  <2>3. ReadInv' /\ MineInv'
    <3>1. UNCHANGED sessions BY <1>2 DEF Analyse, Delete
    <3>2. rev' \in [Job -> 0..MaxRev] BY <2>5 DEF ServerInv
    <3>3. \A i \in Job : rev[i] <= rev'[i] BY <1>2, <2>2 DEF ServerInv
    <3>. QED BY <1>2, <3>1, <3>2, <3>3, GrowthKeepsRead
  <2>. QED BY <2>1, <2>5, <2>3
<1>. QED BY <1>1, <1>2

\* The list of jobs, and the choice from it, leave the rows alone.
LEMMA ListInv ==
  Inv /\ ((\E j \in Job : Select(j)) \/ Reload
          \/ \E l \in loads : ReadList(l) \/ ListArrives(l) \/ ListFails(l)) => Inv'
<1>. SUFFICES ASSUME Inv, (\E j \in Job : Select(j)) \/ Reload
                          \/ \E l \in loads : ReadList(l) \/ ListArrives(l) \/ ListFails(l)
              PROVE  Inv'
  OBVIOUS
<1>. USE ConsoleAssumption
<1>. DEFINE L == [read : BOOLEAN, list : SUBSET Job, then : 0..MaxJobs]
<1>1. UNCHANGED <<server, sessions>>
  BY DEF Select, Reload, ReadList, ListArrives, ListFails
<1>2. jobs' \subseteq Job /\ selected' \in 0..MaxJobs /\ loads' \subseteq L
  <2>1. CASE \E j \in Job : Select(j)
    BY <2>1 DEF Select, Inv, Types, Job
  <2>2. CASE Reload
    <3>1. loads' = loads \cup {[read |-> FALSE, list |-> {}, then |-> NoJob]}
      BY <2>2 DEF Reload, Load
    <3>2. [read |-> FALSE, list |-> {}, then |-> NoJob] \in L BY DEF NoJob
    <3>3. UNCHANGED list BY <2>2 DEF Reload
    <3>. QED BY <3>1, <3>2, <3>3 DEF list, Inv, Types
  <2>3. ASSUME NEW l \in loads, ReadList(l)
        PROVE  jobs' \subseteq Job /\ selected' \in 0..MaxJobs /\ loads' \subseteq L
    <3>1. l \in L BY DEF Inv, Types
    <3>2. listed \subseteq Job BY DEF Inv, Types, ServerInv, Job
    <3>3. [l EXCEPT !.read = TRUE, !.list = listed] \in L BY <3>1, <3>2
    <3>. QED BY <2>3, <3>3 DEF ReadList, list, Inv, Types
  <2>4. ASSUME NEW l \in loads, ListArrives(l) \/ ListFails(l)
        PROVE  jobs' \subseteq Job /\ selected' \in 0..MaxJobs /\ loads' \subseteq L
    <3>1. l \in L BY DEF Inv, Types
    <3>2. Chosen(l) \in 0..MaxJobs BY <3>1 DEF Chosen, Inv, Types
    <3>3. jobs' \in {jobs, l.list} /\ selected' = Chosen(l) /\ loads' = loads \ {l}
      BY <2>4 DEF ListArrives, ListFails
    <3>. QED BY <3>1, <3>2, <3>3 DEF Inv, Types
  <2>. QED BY <2>1, <2>2, <2>3, <2>4
<1>3. Types' BY <1>1, <1>2 DEF server, sessions, Inv, Types
<1>4. ServerInv' /\ ReadInv' /\ MineInv'
  BY <1>1 DEF server, sessions, Inv, ServerInv, ReadInv, MineInv
<1>. QED BY <1>3, <1>4 DEF Inv

\* A fetch leaves one pair of requests of the page's, and the backend has not come to it.
LEMMA FetchCalls ==
  ASSUME Inv, NEW j \in Job \cup {NoJob}
  PROVE  /\ Fetch(j) \subseteq [mine : BOOLEAN, job : Job, sessions : Rev, anomalies : Rev]
         /\ \A k \in Fetch(j) : k.mine => k = Request(j)
         /\ \A k \in Fetch(j) : \/ k = Request(j)
                                \/ \E c \in calls : /\ k.job = c.job
                                                    /\ k.sessions = c.sessions
                                                    /\ k.anomalies = c.anomalies
<1>. DEFINE K == [mine : BOOLEAN, job : Job, sessions : Rev, anomalies : Rev]
<1>1. \A c \in calls : c \in K BY DEF Inv, Types
<1>2. ASSUME NEW c \in calls
      PROVE  LET k == [c EXCEPT !.mine = FALSE]
             IN  /\ k \in K /\ ~k.mine
                 /\ k.job = c.job /\ k.sessions = c.sessions /\ k.anomalies = c.anomalies
  BY <1>1
<1>3. j # NoJob => Request(j) \in K
  BY ConsoleAssumption DEF Request, Rev, Unread
<1>4. \A k \in Fetch(j) : k \in Cancelled \/ (j # NoJob /\ k = Request(j)) BY DEF Fetch
<1>5. \A k \in Cancelled : \E c \in calls : k = [c EXCEPT !.mine = FALSE] BY DEF Cancelled
<1>. QED BY <1>2, <1>3, <1>4, <1>5

LEMMA FetchInv == Inv /\ (Effect \/ Navigate) => Inv'
<1>. SUFFICES ASSUME Inv, Effect \/ Navigate PROVE Inv' OBVIOUS
<1>. USE ConsoleAssumption
<1>0. Current \in Job \cup {NoJob} BY CurrentIsJob DEF Inv
<1>1. calls' = Fetch(Current) /\ UNCHANGED <<server, list, loads>> BY DEF Effect, Navigate
<1>2. loaded' = loaded \/ loaded' = NoRows BY DEF Effect, Navigate
<1>3. Types'
  <2>1. NoRows \in [job : 0..MaxJobs, sessions : Rev, anomalies : Rev]
    BY DEF NoRows, NoJob, Rev, Unread
  <2>. QED BY <1>0, <1>1, <1>2, <2>1, FetchCalls DEF Inv, Types, server, list
<1>4. ServerInv' BY <1>1 DEF server, Inv, ServerInv
<1>5. ReadInv'
  <2>1. Request(Current).sessions = Unread /\ Request(Current).anomalies = Unread
    BY DEF Request
  <2>2. \A k \in calls' : /\ k.sessions # Unread => k.sessions <= rev[k.job]
                          /\ k.anomalies # Unread => k.anomalies <= rev[k.job]
    BY <1>0, <1>1, <2>1, FetchCalls DEF Inv, ReadInv
  <2>. QED BY <1>1, <1>2, <2>2 DEF server, Inv, ReadInv, NoRows, NoJob
<1>6. MineInv'
  <2>1. \A k \in calls' : k.mine => k = Request(Current) BY <1>0, <1>1, FetchCalls
  <2>2. Request(Current).sessions = Unread /\ Request(Current).anomalies = Unread
    BY DEF Request
  <2>3. loaded'.sessions <= Unread /\ loaded'.anomalies <= Unread
    BY <1>3 DEF Types, Rev, Unread
  <2>. QED BY <2>1, <2>2, <2>3 DEF MineInv, Unread
<1>. QED BY <1>3, <1>4, <1>5, <1>6 DEF Inv

LEMMA ReadRowsInv == ASSUME Inv, NEW k \in calls, ReadRows(k) PROVE Inv'
<1>. USE ConsoleAssumption
<1>. DEFINE K == [mine : BOOLEAN, job : Job, sessions : Rev, anomalies : Rev]
<1>1. k \in K BY DEF Inv, Types
<1>2. PICK n : /\ calls' = (calls \ {k}) \cup {n}
               /\ n \in K /\ n.mine = k.mine /\ n.job = k.job
               /\ n.sessions = k.sessions \/ (k.sessions = Unread /\ n.sessions = rev[k.job])
               /\ n.anomalies = k.anomalies \/ (k.anomalies = Unread /\ n.anomalies = rev[k.job])
  <2>1. rev[k.job] \in Rev BY <1>1 DEF Inv, ServerInv, Rev, Unread
  <2>2. CASE /\ k.sessions = Unread
             /\ calls' = (calls \ {k}) \cup {[k EXCEPT !.sessions = rev[k.job]]}
    <3>1. LET n == [k EXCEPT !.sessions = rev[k.job]]
          IN  /\ n \in K /\ n.mine = k.mine /\ n.job = k.job
              /\ n.sessions = rev[k.job] /\ n.anomalies = k.anomalies
      BY <1>1, <2>1
    <3>. QED BY <2>2, <3>1
  <2>3. CASE /\ k.anomalies = Unread
             /\ calls' = (calls \ {k}) \cup {[k EXCEPT !.anomalies = rev[k.job]]}
    <3>1. LET n == [k EXCEPT !.anomalies = rev[k.job]]
          IN  /\ n \in K /\ n.mine = k.mine /\ n.job = k.job
              /\ n.sessions = k.sessions /\ n.anomalies = rev[k.job]
      BY <1>1, <2>1
    <3>. QED BY <2>3, <3>1
  <2>4. \E what \in {"sessions", "anomalies"} :
          /\ k[what] = Unread
          /\ calls' = (calls \ {k}) \cup {[k EXCEPT ![what] = rev[k.job]]}
    BY DEF ReadRows
  <2>. QED BY <2>2, <2>3, <2>4
<1>3. UNCHANGED <<server, list, loads, loaded>> BY DEF ReadRows
<1>4. Types' BY <1>2, <1>3 DEF Inv, Types, server, list
<1>5. ServerInv' BY <1>3 DEF server, Inv, ServerInv
<1>6. ReadInv'
  <2>1. rev[k.job] \in Nat BY <1>1 DEF Inv, ServerInv
  <2>2. n.sessions # Unread => n.sessions <= rev[n.job] BY <1>2, <2>1 DEF Inv, ReadInv
  <2>3. n.anomalies # Unread => n.anomalies <= rev[n.job] BY <1>2, <2>1 DEF Inv, ReadInv
  <2>. QED BY <1>2, <1>3, <2>2, <2>3 DEF server, Inv, ReadInv
<1>7. MineInv'
  <2>1. n.mine /\ n.job = loaded.job => n.sessions >= loaded.sessions /\ n.anomalies >= loaded.anomalies
    <3>1. SUFFICES ASSUME n.mine, n.job = loaded.job
                   PROVE  n.sessions >= loaded.sessions /\ n.anomalies >= loaded.anomalies
      OBVIOUS
    <3>2. k.sessions >= loaded.sessions /\ k.anomalies >= loaded.anomalies
      BY <1>2, <3>1 DEF Inv, MineInv
    <3>3. rev[k.job] >= loaded.sessions /\ rev[k.job] >= loaded.anomalies
      BY <1>1, <1>2, <3>1 DEF Inv, Types, ServerInv, ReadInv, Rev, Unread, Job, NoJob
    <3>. QED BY <1>2, <3>2, <3>3
  <2>2. \A a \in calls \ {k} : ~(n.mine /\ a.mine) BY <1>2 DEF Inv, MineInv
  <2>. QED BY <1>2, <1>3, <2>1, <2>2 DEF Inv, MineInv
<1>. QED BY <1>4, <1>5, <1>6, <1>7 DEF Inv

LEMMA RowsInv == ASSUME Inv, NEW k \in calls, RowsArrive(k) \/ RowsFail(k) PROVE Inv'
<1>. USE ConsoleAssumption
<1>1. k \in [mine : BOOLEAN, job : Job, sessions : Rev, anomalies : Rev] BY DEF Inv, Types
<1>2. calls' = calls \ {k} /\ UNCHANGED <<server, list, loads>> BY DEF RowsArrive, RowsFail
<1>3. \/ loaded' = loaded
      \/ /\ k.mine /\ Unread \notin {k.sessions, k.anomalies}
         /\ loaded' = [job |-> k.job, sessions |-> k.sessions, anomalies |-> k.anomalies]
  BY DEF RowsArrive, RowsFail
<1>4. Types' BY <1>1, <1>2, <1>3 DEF Inv, Types, server, list, Job
<1>5. ServerInv' BY <1>2 DEF server, Inv, ServerInv
<1>6. ReadInv' BY <1>1, <1>2, <1>3 DEF server, Inv, ReadInv
<1>7. MineInv' BY <1>2, <1>3 DEF Inv, MineInv
<1>. QED BY <1>4, <1>5, <1>6, <1>7 DEF Inv

LEMMA NextInv == Inv /\ [Next]_vars => Inv'
<1>. SUFFICES ASSUME Inv, [Next]_vars PROVE Inv' OBVIOUS
<1>1. CASE UNCHANGED vars
  BY <1>1 DEF vars, server, list, sessions, Inv, Types, ServerInv, ReadInv, MineInv
<1>2. CASE Next
  BY <1>2, BackendInv, ListInv, FetchInv, ReadRowsInv, RowsInv DEF Next, Answers
<1>. QED BY <1>1, <1>2

\* What has been read is never newer than the backend, and the requests of the page
\* are one pair, sent after the rows that are shown arrived.
THEOREM Invariance == Spec => []Inv
<1>. QED BY InitInv, NextInv, PTL DEF Spec

-----------------------------------------------------------------------------
\* The rows of a job never step back to an older analysis while the page stays: the
\* cleanup of useSessions' effect disowns what an earlier choice of the viewer asked for.
THEOREM RowsNeverStepBack == Spec => NeverStepsBack
<1>1. ASSUME Inv, [Next]_vars
      PROVE  loaded.job # NoJob /\ loaded'.job = loaded.job =>
               /\ loaded'.sessions >= loaded.sessions
               /\ loaded'.anomalies >= loaded.anomalies
  <2>. SUFFICES ASSUME loaded.job # NoJob, loaded'.job = loaded.job
                PROVE  /\ loaded'.sessions >= loaded.sessions
                       /\ loaded'.anomalies >= loaded.anomalies
    OBVIOUS
  <2>1. \/ loaded' = loaded
        \/ Navigate
        \/ \E k \in calls : RowsArrive(k)
    <3>1. CASE UNCHANGED vars BY <3>1 DEF vars, sessions
    <3>2. CASE Make \/ Reload \/ Upload \/ Effect
      BY <3>2 DEF Make, Reload, Upload, Effect, sessions
    <3>3. CASE \E j \in Job : Analyse(j) \/ Delete(j) \/ Select(j)
      BY <3>3 DEF Analyse, Delete, Select, sessions
    <3>4. CASE Answers
      BY <3>4 DEF Answers, ReadList, ListArrives, ListFails, ReadRows, RowsFail, sessions
    <3>. QED BY <1>1, <3>1, <3>2, <3>3, <3>4 DEF Next
  <2>2. CASE loaded' = loaded
    BY <1>1, <2>2, ConsoleAssumption DEF Inv, Types, Rev, Unread
  <2>3. CASE Navigate BY <2>3 DEF Navigate, NoRows
  <2>4. CASE \E k \in calls : RowsArrive(k)
    <3>1. PICK k \in calls : RowsArrive(k) BY <2>4
    <3>2. CASE ~k.mine BY <2>2, <3>1, <3>2 DEF RowsArrive
    <3>3. CASE k.mine
      <4>1. loaded' = [job |-> k.job, sessions |-> k.sessions, anomalies |-> k.anomalies]
        BY <3>1, <3>3 DEF RowsArrive
      <4>. QED BY <1>1, <3>3, <4>1 DEF Inv, MineInv
    <3>. QED BY <3>2, <3>3
  <2>. QED BY <2>1, <2>2, <2>3, <2>4
<1>. QED BY <1>1, Invariance, PTL DEF Spec, NeverStepsBack
=============================================================================
