---------------------------- MODULE ConsoleHooks ----------------------------
(***************************************************************************)
(* What one viewer of the console looks at: the list of jobs and the chosen *)
(* one (lib/jobs.tsx), and the sessions and anomalies of that job           *)
(* (lib/useSessions.ts).  Every fetch is read by the backend at one moment  *)
(* and arrives at another, if at all, while the viewer clicks on and the    *)
(* backend analyses, adds and deletes jobs; React runs the effect that      *)
(* fetches some time after the render that asked for it.  What a failed     *)
(* list request says is left out.                                           *)
(***************************************************************************)
EXTENDS Naturals, FiniteSets

CONSTANTS
  MaxJobs,    \* bound: jobs ever made
  MaxRev,     \* bound: how often a job's rows change on the backend
  MaxClicks   \* bound: what the viewer does

ASSUME ConsoleAssumption ==
  /\ {MaxJobs, MaxClicks} \subseteq Nat
  /\ MaxRev \in Nat \ {0}

Job    == 1..MaxJobs    \* in the order they are made: the newest is the largest
NoJob  == 0             \* undefined
Unread == MaxRev + 1    \* a request the backend has not come to

NoRows == [job |-> NoJob, sessions |-> Unread, anomalies |-> Unread]

VARIABLES
  made,        \* jobs the backend has ever made
  listed,      \* those it holds
  rev,         \* rev[j]: how often j's rows have changed there
  jobs,        \* the list the console has
  selected,    \* the job chosen, which localStorage remembers
  jobsLoading, \* the list has not been answered yet
  loads,       \* list requests on their way
  deps,        \* the job the running effect of useSessions is for
  calls,       \* pairs of requests, sessions and events, on their way
  loaded,      \* the rows that arrived last
  failed,      \* the job whose fetch failed last
  clicks

server   == <<made, listed, rev>>
list     == <<jobs, selected, jobsLoading>>
sessions == <<deps, calls, loaded, failed>>
vars     == <<server, list, loads, sessions, clicks>>

-----------------------------------------------------------------------------

Newest(S) == IF S = {} THEN NoJob ELSE CHOOSE j \in S : \A k \in S : k <= j

(* The chosen job if it is listed, and the newest otherwise.                *)
Current == IF selected \in jobs THEN selected ELSE Newest(jobs)

(* Rows are shown only under the job they were fetched for.                 *)
Fresh  == Current # NoJob /\ loaded.job = Current
Failed == Current # NoJob /\ failed = Current

Loading == jobsLoading \/ (Current # NoJob /\ ~Fresh /\ ~Failed)

-----------------------------------------------------------------------------

(* The backend: another viewer or a live run, as well as this viewer.       *)
Make ==
  /\ made < MaxJobs
  /\ made' = made + 1
  /\ listed' = listed \cup {made + 1}
  /\ UNCHANGED <<rev, list, loads, sessions, clicks>>

(* A tick of a live run, or gateway state, replaces the rows of a job.      *)
Analyse(j) ==
  /\ j \in listed
  /\ rev[j] < MaxRev - 1
  /\ rev' = [rev EXCEPT ![j] = @ + 1]
  /\ UNCHANGED <<made, listed, list, loads, sessions, clicks>>

(* The rows go with the job; later requests for it find none.               *)
Delete(j) ==
  /\ j \in listed
  /\ listed' = listed \ {j}
  /\ rev' = [rev EXCEPT ![j] = @ + 1]
  /\ UNCHANGED <<made, list, loads, sessions, clicks>>

-----------------------------------------------------------------------------

Click == clicks < MaxClicks /\ clicks' = clicks + 1

(* A choice in the picker or the list, or the live page's "open this run",  *)
(* which may name a job the list does not have yet.                         *)
Select(j) ==
  /\ Click
  /\ j \in 1..made
  /\ selected' = j
  /\ UNCHANGED <<server, jobs, jobsLoading, loads, sessions>>

(* load, called on its own or by an upload that selects its job after it.   *)
Load(then) == loads' = loads \cup {[read |-> FALSE, list |-> {}, then |-> then]}

Reload ==
  /\ Click
  /\ Load(NoJob)
  /\ UNCHANGED <<server, list, sessions>>

Upload ==
  /\ Click
  /\ made < MaxJobs
  /\ made' = made + 1
  /\ listed' = listed \cup {made + 1}
  /\ Load(made + 1)
  /\ UNCHANGED <<rev, list, sessions>>

ReadList(l) ==
  /\ ~l.read
  /\ loads' = (loads \ {l}) \cup {[l EXCEPT !.read = TRUE, !.list = listed]}
  /\ UNCHANGED <<server, list, sessions, clicks>>

Chosen(l) == IF l.then = NoJob THEN selected ELSE l.then

(* Whichever list arrives last is the one shown.                            *)
ListArrives(l) ==
  /\ l.read
  /\ loads' = loads \ {l}
  /\ jobs' = l.list
  /\ jobsLoading' = FALSE
  /\ selected' = Chosen(l)
  /\ UNCHANGED <<server, sessions, clicks>>

(* The error is caught inside load: the upload selects its job all the same *)
ListFails(l) ==
  /\ loads' = loads \ {l}
  /\ jobsLoading' = FALSE
  /\ selected' = Chosen(l)
  /\ UNCHANGED <<server, jobs, sessions, clicks>>

-----------------------------------------------------------------------------

(* The cleanup of the last effect: what is on its way is no longer mine.    *)
Cancelled == {[k EXCEPT !.mine = FALSE] : k \in calls}

Request(j) == [mine |-> TRUE, job |-> j, sessions |-> Unread, anomalies |-> Unread]

Fetch(j) == IF j = NoJob THEN Cancelled ELSE Cancelled \cup {Request(j)}

(* The job has changed: React cleans up and runs the effect again.  (The    *)
(* reload of useSessions would too, for the same job; nothing calls it.)    *)
Effect ==
  /\ deps # Current
  /\ deps' = Current
  /\ calls' = Fetch(Current)
  /\ UNCHANGED <<server, list, loads, loaded, failed, clicks>>

(* Another page is opened: its hook starts with nothing loaded.             *)
Navigate ==
  /\ Click
  /\ deps' = Current
  /\ calls' = Fetch(Current)
  /\ loaded' = NoRows
  /\ failed' = NoJob
  /\ UNCHANGED <<server, list, loads>>

(* The two requests are read by the backend one by one.                     *)
ReadRows(k) ==
  /\ \E what \in {"sessions", "anomalies"} :
       /\ k[what] = Unread
       /\ calls' = (calls \ {k}) \cup {[k EXCEPT ![what] = rev[k.job]]}
  /\ UNCHANGED <<server, list, loads, deps, loaded, failed, clicks>>

(* Mutant: the answer is taken although its effect has been cleaned up.     *)
RowsArriveAlways(k) ==
  /\ Unread \notin {k.sessions, k.anomalies}
  /\ calls' = calls \ {k}
  /\ loaded' = [job |-> k.job, sessions |-> k.sessions, anomalies |-> k.anomalies]
  /\ failed' = NoJob
  /\ UNCHANGED <<server, list, loads, deps, clicks>>

RowsArrive(k) ==
  /\ Unread \notin {k.sessions, k.anomalies}
  /\ calls' = calls \ {k}
  /\ IF k.mine
       THEN /\ loaded' = [job |-> k.job, sessions |-> k.sessions, anomalies |-> k.anomalies]
            /\ failed' = NoJob
       ELSE UNCHANGED <<loaded, failed>>
  /\ UNCHANGED <<server, list, loads, deps, clicks>>

(* Either request fails, at any time.                                       *)
RowsFail(k) ==
  /\ calls' = calls \ {k}
  /\ failed' = IF k.mine THEN k.job ELSE failed
  /\ UNCHANGED <<server, list, loads, deps, loaded, clicks>>

-----------------------------------------------------------------------------

(* The console is opened: the list is asked for, and a choice remembered.   *)
Init ==
  /\ made \in 0..MaxJobs
  /\ listed = 1..made
  /\ rev = [j \in Job |-> 0]
  /\ jobs = {}
  /\ selected \in 0..made
  /\ jobsLoading = TRUE
  /\ loads = {[read |-> FALSE, list |-> {}, then |-> NoJob]}
  /\ deps = NoJob
  /\ calls = {}
  /\ loaded = NoRows
  /\ failed = NoJob
  /\ clicks = 0

Answers ==
  \/ \E l \in loads : ReadList(l) \/ ListArrives(l) \/ ListFails(l)
  \/ \E k \in calls : ReadRows(k) \/ RowsArrive(k) \/ RowsFail(k)

Next ==
  \/ Make
  \/ \E j \in Job : Analyse(j) \/ Delete(j) \/ Select(j)
  \/ Reload \/ Upload \/ Effect \/ Navigate
  \/ Answers

(* React runs the effects it owes; every request is answered or fails.      *)
Fairness == WF_vars(Effect) /\ WF_vars(Answers)

Spec == Init /\ [][Next]_vars /\ Fairness

-----------------------------------------------------------------------------

(* The rows of a job never step back to an older analysis of it while the   *)
(* page stays, however the viewer switches between jobs and whatever order  *)
(* the answers arrive in (the cancelled flag of useSessions).               *)
NeverStepsBack ==
  [][loaded.job # NoJob /\ loaded'.job = loaded.job =>
       /\ loaded'.sessions >= loaded.sessions
       /\ loaded'.anomalies >= loaded.anomalies]_vars

(* Once the viewer rests, a page that says it is loading comes to show the  *)
(* rows or the error of its job: no late answer for another job takes their *)
(* place (the loading flag, derived from what arrived last).                *)
LoadingEnds == Loading ~> ~Loading

=============================================================================
