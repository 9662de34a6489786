----------------------------- MODULE MCRequests -----------------------------
(***************************************************************************)
(* Small instances of Requests.  A capture of one packet shows one IKE SA  *)
(* mid-handshake; the second packet adds a second SA and an anomaly.  With *)
(* three packets the first SA has its final id, so the middle one is gone. *)
(***************************************************************************)
EXTENDS Requests

CONSTANTS a, b

Session(id, c) == [id |-> id, wire |-> c, gateway |-> NoReport]
Event(id, c) == [id |-> id, wire |-> c]

MCAnalysis ==
    [c \in 0..3 |->
        CASE c = 0 -> [sessions |-> <<>>, events |-> <<>>]
          [] c = 1 -> [sessions |-> <<Session(a, 1)>>, events |-> <<>>]
          [] c = 2 -> [sessions |-> <<Session(a, 2), Session(b, 2)>>,
                       events |-> <<Event(a, 2)>>]
          [] c = 3 -> [sessions |-> <<Session(b, 3)>>, events |-> <<Event(a, 3)>>]]

\* The same, but the one-packet capture yields two records with one id.
MCCollidingAnalysis ==
    [MCAnalysis EXCEPT ![1].sessions = <<Session(a, 1), Session(a, 1)>>]

\* Bounds of the run `requests`.  The log: three entries of one job, two of two.
ShortLog == Len(auditLog) + Cardinality(issued) <= 4

One(p) == IF p THEN 1 ELSE 0

\* Requests in flight, the live run, the check and the seed: who may step next.
Actors == Cardinality({r \in Request : pc[r] # "idle"})
          + One(run.state = "running") + One(check.pc # "idle") + One(seeding)

\* Three actors on one job, two on two jobs, and one fewer after a crash.
Load == Actors + Cardinality(issued) + crashes <= 4

\* A check is followed without a crash, which would only drop it, and against
\* a live run on one job.
QuietCheck ==
    check.pc # "idle" => /\ crashes = 0
                         /\ run.state = "idle" \/ Cardinality(issued) = 1

Imported ==
    \/ \E r \in Request : pc[r] \in {"importing", "importMerged", "importListed", "importReady"}
    \/ \E j \in Job : \E id \in DOMAIN sessions[j] : sessions[j][id].gateway # NoReport

\* Imports, which commit in one step and lose nothing to a crash, are followed
\* on one job, over two entries, and with the check against one other actor.
FewImports ==
    Imported => /\ Cardinality(issued) = 1 /\ Len(auditLog) <= 2
                /\ crashes = 0 /\ ~seeding
                /\ check.pc # "idle" => Actors <= 2

RequestSymmetry == Permutations(Request) \cup Permutations(Job)
=============================================================================
