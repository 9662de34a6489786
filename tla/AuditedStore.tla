---------------------------- MODULE AuditedStore ----------------------------
(***************************************************************************)
(* What the job store promises (README.md:83-87, api/store.py:60-64): the  *)
(* record of a job and the audit history move together.  Storing an        *)
(* analysis makes it the job's current record and the newest entry of the  *)
(* job's history; forgetting a job drops the record and keeps the history. *)
(* The record is what the store leaves of the analysis (Keeps).            *)
(*                                                                         *)
(* The specification says nothing of tables, transactions, files, requests *)
(* or hashes: Requests implements it under the mapping given there.        *)
(***************************************************************************)
EXTENDS Naturals, Sequences

CONSTANTS Job,         \* job identifiers
          Nothing,     \* what a job without a record holds
          Keeps(_, _)  \* Keeps(a, c): record c is what storing analysis a leaves

VARIABLES current, \* current[j]: the analysis stored for job j, or Nothing
          history  \* every analysis ever stored, oldest first

vars == <<current, history>>

Init == /\ current = [j \in Job |-> Nothing]
        /\ history = <<>>

\* The newest entry of j in h is analysis a: storing a again adds nothing.
IsNewest(h, j, a) ==
    \E i \in DOMAIN h : /\ h[i] = [job |-> j, analysis |-> a]
                        /\ \A k \in DOMAIN h : h[k].job = j => k <= i

\* Store an analysis of j; which one is read off the next state.
Record(j) ==
    /\ current'[j] # Nothing
    /\ current' = [current EXCEPT ![j] = current'[j]]
    /\ \E a \in {history'[i].analysis : i \in DOMAIN history'} :
        /\ Keeps(a, current'[j])
        /\ history' = IF IsNewest(history, j, a) THEN history
                      ELSE Append(history, [job |-> j, analysis |-> a])

Forget(j) ==
    /\ current[j] # Nothing
    /\ current' = [current EXCEPT ![j] = Nothing]
    /\ UNCHANGED history

Next == \E j \in Job : Record(j) \/ Forget(j)

Spec == Init /\ [][Next]_vars
=============================================================================
