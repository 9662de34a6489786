----------------------------- MODULE MCLiveFeed -----------------------------
(***************************************************************************)
(* A small instance of LiveFeed: the run finds one session that comes,     *)
(* changes and goes, and anomalies that come and go; an upload publishes a *)
(* row and an anomaly that the run does not have.                          *)
(***************************************************************************)
EXTENDS LiveFeed

CONSTANTS a, b, c, d, u

MCFingerprint == [x \in Doc |-> x]
MCUploadDocs == [x \in Upload |-> [i \in Id |-> IF i = b THEN 1 ELSE NoDoc]]
MCUploadEvents == [x \in Upload |-> {d}]
MCFinds == {r \in [Id -> Doc \cup {NoDoc}] : r[b] = NoDoc}

\* Bounds: the calls of _publish at one time, the pages that leave, and the
\* anomalies of the run, which are not followed further once it finds the upload's.
FewAtOnce == /\ d \notin events
             /\ Cardinality({p \in Publisher : post[p].on}) <= 2
             /\ Cardinality({s \in Socket : link[s] \in {"gone", "lost"}}) <= 1

SocketSymmetry == Permutations(Socket)
=============================================================================
