------------------------------ MODULE LiveFeed ------------------------------
(***************************************************************************)
(* What a live run tells its subscribers over /ws/live.  Each tick         *)
(* analyses a longer capture and publishes only the difference from the    *)
(* tick before it; a console applies what it is sent to the rows it shows. *)
(* Publishing awaits every message to every socket in turn, so the batches *)
(* of the run, of live_start and of the uploads interleave, and sockets    *)
(* come and go between any two messages.                                   *)
(*                                                                         *)
(* A console here shows what it has been sent: the messages of one         *)
(* connection arrive in order, so what is still under way only delays it.  *)
(* What a status message says is left out: no row of a page depends on it. *)
(***************************************************************************)
EXTENDS Naturals, Sequences, FiniteSets, SequencesExt

CONSTANTS Socket,       \* connections to /ws/live
          Id,           \* session ids
          Event,        \* anomaly ids; an id covers what the anomaly says
          Doc,          \* what a session document can say
          NoDoc,        \* no row
          Fingerprint,  \* risk score, packet count, predicted type of a document
          Upload,       \* uploads that publish what they found meanwhile
          UploadDocs,   \* the rows each of them publishes
          UploadEvents, \* the anomalies each of them publishes
          Finds,        \* the rows an analysis of the run may have
          MaxTicks      \* bound: ticks of the run

ASSUME FeedAssumption ==
    /\ IsFiniteSet(Id) /\ IsFiniteSet(Event)
    /\ NoDoc \notin Doc
    /\ Fingerprint \in [Doc -> Nat \ {NoDoc}]
    /\ UploadDocs \in [Upload -> [Id -> Doc \cup {NoDoc}]]
    /\ UploadEvents \in [Upload -> SUBSET Event]
    /\ Finds \subseteq [Id -> Doc \cup {NoDoc}]
    /\ MaxTicks \in Nat
    /\ Upload \cap {"run", "start"} = {}

Publisher == Upload \cup {"run", "start"}
Rows == [Id -> Doc \cup {NoDoc}]

VARIABLES link,         \* each socket: where live_socket is with it
          subscribers,  \* _subscribers
          console,      \* useLive: what each page shows
          complete,     \* history: pages that heard every tick and cleared nothing
          state,        \* the status of the run
          found,        \* the rows of the newest analysis of the run
          events,       \* its anomaly ids
          seen,         \* _seen_sessions
          seenEvents,   \* _seen_events
          ticks,
          uploaded,     \* the uploads that have been stored
          post          \* each publisher: its call of _publish

runVars == <<state, found, events, seen, seenEvents, ticks, uploaded>>
vars == <<link, subscribers, console, complete, runVars, post>>

NoRows == [i \in Id |-> NoDoc]
Blank == [sessions |-> NoRows, anomalies |-> {}]
Quiet == [on |-> FALSE, todo |-> {}, at |-> {}, left |-> <<>>, batch |-> <<>>, dead |-> {}]

Init == /\ link = [s \in Socket |-> "new"]
        /\ subscribers = {}
        /\ console = [s \in Socket |-> Blank]
        /\ complete = {}
        /\ state = "idle"
        /\ found = NoRows
        /\ events = {}
        /\ seen = NoRows
        /\ seenEvents = {}
        /\ ticks = 0
        /\ uploaded = {}
        /\ post = [p \in Publisher |-> Quiet]
-----------------------------------------------------------------------------
(* The messages, and what a page does with one *)

SessionMessage(i, doc) == [type |-> "session", id |-> i, doc |-> doc]
SessionRemoved(i)      == [type |-> "session_removed", id |-> i]
AnomalyMessage(e)      == [type |-> "anomaly", id |-> e]
AnomalyRemoved(e)      == [type |-> "anomaly_removed", id |-> e]
StatusMessage          == [type |-> "live"]

\* One message for each member of S, in any one order: their ids differ.
EachOf(S, Message(_)) == LET order == SetToSeq(S)
                         IN  [k \in 1..Len(order) |-> Message(order[k])]

Shown(page, m) ==
    CASE m.type = "session" -> [page EXCEPT !.sessions[m.id] = m.doc]
      [] m.type = "session_removed" -> [page EXCEPT !.sessions[m.id] = NoDoc]
      [] m.type = "anomaly" -> [page EXCEPT !.anomalies = @ \cup {m.id}]
      [] m.type = "anomaly_removed" -> [page EXCEPT !.anomalies = @ \ {m.id}]
      [] m.type = "live" -> page
-----------------------------------------------------------------------------
(* Subscribers *)

\* live_socket subscribes the socket, and then sends it the status of the run,
\* which says nothing of the rows.
Connect(s) ==
    /\ link[s] = "new"
    /\ link' = [link EXCEPT ![s] = "open"]
    /\ subscribers' = subscribers \cup {s}
    /\ complete' = IF ticks = 0 THEN complete \cup {s} ELSE complete
    /\ UNCHANGED <<console, runVars, post>>

\* The page is closed.  If that fails the send of the status, live_socket is not
\* in its try yet, and only a publisher that fails on the socket will drop it.
Leave(s) ==
    /\ link[s] = "open"
    /\ \E how \in {"gone", "lost"} : link' = [link EXCEPT ![s] = how]
    /\ UNCHANGED <<subscribers, console, complete, runVars, post>>

Unsubscribe(s) ==
    /\ link[s] = "gone"
    /\ link' = [link EXCEPT ![s] = "lost"]
    /\ subscribers' = subscribers \ {s}
    /\ UNCHANGED <<console, complete, runVars, post>>

\* The Clear button, and the start button before it posts.
Clear(s) ==
    /\ link[s] = "open"
    /\ console[s].sessions # NoRows \/ console[s].anomalies # {}
    /\ console' = [console EXCEPT ![s].sessions = NoRows, ![s].anomalies = {}]
    /\ complete' = complete \ {s}
    /\ UNCHANGED <<link, subscribers, runVars, post>>
-----------------------------------------------------------------------------
(* Publishing *)

\* _publish takes the sockets there are; it returns at once if there are none.
Publish(p, batch) ==
    post' = IF subscribers = {} \/ batch = <<>> THEN post
            ELSE [post EXCEPT ![p] = [Quiet EXCEPT !.on = TRUE, !.todo = subscribers,
                                                   !.batch = batch]]

\* s is the socket p is sending to, or one of those it has not come to yet.
AtHand(p, s) == /\ post[p].on
                /\ s \in IF post[p].at = {} THEN post[p].todo ELSE post[p].at

\* The next message to the socket at hand, or the first to another one.
Send(p, s) ==
    LET me == post[p]
        left == IF me.at = {s} THEN me.left ELSE me.batch
    IN  /\ AtHand(p, s) /\ link[s] = "open"
        /\ console' = [console EXCEPT ![s] = Shown(console[s], Head(left))]
        /\ post' = [post EXCEPT ![p].todo = @ \ {s},
                                ![p].at = IF Len(left) = 1 THEN {} ELSE {s},
                                ![p].left = Tail(left)]
        /\ UNCHANGED <<link, subscribers, complete, runVars>>

\* Mutant of SendFails: the first socket that fails ends the whole call.
SendFailsForAll(p, s) ==
    /\ AtHand(p, s) /\ link[s] # "open"
    /\ post' = [post EXCEPT ![p].todo = {}, ![p].at = {}, ![p].left = <<>>,
                            ![p].dead = @ \cup {s}]
    /\ UNCHANGED <<link, subscribers, console, complete, runVars>>

\* A send to a socket that has gone raises: the rest of its batch is skipped.
SendFails(p, s) ==
    /\ AtHand(p, s) /\ link[s] # "open"
    /\ post' = [post EXCEPT ![p].todo = @ \ {s}, ![p].at = {}, ![p].left = <<>>,
                            ![p].dead = @ \cup {s}]
    /\ UNCHANGED <<link, subscribers, console, complete, runVars>>

Published(p) ==
    /\ post[p].on /\ post[p].at = {} /\ post[p].todo = {}
    /\ subscribers' = subscribers \ post[p].dead
    /\ post' = [post EXCEPT ![p] = Quiet]
    /\ UNCHANGED <<link, console, complete, runVars>>
-----------------------------------------------------------------------------
(* The publishers *)

\* live_start publishes the status of the run it has started; its loop runs on.
Start ==
    /\ state = "idle"
    /\ state' = "running"
    /\ Publish("start", <<StatusMessage>>)
    /\ UNCHANGED <<link, subscribers, console, complete,
                   found, events, seen, seenEvents, ticks, uploaded>>

PrintOf(doc) == IF doc = NoDoc THEN NoDoc ELSE Fingerprint[doc]
\* The sessions whose fingerprint the tick has not published before.
Changed(rows) == {i \in Id : rows[i] # NoDoc /\ seen[i] # PrintOf(rows[i])}
\* The ids the tick's analysis no longer has.
Gone(rows) == {i \in Id : seen[i] # NoDoc /\ rows[i] = NoDoc}

\* Mutant of SeenAfter: an id is not forgotten when it is retracted.
SeenForever(rows) ==
    [i \in Id |-> IF rows[i] = NoDoc THEN seen[i] ELSE PrintOf(rows[i])]

SeenAfter(rows) == [i \in Id |-> PrintOf(rows[i])]

\* Mutant of TickMessages: superseded anomalies are not retracted.
TickMessagesKeepAnomalies(rows, found_events) ==
    LET Row(i) == SessionMessage(i, rows[i])
    IN  EachOf(Gone(rows), SessionRemoved)
        \o EachOf(Changed(rows), Row)
        \o EachOf(found_events \ seenEvents, AnomalyMessage)
        \o <<StatusMessage>>

TickMessages(rows, found_events) ==
    LET Row(i) == SessionMessage(i, rows[i])
    IN  EachOf(Gone(rows), SessionRemoved)
        \o EachOf(seenEvents \ found_events, AnomalyRemoved)
        \o EachOf(Changed(rows), Row)
        \o EachOf(found_events \ seenEvents, AnomalyMessage)
        \o <<StatusMessage>>

\* One tick: the analysis of a longer capture may say anything about any id.
Tick ==
    /\ state = "running" /\ ~post["run"].on /\ ticks < MaxTicks
    /\ \E rows \in Finds, found_events \in SUBSET Event :
          /\ found' = rows
          /\ events' = found_events
          /\ seen' = SeenAfter(rows)
          /\ seenEvents' = found_events
          /\ Publish("run", TickMessages(rows, found_events))
    /\ ticks' = ticks + 1
    /\ UNCHANGED <<link, subscribers, console, complete, state, uploaded>>

Finish ==
    /\ state = "running" /\ ~post["run"].on
    /\ \E over \in {"stopped", "error"} :
          state' = over /\ Publish("run", <<StatusMessage>>)
    /\ UNCHANGED <<link, subscribers, console, complete,
                   found, events, seen, seenEvents, ticks, uploaded>>

\* An upload publishes all it found, sessions and anomalies, once it is stored.
UploadDone(u) ==
    LET rows == UploadDocs[u]
        Row(i) == SessionMessage(i, rows[i])
    IN  /\ u \notin uploaded
        /\ uploaded' = uploaded \cup {u}
        /\ Publish(u, EachOf({i \in Id : rows[i] # NoDoc}, Row)
                       \o EachOf(UploadEvents[u], AnomalyMessage))
        /\ UNCHANGED <<link, subscribers, console, complete, state, found, events, seen,
                       seenEvents, ticks>>

Next == \/ \E s \in Socket : Connect(s) \/ Leave(s) \/ Unsubscribe(s) \/ Clear(s)
        \/ \E p \in Publisher : Published(p)
        \/ \E p \in Publisher, s \in Socket : Send(p, s) \/ SendFails(p, s)
        \/ Start \/ Tick \/ Finish
        \/ \E u \in Upload : UploadDone(u)

Spec == Init /\ [][Next]_vars
-----------------------------------------------------------------------------
(* Properties *)

\* The sessions and the anomalies that come from the run alone: what an upload
\* sends replaces or adds to the rows of a page, and nothing takes it back.
OfRun == {i \in Id : \A u \in Upload : UploadDocs[u][i] = NoDoc}
EventOfRun == {e \in Event : \A u \in Upload : e \notin UploadEvents[u]}

\* Between two ticks a page that heard them all shows the rows of the newest
\* analysis, each with its newest fingerprint, and exactly its anomalies, as far
\* as no upload has the same ids: whatever was retracted, came back, or raced
\* with an upload or a lost socket.
Mirror ==
    ~post["run"].on =>
        \A s \in complete : link[s] = "open" =>
            /\ \A i \in OfRun : PrintOf(console[s].sessions[i]) = PrintOf(found[i])
            /\ \A e \in EventOfRun : e \in console[s].anomalies <=> e \in events

\* Between two ticks no page shows a session or an anomaly of the run that its
\* newest analysis has superseded, whenever the page came and whatever it cleared.
NoGhost ==
    ~post["run"].on =>
        \A s \in Socket : link[s] = "open" =>
            /\ \A i \in OfRun : console[s].sessions[i] # NoDoc => found[i] # NoDoc
            /\ \A e \in EventOfRun : e \in console[s].anomalies => e \in events
=============================================================================
