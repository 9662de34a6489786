--------------------------- MODULE LiveFeedProofs ----------------------------
(***************************************************************************)
(* That a page at /ws/live follows the run, for any number of pages,        *)
(* sessions, anomalies, ticks and uploads: the differences a page has been  *)
(* sent, and those a _publish under way still owes it, always add up to the *)
(* newest analysis.                                                        *)
(***************************************************************************)
EXTENDS LiveFeed, FiniteSetTheorems, SequenceTheorems, TLAPS

\* What a tick says is so: every message of the run is about the newest analysis.
RunMessages ==
    {SessionMessage(i, found[i]) : i \in {x \in Id : found[x] # NoDoc}}
    \cup {SessionRemoved(i) : i \in {x \in Id : found[x] = NoDoc}}
    \cup {AnomalyMessage(e) : e \in events}
    \cup {AnomalyRemoved(e) : e \in Event \ events}
    \cup {StatusMessage}

\* What the uploads and live_start say is not about what comes from the run alone.
OtherMessages ==
    {SessionMessage(i, d) : i \in Id \ OfRun, d \in Doc}
    \cup {AnomalyMessage(e) : e \in Event \ EventOfRun}
    \cup {StatusMessage}

MessagesOf(p) == IF p = "run" THEN RunMessages ELSE OtherMessages

TellsSession(m, i) == m.type \in {"session", "session_removed"} /\ m.id = i
TellsEvent(m, e) == m.type \in {"anomaly", "anomaly_removed"} /\ m.id = e

\* The messages of the run that s has still to be sent.
Due(s) ==
    IF ~post["run"].on THEN {}
    ELSE IF post["run"].at = {s} THEN Range(post["run"].left)
    ELSE IF s \in post["run"].todo THEN Range(post["run"].batch)
    ELSE {}

Page == [sessions : Rows, anomalies : SUBSET Event]

TypesOK ==
    /\ link \in [Socket -> {"new", "open", "gone", "lost"}]
    /\ subscribers \subseteq Socket
    /\ console \in [Socket -> Page]
    /\ complete \subseteq Socket
    /\ found \in Rows
    /\ events \subseteq Event
    /\ ticks \in Nat

\* The run remembers what it has published, and has found nothing before its first tick.
RunRemembers ==
    /\ seen = SeenAfter(found)
    /\ seenEvents = events
    /\ ticks = 0 => found = NoRows /\ events = {}

Call(T) == [on : BOOLEAN, todo : SUBSET Socket, at : SUBSET Socket,
            left : Seq(T), batch : Seq(T), dead : SUBSET Socket]

\* A call of _publish sends what its publisher may say, to each socket once.
CallOK(p) ==
    LET me == post[p]
    IN  /\ me \in Call(MessagesOf(p))
        /\ IF me.on THEN me.batch # <<>> ELSE me = Quiet
        /\ me.at # {} => \E s \in Socket \ me.todo : me.at = {s} /\ me.left # <<>>

PostOK == post = [p \in Publisher |-> post[p]] /\ \A p \in Publisher : CallOK(p)

\* A page that is open is subscribed and given up by nobody; one that is not open
\* yet shows nothing and nobody sends to it.
SocketsOK ==
    \A s \in Socket :
        /\ link[s] = "open" => s \in subscribers
        /\ link[s] \in {"new", "open"} => \A p \in Publisher : s \notin post[p].dead
        /\ link[s] = "new" =>
             /\ console[s] = Blank /\ s \notin subscribers /\ s \notin complete
             /\ \A p \in Publisher : s \notin post[p].todo /\ s \notin post[p].at

\* What s shows of session i, or of anomaly e, is what the newest analysis says:
\* all of it if s has heard every tick, else no more than that.
ShowsSession(s, i) ==
    /\ console[s].sessions[i] # NoDoc => found[i] # NoDoc
    /\ s \in complete => PrintOf(console[s].sessions[i]) = PrintOf(found[i])
ShowsEvent(s, e) ==
    /\ e \in console[s].anomalies => e \in events
    /\ s \in complete /\ e \in events => e \in console[s].anomalies

\* Whatever an open page does not show rightly, it is still to be told.
Follows(s) ==
    /\ \A i \in OfRun : ShowsSession(s, i) \/ \E m \in Due(s) : TellsSession(m, i)
    /\ \A e \in EventOfRun : ShowsEvent(s, e) \/ \E m \in Due(s) : TellsEvent(m, e)

AllFollow == \A s \in Socket : link[s] = "open" => Follows(s)

FeedInv == TypesOK /\ RunRemembers /\ PostOK /\ SocketsOK /\ AllFollow
-----------------------------------------------------------------------------
(* Lists of messages *)

\* SetToSeq lists every member of a finite set.
LEMMA SeqOfSet ==
    ASSUME NEW S, IsFiniteSet(S)
    PROVE  /\ Len(SetToSeq(S)) \in Nat
           /\ \A k \in 1..Len(SetToSeq(S)) : SetToSeq(S)[k] \in S
           /\ \A x \in S : \E k \in 1..Len(SetToSeq(S)) : SetToSeq(S)[k] = x
<1> DEFINE n == Cardinality(S)
           order == SetToSeq(S)
<1>1. n \in Nat /\ ExistsBijection(1..n, S)
  BY FS_CardinalityType
<1>2. \E f \in [1..n -> S] : IsInjective(f)
  BY <1>1 DEF ExistsBijection, Bijection, Injection, IsInjective
<1>3. order \in [1..n -> S] /\ IsInjective(order)
  BY <1>2 DEF SetToSeq
<1>4. Len(order) = n
  BY <1>1, <1>3
<1>5. order \in Injection(1..n, S)
  BY <1>3 DEF Injection, IsInjective
<1>6. Cardinality(1..n) = n
  BY <1>1, FS_CountingElements, FS_Interval
<1>7. order \in Surjection(1..n, S)
  BY <1>5, <1>6, FS_Injection
<1> QED
  BY <1>1, <1>3, <1>4, <1>7 DEF Surjection

LEMMA JoinLists ==
    ASSUME NEW T, NEW a \in Seq(T), NEW b \in Seq(T)
    PROVE  a \o b \in Seq(T) /\ Range(a \o b) = Range(a) \cup Range(b)
BY ConcatProperties, RangeConcatenation

\* Sending the head of a list leaves the rest of it.
LEMMA HeadLeaves ==
    ASSUME NEW T, NEW left \in Seq(T), left # <<>>
    PROVE  /\ Head(left) \in T /\ Tail(left) \in Seq(T)
           /\ Range(left) = {Head(left)} \cup Range(Tail(left))
           /\ Len(left) = 1 <=> Tail(left) = <<>>
<1> DEFINE n == Len(left)
           rest == Tail(left)
<1>1. n \in Nat /\ DOMAIN left = 1..n /\ n >= 1 /\ Head(left) = left[1]
  BY LenProperties, EmptySeq
<1>2. /\ Head(left) \in T /\ rest \in Seq(T) /\ Len(rest) = n - 1
      /\ \A i \in 1..(n - 1) : rest[i] = left[i + 1]
  BY HeadTailProperties
<1>3. DOMAIN rest = 1..(n - 1)
  BY <1>2, LenProperties
<1>4. Range(left) = {Head(left)} \cup Range(rest)
  <2>1. ASSUME NEW i \in 1..n PROVE left[i] \in {Head(left)} \cup Range(rest)
    <3>1. CASE i = 1
      BY <1>1, <3>1
    <3>2. CASE i # 1
      <4>1. i - 1 \in 1..(n - 1) /\ rest[i - 1] = left[i]
        BY <1>1, <1>2, <3>2
      <4> QED
        BY <1>3, <4>1 DEF Range
    <3> QED
      BY <3>1, <3>2
  <2>2. ASSUME NEW i \in 1..(n - 1) PROVE rest[i] \in Range(left)
    BY <1>1, <1>2 DEF Range
  <2>3. Head(left) \in Range(left)
    BY <1>1 DEF Range
  <2> QED
    BY <1>1, <1>3, <2>1, <2>2, <2>3 DEF Range
<1>5. n = 1 <=> rest = <<>>
  <2> HIDE DEF n, rest
  <2>1. Len(rest) = 0 <=> rest = <<>>
    BY <1>2, EmptySeq
  <2> QED
    BY <1>1, <1>2, <2>1
<1> QED
  BY <1>2, <1>4, <1>5

LEMMA EmptyHasNone == Range(<<>>) = {}
BY DEF Range

LEMMA OneMessage ==
    ASSUME NEW T, NEW m \in T
    PROVE  <<m>> \in Seq(T) /\ <<m>> # <<>> /\ Range(<<m>>) = {m}
BY DEF Range
-----------------------------------------------------------------------------
(* What a page does with a message *)

LEMMA ShownCases ==
    ASSUME NEW page, NEW i, NEW d
    PROVE  /\ Shown(page, SessionMessage(i, d)) = [page EXCEPT !.sessions[i] = d]
           /\ Shown(page, SessionRemoved(i)) = [page EXCEPT !.sessions[i] = NoDoc]
           /\ Shown(page, AnomalyMessage(i)) = [page EXCEPT !.anomalies = @ \cup {i}]
           /\ Shown(page, AnomalyRemoved(i)) = [page EXCEPT !.anomalies = @ \ {i}]
           /\ Shown(page, StatusMessage) = page
BY DEF Shown, SessionMessage, SessionRemoved, AnomalyMessage, AnomalyRemoved, StatusMessage

LEMMA TellCases ==
    ASSUME NEW i, NEW d, NEW k
    PROVE  /\ TellsSession(SessionMessage(i, d), k) <=> k = i
           /\ TellsSession(SessionRemoved(i), k) <=> k = i
           /\ TellsEvent(AnomalyMessage(i), k) <=> k = i
           /\ TellsEvent(AnomalyRemoved(i), k) <=> k = i
           /\ ~TellsEvent(SessionMessage(i, d), k) /\ ~TellsEvent(SessionRemoved(i), k)
           /\ ~TellsSession(AnomalyMessage(i), k) /\ ~TellsSession(AnomalyRemoved(i), k)
           /\ ~TellsSession(StatusMessage, k) /\ ~TellsEvent(StatusMessage, k)
BY DEF TellsSession, TellsEvent, SessionMessage, SessionRemoved, AnomalyMessage,
       AnomalyRemoved, StatusMessage

\* A message of the run makes the page right about what it tells, and about no more.
LEMMA RunTold ==
    ASSUME found \in Rows, events \subseteq Event, NEW page \in Page, NEW m \in RunMessages,
           NEW after, after = Shown(page, m)
    PROVE  /\ after \in Page
           /\ \A i \in Id : after.sessions[i] = IF TellsSession(m, i) THEN found[i]
                                                ELSE page.sessions[i]
           /\ \A e \in Event : e \in after.anomalies <=>
                                  IF TellsEvent(m, e) THEN e \in events
                                  ELSE e \in page.anomalies
<1> DEFINE Goal == /\ after \in Page
                   /\ \A i \in Id : after.sessions[i] = IF TellsSession(m, i) THEN found[i]
                                                        ELSE page.sessions[i]
                   /\ \A e \in Event : e \in after.anomalies <=>
                                          IF TellsEvent(m, e) THEN e \in events
                                          ELSE e \in page.anomalies
<1>1. ASSUME NEW i \in Id, m = SessionMessage(i, found[i]) PROVE Goal
  <2>1. after = [page EXCEPT !.sessions[i] = found[i]]
    BY <1>1, ShownCases
  <2>2. \A k : (TellsSession(m, k) <=> k = i) /\ ~TellsEvent(m, k)
    BY <1>1, TellCases
  <2> QED
    BY <2>1, <2>2 DEF Page, Rows
<1>2. ASSUME NEW i \in Id, m = SessionRemoved(i), found[i] = NoDoc PROVE Goal
  <2>1. after = [page EXCEPT !.sessions[i] = NoDoc]
    BY <1>2, ShownCases
  <2>2. \A k : (TellsSession(m, k) <=> k = i) /\ ~TellsEvent(m, k)
    BY <1>2, TellCases
  <2> QED
    BY <1>2, <2>1, <2>2 DEF Page, Rows
<1>3. ASSUME NEW e \in events, m = AnomalyMessage(e) PROVE Goal
  <2>1. after = [page EXCEPT !.anomalies = @ \cup {e}]
    BY <1>3, ShownCases
  <2>2. \A k : (TellsEvent(m, k) <=> k = e) /\ ~TellsSession(m, k)
    BY <1>3, TellCases
  <2> QED
    BY <2>1, <2>2 DEF Page, Rows
<1>4. ASSUME NEW e \in Event \ events, m = AnomalyRemoved(e) PROVE Goal
  <2>1. after = [page EXCEPT !.anomalies = @ \ {e}]
    BY <1>4, ShownCases
  <2>2. \A k : (TellsEvent(m, k) <=> k = e) /\ ~TellsSession(m, k)
    BY <1>4, TellCases
  <2> QED
    BY <2>1, <2>2 DEF Page, Rows
<1>5. ASSUME m = StatusMessage PROVE Goal
  <2>1. after = page
    BY <1>5, ShownCases
  <2>2. \A k : ~TellsEvent(m, k) /\ ~TellsSession(m, k)
    BY <1>5, TellCases
  <2> QED
    BY <2>1, <2>2 DEF Page, Rows
<1>6. \/ \E i \in Id : m = SessionMessage(i, found[i])
      \/ \E i \in Id : m = SessionRemoved(i) /\ found[i] = NoDoc
      \/ \E e \in events : m = AnomalyMessage(e)
      \/ \E e \in Event \ events : m = AnomalyRemoved(e)
      \/ m = StatusMessage
  BY DEF RunMessages
<1> HIDE DEF Goal
<1>7. Goal
  BY <1>1, <1>2, <1>3, <1>4, <1>5, <1>6
<1> QED
  BY <1>7 DEF Goal

\* A message of another publisher shows nothing of the run.
LEMMA OtherTold ==
    ASSUME NEW page \in Page, NEW m \in OtherMessages, NEW after, after = Shown(page, m)
    PROVE  /\ after \in Page
           /\ \A i \in OfRun : after.sessions[i] = page.sessions[i]
           /\ \A e \in EventOfRun : e \in after.anomalies <=> e \in page.anomalies
<1>1. CASE \E i \in Id \ OfRun, d \in Doc : m = SessionMessage(i, d)
  <2>1. PICK i \in Id \ OfRun, d \in Doc : m = SessionMessage(i, d)
    BY <1>1
  <2>2. after = [page EXCEPT !.sessions[i] = d]
    BY <2>1, ShownCases
  <2>3. OfRun \subseteq Id
    BY DEF OfRun
  <2> QED
    BY <2>1, <2>2, <2>3 DEF Page, Rows
<1>2. CASE m = StatusMessage
  <2>1. after = page
    BY <1>2, ShownCases
  <2> QED
    BY <2>1
<1>3. CASE \E e \in Event \ EventOfRun : m = AnomalyMessage(e)
  <2>1. PICK e \in Event \ EventOfRun : m = AnomalyMessage(e)
    BY <1>3
  <2>2. after = [page EXCEPT !.anomalies = @ \cup {e}]
    BY <2>1, ShownCases
  <2>3. EventOfRun \subseteq Event
    BY DEF EventOfRun
  <2> QED
    BY <2>1, <2>2, <2>3 DEF Page
<1> QED
  BY <1>1, <1>2, <1>3 DEF OtherMessages
-----------------------------------------------------------------------------
(* What a tick sends *)

\* The messages of a tick are all about its analysis, and leave out nothing that
\* differs from the one before.
LEMMA TickTells ==
    ASSUME RunRemembers, found \in Rows, events \subseteq Event,
           found' \in Rows, events' \subseteq Event,
           NEW msgs, msgs = TickMessages(found', events')
    PROVE  /\ msgs \in Seq(RunMessages') /\ msgs # <<>>
           /\ \A i \in Id : \/ found[i] = NoDoc /\ found'[i] = NoDoc
                            \/ PrintOf(found[i]) = PrintOf(found'[i]) /\ found'[i] # NoDoc
                            \/ \E m \in Range(msgs) : TellsSession(m, i)
           /\ \A e \in Event : \/ e \in events <=> e \in events'
                               \/ \E m \in Range(msgs) : TellsEvent(m, e)
<1> DEFINE rows == found'
           T == RunMessages'
           gone == EachOf(Gone(rows), SessionRemoved)
           over == EachOf(seenEvents \ events', AnomalyRemoved)
           Row(i) == SessionMessage(i, rows[i])
           changed == EachOf(Changed(rows), Row)
           new == EachOf(events' \ seenEvents, AnomalyMessage)
           status == <<StatusMessage>>
<1>1. /\ IsFiniteSet(Gone(rows)) /\ IsFiniteSet(Changed(rows))
      /\ IsFiniteSet(seenEvents \ events') /\ IsFiniteSet(events' \ seenEvents)
  <2>1. IsFiniteSet(Id) /\ IsFiniteSet(Event)
    BY FeedAssumption
  <2>2. /\ Gone(rows) \subseteq Id /\ Changed(rows) \subseteq Id
        /\ seenEvents \ events' \subseteq Event /\ events' \ seenEvents \subseteq Event
    BY DEF Gone, Changed, RunRemembers
  <2> QED
    BY <2>1, <2>2, FS_Subset
<1>2. gone \in Seq(T) /\ \A i \in Gone(rows) : SessionRemoved(i) \in Range(gone)
  <2> DEFINE S == Gone(rows)
             order == SetToSeq(S)
             n == Len(order)
  <2>1. \A i \in S : SessionRemoved(i) \in T
    BY DEF Gone, RunMessages
  <2>2. /\ n \in Nat /\ \A k \in 1..n : order[k] \in S
        /\ \A x \in S : \E k \in 1..n : order[k] = x
    BY <1>1, SeqOfSet
  <2>3. gone = [k \in 1..n |-> SessionRemoved(order[k])]
    BY DEF EachOf
  <2> HIDE DEF S, order, n, gone, T
  <2>4. gone \in [1..n -> T]
    BY <2>1, <2>2, <2>3
  <2>5. gone \in Seq(T)
    BY <2>2, <2>4
  <2>6. ASSUME NEW i \in S PROVE SessionRemoved(i) \in Range(gone)
    <3>1. PICK k \in 1..n : order[k] = i
      BY <2>2
    <3>2. k \in DOMAIN gone /\ gone[k] = SessionRemoved(i)
      BY <2>3, <3>1
    <3> QED
      BY <3>2 DEF Range
  <2> QED
    BY <2>5, <2>6 DEF S
<1>3. over \in Seq(T) /\ \A e \in seenEvents \ events' : AnomalyRemoved(e) \in Range(over)
  <2> DEFINE S == seenEvents \ events'
             order == SetToSeq(S)
             n == Len(order)
  <2>1. \A e \in S : AnomalyRemoved(e) \in T
    BY DEF RunRemembers, RunMessages
  <2>2. /\ n \in Nat /\ \A k \in 1..n : order[k] \in S
        /\ \A x \in S : \E k \in 1..n : order[k] = x
    BY <1>1, SeqOfSet
  <2>3. over = [k \in 1..n |-> AnomalyRemoved(order[k])]
    BY DEF EachOf
  <2> HIDE DEF S, order, n, over, T
  <2>4. over \in [1..n -> T]
    BY <2>1, <2>2, <2>3
  <2>5. over \in Seq(T)
    BY <2>2, <2>4
  <2>6. ASSUME NEW e \in S PROVE AnomalyRemoved(e) \in Range(over)
    <3>1. PICK k \in 1..n : order[k] = e
      BY <2>2
    <3>2. k \in DOMAIN over /\ over[k] = AnomalyRemoved(e)
      BY <2>3, <3>1
    <3> QED
      BY <3>2 DEF Range
  <2> QED
    BY <2>5, <2>6 DEF S
<1>4. changed \in Seq(T) /\ \A i \in Changed(rows) : SessionMessage(i, rows[i]) \in Range(changed)
  <2> DEFINE S == Changed(rows)
             order == SetToSeq(S)
             n == Len(order)
  <2>1. \A i \in S : SessionMessage(i, rows[i]) \in T
    BY DEF Changed, RunMessages
  <2>2. /\ n \in Nat /\ \A k \in 1..n : order[k] \in S
        /\ \A x \in S : \E k \in 1..n : order[k] = x
    BY <1>1, SeqOfSet
  <2>3. changed = [k \in 1..n |-> SessionMessage(order[k], rows[order[k]])]
    BY DEF EachOf
  <2> HIDE DEF S, order, n, changed, T
  <2>4. changed \in [1..n -> T]
    BY <2>1, <2>2, <2>3
  <2>5. changed \in Seq(T)
    BY <2>2, <2>4
  <2>6. ASSUME NEW i \in S PROVE SessionMessage(i, rows[i]) \in Range(changed)
    <3>1. PICK k \in 1..n : order[k] = i
      BY <2>2
    <3>2. k \in DOMAIN changed /\ changed[k] = SessionMessage(i, rows[i])
      BY <2>3, <3>1
    <3> QED
      BY <3>2 DEF Range
  <2> QED
    BY <2>5, <2>6 DEF S
<1>5. new \in Seq(T) /\ \A e \in events' \ seenEvents : AnomalyMessage(e) \in Range(new)
  <2> DEFINE S == events' \ seenEvents
             order == SetToSeq(S)
             n == Len(order)
  <2>1. \A e \in S : AnomalyMessage(e) \in T
    BY DEF RunMessages
  <2>2. /\ n \in Nat /\ \A k \in 1..n : order[k] \in S
        /\ \A x \in S : \E k \in 1..n : order[k] = x
    BY <1>1, SeqOfSet
  <2>3. new = [k \in 1..n |-> AnomalyMessage(order[k])]
    BY DEF EachOf
  <2> HIDE DEF S, order, n, new, T
  <2>4. new \in [1..n -> T]
    BY <2>1, <2>2, <2>3
  <2>5. new \in Seq(T)
    BY <2>2, <2>4
  <2>6. ASSUME NEW e \in S PROVE AnomalyMessage(e) \in Range(new)
    <3>1. PICK k \in 1..n : order[k] = e
      BY <2>2
    <3>2. k \in DOMAIN new /\ new[k] = AnomalyMessage(e)
      BY <2>3, <3>1
    <3> QED
      BY <3>2 DEF Range
  <2> QED
    BY <2>5, <2>6 DEF S
<1>6. status \in Seq(T) /\ status # <<>> /\ Range(status) = {StatusMessage}
  <2>1. StatusMessage \in T
    BY DEF RunMessages
  <2> QED
    BY <2>1, OneMessage
<1> DEFINE two == gone \o over
           three == two \o changed
           four == three \o new
<1>7. msgs = four \o status
  BY DEF TickMessages
<1> HIDE DEF gone, over, changed, new, T, status
<1>8. two \in Seq(T) /\ Range(two) = Range(gone) \cup Range(over)
  BY <1>2, <1>3, JoinLists
<1> HIDE DEF two
<1>9. three \in Seq(T) /\ Range(three) = Range(two) \cup Range(changed)
  BY <1>4, <1>8, JoinLists
<1> HIDE DEF three
<1>10. four \in Seq(T) /\ Range(four) = Range(three) \cup Range(new)
  BY <1>5, <1>9, JoinLists
<1> HIDE DEF four
<1>11. msgs \in Seq(T) /\ Range(msgs) = Range(four) \cup {StatusMessage}
  BY <1>6, <1>7, <1>10, JoinLists
<1>12. msgs # <<>>
  BY <1>11, EmptyHasNone
<1>13. ASSUME NEW i \in Id
       PROVE  \/ found[i] = NoDoc /\ rows[i] = NoDoc
              \/ PrintOf(found[i]) = PrintOf(rows[i]) /\ rows[i] # NoDoc
              \/ \E m \in Range(msgs) : TellsSession(m, i)
  <2>1. seen[i] = PrintOf(found[i]) /\ (found[i] # NoDoc => PrintOf(found[i]) # NoDoc)
    BY FeedAssumption DEF RunRemembers, SeenAfter, PrintOf, Rows
  <2>2. CASE i \in Gone(rows)
    <3>1. SessionRemoved(i) \in Range(msgs)
      BY <1>2, <1>8, <1>9, <1>10, <1>11, <2>2
    <3> QED
      BY <3>1, TellCases
  <2>3. CASE i \in Changed(rows)
    <3>1. SessionMessage(i, rows[i]) \in Range(msgs)
      BY <1>4, <1>9, <1>10, <1>11, <2>3
    <3> QED
      BY <3>1, TellCases
  <2>4. CASE i \notin Gone(rows) /\ i \notin Changed(rows)
    <3>1. PrintOf(NoDoc) = NoDoc
      BY DEF PrintOf
    <3> QED
      BY <2>1, <2>4, <3>1 DEF Gone, Changed
  <2> QED
    BY <2>2, <2>3, <2>4
<1>14. ASSUME NEW e \in Event
       PROVE  \/ e \in events <=> e \in events'
              \/ \E m \in Range(msgs) : TellsEvent(m, e)
  <2>1. CASE e \in seenEvents \ events'
    <3>1. AnomalyRemoved(e) \in Range(msgs)
      BY <1>3, <1>8, <1>9, <1>10, <1>11, <2>1
    <3> QED
      BY <3>1, TellCases
  <2>2. CASE e \in events' \ seenEvents
    <3>1. AnomalyMessage(e) \in Range(msgs)
      BY <1>5, <1>10, <1>11, <2>2
    <3> QED
      BY <3>1, TellCases
  <2> QED
    BY <2>1, <2>2 DEF RunRemembers
<1> QED
  BY <1>11, <1>12, <1>13, <1>14 DEF T
-----------------------------------------------------------------------------
(* The invariant, step by step *)

LEMMA QuietIsCall ==
    ASSUME NEW T
    PROVE  Quiet \in Call(T) /\ ~Quiet.on /\ Quiet.at = {} /\ Quiet.todo = {} /\ Quiet.dead = {}
BY DEF Quiet, Call

\* While the analysis stands, what may be said of it stays the same.
LEMMA SameMessages ==
    ASSUME UNCHANGED <<found, events>> PROVE \A p : MessagesOf(p)' = MessagesOf(p)
BY DEF MessagesOf, RunMessages, OtherMessages, OfRun, EventOfRun

LEMMA PostKept ==
    ASSUME PostOK, UNCHANGED <<post, found, events>>
    PROVE  PostOK' /\ \A s : Due(s)' = Due(s)
BY SameMessages DEF PostOK, CallOK, Due

LEMMA KeepsFollowing ==
    ASSUME NEW s \in Socket, Follows(s), UNCHANGED <<found, events>>,
           console'[s] = console[s], Due(s)' = Due(s), s \in complete' => s \in complete
    PROVE  Follows(s)'
BY DEF Follows, ShowsSession, ShowsEvent

\* A socket that opens hears all from now on, and has missed nothing if the run has
\* not ticked yet.
LEMMA ConnectFeed == ASSUME FeedInv, NEW s \in Socket, Connect(s) PROVE FeedInv'
<1> USE DEF FeedInv
<1>1. /\ link[s] = "new" /\ link' = [link EXCEPT ![s] = "open"]
      /\ subscribers' = subscribers \cup {s}
      /\ complete' = IF ticks = 0 THEN complete \cup {s} ELSE complete
      /\ UNCHANGED <<console, found, events, seen, seenEvents, ticks, post>>
  BY DEF Connect, runVars
<1>2. TypesOK'
  BY <1>1 DEF TypesOK
<1>3. RunRemembers'
  BY <1>1 DEF RunRemembers, SeenAfter, PrintOf
<1>4. PostOK' /\ \A q : Due(q)' = Due(q)
  BY <1>1, PostKept
<1>5. console[s] = Blank /\ \A p \in Publisher : s \notin post[p].todo /\ s \notin post[p].at
  BY <1>1 DEF SocketsOK
<1>6. SocketsOK'
  <2>1. ASSUME NEW q \in Socket \ {s} PROVE link'[q] = link[q]
    BY <1>1 DEF TypesOK
  <2>2. link'[s] = "open" /\ \A p \in Publisher : s \notin post[p].dead
    BY <1>1 DEF TypesOK, SocketsOK
  <2> QED
    BY <1>1, <2>1, <2>2 DEF SocketsOK
<1>7. ASSUME NEW q \in Socket, link'[q] = "open" PROVE Follows(q)'
  <2>1. CASE q # s
    <3>1. Follows(q)
      BY <1>1, <1>7, <2>1 DEF AllFollow, TypesOK
    <3> QED
      BY <1>1, <1>4, <2>1, <3>1, KeepsFollowing
  <2>2. CASE q = s
    <3>1. s \notin complete
      BY <1>1 DEF SocketsOK
    <3>2. s \in complete' => found = NoRows /\ events = {}
      BY <1>1, <3>1 DEF RunRemembers
    <3>3. console'[s] = Blank
      BY <1>1, <1>5
    <3>4. \A i \in OfRun : ShowsSession(s, i)'
      BY <1>1, <3>2, <3>3 DEF ShowsSession, Blank, NoRows, OfRun
    <3>5. \A e \in Event : ShowsEvent(s, e)'
      BY <1>1, <3>2, <3>3 DEF ShowsEvent, Blank
    <3> QED
      BY <2>2, <3>4, <3>5 DEF Follows, EventOfRun
  <2> QED
    BY <2>1, <2>2
<1> QED
  BY <1>2, <1>3, <1>4, <1>6, <1>7 DEF AllFollow

\* A page that closes, is dropped or is cleared owes the run nothing more.
LEMMA PageFeed ==
    ASSUME FeedInv, NEW s \in Socket, Leave(s) \/ Unsubscribe(s) \/ Clear(s)
    PROVE  FeedInv'
<1> USE DEF FeedInv
<1>1. UNCHANGED <<found, events, seen, seenEvents, ticks, post>>
  BY DEF Leave, Unsubscribe, Clear, runVars
<1>2. TypesOK'
  <2>1. CASE Leave(s) \/ Unsubscribe(s)
    BY <1>1, <2>1 DEF Leave, Unsubscribe, TypesOK
  <2>2. CASE Clear(s)
    <3>1. /\ console' = [console EXCEPT ![s].sessions = NoRows, ![s].anomalies = {}]
          /\ complete' = complete \ {s} /\ UNCHANGED <<link, subscribers>>
      BY <2>2 DEF Clear
    <3>2. console' \in [Socket -> Page]
      BY <3>1 DEF TypesOK, Page, Rows, NoRows
    <3> QED
      BY <1>1, <3>1, <3>2 DEF TypesOK
  <2> QED
    BY <2>1, <2>2
<1>3. RunRemembers'
  BY <1>1 DEF RunRemembers, SeenAfter, PrintOf
<1>4. PostOK' /\ \A q : Due(q)' = Due(q)
  BY <1>1, PostKept
<1>5. CASE Leave(s) \/ Unsubscribe(s)
  <2>1. /\ UNCHANGED <<console, complete>>
        /\ \A q \in Socket \ {s} : link'[q] = link[q] /\ (q \in subscribers => q \in subscribers')
        /\ link[s] \in {"open", "gone"} /\ link'[s] \in {"gone", "lost"}
        /\ subscribers' \subseteq subscribers
    BY <1>5 DEF Leave, Unsubscribe, TypesOK
  <2>2. SocketsOK'
    BY <1>1, <2>1 DEF SocketsOK
  <2>3. ASSUME NEW q \in Socket, link'[q] = "open" PROVE Follows(q)'
    BY <1>1, <1>4, <2>1, <2>3, KeepsFollowing DEF AllFollow
  <2> QED
    BY <1>2, <1>3, <1>4, <2>2, <2>3 DEF AllFollow
<1>6. CASE Clear(s)
  <2>1. /\ link[s] = "open" /\ UNCHANGED <<link, subscribers>>
        /\ complete' = complete \ {s}
        /\ console' = [console EXCEPT ![s].sessions = NoRows, ![s].anomalies = {}]
    BY <1>6 DEF Clear
  <2>2. /\ console'[s].sessions = NoRows /\ console'[s].anomalies = {}
        /\ \A q \in Socket \ {s} : console'[q] = console[q]
    BY <2>1 DEF TypesOK, Page
  <2>3. SocketsOK'
    BY <1>1, <2>1, <2>2 DEF SocketsOK
  <2>4. ASSUME NEW q \in Socket, link'[q] = "open" PROVE Follows(q)'
    <3>1. CASE q # s
      BY <1>1, <1>4, <2>1, <2>2, <2>4, <3>1, KeepsFollowing DEF AllFollow
    <3>2. CASE q = s
      <4>1. \A i \in OfRun : ShowsSession(s, i)'
        BY <2>1, <2>2 DEF ShowsSession, NoRows, OfRun
      <4>2. \A e \in Event : ShowsEvent(s, e)'
        BY <2>1, <2>2 DEF ShowsEvent
      <4> QED
        BY <3>2, <4>1, <4>2 DEF Follows, EventOfRun
    <3> QED
      BY <3>1, <3>2
  <2> QED
    BY <1>2, <1>3, <1>4, <2>3, <2>4 DEF AllFollow
<1> QED
  BY <1>5, <1>6

\* A new call of _publish is made to every subscriber, from the first message on.
LEMMA PublishCall ==
    ASSUME PostOK, subscribers \subseteq Socket, NEW p \in Publisher,
           NEW batch \in Seq(MessagesOf(p)'), Publish(p, batch),
           \A q \in Publisher \ {p} : MessagesOf(q)' = MessagesOf(q),
           ~post[p].on \/ MessagesOf(p)' = MessagesOf(p)
    PROVE  /\ PostOK'
           /\ \A q \in Publisher \ {p} : post'[q] = post[q]
           /\ post'[p].dead \subseteq post[p].dead
           /\ post'[p].todo \subseteq post[p].todo \cup subscribers
           /\ post'[p].at \subseteq post[p].at
           /\ p = "run" /\ batch # <<>> => \A s \in subscribers : Due(s)' = Range(batch)
           /\ p # "run" => \A s : Due(s)' = Due(s)
<1> DEFINE call == [Quiet EXCEPT !.on = TRUE, !.todo = subscribers, !.batch = batch]
<1>1. CASE subscribers = {} \/ batch = <<>>
  <2>1. post' = post
    BY <1>1 DEF Publish
  <2>2. CallOK(p)'
    <3>1. CASE MessagesOf(p)' = MessagesOf(p)
      BY <2>1, <3>1 DEF PostOK, CallOK
    <3>2. CASE ~post[p].on
      <4>1. post'[p] = Quiet
        BY <2>1, <3>2 DEF PostOK, CallOK
      <4> QED
        BY <4>1, QuietIsCall DEF CallOK
    <3> QED
      BY <3>1, <3>2
  <2>3. PostOK'
    BY <2>1, <2>2 DEF PostOK, CallOK
  <2> QED
    BY <1>1, <2>1, <2>3 DEF Due
<1>2. CASE subscribers # {} /\ batch # <<>>
  <2>1. post' = [post EXCEPT ![p] = call]
    BY <1>2 DEF Publish
  <2> DEFINE T == MessagesOf(p)'
  <2> HIDE DEF T
  <2>0. batch \in Seq(T)
    BY DEF T
  <2>2. /\ call.on /\ call.todo = subscribers /\ call.batch = batch
        /\ call.at = {} /\ call.left = <<>> /\ call.dead = {}
        /\ call \in Call(T)
    BY <2>0, EmptySeq DEF Quiet, Call
  <2> HIDE DEF call
  <2>3. /\ post' = [q \in Publisher |-> post'[q]] /\ post'[p] = call
        /\ \A q \in Publisher \ {p} : post'[q] = post[q]
    BY <2>1 DEF PostOK
  <2>4. PostOK'
    <3>1. CallOK(p)'
      BY <1>2, <2>2, <2>3 DEF CallOK, T
    <3>2. ASSUME NEW q \in Publisher \ {p} PROVE CallOK(q)'
      <4>1. post'[q] = post[q] /\ CallOK(q) /\ MessagesOf(q)' = MessagesOf(q)
        BY <2>3 DEF PostOK
      <4> QED
        BY <4>1 DEF CallOK
    <3> QED
      BY <2>3, <3>1, <3>2 DEF PostOK
  <2>5. "run" \in Publisher
    BY DEF Publisher
  <2>6. p = "run" => \A s \in subscribers : Due(s)' = Range(batch)
    BY <2>2, <2>3 DEF Due
  <2>7. p # "run" => \A s : Due(s)' = Due(s)
    BY <2>3, <2>5 DEF Due
  <2> QED
    BY <2>2, <2>3, <2>4, <2>6, <2>7
<1> QED
  BY <1>1, <1>2

\* Publishing changes neither the pages nor who is at the other end.
LEMMA PublishSockets ==
    ASSUME SocketsOK, NEW p \in Publisher, UNCHANGED <<link, subscribers, console, complete>>,
           \A q \in Publisher \ {p} : post'[q] = post[q],
           post'[p].dead \subseteq post[p].dead,
           post'[p].todo \subseteq post[p].todo \cup subscribers,
           post'[p].at \subseteq post[p].at
    PROVE  SocketsOK'
<1>1. \A q \in Publisher : /\ post'[q].dead \subseteq post[q].dead
                           /\ post'[q].todo \subseteq post[q].todo \cup subscribers
                           /\ post'[q].at \subseteq post[q].at
  OBVIOUS
<1> QED
  BY <1>1 DEF SocketsOK

\* A send delivers the next of the messages that are due.
LEMMA SendCall ==
    ASSUME PostOK, NEW p \in Publisher, NEW s \in Socket, Send(p, s),
           NEW left, left = IF post[p].at = {s} THEN post[p].left ELSE post[p].batch
    PROVE  /\ left \in Seq(MessagesOf(p)) /\ left # <<>>
           /\ PostOK'
           /\ \A q \in Publisher \ {p} : post'[q] = post[q]
           /\ post'[p].dead = post[p].dead /\ post'[p].todo \subseteq post[p].todo
           /\ post'[p].at \subseteq {s}
           /\ p = "run" => /\ Due(s) = Range(left) /\ Due(s)' = Range(Tail(left))
                           /\ \A q \in Socket \ {s} : Due(q)' = Due(q)
           /\ p # "run" => \A q : Due(q)' = Due(q)
<1> DEFINE me == post[p]
<1>1. /\ me.on /\ s \in IF me.at = {} THEN me.todo ELSE me.at
      /\ post' = [post EXCEPT ![p].todo = @ \ {s},
                              ![p].at = IF Len(left) = 1 THEN {} ELSE {s},
                              ![p].left = Tail(left)]
      /\ UNCHANGED <<found, events>>
  BY DEF Send, AtHand, runVars
<1>2. /\ me \in Call(MessagesOf(p))
      /\ me.batch # <<>>
      /\ me.at # {} => \E q \in Socket \ me.todo : me.at = {q} /\ me.left # <<>>
  BY <1>1 DEF PostOK, CallOK
<1>3. \/ me.at = {s} /\ me.left # <<>> /\ s \notin me.todo /\ left = me.left
      \/ me.at = {} /\ s \in me.todo /\ left = me.batch
  BY <1>1, <1>2
<1>4. left \in Seq(MessagesOf(p)) /\ left # <<>>
  BY <1>2, <1>3 DEF Call
<1>5. /\ Tail(left) \in Seq(MessagesOf(p))
      /\ Len(left) = 1 <=> Tail(left) = <<>>
  BY <1>4, HeadLeaves
<1>6. /\ post' = [q \in Publisher |-> post'[q]]
      /\ \A q \in Publisher \ {p} : post'[q] = post[q]
      /\ post'[p] = [me EXCEPT !.todo = @ \ {s}, !.at = IF Len(left) = 1 THEN {} ELSE {s},
                               !.left = Tail(left)]
  BY <1>1 DEF PostOK
<1>7. /\ post'[p].on /\ post'[p].todo = me.todo \ {s} /\ post'[p].batch = me.batch
      /\ post'[p].at = (IF Len(left) = 1 THEN {} ELSE {s})
      /\ post'[p].left = Tail(left) /\ post'[p].dead = me.dead
      /\ post'[p] \in Call(MessagesOf(p))
  BY <1>1, <1>2, <1>5, <1>6 DEF Call
<1> HIDE DEF me
<1>8. \A q : MessagesOf(q)' = MessagesOf(q)
  BY <1>1, SameMessages
<1>9. CallOK(p)'
  <2>1. post'[p].at # {} => post'[p].at = {s} /\ post'[p].left # <<>> /\ s \notin post'[p].todo
    BY <1>5, <1>7
  <2> QED
    BY <1>2, <1>7, <1>8, <2>1 DEF CallOK
<1>10. ASSUME NEW q \in Publisher \ {p} PROVE CallOK(q)'
  <2>1. post'[q] = post[q] /\ CallOK(q)
    BY <1>6 DEF PostOK
  <2> QED
    BY <1>8, <2>1 DEF CallOK
<1>11. PostOK'
  BY <1>6, <1>9, <1>10 DEF PostOK
<1>12. ASSUME p = "run"
       PROVE  /\ Due(s) = Range(left) /\ Due(s)' = Range(Tail(left))
              /\ \A q \in Socket \ {s} : Due(q)' = Due(q)
  <2>1. Due(s) = Range(left)
    BY <1>1, <1>3, <1>12 DEF Due, me
  <2>2. Due(s)' = Range(Tail(left))
    BY <1>5, <1>7, <1>12, EmptyHasNone DEF Due
  <2>3. ASSUME NEW q \in Socket \ {s} PROVE Due(q)' = Due(q)
    <3>1. me.at # {q} /\ post'[p].at # {q} /\ (q \in post'[p].todo <=> q \in me.todo)
      BY <1>3, <1>7
    <3>2. me.at = {q} <=> post'[p].at = {q}
      BY <3>1
    <3>3. post'[p].on /\ me.on /\ post'[p].batch = me.batch
      BY <1>1, <1>7 DEF me
    <3> QED
      BY <1>12, <3>1, <3>3 DEF Due, me
  <2> QED
    BY <2>1, <2>2, <2>3
<1>13. p # "run" => \A q : Due(q)' = Due(q)
  <2>1. "run" \in Publisher
    BY DEF Publisher
  <2> QED
    BY <1>6, <2>1 DEF Due
<1> QED
  BY <1>4, <1>6, <1>7, <1>11, <1>12, <1>13 DEF me

\* What a page is sent by the run makes it right, and what it is sent by others
\* leaves what it shows of the run alone.
LEMMA SendFeed ==
    ASSUME FeedInv, NEW p \in Publisher, NEW s \in Socket, Send(p, s) PROVE FeedInv'
<1> USE DEF FeedInv
<1>0. PICK left : left = IF post[p].at = {s} THEN post[p].left ELSE post[p].batch
  OBVIOUS
<1>1. /\ link[s] = "open" /\ console' = [console EXCEPT ![s] = Shown(console[s], Head(left))]
      /\ UNCHANGED <<link, subscribers, complete, found, events, seen, seenEvents, ticks>>
  BY <1>0 DEF Send, runVars
<1>2. /\ left \in Seq(MessagesOf(p)) /\ left # <<>>
      /\ PostOK'
      /\ \A q \in Publisher \ {p} : post'[q] = post[q]
      /\ post'[p].dead = post[p].dead /\ post'[p].todo \subseteq post[p].todo
      /\ post'[p].at \subseteq {s}
      /\ p = "run" => /\ Due(s) = Range(left) /\ Due(s)' = Range(Tail(left))
                      /\ \A q \in Socket \ {s} : Due(q)' = Due(q)
      /\ p # "run" => \A q : Due(q)' = Due(q)
  BY <1>0, SendCall
<1> DEFINE m == Head(left)
           after == Shown(console[s], m)
<1>3. m \in MessagesOf(p) /\ Range(left) = {m} \cup Range(Tail(left))
  BY <1>2, HeadLeaves
<1>4. console[s] \in Page /\ found \in Rows /\ events \subseteq Event
  BY DEF TypesOK
<1>5. after \in Page
  BY <1>3, <1>4, RunTold, OtherTold DEF MessagesOf
<1>6. console'[s] = after /\ \A q \in Socket \ {s} : console'[q] = console[q]
  BY <1>1 DEF TypesOK
<1>7. TypesOK'
  <2> HIDE DEF after
  <2> QED
    BY <1>1, <1>5 DEF TypesOK, after
<1>8. RunRemembers'
  BY <1>1 DEF RunRemembers, SeenAfter, PrintOf
<1>9. SocketsOK'
  <2>1. \A q \in Publisher : /\ post'[q].dead = post[q].dead
                             /\ post'[q].todo \subseteq post[q].todo
                             /\ post'[q].at \subseteq post[q].at \cup {s}
    BY <1>2
  <2> QED
    BY <1>1, <1>6, <2>1 DEF SocketsOK
<1>10. Follows(s)
  BY <1>1 DEF AllFollow
<1>11. ASSUME p = "run" PROVE Follows(s)'
  <2>1. /\ \A i \in Id : after.sessions[i] = IF TellsSession(m, i) THEN found[i]
                                             ELSE console[s].sessions[i]
        /\ \A e \in Event : e \in after.anomalies <=>
                               IF TellsEvent(m, e) THEN e \in events
                               ELSE e \in console[s].anomalies
    BY <1>3, <1>4, <1>11, RunTold DEF MessagesOf
  <2> HIDE DEF after, m
  <2>2. ASSUME NEW i \in OfRun
        PROVE  ShowsSession(s, i)' \/ \E x \in Due(s)' : TellsSession(x, i)
    <3>1. i \in Id
      BY DEF OfRun
    <3>2. CASE TellsSession(m, i)
      <4>1. console'[s].sessions[i] = found[i]
        BY <1>6, <2>1, <3>1, <3>2
      <4> QED
        BY <1>1, <4>1 DEF ShowsSession
    <3>3. CASE ~TellsSession(m, i)
      <4>1. console'[s].sessions[i] = console[s].sessions[i]
        BY <1>6, <2>1, <3>1, <3>3
      <4>2. ShowsSession(s, i) \/ \E x \in Range(Tail(left)) : TellsSession(x, i)
        BY <1>2, <1>3, <1>10, <1>11, <3>3 DEF Follows
      <4> QED
        BY <1>1, <1>2, <1>11, <4>1, <4>2 DEF ShowsSession
    <3> QED
      BY <3>2, <3>3
  <2>3. ASSUME NEW e \in EventOfRun
        PROVE  ShowsEvent(s, e)' \/ \E x \in Due(s)' : TellsEvent(x, e)
    <3>0. e \in Event
      BY DEF EventOfRun
    <3>1. CASE TellsEvent(m, e)
      BY <1>1, <1>6, <2>1, <3>0, <3>1 DEF ShowsEvent
    <3>2. CASE ~TellsEvent(m, e)
      <4>1. ShowsEvent(s, e) \/ \E x \in Range(Tail(left)) : TellsEvent(x, e)
        BY <1>2, <1>3, <1>10, <1>11, <3>2 DEF Follows
      <4> QED
        BY <1>1, <1>2, <1>6, <1>11, <2>1, <3>0, <3>2, <4>1 DEF ShowsEvent
    <3> QED
      BY <3>1, <3>2
  <2>4. OfRun' = OfRun /\ EventOfRun' = EventOfRun
    BY DEF OfRun, EventOfRun
  <2> QED
    BY <2>2, <2>3, <2>4 DEF Follows
<1>12. ASSUME p # "run" PROVE Follows(s)'
  <2>1. /\ \A i \in OfRun : after.sessions[i] = console[s].sessions[i]
        /\ \A e \in EventOfRun : e \in after.anomalies <=> e \in console[s].anomalies
    BY <1>3, <1>4, <1>12, OtherTold DEF MessagesOf
  <2> HIDE DEF after
  <2>2. Due(s)' = Due(s)
    BY <1>2, <1>12
  <2>3. \A i \in OfRun : ShowsSession(s, i) => ShowsSession(s, i)'
    BY <1>1, <1>6, <2>1 DEF ShowsSession
  <2>4. \A e \in EventOfRun : ShowsEvent(s, e) => ShowsEvent(s, e)'
    BY <1>1, <1>6, <2>1 DEF ShowsEvent
  <2>5. OfRun' = OfRun /\ EventOfRun' = EventOfRun
    BY DEF OfRun, EventOfRun
  <2> QED
    BY <1>10, <2>2, <2>3, <2>4, <2>5 DEF Follows
<1>13. ASSUME NEW q \in Socket \ {s}, link'[q] = "open" PROVE Follows(q)'
  <2>1. Follows(q) /\ Due(q)' = Due(q) /\ console'[q] = console[q]
    BY <1>1, <1>2, <1>6, <1>13 DEF AllFollow
  <2> QED
    BY <1>1, <2>1, KeepsFollowing
<1> QED
  BY <1>2, <1>7, <1>8, <1>9, <1>11, <1>12, <1>13 DEF AllFollow

\* A failed send gives up a page that is no longer there.
LEMMA FailFeed ==
    ASSUME FeedInv, NEW p \in Publisher, NEW s \in Socket, SendFails(p, s) PROVE FeedInv'
<1> USE DEF FeedInv
<1> DEFINE me == post[p]
<1>1. /\ me.on /\ s \in IF me.at = {} THEN me.todo ELSE me.at
      /\ link[s] # "open"
      /\ post' = [post EXCEPT ![p].todo = @ \ {s}, ![p].at = {}, ![p].left = <<>>,
                              ![p].dead = @ \cup {s}]
      /\ UNCHANGED <<link, subscribers, console, complete, found, events, seen, seenEvents, ticks>>
  BY DEF SendFails, AtHand, runVars
<1>2. /\ me \in Call(MessagesOf(p)) /\ me.batch # <<>>
      /\ me.at # {} => \E q \in Socket \ me.todo : me.at = {q} /\ me.left # <<>>
  BY <1>1 DEF PostOK, CallOK
<1>3. /\ post' = [q \in Publisher |-> post'[q]]
      /\ \A q \in Publisher \ {p} : post'[q] = post[q]
      /\ post'[p] = [me EXCEPT !.todo = @ \ {s}, !.at = {}, !.left = <<>>, !.dead = @ \cup {s}]
  BY <1>1 DEF PostOK
<1>4. /\ post'[p].on /\ post'[p].todo = me.todo \ {s} /\ post'[p].batch = me.batch
      /\ post'[p].at = {} /\ post'[p].left = <<>> /\ post'[p].dead = me.dead \cup {s}
      /\ post'[p] \in Call(MessagesOf(p))
  BY <1>1, <1>2, <1>3, EmptySeq DEF Call
<1> HIDE DEF me
<1>5. \A q : MessagesOf(q)' = MessagesOf(q)
  BY <1>1, SameMessages
<1>6. PostOK'
  <2>1. CallOK(p)'
    BY <1>2, <1>4, <1>5 DEF CallOK
  <2>2. ASSUME NEW q \in Publisher \ {p} PROVE CallOK(q)'
    <3>1. post'[q] = post[q] /\ CallOK(q)
      BY <1>3 DEF PostOK
    <3> QED
      BY <1>5, <3>1 DEF CallOK
  <2> QED
    BY <1>3, <2>1, <2>2 DEF PostOK
<1>7. TypesOK' /\ RunRemembers'
  BY <1>1 DEF TypesOK, RunRemembers, SeenAfter, PrintOf
<1>8. link[s] \in {"gone", "lost"}
  BY <1>1 DEF TypesOK, SocketsOK, me
<1>9. SocketsOK'
  <2>1. \A q \in Publisher : /\ post'[q].dead \subseteq post[q].dead \cup {s}
                             /\ post'[q].todo \subseteq post[q].todo
                             /\ post'[q].at \subseteq post[q].at
    BY <1>3, <1>4 DEF me
  <2> QED
    BY <1>1, <1>8, <2>1 DEF SocketsOK
<1>10. ASSUME NEW q \in Socket \ {s} PROVE Due(q)' = Due(q)
  <2>1. CASE p # "run"
    <3>1. "run" \in Publisher
      BY DEF Publisher
    <3> QED
      BY <1>3, <2>1, <3>1 DEF Due
  <2>2. CASE p = "run"
    <3>1. me.at # {q} /\ post'[p].at # {q} /\ (q \in post'[p].todo <=> q \in me.todo)
      BY <1>1, <1>2, <1>4
    <3>2. post'[p].on /\ me.on /\ post'[p].batch = me.batch
      BY <1>1, <1>4
    <3> QED
      BY <2>2, <3>1, <3>2 DEF Due, me
  <2> QED
    BY <2>1, <2>2
<1>11. ASSUME NEW q \in Socket, link'[q] = "open" PROVE Follows(q)'
  <2>1. q # s /\ Follows(q) /\ Due(q)' = Due(q)
    BY <1>1, <1>10, <1>11 DEF AllFollow
  <2> QED
    BY <1>1, <2>1, KeepsFollowing
<1> QED
  BY <1>6, <1>7, <1>9, <1>11 DEF AllFollow

\* A call that is over owes nobody anything, and drops only pages that have gone.
LEMMA PublishedFeed == ASSUME FeedInv, NEW p \in Publisher, Published(p) PROVE FeedInv'
<1> USE DEF FeedInv
<1>1. /\ post[p].on /\ post[p].at = {} /\ post[p].todo = {}
      /\ subscribers' = subscribers \ post[p].dead
      /\ post' = [post EXCEPT ![p] = Quiet]
      /\ UNCHANGED <<link, console, complete, found, events, seen, seenEvents, ticks>>
  BY DEF Published, runVars
<1>2. /\ post' = [q \in Publisher |-> post'[q]] /\ post'[p] = Quiet
      /\ \A q \in Publisher \ {p} : post'[q] = post[q]
  BY <1>1 DEF PostOK
<1>3. \A q : MessagesOf(q)' = MessagesOf(q)
  BY <1>1, SameMessages
<1>4. PostOK'
  <2>1. CallOK(p)'
    BY <1>2, QuietIsCall DEF CallOK
  <2>2. ASSUME NEW q \in Publisher \ {p} PROVE CallOK(q)'
    <3>1. post'[q] = post[q] /\ CallOK(q)
      BY <1>2 DEF PostOK
    <3> QED
      BY <1>3, <3>1 DEF CallOK
  <2> QED
    BY <1>2, <2>1, <2>2 DEF PostOK
<1>5. TypesOK' /\ RunRemembers'
  BY <1>1 DEF TypesOK, RunRemembers, SeenAfter, PrintOf
<1>6. SocketsOK'
  <2>1. \A q \in Publisher : /\ post'[q].dead \subseteq post[q].dead
                             /\ post'[q].todo \subseteq post[q].todo
                             /\ post'[q].at \subseteq post[q].at
    BY <1>2, QuietIsCall
  <2> QED
    BY <1>1, <2>1 DEF SocketsOK
<1>7. ASSUME NEW q \in Socket PROVE Due(q)' = Due(q)
  <2>1. CASE p # "run"
    <3>1. "run" \in Publisher
      BY DEF Publisher
    <3> QED
      BY <1>2, <2>1, <3>1 DEF Due
  <2>2. CASE p = "run"
    BY <1>1, <1>2, <2>2, QuietIsCall DEF Due
  <2> QED
    BY <2>1, <2>2
<1>8. ASSUME NEW q \in Socket, link'[q] = "open" PROVE Follows(q)'
  <2>1. Follows(q) /\ Due(q)' = Due(q)
    BY <1>1, <1>7, <1>8 DEF AllFollow
  <2> QED
    BY <1>1, <2>1, KeepsFollowing
<1> QED
  BY <1>4, <1>5, <1>6, <1>8 DEF AllFollow

\* A call that says nothing new of the run leaves every page as right as it was.
LEMMA PublishFeed ==
    ASSUME FeedInv, NEW p \in Publisher, NEW batch \in Seq(MessagesOf(p)), Publish(p, batch),
           UNCHANGED <<link, subscribers, console, complete, found, events, seen, seenEvents,
                       ticks>>,
           p = "run" => ~post["run"].on
    PROVE  FeedInv'
<1> USE DEF FeedInv
<1>1. \A q : MessagesOf(q)' = MessagesOf(q)
  BY SameMessages
<1>2. /\ PostOK'
      /\ \A q \in Publisher \ {p} : post'[q] = post[q]
      /\ post'[p].dead \subseteq post[p].dead
      /\ post'[p].todo \subseteq post[p].todo \cup subscribers
      /\ post'[p].at \subseteq post[p].at
      /\ p # "run" => \A s : Due(s)' = Due(s)
  BY <1>1, PublishCall DEF TypesOK
<1>3. TypesOK' /\ RunRemembers'
  BY DEF TypesOK, RunRemembers, SeenAfter, PrintOf
<1>4. SocketsOK'
  BY <1>2, PublishSockets
<1>5. ASSUME NEW s \in Socket, link'[s] = "open" PROVE Follows(s)'
  <2>1. Follows(s) /\ Due(s) \subseteq Due(s)'
    BY <1>2, <1>5 DEF AllFollow, Due
  <2>2. OfRun' = OfRun /\ EventOfRun' = EventOfRun
    BY DEF OfRun, EventOfRun
  <2> QED
    BY <2>1, <2>2 DEF Follows, ShowsSession, ShowsEvent
<1> QED
  BY <1>2, <1>3, <1>4, <1>5 DEF AllFollow

LEMMA StartFeed == ASSUME FeedInv, Start PROVE FeedInv'
<1>1. /\ Publish("start", <<StatusMessage>>)
      /\ UNCHANGED <<link, subscribers, console, complete, found, events, seen, seenEvents, ticks>>
  BY DEF Start
<1>2. "start" \in Publisher /\ <<StatusMessage>> \in Seq(MessagesOf("start"))
  BY OneMessage DEF Publisher, MessagesOf, OtherMessages
<1> QED
  BY <1>1, <1>2, PublishFeed

\* The run ends between two ticks: every page has been told all there is.
LEMMA FinishFeed == ASSUME FeedInv, Finish PROVE FeedInv'
<1>1. /\ Publish("run", <<StatusMessage>>) /\ ~post["run"].on
      /\ UNCHANGED <<link, subscribers, console, complete, found, events, seen, seenEvents, ticks>>
  BY DEF Finish
<1>2. "run" \in Publisher /\ <<StatusMessage>> \in Seq(MessagesOf("run"))
  BY OneMessage DEF Publisher, MessagesOf, RunMessages
<1> QED
  BY <1>1, <1>2, PublishFeed

\* An upload publishes what it found, none of it from the run alone.
LEMMA UploadFeed == ASSUME FeedInv, NEW u \in Upload, UploadDone(u) PROVE FeedInv'
<1> DEFINE rows == UploadDocs[u]
           Row(i) == SessionMessage(i, rows[i])
           S == {i \in Id : rows[i] # NoDoc}
           E == UploadEvents[u]
           order == SetToSeq(S)
           after == SetToSeq(E)
           n == Len(order)
           k == Len(after)
           first == EachOf(S, Row)
           second == EachOf(E, AnomalyMessage)
<1>1. /\ Publish(u, first \o second)
      /\ UNCHANGED <<link, subscribers, console, complete, found, events, seen, seenEvents, ticks>>
  BY DEF UploadDone
<1>2. u \in Publisher /\ u # "run" /\ MessagesOf(u) = OtherMessages
  BY FeedAssumption DEF Publisher, MessagesOf
<1>3. /\ \A i \in S : SessionMessage(i, rows[i]) \in OtherMessages
      /\ \A e \in E : AnomalyMessage(e) \in OtherMessages
  BY FeedAssumption DEF OtherMessages, OfRun, EventOfRun
<1>4. IsFiniteSet(S) /\ IsFiniteSet(E)
  BY FeedAssumption, FS_Subset
<1>5. /\ n \in Nat /\ \A x \in 1..n : order[x] \in S
      /\ k \in Nat /\ \A x \in 1..k : after[x] \in E
  BY <1>4, SeqOfSet
<1>6. /\ first = [x \in 1..n |-> SessionMessage(order[x], rows[order[x]])]
      /\ second = [x \in 1..k |-> AnomalyMessage(after[x])]
  BY DEF EachOf
<1> HIDE DEF S, E, order, after, n, k, first, second
<1>7. first \in [1..n -> OtherMessages] /\ second \in [1..k -> OtherMessages]
  BY <1>3, <1>5, <1>6
<1>8. first \in Seq(OtherMessages) /\ second \in Seq(OtherMessages)
  BY <1>5, <1>7
<1>9. first \o second \in Seq(OtherMessages)
  BY <1>8, JoinLists
<1> QED
  BY <1>1, <1>2, <1>9, PublishFeed

\* A tick owes every open page whatever it has changed.
LEMMA TickFeed == ASSUME FeedInv, Tick PROVE FeedInv'
<1> USE DEF FeedInv
<1>1. /\ ~post["run"].on
      /\ found' \in Finds /\ events' \subseteq Event
      /\ seen' = SeenAfter(found') /\ seenEvents' = events'
      /\ Publish("run", TickMessages(found', events'))
      /\ ticks' = ticks + 1
      /\ UNCHANGED <<link, subscribers, console, complete>>
  BY DEF Tick
<1>2. found' \in Rows
  BY <1>1, FeedAssumption DEF Rows
<1>3. TypesOK'
  BY <1>1, <1>2 DEF TypesOK
<1>4. RunRemembers'
  <2>1. ticks' # 0
    BY <1>1 DEF TypesOK
  <2> QED
    BY <1>1, <2>1 DEF RunRemembers, SeenAfter, PrintOf
<1>5. PICK msgs : msgs = TickMessages(found', events')
  OBVIOUS
<1>6. /\ msgs \in Seq(RunMessages') /\ msgs # <<>>
      /\ \A i \in Id : \/ found[i] = NoDoc /\ found'[i] = NoDoc
                       \/ PrintOf(found[i]) = PrintOf(found'[i]) /\ found'[i] # NoDoc
                       \/ \E m \in Range(msgs) : TellsSession(m, i)
      /\ \A e \in Event : \/ e \in events <=> e \in events'
                          \/ \E m \in Range(msgs) : TellsEvent(m, e)
  BY <1>1, <1>2, <1>5, TickTells DEF TypesOK
<1>7. /\ "run" \in Publisher /\ msgs \in Seq(MessagesOf("run")')
      /\ \A q \in Publisher \ {"run"} : MessagesOf(q)' = MessagesOf(q)
  BY <1>6 DEF Publisher, MessagesOf, OtherMessages, OfRun, EventOfRun
<1>8. /\ PostOK'
      /\ \A q \in Publisher \ {"run"} : post'[q] = post[q]
      /\ post'["run"].dead \subseteq post["run"].dead
      /\ post'["run"].todo \subseteq post["run"].todo \cup subscribers
      /\ post'["run"].at \subseteq post["run"].at
      /\ \A s \in subscribers : Due(s)' = Range(msgs)
  BY <1>1, <1>5, <1>6, <1>7, PublishCall DEF TypesOK
<1>9. SocketsOK'
  BY <1>1, <1>7, <1>8, PublishSockets
<1>10. ASSUME NEW s \in Socket, link'[s] = "open" PROVE Follows(s)'
  <2>1. Follows(s) /\ Due(s) = {} /\ Due(s)' = Range(msgs)
    BY <1>1, <1>8, <1>10 DEF AllFollow, SocketsOK, Due
  <2>2. ASSUME NEW i \in OfRun
        PROVE  ShowsSession(s, i)' \/ \E m \in Due(s)' : TellsSession(m, i)
    <3>1. i \in Id /\ ShowsSession(s, i)
      BY <2>1 DEF Follows, OfRun
    <3>2. \/ found[i] = NoDoc /\ found'[i] = NoDoc
          \/ PrintOf(found[i]) = PrintOf(found'[i]) /\ found'[i] # NoDoc
          \/ \E m \in Due(s)' : TellsSession(m, i)
      BY <1>6, <2>1, <3>1
    <3> QED
      BY <1>1, <3>1, <3>2 DEF ShowsSession, PrintOf
  <2>3. ASSUME NEW e \in EventOfRun
        PROVE  ShowsEvent(s, e)' \/ \E m \in Due(s)' : TellsEvent(m, e)
    <3>1. e \in Event /\ ShowsEvent(s, e)
      BY <2>1 DEF Follows, EventOfRun
    <3>2. (e \in events <=> e \in events') \/ \E m \in Due(s)' : TellsEvent(m, e)
      BY <1>6, <2>1, <3>1
    <3> QED
      BY <1>1, <3>1, <3>2 DEF ShowsEvent
  <2>4. OfRun' = OfRun /\ EventOfRun' = EventOfRun
    BY DEF OfRun, EventOfRun
  <2> QED
    BY <2>2, <2>3, <2>4 DEF Follows
<1> QED
  BY <1>3, <1>4, <1>8, <1>9, <1>10 DEF AllFollow
-----------------------------------------------------------------------------
(* The theorems *)

LEMMA FeedInvInit == Init => FeedInv
<1> SUFFICES ASSUME Init PROVE FeedInv
  OBVIOUS
<1>1. NoRows \in Rows /\ Blank \in Page
  BY DEF NoRows, Blank, Rows, Page
<1>2. TypesOK
  BY <1>1 DEF Init, TypesOK
<1>3. RunRemembers
  BY DEF Init, RunRemembers, SeenAfter, PrintOf, NoRows
<1>4. PostOK
  <2>1. ASSUME NEW p \in Publisher PROVE CallOK(p)
    <3>1. post[p] = Quiet
      BY DEF Init
    <3> QED
      BY <3>1, QuietIsCall DEF CallOK
  <2> QED
    BY <2>1 DEF Init, PostOK
<1>5. SocketsOK
  BY QuietIsCall DEF Init, SocketsOK
<1>6. AllFollow
  BY DEF Init, AllFollow
<1> QED
  BY <1>2, <1>3, <1>4, <1>5, <1>6 DEF FeedInv

LEMMA FeedInvStep == FeedInv /\ [Next]_vars => FeedInv'
<1> SUFFICES ASSUME FeedInv, [Next]_vars PROVE FeedInv'
  OBVIOUS
<1>1. CASE \E s \in Socket : Connect(s) \/ Leave(s) \/ Unsubscribe(s) \/ Clear(s)
  BY <1>1, ConnectFeed, PageFeed
<1>2. CASE \E p \in Publisher : Published(p)
  BY <1>2, PublishedFeed
<1>3. CASE \E p \in Publisher, s \in Socket : Send(p, s) \/ SendFails(p, s)
  BY <1>3, SendFeed, FailFeed
<1>4. CASE Start \/ Tick \/ Finish
  BY <1>4, StartFeed, TickFeed, FinishFeed
<1>5. CASE \E u \in Upload : UploadDone(u)
  BY <1>5, UploadFeed
<1>6. CASE UNCHANGED vars
  <2>1. UNCHANGED <<link, subscribers, console, complete, found, events, seen, seenEvents,
                    ticks, post>>
    BY <1>6 DEF vars, runVars
  <2>2. TypesOK' /\ RunRemembers' /\ SocketsOK'
    BY <2>1 DEF FeedInv, TypesOK, RunRemembers, SocketsOK, SeenAfter, PrintOf
  <2>3. PostOK' /\ \A s : Due(s)' = Due(s)
    BY <2>1, PostKept DEF FeedInv
  <2>4. ASSUME NEW s \in Socket, link'[s] = "open" PROVE Follows(s)'
    BY <2>1, <2>3, <2>4, KeepsFollowing DEF FeedInv, AllFollow
  <2> QED
    BY <2>2, <2>3, <2>4 DEF FeedInv, AllFollow
<1> QED
  BY <1>1, <1>2, <1>3, <1>4, <1>5, <1>6 DEF Next

\* At every moment each open page shows the newest analysis, or is still to be
\* sent what corrects it: by the tick's _publish alone, whatever else is sent.
THEOREM PagesFollow == Spec => []FeedInv
BY FeedInvInit, FeedInvStep, PTL DEF Spec

\* When no call of the run is under way nothing is due, so what a page shows is right.
LEMMA NothingDue ==
    ASSUME FeedInv, ~post["run"].on, NEW s \in Socket, link[s] = "open"
    PROVE  /\ \A i \in OfRun : ShowsSession(s, i)
           /\ \A e \in EventOfRun : ShowsEvent(s, e)
BY DEF FeedInv, AllFollow, Follows, Due

\* Between two ticks a page that heard every one of them shows the run's newest
\* analysis and its anomalies, whatever the uploads sent meanwhile.
THEOREM PageMirrors == Spec => []Mirror
<1>1. ASSUME FeedInv PROVE Mirror
  <2> SUFFICES ASSUME ~post["run"].on, NEW s \in complete, link[s] = "open"
               PROVE  /\ \A i \in OfRun : PrintOf(console[s].sessions[i]) = PrintOf(found[i])
                      /\ \A e \in EventOfRun : e \in console[s].anomalies <=> e \in events
    BY DEF Mirror
  <2>1. s \in Socket
    BY <1>1 DEF FeedInv, TypesOK
  <2> QED
    BY <1>1, <2>1, NothingDue DEF ShowsSession, ShowsEvent
<1> QED
  BY <1>1, PagesFollow, PTL

\* Between two ticks no open page shows a session or an anomaly of the run that its
\* newest analysis has superseded.
THEOREM PageHasNoGhost == Spec => []NoGhost
<1>1. ASSUME FeedInv PROVE NoGhost
  BY <1>1, NothingDue DEF NoGhost, ShowsSession, ShowsEvent
<1> QED
  BY <1>1, PagesFollow, PTL
=============================================================================
