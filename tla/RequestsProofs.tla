--------------------------- MODULE RequestsProofs ---------------------------
(***************************************************************************)
(* Theorems about Requests, for any jobs, requests, captures and analyses. *)
(***************************************************************************)
EXTENDS Requests, FiniteSetTheorems, SequenceTheorems, WellFoundedInduction, TLAPS

(* The operators of JobStore: what the rows written from a list hold, what  *)
(* a SELECT over them returns, that they keep one record of each id of *)
(* the list, and what AppendAudit does to the log.                         *)

\* A nonempty set of positions of a list has a last one, and Max is it: INSERT
\* OR REPLACE always has a last record of each key.
LEMMA MaxOfPositions ==
    ASSUME NEW n \in Nat, NEW S \in SUBSET (1..n), S # {}
    PROVE  Max(S) \in S /\ \A x \in S : x <= Max(S)
<1> DEFINE T == {n - x : x \in S}
<1>1. T \subseteq Nat /\ T # {}
  <2>1. \A x \in S : n - x \in Nat
    OBVIOUS
  <2> QED
    BY <2>1
<1>2. PICK t \in T : \A u \in T : ~ (<<u, t>> \in OpToRel(<, Nat))
  BY <1>1, NatLessThanWellFounded, WFMin
<1>3. ASSUME NEW u \in T PROVE t <= u
  <2>1. u \in Nat /\ t \in Nat
    BY <1>1
  <2>2. ~ (u < t)
    BY <1>2, <2>1 DEF OpToRel
  <2> QED
    BY <2>1, <2>2
<1>4. PICK m \in S : t = n - m
  OBVIOUS
<1>5. \A x \in S : m >= x
  BY <1>3, <1>4
<1> QED
  BY <1>4, <1>5 DEF Max

\* The positions at which list has a record with key k.
Positions(list, k) == {i \in DOMAIN list : list[i].id = k}

\* A key that occurs in the list has a row, and the row is a record of the
\* list with that key: save_analysis pairs each key with its own document.
LEMMA RowIsRecord ==
    ASSUME NEW Doc, NEW list \in Seq(Doc), NEW k \in DOMAIN RowsOf(list)
    PROVE  \E i \in DOMAIN list : RowsOf(list)[k] = list[i] /\ list[i].id = k
<1> DEFINE i == Max(Positions(list, k))
<1>1. Positions(list, k) \in SUBSET (1..Len(list)) /\ Positions(list, k) # {}
  BY LenProperties DEF Positions, RowsOf
<1>2. i \in Positions(list, k)
  BY <1>1, MaxOfPositions, LenProperties
<1>3. RowsOf(list)[k] = list[i]
  BY DEF RowsOf, Positions
<1> QED
  BY <1>2, <1>3 DEF Positions

\* The rows written from a list of documents are rows of such documents.
LEMMA RowsOfType ==
    ASSUME NEW Doc, NEW list \in Seq(Doc), \A d \in Doc : d.id \in Id
    PROVE  RowsOf(list) \in Rows(Doc)
<1> DEFINE rows == RowsOf(list)
<1>1. DOMAIN rows \in SUBSET Id
  BY LenProperties DEF RowsOf
<1>2. ASSUME NEW k \in DOMAIN rows
      PROVE  rows[k] \in Doc /\ rows[k].id = k
  <2>1. PICK i \in DOMAIN list : rows[k] = list[i] /\ list[i].id = k
    BY RowIsRecord
  <2> QED
    BY <2>1, LenProperties
<1>3. rows \in [DOMAIN rows -> Doc]
  BY <1>2 DEF RowsOf
<1> QED
  BY <1>1, <1>2, <1>3 DEF Rows

\* No rows are rows of any documents.
LEMMA NoRowsType == ASSUME NEW Doc PROVE <<>> \in Rows(Doc)
<1>1. <<>> \in [{} -> Doc] /\ DOMAIN <<>> = {}
  OBVIOUS
<1> QED
  BY <1>1 DEF Rows

\* INSERT OR REPLACE keeps one of the given records for each of their keys.
LEMMA RowsKeepOneOfEach ==
    ASSUME NEW Doc, NEW list \in Seq(Doc)
    PROVE  OneOfEach(ToBag(list), ToBag(RowsOf(list)))
<1> DEFINE rows == RowsOf(list)
           holders(x) == {k \in DOMAIN rows : rows[k] = x}
<1>1. DOMAIN ToBag(list) = Range(list) /\ DOMAIN ToBag(rows) = Range(rows)
  BY DEF ToBag
<1>2. ASSUME NEW k \in DOMAIN rows PROVE rows[k] \in Range(list) /\ rows[k].id = k
  BY RowIsRecord DEF Range
<1>3. ASSUME NEW x \in Range(rows)
      PROVE  x \in Range(list) /\ x.id \in DOMAIN rows /\ rows[x.id] = x
  BY <1>2 DEF Range
<1>4. ASSUME NEW x \in Range(list) PROVE \E y \in Range(rows) : y.id = x.id
  <2>1. x.id \in DOMAIN rows
    BY DEF Range, RowsOf
  <2> QED
    BY <1>2, <2>1 DEF Range
<1>5. ASSUME NEW x \in Range(rows) PROVE ToBag(rows)[x] = 1
  <2>1. holders(x) = {x.id}
    BY <1>2, <1>3
  <2>2. ToBag(rows)[x] = Cardinality(holders(x))
    BY DEF ToBag
  <2> QED
    BY <2>1, <2>2, FS_Singleton
<1> HIDE DEF rows
<1>6. OnePerId(ToBag(rows))
  BY <1>1, <1>3, <1>5 DEF OnePerId
<1> QED
  BY <1>1, <1>3, <1>4, <1>6 DEF OneOfEach, rows

\* When no two given records share a key, one of each is all of them.
LEMMA OneOfEachIsAll ==
    ASSUME NEW f, NEW g, OneOfEach(ToBag(f), ToBag(g)), OnePerId(ToBag(f))
    PROVE  ToBag(g) = ToBag(f)
<1>1. /\ ToBag(f) = [x \in DOMAIN ToBag(f) |-> ToBag(f)[x]]
      /\ ToBag(g) = [x \in DOMAIN ToBag(g) |-> ToBag(g)[x]]
  BY DEF ToBag
<1>2. DOMAIN ToBag(g) = DOMAIN ToBag(f)
  BY DEF OneOfEach, OnePerId
<1>3. \A x \in DOMAIN ToBag(f) : ToBag(f)[x] = 1 /\ ToBag(g)[x] = 1
  BY <1>2 DEF OneOfEach, OnePerId
<1> QED
  BY <1>1, <1>2, <1>3

\* A SELECT over the rows of a table is a list of such documents.
LEMMA ListingType ==
    ASSUME NEW Doc, NEW rows \in Rows(Doc)
    PROVE  Listing(rows) \in Seq(Doc)
<1> DEFINE S == Range(rows)
           n == Cardinality(S)
           list == Listing(rows)
<1>1. rows \in [DOMAIN rows -> Doc] /\ DOMAIN rows \subseteq Id
  BY DEF Rows
<1>2. IsFiniteSet(S)
  <2>1. IsFiniteSet(DOMAIN rows)
    BY <1>1, IdAssumption, FS_Subset
  <2>2. rows \in Surjection(DOMAIN rows, S)
    BY <1>1 DEF Surjection, Range
  <2> QED
    BY <2>1, <2>2, FS_Surjection
<1>3. n \in Nat /\ ExistsBijection(1..n, S)
  BY <1>2, FS_CardinalityType
<1>4. \E f \in [1..n -> S] : IsInjective(f)
  BY <1>3 DEF ExistsBijection, Bijection, Injection, IsInjective
<1>5. list \in [1..n -> S] /\ IsInjective(list)
  BY <1>4 DEF Listing, SetToSeq
<1>6. S \subseteq Doc
  BY <1>1 DEF Range
<1>7. list \in Seq(Doc)
  BY <1>3, <1>5, <1>6
<1> QED
  BY <1>7
-----------------------------------------------------------------------------
(* Every step of the store keeps its type. *)

LEMMA StoreInitType == StoreInit => StoreTypeOK
<1> SUFFICES ASSUME StoreInit PROVE StoreTypeOK
  OBVIOUS
<1>1. <<>> \in Rows(SessionDoc) /\ <<>> \in Rows(EventDoc)
  BY NoRowsType
<1> QED
  BY <1>1 DEF StoreInit, StoreTypeOK, Range

LEMMA StoreUnchangedType ==
    ASSUME StoreTypeOK, UNCHANGED storeVars PROVE StoreTypeOK'
BY DEF StoreTypeOK, storeVars

LEMMA PutFileType ==
    ASSUME StoreTypeOK, NEW j, NEW c \in Capture \cup {Missing}, PutFile(j, c)
    PROVE  StoreTypeOK'
BY DEF StoreTypeOK, PutFile

LEMMA UnlinkType == ASSUME StoreTypeOK, NEW j, Unlink(j) PROVE StoreTypeOK'
BY PutFileType DEF Unlink

LEMMA DeleteRowsType ==
    ASSUME StoreTypeOK, NEW j \in Job, DeleteRows(j) PROVE StoreTypeOK'
<1>1. <<>> \in Rows(SessionDoc) /\ <<>> \in Rows(EventDoc)
  BY NoRowsType
<1> QED
  BY <1>1 DEF StoreTypeOK, DeleteRows

\* The rows of a draft are rows of session and event documents.
LEMMA DraftRowsType ==
    ASSUME NEW d \in Draft
    PROVE  /\ RowsOf(d.sessions) \in Rows(SessionDoc)
           /\ RowsOf(d.events) \in Rows(EventDoc)
<1>1. \A s \in SessionDoc : s.id \in Id
  BY DEF SessionDoc
<1>2. \A e \in EventDoc : e.id \in Id
  BY DEF EventDoc
<1> QED
  BY <1>1, <1>2, RowsOfType DEF Draft

LEMMA SaveAnalysisType ==
    ASSUME StoreTypeOK, NEW j \in Job, NEW d \in Draft, NEW kept \in BOOLEAN,
           SaveAnalysis(j, d, kept)
    PROVE  StoreTypeOK'
<1> DEFINE entry == NextEntry(auditLog, j, Digest(d), IF kept THEN disk[j] ELSE Missing)
<1>1. jobs' \in [Job -> Row \cup {NoRow}]
  BY DEF StoreTypeOK, SaveAnalysis, Draft, Row
<1>2. sessions' \in [Job -> Rows(SessionDoc)] /\ events' \in [Job -> Rows(EventDoc)]
  BY DraftRowsType DEF StoreTypeOK, SaveAnalysis
<1>3. CASE auditLog' = auditLog
  BY <1>1, <1>2, <1>3 DEF StoreTypeOK, SaveAnalysis
<1>4. CASE auditLog' = Append(auditLog, entry)
  <2>1. IsEntry(entry)
    <3>1. auditLog # <<>> => auditLog[Len(auditLog)].seq \in Nat
      BY DEF StoreTypeOK, IsEntry
    <3>2. (IF kept THEN disk[j] ELSE Missing) \in Capture \cup {Missing}
      BY DEF StoreTypeOK
    <3> QED
      BY <3>1, <3>2 DEF NextEntry, IsEntry
  <2> DEFINE all == Range(auditLog) \cup {entry}
  <2>2. auditLog \in Seq(all)
    BY DEF StoreTypeOK
  <2>3. auditLog' \in Seq(all) /\ Len(auditLog') = Len(auditLog) + 1
    BY <1>4, <2>2, AppendProperties
  <2>4. \A i \in DOMAIN auditLog' : auditLog'[i] \in Range(auditLog')
    BY DEF Range
  <2>5. auditLog' \in Seq(Range(auditLog'))
    BY <2>3, <2>4
  <2>6. ASSUME NEW i \in DOMAIN auditLog'
        PROVE  IsEntry(auditLog'[i])
    BY <1>4, <2>1, <2>2, <2>3 DEF StoreTypeOK
  <2> QED
    BY <1>1, <1>2, <2>5, <2>6 DEF StoreTypeOK, SaveAnalysis
<1> QED
  BY <1>3, <1>4 DEF SaveAnalysis, AppendAudit
-----------------------------------------------------------------------------
(* The log *)

\* What a save does to the log: it keeps every entry, adds at most one, which
\* is of the saved job, and leaves the saved analysis in its newest entry.
LEMMA LogGrows ==
    ASSUME StoreTypeOK, NEW j, NEW a, NEW c, AppendAudit(j, a, c)
    PROVE  /\ DOMAIN auditLog \subseteq DOMAIN auditLog'
           /\ \A i \in DOMAIN auditLog : auditLog'[i] = auditLog[i]
           /\ \A i \in DOMAIN auditLog' \ DOMAIN auditLog : auditLog'[i].job = j
           /\ IsLogged(auditLog', j, a)
           /\ \A k : \A i \in DOMAIN auditLog :
                k # j /\ IsNewestOf(auditLog, i, k) => IsNewestOf(auditLog', i, k)
<1> DEFINE entry == NextEntry(auditLog, j, a, c)
<1>1. CASE IsLogged(auditLog, j, a)
  BY <1>1 DEF AppendAudit
<1>2. CASE ~ IsLogged(auditLog, j, a)
  <2>1. auditLog' = Append(auditLog, entry)
    BY <1>2 DEF AppendAudit
  <2> DEFINE n == Len(auditLog)
  <2>2. n \in Nat /\ DOMAIN auditLog = 1..n
    BY DEF StoreTypeOK
  <2>3. /\ DOMAIN auditLog' = 1..(n + 1) /\ auditLog'[n + 1] = entry
        /\ \A i \in 1..n : auditLog'[i] = auditLog[i]
    BY <2>1, <2>2 DEF StoreTypeOK
  <2>4. entry.job = j /\ entry.analysis = a
    BY DEF NextEntry
  <2>5. IsLogged(auditLog', j, a)
    BY <2>2, <2>3, <2>4 DEF IsLogged, IsNewestOf
  <2>6. ASSUME NEW k, NEW i \in DOMAIN auditLog, k # j, IsNewestOf(auditLog, i, k)
        PROVE  IsNewestOf(auditLog', i, k)
    BY <2>2, <2>3, <2>4, <2>6 DEF IsNewestOf
  <2> QED
    BY <2>2, <2>3, <2>4, <2>5, <2>6
<1> QED
  BY <1>1, <1>2

\* After a save the rows are what is kept of the draft, and all of it unless
\* two of its records share a key.
LEMMA SaveStoresDigest ==
    ASSUME StoreTypeOK, NEW j \in Job, NEW d \in Draft, NEW kept,
           SaveAnalysis(j, d, kept)
    PROVE  /\ Keeps(Digest(d), StoredDigest(j)')
           /\ Keyed(Digest(d)) => StoredDigest(j)' = Digest(d)
<1>1. /\ jobs'[j].stats = d.stats
      /\ sessions'[j] = RowsOf(d.sessions)
      /\ events'[j] = RowsOf(d.events)
  BY DEF StoreTypeOK, SaveAnalysis
<1>2. d.sessions \in Seq(SessionDoc) /\ d.events \in Seq(EventDoc)
  BY DEF Draft
<1>3. StoredDigest(j)' = [stats |-> d.stats, sessions |-> ToBag(RowsOf(d.sessions)),
                          events |-> ToBag(RowsOf(d.events))]
  BY <1>1 DEF StoredDigest, Digest
<1>4. /\ OneOfEach(ToBag(d.sessions), ToBag(RowsOf(d.sessions)))
      /\ OneOfEach(ToBag(d.events), ToBag(RowsOf(d.events)))
  BY <1>2, RowsKeepOneOfEach
<1>5. Keeps(Digest(d), StoredDigest(j)')
  BY <1>3, <1>4 DEF Keeps, Digest
<1>6. ASSUME Keyed(Digest(d)) PROVE StoredDigest(j)' = Digest(d)
  <2>1. OnePerId(ToBag(d.sessions)) /\ OnePerId(ToBag(d.events))
    BY <1>6 DEF Keyed, Digest
  <2>2. /\ ToBag(RowsOf(d.sessions)) = ToBag(d.sessions)
        /\ ToBag(RowsOf(d.events)) = ToBag(d.events)
    BY <1>4, <2>1, OneOfEachIsAll
  <2> QED
    BY <1>3, <2>2 DEF Digest
<1> QED
  BY <1>5, <1>6

\* A save keeps the log committed to every stored row.
LEMMA SaveCommits ==
    ASSUME StoreTypeOK, NEW j \in Job, NEW d \in Draft, NEW kept,
           SaveAnalysis(j, d, kept),
           NEW k \in Job, jobs'[k] # NoRow,
           jobs[k] # NoRow => Committed(k)
    PROVE  Committed(k)'
<1>1. PICK c : AppendAudit(j, Digest(d), c)
  BY DEF SaveAnalysis
<1>2. CASE k = j
  <2>1. PICK i \in DOMAIN auditLog' :
          IsNewestOf(auditLog', i, j) /\ auditLog'[i].analysis = Digest(d)
    BY <1>1, LogGrows DEF IsLogged
  <2>2. /\ Keeps(Digest(d), StoredDigest(j)')
        /\ Keyed(Digest(d)) => StoredDigest(j)' = Digest(d)
    BY SaveStoresDigest
  <2> HIDE DEF Digest
  <2> QED
    BY <1>2, <2>1, <2>2 DEF Committed
<1>3. CASE k # j
  <2>1. jobs'[k] = jobs[k] /\ sessions'[k] = sessions[k] /\ events'[k] = events[k]
    BY <1>3 DEF StoreTypeOK, SaveAnalysis
  <2>2. StoredDigest(k)' = StoredDigest(k)
    BY <2>1 DEF StoredDigest
  <2>3. PICK i \in DOMAIN auditLog :
          /\ IsNewestOf(auditLog, i, k)
          /\ Keeps(auditLog[i].analysis, StoredDigest(k))
          /\ Keyed(auditLog[i].analysis) => auditLog[i].analysis = StoredDigest(k)
    BY <2>1 DEF Committed
  <2>4. /\ i \in DOMAIN auditLog' /\ auditLog'[i] = auditLog[i]
        /\ IsNewestOf(auditLog', i, k)
    BY <1>1, <1>3, <2>3, LogGrows
  <2> QED
    BY <2>2, <2>3, <2>4 DEF Committed
<1> QED
  BY <1>2, <1>3
-----------------------------------------------------------------------------
(* The chain *)

\* The hashes of the log are sequences, each one longer than the one before.
SeqHashes(log) ==
    \A i \in DOMAIN log : /\ log[i].hash \in Seq(Range(log[i].hash))
                          /\ log[i].prev \in Seq(Range(log[i].prev))
                          /\ log[i].hash # log[i].prev

LEMMA AppendIsSeq ==
    ASSUME NEW s, s \in Seq(Range(s)), NEW x
    PROVE  Append(s, x) \in Seq(Range(Append(s, x))) /\ Append(s, x) # s
<1> DEFINE S == Range(s) \cup {x}
           t == Append(s, x)
<1>1. s \in Seq(S) /\ x \in S
  OBVIOUS
<1>2. t \in Seq(S) /\ Len(t) = Len(s) + 1
  BY <1>1, AppendProperties
<1>3. Len(s) \in Nat
  BY LenProperties
<1>4. \A i \in 1..Len(t) : t[i] \in Range(t)
  BY <1>2 DEF Range
<1>5. t \in Seq(Range(t))
  BY <1>2, <1>4
<1> QED
  BY <1>2, <1>3, <1>5

\* Appending an entry extends an unbroken chain to an unbroken chain.
LEMMA AppendKeepsChain ==
    ASSUME StoreTypeOK, ChainIntact(auditLog), SeqHashes(auditLog),
           NEW j, NEW a, NEW c, AppendAudit(j, a, c)
    PROVE  ChainIntact(auditLog') /\ SeqHashes(auditLog')
<1> DEFINE entry == NextEntry(auditLog, j, a, c)
           n == Len(auditLog)
           last == IF auditLog = <<>> THEN Genesis ELSE auditLog[n].hash
<1>1. CASE auditLog' = auditLog
  BY <1>1
<1>2. CASE auditLog' = Append(auditLog, entry)
  <2>1. n \in Nat /\ DOMAIN auditLog = 1..n /\ (auditLog = <<>> <=> n = 0)
    BY DEF StoreTypeOK
  <2>2. /\ DOMAIN auditLog' = 1..(n + 1) /\ auditLog'[n + 1] = entry
        /\ \A i \in 1..n : auditLog'[i] = auditLog[i]
    BY <1>2, <2>1 DEF StoreTypeOK
  <2>3. last \in Seq(Range(last))
    <3>1. Genesis \in Seq(Range(Genesis))
      BY DEF Genesis
    <3> QED
      BY <2>1, <3>1 DEF SeqHashes
  <2>4. /\ entry.prev = last
        /\ entry.hash = EntryHash(entry.seq, entry.job, entry.analysis, entry.capture, last)
    BY DEF NextEntry, HeadHash
  <2>5. /\ entry.hash \in Seq(Range(entry.hash)) /\ entry.prev \in Seq(Range(entry.prev))
        /\ entry.hash # entry.prev
    BY <2>3, <2>4, AppendIsSeq DEF EntryHash
  <2>6. SeqHashes(auditLog')
    BY <2>1, <2>2, <2>5 DEF SeqHashes
  <2>7. ASSUME NEW i \in 1..(n + 1)
        PROVE  LET prev == IF i = 1 THEN Genesis ELSE auditLog'[i - 1].hash
               IN  /\ auditLog'[i].prev = prev
                   /\ auditLog'[i].hash = EntryHash(auditLog'[i].seq, auditLog'[i].job,
                                auditLog'[i].analysis, auditLog'[i].capture, prev)
    <3>1. CASE i = n + 1
      BY <2>1, <2>2, <2>4, <3>1
    <3>2. CASE i \in 1..n
      BY <2>1, <2>2, <3>2 DEF ChainIntact
    <3> QED
      BY <2>1, <3>1, <3>2
  <2>8. ChainIntact(auditLog')
    BY <2>2, <2>7 DEF ChainIntact
  <2> QED
    BY <2>6, <2>8
<1> QED
  BY <1>1, <1>2 DEF AppendAudit

\* A SHA-256 as the model takes it: equal hashes over one previous hash are
\* hashes of the same fields.
LEMMA HashIsInjective ==
    ASSUME NEW prev, prev \in Seq(Range(prev)), NEW q, NEW j, NEW a, NEW c,
           NEW r, NEW k, NEW b, NEW d,
           EntryHash(q, j, a, c, prev) = EntryHash(r, k, b, d, prev)
    PROVE  q = r /\ j = k /\ a = b /\ c = d
<1> DEFINE x == <<q, j, a, c>>
           y == <<r, k, b, d>>
<1>1. Append(prev, x) = Append(prev, y)
  BY DEF EntryHash
<1>2. prev \in Seq(Range(prev) \cup {x, y})
  OBVIOUS
<1>3. x = y
  BY <1>1, <1>2, AppendProperties
<1> QED
  BY <1>3

\* Changing the job, the analysis or the capture of one entry breaks the chain.
LEMMA ForgeryBreaksChain ==
    ASSUME NEW log, NEW i \in DOMAIN log, ChainIntact(log), SeqHashes(log),
           log \in Seq(Range(log)), IsEntry(log[i]), NEW f, f # log[i],
           \/ \E j : f = [log[i] EXCEPT !.job = j]
           \/ \E a : f = [log[i] EXCEPT !.analysis = a]
           \/ \E c : f = [log[i] EXCEPT !.capture = c]
    PROVE  ~ ChainIntact([log EXCEPT ![i] = f])
<1> SUFFICES ASSUME ChainIntact([log EXCEPT ![i] = f]) PROVE FALSE
  OBVIOUS
<1> DEFINE e == log[i]
           new == [log EXCEPT ![i] = f]
           prev == IF i = 1 THEN Genesis ELSE log[i - 1].hash
<1>1. DOMAIN new = DOMAIN log /\ new[i] = f /\ (i # 1 => new[i - 1] = log[i - 1])
  OBVIOUS
<1>2. e.prev = prev /\ e.hash = EntryHash(e.seq, e.job, e.analysis, e.capture, prev)
  BY DEF ChainIntact
<1>3. f.hash = EntryHash(f.seq, f.job, f.analysis, f.capture, prev)
  BY <1>1 DEF ChainIntact
<1>4. f.hash = e.hash
  BY DEF IsEntry
<1>5. prev \in Seq(Range(prev))
  BY <1>2 DEF SeqHashes
<1>6. f.job = e.job /\ f.analysis = e.analysis /\ f.capture = e.capture
  BY <1>2, <1>3, <1>4, <1>5, HashIsInjective
<1>7. f = e
  BY <1>6 DEF IsEntry
<1> QED
  BY <1>7

\* Taking out an entry that is not the last breaks the chain.
LEMMA RemovalBreaksChain ==
    ASSUME NEW log, NEW i \in DOMAIN log, ChainIntact(log), SeqHashes(log),
           log \in Seq(Range(log)), i < Len(log)
    PROVE  ~ ChainIntact(RemoveAt(log, i))
<1> SUFFICES ASSUME ChainIntact(RemoveAt(log, i)) PROVE FALSE
  OBVIOUS
<1> DEFINE n == Len(log)
           new == RemoveAt(log, i)
           prev == IF i = 1 THEN Genesis ELSE log[i - 1].hash
<1>1. n \in Nat /\ DOMAIN log = 1..n /\ i \in 1..(n - 1)
  BY LenProperties
<1>2. /\ i \in DOMAIN new /\ new[i] = log[i + 1]
      /\ i # 1 => new[i - 1] = log[i - 1]
  <2> DEFINE p == SubSeq(log, 1, i - 1)
             q == SubSeq(log, i + 1, n)
  <2>1. /\ p \in Seq(Range(log)) /\ Len(p) = i - 1
        /\ \A k \in 1..(i - 1) : p[k] = log[k]
    BY <1>1, SubSeqProperties
  <2>2. /\ q \in Seq(Range(log)) /\ Len(q) = n - i
        /\ \A k \in 1..(n - i) : q[k] = log[i + k]
    <3>1. \A k \in (i + 1)..n : log[k] \in Range(log)
      BY <1>1
    <3>2. /\ q \in Seq(Range(log))
          /\ Len(q) = IF i + 1 <= n THEN n - (i + 1) + 1 ELSE 0
          /\ \A k \in 1..(n - (i + 1) + 1) : q[k] = log[i + 1 + k - 1]
      BY <1>1, <3>1, SubSeqProperties
    <3> HIDE DEF q
    <3>3. n - (i + 1) + 1 = n - i /\ i + 1 <= n
      BY <1>1
    <3>4. ASSUME NEW k \in 1..(n - i) PROVE q[k] = log[i + k]
      <4>1. i + 1 + k - 1 = i + k
        BY <1>1
      <4> QED
        BY <3>2, <3>3, <4>1
    <3> QED
      BY <3>2, <3>3, <3>4
  <2>3. new = p \o q
    BY DEF RemoveAt
  <2> HIDE DEF p, q, new
  <2>4. /\ DOMAIN new = 1..(n - 1)
        /\ \A k \in 1..(n - 1) : new[k] = IF k <= i - 1 THEN p[k] ELSE q[k - (i - 1)]
    <3>1. /\ new \in Seq(Range(log)) /\ Len(new) = Len(p) + Len(q)
          /\ \A k \in 1..(Len(p) + Len(q)) :
                new[k] = IF k <= Len(p) THEN p[k] ELSE q[k - Len(p)]
      BY <2>1, <2>2, <2>3, ConcatProperties
    <3> QED
      BY <1>1, <2>1, <2>2, <3>1
  <2>5. new[i] = log[i + 1]
    <3>1. new[i] = q[1]
      BY <1>1, <2>4
    <3> QED
      BY <1>1, <2>2, <3>1
  <2>6. i # 1 => new[i - 1] = log[i - 1]
    <3>1. i # 1 => i - 1 \in 1..(n - 1) /\ i - 1 \in 1..(i - 1)
      BY <1>1
    <3> QED
      BY <2>1, <2>4, <3>1
  <2> QED
    BY <1>1, <2>4, <2>5, <2>6
<1> HIDE DEF new
<1>3. log[i + 1].prev = prev
  BY <1>2 DEF ChainIntact, new
<1>4. log[i + 1].prev = log[i].hash /\ log[i].prev = prev
  BY <1>1 DEF ChainIntact
<1> QED
  BY <1>3, <1>4 DEF SeqHashes
-----------------------------------------------------------------------------
(* The requests *)

\* The job ids in use were issued, and a row was written with an audit entry.
IssuedOK ==
    /\ \A r \in Request : target[r] \in issued \cup {NoJob}
    /\ run.job \in issued \cup {NoJob}
    /\ \A i \in DOMAIN auditLog : auditLog[i].job \in issued
    /\ deleted \subseteq issued
    /\ \A j \in Job : jobs[j] # NoRow => \E i \in DOMAIN auditLog : auditLog[i].job = j

\* r holds a job id that only it has been told.
Private(r) == pc[r] \in {"receiving", "received", "analysed", "seeded", "seedAnalysed"}

\* An upload or a seed under way has its job to itself, and its file is there:
\* it is what makes reading the file back in the next step safe.
PrivateOK ==
    \A r \in Request : Private(r) =>
        /\ disk[target[r]] \in Capture
        /\ jobs[target[r]] = NoRow
        /\ target[r] # run.job
        /\ \A i \in DOMAIN auditLog : auditLog[i].job # target[r]
        /\ \A q \in Request \ {r} : target[q] # target[r]

\* The inductive invariant behind the type invariant.
TypeInv == TypeOK /\ IssuedOK /\ PrivateOK

-----------------------------------------------------------------------------
(* Parts of the type invariant that many steps share *)

LEMMA AnalysisType == ASSUME NEW c \in Capture PROVE Analysis(c) \in Draft
BY AnalysisAssumption DEF Analysis, Draft

LEMMA NoDraftType == NoDraft \in Draft
BY BoundAssumption DEF NoDraft, Draft, Capture

LEMMA ZeroIsCapture == 0 \in Capture
BY BoundAssumption DEF Capture

LEMMA FinishType ==
    ASSUME LocalsTypeOK, NEW r \in Request, NEW from, Finish(r, from)
    PROVE  LocalsTypeOK'
BY NoDraftType DEF LocalsTypeOK, Finish, Labels

LEMMA GotoType ==
    ASSUME LocalsTypeOK, NEW r \in Request, NEW from \in Labels \ {"idle"},
           NEW to \in Labels, Goto(r, from, to), UNCHANGED target,
           draft' \in [Request -> Draft], keeps' \in [Request -> BOOLEAN]
    PROVE  LocalsTypeOK'
BY DEF LocalsTypeOK, Goto

LEMMA StartType ==
    ASSUME LocalsTypeOK, NEW r \in Request, NEW j \in Job,
           NEW to \in Labels, Goto(r, "idle", to), target' = [target EXCEPT ![r] = j],
           draft' \in [Request -> Draft], keeps' \in [Request -> BOOLEAN]
    PROVE  LocalsTypeOK'
BY DEF LocalsTypeOK, Goto

LEMMA LocalsUnchanged ==
    ASSUME LocalsTypeOK, UNCHANGED reqVars PROVE LocalsTypeOK'
BY DEF LocalsTypeOK, reqVars

LEMMA ServerUnchanged ==
    ASSUME RunTypeOK, CheckTypeOK, CountersTypeOK,
           UNCHANGED <<run, check, bounds>>,
           issued' \subseteq Job, seeding' \in BOOLEAN
    PROVE  RunTypeOK' /\ CheckTypeOK' /\ CountersTypeOK'
BY DEF RunTypeOK, CheckTypeOK, CountersTypeOK, bounds

\* What a draft that r fills in has to be for draft to keep its type.
LEMMA DraftUpdate ==
    ASSUME LocalsTypeOK, NEW r \in Request, NEW d \in Draft,
           draft' = [draft EXCEPT ![r] = d]
    PROVE  draft' \in [Request -> Draft]
BY DEF LocalsTypeOK
-----------------------------------------------------------------------------
(* Type correctness, one lemma per kind of request *)

LEMMA InitType == Init => TypeOK
<1> SUFFICES ASSUME Init PROVE TypeOK
  OBVIOUS
<1>1. StoreTypeOK
  BY StoreInitType DEF Init
<1>2. LocalsTypeOK
  BY NoDraftType DEF Init, LocalsTypeOK, Labels
<1>3. RunTypeOK /\ CheckTypeOK
  BY NoDraftType, ZeroIsCapture DEF Init, RunTypeOK, CheckTypeOK, IdleRun, IdleCheck
<1>4. CountersTypeOK
  BY RequestAssumption DEF Init, CountersTypeOK
<1> QED
  BY <1>1, <1>2, <1>3, <1>4 DEF TypeOK

LEMMA UploadType ==
    ASSUME TypeInv, NEW r \in Request, Upload(r) PROVE TypeOK'
<1> USE DEF TypeInv, TypeOK
<1>1. CASE OpenUpload(r)
  <2>1. PICK j \in Job \ issued, keep \in KeepCaptures :
          /\ Goto(r, "idle", "receiving")
          /\ target' = [target EXCEPT ![r] = j]
          /\ keeps' = [keeps EXCEPT ![r] = keep]
          /\ issued' = issued \cup {j}
          /\ PutFile(j, 0)
          /\ UNCHANGED <<draft, run, check, seeding, bounds>>
    BY <1>1 DEF OpenUpload
  <2>2. StoreTypeOK'
    BY <2>1, PutFileType, ZeroIsCapture
  <2>3. LocalsTypeOK'
    BY <2>1, StartType, RequestAssumption DEF LocalsTypeOK, Labels
  <2> QED
    BY <2>1, <2>2, <2>3, ServerUnchanged DEF CountersTypeOK
<1>2. CASE ReceiveRest(r)
  <2>1. StoreTypeOK'
    BY <1>2, PutFileType DEF ReceiveRest
  <2>2. LocalsTypeOK'
    BY <1>2, GotoType DEF ReceiveRest, LocalsTypeOK, Labels
  <2> QED
    BY <1>2, <2>1, <2>2, ServerUnchanged DEF ReceiveRest, CountersTypeOK
<1>3. CASE RefuseUpload(r) \/ RejectUpload(r) \/ DiscardUpload(r)
  <2> USE DEF RefuseUpload, RejectUpload, DiscardUpload
  <2>1. StoreTypeOK'
    BY <1>3, UnlinkType
  <2>2. LocalsTypeOK'
    BY <1>3, FinishType
  <2> QED
    BY <1>3, <2>1, <2>2, ServerUnchanged DEF CountersTypeOK
<1>4. CASE AnalyseUpload(r)
  <2>1. Analysis(disk[target[r]]) \in Draft
    BY <1>4, AnalysisType DEF AnalyseUpload, Goto, PrivateOK, Private
  <2>2. draft' \in [Request -> Draft]
    BY <1>4, <2>1, DraftUpdate DEF AnalyseUpload
  <2>3. LocalsTypeOK'
    BY <1>4, <2>2, GotoType DEF AnalyseUpload, LocalsTypeOK, Labels
  <2> QED
    BY <1>4, <2>3, StoreUnchangedType, ServerUnchanged
    DEF AnalyseUpload, CountersTypeOK
<1>5. CASE SaveUpload(r)
  <2>1. /\ target[r] \in Job /\ draft[r] \in Draft /\ keeps[r] \in BOOLEAN
        /\ SaveAnalysis(target[r], draft[r], keeps[r])
    BY <1>5 DEF SaveUpload, Finish, Goto, LocalsTypeOK
  <2>2. StoreTypeOK'
    BY <2>1, SaveAnalysisType
  <2>3. LocalsTypeOK'
    <3>1. CASE Finish(r, "analysed")
      BY <3>1, FinishType
    <3>2. CASE Goto(r, "analysed", "saved") /\ UNCHANGED <<target, draft, keeps>>
      BY <3>2, GotoType DEF LocalsTypeOK, Labels
    <3> QED
      BY <1>5, <3>1, <3>2 DEF SaveUpload
  <2> QED
    BY <1>5, <2>2, <2>3, ServerUnchanged DEF SaveUpload, CountersTypeOK
<1>6. CASE SaveUploadFails(r)
  BY <1>6, FinishType, StoreUnchangedType, ServerUnchanged
  DEF SaveUploadFails, CountersTypeOK
<1> QED
  BY <1>1, <1>2, <1>3, <1>4, <1>5, <1>6 DEF Upload

LEMMA SeedType ==
    ASSUME TypeInv, NEW r \in Request, Seed(r) PROVE TypeOK'
<1> USE DEF TypeInv, TypeOK
<1>1. CASE SeedCopy(r)
  <2>1. PICK j \in Job \ issued :
          /\ Goto(r, "idle", "seeded")
          /\ target' = [target EXCEPT ![r] = j]
          /\ issued' = issued \cup {j}
          /\ PutFile(j, DemoCapture)
          /\ UNCHANGED <<draft, keeps>>
    BY <1>1 DEF SeedCopy
  <2>2. StoreTypeOK'
    BY <2>1, PutFileType, RequestAssumption
  <2>3. LocalsTypeOK'
    BY <2>1, StartType DEF LocalsTypeOK, Labels
  <2> QED
    BY <1>1, <2>1, <2>2, <2>3, ServerUnchanged DEF SeedCopy, CountersTypeOK
<1>2. CASE SeedAnalyse(r)
  <2>1. Analysis(disk[target[r]]) \in Draft
    BY <1>2, AnalysisType DEF SeedAnalyse, Goto, PrivateOK, Private
  <2>2. draft' \in [Request -> Draft]
    BY <1>2, <2>1, DraftUpdate DEF SeedAnalyse
  <2>3. LocalsTypeOK'
    BY <1>2, <2>2, GotoType DEF SeedAnalyse, LocalsTypeOK, Labels
  <2> QED
    BY <1>2, <2>3, StoreUnchangedType, ServerUnchanged DEF SeedAnalyse, CountersTypeOK
<1>3. CASE SeedSave(r)
  <2>1. /\ target[r] \in Job /\ draft[r] \in Draft
        /\ SaveAnalysis(target[r], draft[r], TRUE)
    BY <1>3 DEF SeedSave, Finish, LocalsTypeOK
  <2>2. StoreTypeOK'
    BY <2>1, SaveAnalysisType
  <2> QED
    BY <1>3, <2>2, FinishType, ServerUnchanged DEF SeedSave, CountersTypeOK
<1>4. CASE SeedFails(r)
  BY <1>4, FinishType, StoreUnchangedType, ServerUnchanged
  DEF SeedFails, CountersTypeOK
<1> QED
  BY <1>1, <1>2, <1>3, <1>4 DEF Seed

LEMMA SeedSkippedType == ASSUME TypeInv, SeedSkipped PROVE TypeOK'
BY StoreUnchangedType, LocalsUnchanged, ServerUnchanged
DEF TypeInv, TypeOK, SeedSkipped, CountersTypeOK

\* Applying a gateway output to listed sessions gives sessions.
LEMMA MergedType ==
    ASSUME NEW listed \in Seq(SessionDoc), NEW g \in Report, NEW matched
    PROVE  LET merged == [i \in DOMAIN listed |->
                            IF listed[i].id \in matched
                            THEN ApplyGateway(g, listed[i]) ELSE listed[i]]
           IN  merged \in Seq(SessionDoc)
<1> DEFINE merged == [i \in DOMAIN listed |->
                        IF listed[i].id \in matched
                        THEN ApplyGateway(g, listed[i]) ELSE listed[i]]
<1>1. DOMAIN listed = 1..Len(listed) /\ Len(listed) \in Nat
  BY LenProperties
<1>2. ASSUME NEW i \in DOMAIN listed
      PROVE  merged[i] \in SessionDoc
  <2>1. listed[i] \in SessionDoc
    BY <1>1
  <2> QED
    BY <2>1 DEF ApplyGateway, SessionDoc
<1>3. merged \in Seq(SessionDoc)
  BY <1>1, <1>2
<1> QED
  BY <1>3

LEMMA ImportType ==
    ASSUME TypeInv, NEW r \in Request, Import(r) PROVE TypeOK'
<1> USE DEF TypeInv, TypeOK
<1>1. CASE ImportJob(r)
  <2>1. PICK j \in Job :
          /\ jobs[j] # NoRow
          /\ Goto(r, "idle", "importing")
          /\ target' = [target EXCEPT ![r] = j]
          /\ draft' = [draft EXCEPT ![r].stats = jobs[j].stats]
          /\ UNCHANGED keeps
    BY <1>1 DEF ImportJob
  <2>2. draft' \in [Request -> Draft]
    BY <2>1 DEF StoreTypeOK, LocalsTypeOK, Row, Draft
  <2>3. LocalsTypeOK'
    BY <2>1, <2>2, StartType DEF LocalsTypeOK, Labels
  <2> QED
    BY <1>1, <2>3, StoreUnchangedType, ServerUnchanged DEF ImportJob, CountersTypeOK
<1>2. CASE ImportSessions(r)
  <2> DEFINE listed == Listing(sessions[target[r]])
             merged(g, matched) == [i \in DOMAIN listed |->
                                      IF listed[i].id \in matched
                                      THEN ApplyGateway(g, listed[i]) ELSE listed[i]]
  <2>1. PICK g \in Report, matched \in SUBSET Id :
          /\ Goto(r, "importing", "importMerged")
          /\ draft' = [draft EXCEPT ![r].sessions = merged(g, matched)]
    BY <1>2 DEF ImportSessions
  <2>2. listed \in Seq(SessionDoc)
    BY <1>2, ListingType DEF ImportSessions, StoreTypeOK, LocalsTypeOK
  <2>3. merged(g, matched) \in Seq(SessionDoc)
    BY <2>2, MergedType
  <2> HIDE DEF merged
  <2>4. draft' \in [Request -> Draft]
    BY <2>1, <2>3 DEF LocalsTypeOK, Draft
  <2>5. LocalsTypeOK'
    BY <1>2, <2>1, <2>4, GotoType DEF ImportSessions, LocalsTypeOK, Labels
  <2> QED
    BY <1>2, <2>5, StoreUnchangedType, ServerUnchanged
    DEF ImportSessions, CountersTypeOK
<1>3. CASE ImportEvents(r)
  <2>1. Listing(events[target[r]]) \in Seq(EventDoc)
    BY <1>3, ListingType DEF ImportEvents, Goto, StoreTypeOK, LocalsTypeOK
  <2>2. draft' \in [Request -> Draft]
    BY <1>3, <2>1 DEF ImportEvents, LocalsTypeOK, Draft
  <2>3. LocalsTypeOK'
    BY <1>3, <2>2, GotoType DEF ImportEvents, LocalsTypeOK, Labels
  <2> QED
    BY <1>3, <2>3, StoreUnchangedType, ServerUnchanged DEF ImportEvents, CountersTypeOK
<1>4. CASE ImportPath(r)
  <2>1. CaptureAvailable(target[r]) \in BOOLEAN
    BY <1>4 DEF ImportPath, Goto, CaptureAvailable, StoreTypeOK, LocalsTypeOK, Row
  <2>2. LocalsTypeOK'
    BY <1>4, <2>1, GotoType DEF ImportPath, LocalsTypeOK, Labels
  <2> QED
    BY <1>4, <2>2, StoreUnchangedType, ServerUnchanged DEF ImportPath, CountersTypeOK
<1>5. CASE ImportSave(r)
  <2>1. /\ target[r] \in Job /\ draft[r] \in Draft /\ keeps[r] \in BOOLEAN
        /\ SaveAnalysis(target[r], draft[r], keeps[r])
    BY <1>5 DEF ImportSave, Finish, LocalsTypeOK
  <2>2. StoreTypeOK'
    BY <2>1, SaveAnalysisType
  <2> QED
    BY <1>5, <2>2, FinishType, ServerUnchanged DEF ImportSave, CountersTypeOK
<1>6. CASE ImportFails(r)
  BY <1>6, FinishType, StoreUnchangedType, ServerUnchanged
  DEF ImportFails, CountersTypeOK
<1> QED
  BY <1>1, <1>2, <1>3, <1>4, <1>5, <1>6 DEF Import

LEMMA DeleteType ==
    ASSUME TypeInv, NEW r \in Request, Delete(r) PROVE TypeOK'
<1> USE DEF TypeInv, TypeOK
<1>1. CASE DeleteJob(r)
  <2>1. PICK j \in Job : /\ Goto(r, "idle", "deleting")
                         /\ target' = [target EXCEPT ![r] = j]
                         /\ keeps' = [keeps EXCEPT ![r] = CaptureAvailable(j)]
    BY <1>1 DEF DeleteJob
  <2>2. CaptureAvailable(j) \in BOOLEAN
    BY DEF CaptureAvailable, StoreTypeOK, Row
  <2>3. LocalsTypeOK'
    <3>1. draft' \in [Request -> Draft] /\ keeps' \in [Request -> BOOLEAN]
      BY <1>1, <2>1, <2>2 DEF DeleteJob, LocalsTypeOK
    <3>2. "deleting" \in Labels
      BY DEF Labels
    <3> QED
      BY <2>1, <3>1, <3>2, StartType
  <2> QED
    BY <1>1, <2>3, StoreUnchangedType, ServerUnchanged DEF DeleteJob, CountersTypeOK
<1>2. CASE DeleteCommit(r)
  <2>1. target[r] \in Job /\ DeleteRows(target[r])
    BY <1>2 DEF DeleteCommit, Finish, Goto, LocalsTypeOK
  <2>2. LocalsTypeOK'
    <3>1. CASE Finish(r, "deleting")
      BY <3>1, FinishType
    <3>2. CASE Goto(r, "deleting", "unlinking") /\ UNCHANGED <<target, draft, keeps>>
      BY <3>2, GotoType DEF LocalsTypeOK, Labels
    <3> QED
      BY <1>2, <3>1, <3>2 DEF DeleteCommit
  <2> QED
    BY <1>2, <2>1, <2>2, DeleteRowsType, ServerUnchanged
    DEF DeleteCommit, CountersTypeOK
<1>3. CASE DeleteFails(r)
  BY <1>3, FinishType, StoreUnchangedType, ServerUnchanged
  DEF DeleteFails, CountersTypeOK
<1>4. CASE DeleteFile(r)
  BY <1>4, FinishType, UnlinkType, ServerUnchanged DEF DeleteFile, CountersTypeOK
<1> QED
  BY <1>1, <1>2, <1>3, <1>4 DEF Delete

LEMMA LiveType == ASSUME TypeInv, Live PROVE TypeOK'
<1> USE DEF TypeInv, TypeOK
<1>1. CASE LiveStart
  <2>1. PICK j \in Job \ issued :
          /\ run' = [IdleRun EXCEPT !.state = "running", !.job = j, !.growing = TRUE]
          /\ issued' = issued \cup {j}
    BY <1>1 DEF LiveStart
  <2>2. RunTypeOK'
    BY <2>1, NoDraftType DEF RunTypeOK, IdleRun
  <2>3. CountersTypeOK'
    BY <1>1, <2>1, RequestAssumption DEF LiveStart, CountersTypeOK
  <2> QED
    BY <1>1, <2>2, <2>3, StoreUnchangedType, LocalsUnchanged DEF LiveStart, CheckTypeOK
<1>2. CASE SourceWrites
  <2>1. PICK c \in Capture : PutFile(run.job, c)
    BY <1>2, BoundAssumption DEF SourceWrites, Capture
  <2> QED
    BY <1>2, <2>1, PutFileType, LocalsUnchanged, ServerUnchanged
    DEF SourceWrites, CountersTypeOK
<1>3. CASE SourceEnds
  <2>1. RunTypeOK'
    BY <1>3 DEF SourceEnds, RunTypeOK
  <2> QED
    BY <1>3, <2>1, StoreUnchangedType, LocalsUnchanged
    DEF SourceEnds, CountersTypeOK, CheckTypeOK, bounds
<1>4. CASE LiveAnalyse
  <2>1. run.job \in Job /\ disk[run.job] \in Capture
    BY <1>4 DEF LiveAnalyse, RunTypeOK, StoreTypeOK
  <2>2. Analysis(disk[run.job]) \in Draft
    BY <2>1, AnalysisType
  <2>3. RunTypeOK'
    BY <1>4, <2>1, <2>2 DEF LiveAnalyse, RunTypeOK
  <2> QED
    BY <1>4, <2>3, StoreUnchangedType, LocalsUnchanged
    DEF LiveAnalyse, CountersTypeOK, CheckTypeOK, bounds
<1>5. CASE LiveSave
  <2>1. /\ run.job \in Job /\ run.draft \in Draft
        /\ SaveAnalysis(run.job, run.draft, TRUE)
    BY <1>5 DEF LiveSave, RunTypeOK
  <2>2. StoreTypeOK'
    BY <2>1, SaveAnalysisType
  <2>3. RunTypeOK'
    BY <1>5, NoDraftType DEF LiveSave, RunTypeOK
  <2> QED
    BY <1>5, <2>2, <2>3, LocalsUnchanged
    DEF LiveSave, CountersTypeOK, CheckTypeOK, bounds
<1>6. CASE LiveEnd
  <2>1. RunTypeOK'
    BY <1>6, NoDraftType DEF LiveEnd, RunTypeOK, IdleRun
  <2> QED
    BY <1>6, <2>1, StoreUnchangedType, LocalsUnchanged
    DEF LiveEnd, CountersTypeOK, CheckTypeOK, bounds
<1> QED
  BY <1>1, <1>2, <1>3, <1>4, <1>5, <1>6 DEF Live

LEMMA VerifyType == ASSUME TypeInv, Verify PROVE TypeOK'
<1> USE DEF TypeInv, TypeOK
<1>1. CheckTypeOK'
  <2>1. CASE CheckEntries
    <3> DEFINE named == {auditLog[i].job : i \in DOMAIN auditLog}
    <3>1. named \subseteq Job
      BY DEF StoreTypeOK, IsEntry
    <3>2. check' = [IdleCheck EXCEPT !.pc = "jobs", !.log = auditLog, !.todo = named]
      BY <2>1 DEF CheckEntries
    <3> HIDE DEF named
    <3> QED
      BY <3>1, <3>2, ZeroIsCapture DEF CheckTypeOK, IdleCheck
  <2>2. CASE CheckJob
    <3>1. PICK j \in check.todo :
            check' = IF jobs[j] = NoRow
                     THEN [check EXCEPT !.todo = @ \ {j}]
                     ELSE [check EXCEPT !.pc = "sessions", !.todo = @ \ {j},
                                        !.job = j, !.stats = jobs[j].stats]
      BY <2>2 DEF CheckJob
    <3>2. j \in Job /\ (jobs[j] # NoRow => jobs[j].stats \in Capture)
      BY DEF CheckTypeOK, StoreTypeOK, Row
    <3> QED
      BY <2>2, <3>1, <3>2 DEF CheckJob, CheckTypeOK
  <2>3. CASE CheckSessions
    BY <2>3 DEF CheckSessions, CheckTypeOK
  <2>4. CASE CheckEvents
    BY <2>4, ZeroIsCapture DEF CheckEvents, CheckTypeOK
  <2>5. CASE CheckAnswers
    BY <2>5, ZeroIsCapture DEF CheckAnswers, CheckTypeOK, IdleCheck
  <2> QED
    BY <2>1, <2>2, <2>3, <2>4, <2>5 DEF Verify
<1>2. UNCHANGED <<storeVars, reqVars, run, issued, seeding, bounds>>
  BY DEF Verify, CheckEntries, CheckJob, CheckSessions, CheckEvents, CheckAnswers
<1> QED
  BY <1>1, <1>2, StoreUnchangedType, LocalsUnchanged
  DEF RunTypeOK, CountersTypeOK, bounds

LEMMA CrashType == ASSUME TypeInv, Crash PROVE TypeOK'
<1> USE DEF TypeInv, TypeOK
<1>1. LocalsTypeOK'
  BY NoDraftType DEF Crash, LocalsTypeOK, Labels
<1>2. RunTypeOK' /\ CheckTypeOK'
  BY NoDraftType, ZeroIsCapture DEF Crash, RunTypeOK, CheckTypeOK, IdleRun, IdleCheck
<1>3. CountersTypeOK'
  BY RequestAssumption DEF Crash, CountersTypeOK
<1> QED
  BY <1>1, <1>2, <1>3, StoreUnchangedType DEF Crash
-----------------------------------------------------------------------------
(* Who holds which job id *)

\* A save by the holder of a known id, or by the one holder of a private id
\* that then lets go of it, keeps every other private id private.
LEMMA SaveKeepsIssued ==
    ASSUME TypeInv, NEW j \in issued, NEW d \in Draft, NEW kept \in BOOLEAN,
           SaveAnalysis(j, d, kept), UNCHANGED issued,
           \A r \in Request : target'[r] \in {target[r], NoJob},
           run'.job = run.job
    PROVE  IssuedOK'
<1>1. StoreTypeOK /\ issued \subseteq Job
  BY DEF TypeInv, TypeOK, CountersTypeOK
<1>2. PICK a, c : AppendAudit(j, a, c) /\ jobs' = [jobs EXCEPT ![j] = [stats |-> d.stats, kept |-> kept]]
  BY DEF SaveAnalysis
<1>3. /\ DOMAIN auditLog \subseteq DOMAIN auditLog'
      /\ \A i \in DOMAIN auditLog : auditLog'[i] = auditLog[i]
      /\ \A i \in DOMAIN auditLog' \ DOMAIN auditLog : auditLog'[i].job = j
      /\ IsLogged(auditLog', j, a)
  BY <1>1, <1>2, LogGrows
<1>4. \E i \in DOMAIN auditLog' : auditLog'[i].job = j
  BY <1>3 DEF IsLogged, IsNewestOf
<1>5. \A i \in DOMAIN auditLog' : auditLog'[i].job \in issued
  BY <1>3 DEF TypeInv, IssuedOK
<1>6. ASSUME NEW k \in Job, jobs'[k] # NoRow
      PROVE  \E i \in DOMAIN auditLog' : auditLog'[i].job = k
  BY <1>1, <1>2, <1>3, <1>4, <1>6 DEF TypeInv, IssuedOK, StoreTypeOK
<1> QED
  BY <1>5, <1>6 DEF TypeInv, IssuedOK, SaveAnalysis

LEMMA SaveKeepsPrivate ==
    ASSUME TypeInv, NEW j \in issued, NEW d \in Draft, NEW kept \in BOOLEAN,
           SaveAnalysis(j, d, kept),
           \A r \in Request : /\ target'[r] \in {target[r], NoJob}
                              /\ Private(r)' => /\ Private(r) /\ target'[r] = target[r]
                                                /\ target[r] # j,
           run'.job = run.job
    PROVE  PrivateOK'
<1>1. StoreTypeOK /\ issued \subseteq Job /\ LocalsTypeOK
  BY DEF TypeInv, TypeOK, CountersTypeOK
<1>2. PICK a, c : AppendAudit(j, a, c) /\ jobs' = [jobs EXCEPT ![j] = [stats |-> d.stats, kept |-> kept]]
  BY DEF SaveAnalysis
<1>3. /\ \A i \in DOMAIN auditLog : auditLog'[i] = auditLog[i]
      /\ \A i \in DOMAIN auditLog' \ DOMAIN auditLog : auditLog'[i].job = j
  BY <1>1, <1>2, LogGrows
<1>4. ASSUME NEW r \in Request, Private(r)'
      PROVE  /\ disk'[target'[r]] \in Capture
             /\ jobs'[target'[r]] = NoRow
             /\ target'[r] # run'.job
             /\ \A i \in DOMAIN auditLog' : auditLog'[i].job # target'[r]
             /\ \A q \in Request \ {r} : target'[q] # target'[r]
  <2>1. Private(r) /\ target'[r] = target[r] /\ target[r] # j
    BY <1>4
  <2>2. target[r] \in Job
    BY <1>1, <2>1 DEF Private, LocalsTypeOK
  <2>3. /\ disk[target[r]] \in Capture /\ jobs[target[r]] = NoRow
        /\ target[r] # run.job
        /\ \A i \in DOMAIN auditLog : auditLog[i].job # target[r]
        /\ \A q \in Request \ {r} : target[q] # target[r]
    BY <2>1 DEF TypeInv, PrivateOK
  <2>4. disk' = disk /\ jobs'[target[r]] = NoRow
    BY <1>2, <2>1, <2>3 DEF SaveAnalysis
  <2> QED
    BY <1>3, <2>1, <2>2, <2>3, <2>4, RequestAssumption
<1> QED
  BY <1>4 DEF PrivateOK

\* A step that opens a fresh id for r, or for the live run, and writes at most
\* the fresh file.
LEMMA FreshKeepsOwners ==
    ASSUME TypeInv, NEW j \in Job \ issued, issued' = issued \cup {j},
           UNCHANGED <<jobs, auditLog, deleted>>,
           \A r \in Request : target'[r] # target[r] =>
               target'[r] = j /\ \A q \in Request \ {r} : target'[q] = target[q],
           \A r \in Request : Private(r)' => Private(r) \/ target'[r] = j,
           \A r \in Request : Private(r)' /\ target'[r] = j => disk'[j] \in Capture,
           \A k \in Job \ {j} : disk'[k] = disk[k],
           \/ run'.job = run.job
           \/ run'.job = j /\ UNCHANGED target
    PROVE  IssuedOK' /\ PrivateOK'
<1>1. IssuedOK'
  BY DEF TypeInv, IssuedOK
<1>2. ASSUME NEW r \in Request, Private(r)'
      PROVE  /\ disk'[target'[r]] \in Capture
             /\ jobs'[target'[r]] = NoRow
             /\ target'[r] # run'.job
             /\ \A i \in DOMAIN auditLog' : auditLog'[i].job # target'[r]
             /\ \A q \in Request \ {r} : target'[q] # target'[r]
  <2>0. \A q \in Request : target[q] # j
    BY RequestAssumption DEF TypeInv, IssuedOK
  <2>1. run.job # j /\ jobs[j] = NoRow /\ \A i \in DOMAIN auditLog : auditLog[i].job # j
    BY RequestAssumption DEF TypeInv, IssuedOK
  <2>2. CASE target'[r] = j
    BY <1>2, <2>0, <2>1, <2>2
  <2>3. CASE target'[r] # j
    <3>1. Private(r) /\ target'[r] = target[r]
      BY <1>2, <2>3
    <3>2. target[r] \in Job
      BY <3>1 DEF TypeInv, TypeOK, Private, LocalsTypeOK
    <3> QED
      BY <2>0, <2>3, <3>1, <3>2 DEF TypeInv, PrivateOK
  <2> QED
    BY <2>2, <2>3
<1> QED
  BY <1>1, <1>2 DEF PrivateOK

\* A step that saves nothing and opens no id: it may finish requests, move a
\* request on, give one a known job, drop rows, or touch a file not private.
LEMMA OtherKeepsOwners ==
    ASSUME TypeInv, UNCHANGED <<auditLog, issued>>,
           deleted' = deleted \/ \E j \in issued : deleted' = deleted \cup {j},
           \A j \in Job : jobs'[j] \in {jobs[j], NoRow},
           \A r \in Request :
              /\ \/ target'[r] \in {target[r], NoJob}
                 \/ target'[r] \in issued /\ \A q \in Request : Private(q) => target[q] # target'[r]
              /\ Private(r)' => /\ Private(r) /\ target'[r] = target[r]
                                /\ \/ disk'[target[r]] = disk[target[r]]
                                   \/ disk'[target[r]] \in Capture,
           run'.job \in {run.job, NoJob}
    PROVE  IssuedOK' /\ PrivateOK'
<1>1. IssuedOK'
  BY DEF TypeInv, IssuedOK
<1>2. ASSUME NEW r \in Request, Private(r)'
      PROVE  /\ disk'[target'[r]] \in Capture
             /\ jobs'[target'[r]] = NoRow
             /\ target'[r] # run'.job
             /\ \A i \in DOMAIN auditLog' : auditLog'[i].job # target'[r]
             /\ \A q \in Request \ {r} : target'[q] # target'[r]
  <2>1. Private(r) /\ target'[r] = target[r]
    BY <1>2
  <2>2. target[r] \in Job
    BY <2>1 DEF TypeInv, TypeOK, Private, LocalsTypeOK
  <2> QED
    BY <1>2, <2>1, <2>2, RequestAssumption DEF TypeInv, PrivateOK
<1> QED
  BY <1>1, <1>2 DEF PrivateOK

LEMMA UploadOwners ==
    ASSUME TypeInv, NEW r \in Request, Upload(r) PROVE IssuedOK' /\ PrivateOK'
<1>0. LocalsTypeOK /\ StoreTypeOK /\ issued \subseteq Job
  BY DEF TypeInv, TypeOK, CountersTypeOK
<1>1. CASE OpenUpload(r)
  <2>1. PICK j \in Job \ issued, keep \in KeepCaptures :
          /\ Goto(r, "idle", "receiving")
          /\ target' = [target EXCEPT ![r] = j]
          /\ issued' = issued \cup {j}
          /\ PutFile(j, 0)
          /\ UNCHANGED run
    BY <1>1 DEF OpenUpload
  <2> QED
    BY <1>0, <2>1, FreshKeepsOwners, ZeroIsCapture
    DEF Goto, PutFile, Private, LocalsTypeOK, StoreTypeOK
<1>2. CASE ReceiveRest(r)
  BY <1>0, <1>2, OtherKeepsOwners
  DEF ReceiveRest, Goto, PutFile, Private, LocalsTypeOK, StoreTypeOK
<1>3. CASE RefuseUpload(r) \/ RejectUpload(r) \/ DiscardUpload(r)
  BY <1>0, <1>3, OtherKeepsOwners
  DEF RefuseUpload, RejectUpload, DiscardUpload, Finish, Unlink, PutFile, Private, PrivateOK, TypeInv,
      LocalsTypeOK, StoreTypeOK
<1>4. CASE AnalyseUpload(r) \/ SaveUploadFails(r)
  BY <1>0, <1>4, OtherKeepsOwners
  DEF AnalyseUpload, SaveUploadFails, Finish, Goto, Private, LocalsTypeOK, storeVars
<1>5. CASE SaveUpload(r)
  <2>1. /\ target[r] \in issued /\ draft[r] \in Draft /\ keeps[r] \in BOOLEAN
        /\ SaveAnalysis(target[r], draft[r], keeps[r]) /\ UNCHANGED <<run, issued>>
    BY <1>0, <1>5, RequestAssumption
    DEF SaveUpload, Finish, Goto, LocalsTypeOK, TypeInv, IssuedOK
  <2>2. /\ \A q \in Request : target'[q] \in {target[q], NoJob}
        /\ \A q \in Request : Private(q)' => Private(q) /\ target'[q] = target[q] /\ q # r
    BY <1>0, <1>5 DEF SaveUpload, Finish, Goto, LocalsTypeOK, Private
  <2>3. \A q \in Request : Private(q)' => target[q] # target[r]
    BY <2>2 DEF TypeInv, PrivateOK
  <2> QED
    BY <2>1, <2>2, <2>3, SaveKeepsIssued, SaveKeepsPrivate
<1> QED
  BY <1>1, <1>2, <1>3, <1>4, <1>5 DEF Upload

LEMMA SeedOwners ==
    ASSUME TypeInv, NEW r \in Request, Seed(r) PROVE IssuedOK' /\ PrivateOK'
<1>0. LocalsTypeOK /\ StoreTypeOK /\ issued \subseteq Job
  BY DEF TypeInv, TypeOK, CountersTypeOK
<1>1. CASE SeedCopy(r)
  <2>1. PICK j \in Job \ issued :
          /\ Goto(r, "idle", "seeded")
          /\ target' = [target EXCEPT ![r] = j]
          /\ issued' = issued \cup {j}
          /\ PutFile(j, DemoCapture)
          /\ UNCHANGED run
    BY <1>1 DEF SeedCopy
  <2> QED
    BY <1>0, <2>1, FreshKeepsOwners, RequestAssumption
    DEF Goto, PutFile, Private, LocalsTypeOK, StoreTypeOK
<1>2. CASE SeedAnalyse(r) \/ SeedFails(r)
  BY <1>0, <1>2, OtherKeepsOwners
  DEF SeedAnalyse, SeedFails, Finish, Goto, Private, LocalsTypeOK, storeVars
<1>3. CASE SeedSave(r)
  <2>1. /\ target[r] \in issued /\ draft[r] \in Draft
        /\ SaveAnalysis(target[r], draft[r], TRUE) /\ UNCHANGED <<run, issued>>
    BY <1>0, <1>3, RequestAssumption
    DEF SeedSave, Finish, LocalsTypeOK, TypeInv, IssuedOK
  <2>2. /\ \A q \in Request : target'[q] \in {target[q], NoJob}
        /\ \A q \in Request : Private(q)' => Private(q) /\ target'[q] = target[q] /\ q # r
    BY <1>0, <1>3 DEF SeedSave, Finish, LocalsTypeOK, Private
  <2>3. \A q \in Request : Private(q)' => target[q] # target[r]
    BY <2>2 DEF TypeInv, PrivateOK
  <2> QED
    BY <2>1, <2>2, <2>3, SaveKeepsIssued, SaveKeepsPrivate
<1> QED
  BY <1>1, <1>2, <1>3 DEF Seed

LEMMA ImportOwners ==
    ASSUME TypeInv, NEW r \in Request, Import(r) PROVE IssuedOK' /\ PrivateOK'
<1>0. LocalsTypeOK /\ StoreTypeOK /\ issued \subseteq Job
  BY DEF TypeInv, TypeOK, CountersTypeOK
<1>1. CASE ImportJob(r)
  <2>1. PICK j \in Job : /\ jobs[j] # NoRow
                         /\ Goto(r, "idle", "importing")
                         /\ target' = [target EXCEPT ![r] = j]
    BY <1>1 DEF ImportJob
  <2>2. j \in issued /\ \A q \in Request : Private(q) => target[q] # j
    BY <2>1 DEF TypeInv, IssuedOK, PrivateOK
  <2> QED
    BY <1>0, <1>1, <2>1, <2>2, OtherKeepsOwners
    DEF ImportJob, Goto, Private, LocalsTypeOK, storeVars
<1>2. CASE ImportSessions(r)
  <2>1. Goto(r, "importing", "importMerged") /\ UNCHANGED <<storeVars, target, run, issued>>
    BY <1>2 DEF ImportSessions
  <2> QED
    BY <1>0, <2>1, OtherKeepsOwners DEF Goto, Private, LocalsTypeOK, storeVars
<1>3. CASE ImportEvents(r) \/ ImportPath(r) \/ ImportFails(r)
  BY <1>0, <1>3, OtherKeepsOwners
  DEF ImportEvents, ImportPath, ImportFails, Finish, Goto, Private, LocalsTypeOK, storeVars
<1>4. CASE ImportSave(r)
  <2>1. /\ target[r] \in issued /\ draft[r] \in Draft /\ keeps[r] \in BOOLEAN
        /\ SaveAnalysis(target[r], draft[r], keeps[r]) /\ UNCHANGED <<run, issued>>
    BY <1>0, <1>4, RequestAssumption
    DEF ImportSave, Finish, LocalsTypeOK, TypeInv, IssuedOK
  <2>2. /\ \A q \in Request : target'[q] \in {target[q], NoJob}
        /\ \A q \in Request : Private(q)' => Private(q) /\ target'[q] = target[q] /\ q # r
    BY <1>0, <1>4 DEF ImportSave, Finish, LocalsTypeOK, Private
  <2>3. \A q \in Request : Private(q)' => target[q] # target[r]
    BY <2>2 DEF TypeInv, PrivateOK
  <2> QED
    BY <2>1, <2>2, <2>3, SaveKeepsIssued, SaveKeepsPrivate
<1> QED
  BY <1>1, <1>2, <1>3, <1>4 DEF Import

LEMMA DeleteOwners ==
    ASSUME TypeInv, NEW r \in Request, Delete(r) PROVE IssuedOK' /\ PrivateOK'
<1>0. LocalsTypeOK /\ StoreTypeOK /\ issued \subseteq Job
  BY DEF TypeInv, TypeOK, CountersTypeOK
<1>1. CASE DeleteJob(r)
  <2>1. PICK j \in Job : /\ Known(j)
                         /\ Goto(r, "idle", "deleting")
                         /\ target' = [target EXCEPT ![r] = j]
    BY <1>1 DEF DeleteJob
  <2>2. j \in issued /\ \A q \in Request : Private(q) => target[q] # j
    BY <2>1, RequestAssumption DEF Known, TypeInv, IssuedOK, PrivateOK
  <2> QED
    BY <1>0, <1>1, <2>1, <2>2, OtherKeepsOwners
    DEF DeleteJob, Goto, Private, LocalsTypeOK, storeVars
<1>2. CASE DeleteCommit(r)
  <2>1. target[r] \in issued /\ DeleteRows(target[r]) /\ UNCHANGED <<run, issued>>
    BY <1>0, <1>2, RequestAssumption
    DEF DeleteCommit, Finish, Goto, LocalsTypeOK, TypeInv, IssuedOK
  <2>2. \A q \in Request : /\ target'[q] \in {target[q], NoJob}
                           /\ Private(q)' => Private(q) /\ target'[q] = target[q]
    BY <1>0, <1>2 DEF DeleteCommit, Finish, Goto, Private, LocalsTypeOK
  <2>3. UNCHANGED <<disk, auditLog>> /\ deleted' = deleted \cup {target[r]}
    BY <2>1 DEF DeleteRows
  <2>4. \A j \in Job : jobs'[j] \in {jobs[j], NoRow}
    BY <1>0, <2>1 DEF DeleteRows, StoreTypeOK
  <2>5. run'.job = run.job /\ UNCHANGED <<auditLog, issued>>
    BY <2>1, <2>3
  <2> QED
    BY <2>1, <2>2, <2>3, <2>4, <2>5, OtherKeepsOwners
<1>3. CASE DeleteFails(r)
  BY <1>0, <1>3, OtherKeepsOwners
  DEF DeleteFails, Finish, Private, LocalsTypeOK, storeVars
<1>4. CASE DeleteFile(r)
  BY <1>0, <1>4, OtherKeepsOwners
  DEF DeleteFile, Finish, Unlink, PutFile, Private, PrivateOK, TypeInv, LocalsTypeOK,
      StoreTypeOK
<1> QED
  BY <1>1, <1>2, <1>3, <1>4 DEF Delete

LEMMA LiveOwners == ASSUME TypeInv, Live PROVE IssuedOK' /\ PrivateOK'
<1>0. LocalsTypeOK /\ StoreTypeOK /\ RunTypeOK /\ issued \subseteq Job
  BY DEF TypeInv, TypeOK, CountersTypeOK
<1>1. CASE LiveStart
  <2>1. PICK j \in Job \ issued :
          /\ run' = [IdleRun EXCEPT !.state = "running", !.job = j, !.growing = TRUE]
          /\ issued' = issued \cup {j}
    BY <1>1 DEF LiveStart
  <2>2. run'.job = j
    BY <2>1 DEF IdleRun
  <2>3. \A r \in Request : target[r] # j
    BY RequestAssumption DEF TypeInv, IssuedOK
  <2> QED
    BY <1>0, <1>1, <2>1, <2>2, <2>3, FreshKeepsOwners
    DEF LiveStart, Private, storeVars, reqVars
<1>2. CASE SourceWrites
  <2>1. PICK c \in Capture : PutFile(run.job, c)
    BY <1>2, BoundAssumption DEF SourceWrites, Capture
  <2>2. \A r \in Request : Private(r) => target[r] # run.job
    BY DEF TypeInv, PrivateOK
  <2> QED
    BY <1>0, <1>2, <2>1, <2>2, OtherKeepsOwners
    DEF SourceWrites, PutFile, Private, reqVars, StoreTypeOK, LocalsTypeOK
<1>3. CASE SourceEnds \/ LiveAnalyse \/ LiveEnd
  <2>1. run'.job = run.job
    BY <1>0, <1>3 DEF SourceEnds, LiveAnalyse, LiveEnd, RunTypeOK, IdleRun
  <2> QED
    BY <1>0, <1>3, <2>1, OtherKeepsOwners
    DEF SourceEnds, LiveAnalyse, LiveEnd, Private, storeVars, reqVars
<1>4. CASE LiveSave
  <2>1. /\ run.job \in issued /\ run.draft \in Draft
        /\ SaveAnalysis(run.job, run.draft, TRUE) /\ UNCHANGED <<reqVars, issued>>
    BY <1>0, <1>4, RequestAssumption DEF LiveSave, RunTypeOK, TypeInv, IssuedOK
  <2>2. run'.job = run.job
    BY <1>0, <1>4 DEF LiveSave, RunTypeOK
  <2>3. \A r \in Request : Private(r)' => Private(r) /\ target[r] # run.job
    BY <2>1 DEF TypeInv, PrivateOK, Private, reqVars
  <2> QED
    BY <2>1, <2>2, <2>3, SaveKeepsIssued, SaveKeepsPrivate DEF reqVars
<1> QED
  BY <1>1, <1>2, <1>3, <1>4 DEF Live

LEMMA RestOwners ==
    ASSUME TypeInv, Verify \/ Crash \/ SeedSkipped PROVE IssuedOK' /\ PrivateOK'
<1>1. CASE Verify
  <2>1. UNCHANGED <<storeVars, reqVars, run, issued>>
    BY <1>1 DEF Verify, CheckEntries, CheckJob, CheckSessions, CheckEvents, CheckAnswers
  <2> QED
    BY <2>1, OtherKeepsOwners DEF storeVars, reqVars, Private
<1>2. CASE Crash
  <2>1. /\ UNCHANGED <<storeVars, issued>> /\ run'.job = NoJob
        /\ \A r \in Request : target'[r] = NoJob /\ ~ Private(r)'
    BY <1>2 DEF Crash, IdleRun, Private
  <2> QED
    BY <2>1, OtherKeepsOwners DEF storeVars
<1>3. CASE SeedSkipped
  BY <1>3, OtherKeepsOwners DEF SeedSkipped, storeVars, reqVars, Private
<1> QED
  BY <1>1, <1>2, <1>3
-----------------------------------------------------------------------------
(* The type invariant *)

LEMMA TypeInvInit == Init => TypeInv
<1> SUFFICES ASSUME Init PROVE IssuedOK /\ PrivateOK
  BY InitType DEF TypeInv
<1> QED
  BY DEF Init, StoreInit, IdleRun, IssuedOK, PrivateOK, Private

LEMMA TypeInvStep == TypeInv /\ [Next]_vars => TypeInv'
<1> SUFFICES ASSUME TypeInv, [Next]_vars PROVE TypeInv'
  OBVIOUS
<1>1. CASE UNCHANGED vars
  <2>1. StoreTypeOK' /\ LocalsTypeOK' /\ RunTypeOK' /\ CheckTypeOK' /\ CountersTypeOK'
    BY <1>1, StoreUnchangedType, LocalsUnchanged, ServerUnchanged
    DEF vars, TypeInv, TypeOK, CountersTypeOK
  <2>2. IssuedOK' /\ PrivateOK'
    BY <1>1, OtherKeepsOwners DEF vars, storeVars, reqVars, Private
  <2> QED
    BY <2>1, <2>2 DEF TypeInv, TypeOK
<1>2. ASSUME NEW r \in Request, Upload(r) PROVE TypeInv'
  BY <1>2, UploadType, UploadOwners DEF TypeInv
<1>3. ASSUME NEW r \in Request, Seed(r) PROVE TypeInv'
  BY <1>3, SeedType, SeedOwners DEF TypeInv
<1>4. ASSUME NEW r \in Request, Import(r) PROVE TypeInv'
  BY <1>4, ImportType, ImportOwners DEF TypeInv
<1>5. ASSUME NEW r \in Request, Delete(r) PROVE TypeInv'
  BY <1>5, DeleteType, DeleteOwners DEF TypeInv
<1>6. CASE SeedSkipped
  BY <1>6, SeedSkippedType, RestOwners DEF TypeInv
<1>7. CASE Live
  BY <1>7, LiveType, LiveOwners DEF TypeInv
<1>8. CASE Verify
  BY <1>8, VerifyType, RestOwners DEF TypeInv
<1>9. CASE Crash
  BY <1>9, CrashType, RestOwners DEF TypeInv
<1> QED
  BY <1>1, <1>2, <1>3, <1>4, <1>5, <1>6, <1>7, <1>8, <1>9 DEF Next

\* Every variable keeps its type, whatever the requests, the live run, the
\* audit check and the crashes interleave to.
THEOREM TypeCorrect == Spec => []TypeOK
<1>1. TypeInv => TypeOK
  BY DEF TypeInv
<1> QED
  BY <1>1, TypeInvInit, TypeInvStep, PTL DEF Spec
-----------------------------------------------------------------------------
(* What the rows, the tables and the log say of each other *)

\* How a step treats the tables: it saves a draft, the first one of its job or an
\* import's or a tick's, deletes a job or leaves them.
Saves(j, d, kept) ==
    /\ SaveAnalysis(j, d, kept) /\ j \in Job /\ kept \in BOOLEAN
    /\ \/ \E r \in Request : j = target[r] /\ d = draft[r] /\ (Private(r) \/ ImportSave(r))
       \/ j = run.job /\ d = run.draft /\ LiveSave
TablesUnchanged == UNCHANGED <<jobs, sessions, events, auditLog, deleted>>
TablesStep == \/ \E j, d, kept : Saves(j, d, kept)
              \/ \E j \in Job : DeleteRows(j)
              \/ TablesUnchanged

\* What is saved is a draft someone holds.
LEMMA SavesDraft ==
    ASSUME TypeInv, NEW j, NEW d, NEW kept, Saves(j, d, kept)
    PROVE  d \in Draft /\ (\/ \E r \in Request : d = draft[r]
                           \/ d = run.draft)
<1>1. (\E r \in Request : d = draft[r]) \/ d = run.draft
  BY DEF Saves
<1>2. (\A r \in Request : draft[r] \in Draft) /\ run.draft \in Draft
  BY DEF TypeInv, TypeOK, LocalsTypeOK, RunTypeOK
<1> QED
  BY <1>1, <1>2

LEMMA EveryStepIsTablesStep == TypeInv /\ [Next]_vars => TablesStep
<1> SUFFICES ASSUME TypeInv, [Next]_vars PROVE TablesStep
  OBVIOUS
<1>0. LocalsTypeOK /\ RunTypeOK
  BY DEF TypeInv, TypeOK
<1>1. CASE UNCHANGED vars
  BY <1>1 DEF vars, storeVars, TablesStep, TablesUnchanged
<1>2. ASSUME NEW r \in Request, Upload(r) PROVE TablesStep
  <2>1. CASE SaveUpload(r)
    <3>1. target[r] \in Job /\ keeps[r] \in BOOLEAN
      BY <1>0, <2>1 DEF SaveUpload, Finish, Goto, LocalsTypeOK
    <3>2. Saves(target[r], draft[r], keeps[r])
      BY <2>1, <3>1 DEF SaveUpload, Finish, Goto, Private, Saves
    <3> QED
      BY <3>2 DEF TablesStep
  <2>2. CASE ~ SaveUpload(r)
    BY <1>2, <2>2
    DEF Upload, OpenUpload, ReceiveRest, RefuseUpload, AnalyseUpload, RejectUpload,
        SaveUploadFails, DiscardUpload, Unlink, PutFile, storeVars,
        TablesStep, TablesUnchanged
  <2> QED
    BY <2>1, <2>2
<1>3. ASSUME NEW r \in Request, Seed(r) PROVE TablesStep
  <2>1. CASE SeedSave(r)
    <3>1. target[r] \in Job
      BY <1>0, <2>1 DEF SeedSave, Finish, LocalsTypeOK
    <3>2. Saves(target[r], draft[r], TRUE)
      BY <2>1, <3>1 DEF SeedSave, Finish, Private, Saves
    <3> QED
      BY <3>2 DEF TablesStep
  <2>2. CASE ~ SeedSave(r)
    BY <1>3, <2>2
    DEF Seed, SeedCopy, SeedAnalyse, SeedFails, PutFile, storeVars,
        TablesStep, TablesUnchanged
  <2> QED
    BY <2>1, <2>2
<1>4. ASSUME NEW r \in Request, Import(r) PROVE TablesStep
  <2>1. CASE ImportSave(r)
    <3>1. target[r] \in Job /\ keeps[r] \in BOOLEAN
      BY <1>0, <2>1 DEF ImportSave, Finish, LocalsTypeOK
    <3>2. Saves(target[r], draft[r], keeps[r])
      BY <2>1, <3>1 DEF ImportSave, Saves
    <3> QED
      BY <3>2 DEF TablesStep
  <2>2. CASE ~ ImportSave(r)
    BY <1>4, <2>2
    DEF Import, ImportJob, ImportSessions, ImportEvents, ImportPath, ImportFails,
        storeVars, TablesStep, TablesUnchanged
  <2> QED
    BY <2>1, <2>2
<1>5. ASSUME NEW r \in Request, Delete(r) PROVE TablesStep
  <2>1. CASE DeleteCommit(r)
    BY <1>0, <2>1 DEF DeleteCommit, Finish, Goto, LocalsTypeOK, TablesStep
  <2>2. CASE ~ DeleteCommit(r)
    BY <1>5, <2>2
    DEF Delete, DeleteJob, DeleteFails, DeleteFile, Unlink, PutFile, storeVars,
        TablesStep, TablesUnchanged
  <2> QED
    BY <2>1, <2>2
<1>6. CASE Live
  <2>1. CASE LiveSave
    <3>1. Saves(run.job, run.draft, TRUE)
      BY <1>0, <2>1 DEF LiveSave, Saves, RunTypeOK
    <3> QED
      BY <3>1 DEF TablesStep
  <2>2. CASE ~ LiveSave
    BY <1>6, <2>2
    DEF Live, LiveStart, SourceWrites, SourceEnds, LiveAnalyse, LiveEnd, PutFile,
        storeVars, TablesStep, TablesUnchanged
  <2> QED
    BY <2>1, <2>2
<1>7. CASE SeedSkipped \/ Verify \/ Crash
  BY <1>7
  DEF SeedSkipped, Verify, CheckEntries, CheckJob, CheckSessions, CheckEvents,
      CheckAnswers, Crash, storeVars, TablesStep, TablesUnchanged
<1> QED
  BY <1>1, <1>2, <1>3, <1>4, <1>5, <1>6, <1>7 DEF Next

\* A session or an event row belongs to a job that exists.
THEOREM NoStray == Spec => []NoStrayRows
<1>1. Init => NoStrayRows
  BY DEF Init, StoreInit, NoStrayRows
<1>2. TypeInv /\ NoStrayRows /\ [Next]_vars => NoStrayRows'
  <2> SUFFICES ASSUME TypeInv, NoStrayRows, [Next]_vars PROVE NoStrayRows'
    OBVIOUS
  <2>0. StoreTypeOK
    BY DEF TypeInv, TypeOK
  <2>1. ASSUME NEW j, NEW d, NEW kept, Saves(j, d, kept) PROVE NoStrayRows'
    <3>1. d \in Draft
      BY <2>1, SavesDraft
    <3>2. jobs'[j] # NoRow
      BY <2>0, <2>1, <3>1, SentinelAssumption
      DEF Saves, SaveAnalysis, StoreTypeOK, Draft, Row
    <3> QED
      BY <2>0, <2>1, <3>2 DEF Saves, SaveAnalysis, StoreTypeOK, NoStrayRows
  <2>2. ASSUME NEW j \in Job, DeleteRows(j) PROVE NoStrayRows'
    BY <2>0, <2>2 DEF DeleteRows, StoreTypeOK, NoStrayRows
  <2>3. CASE TablesUnchanged
    BY <2>3 DEF TablesUnchanged, NoStrayRows
  <2> QED
    BY <2>1, <2>2, <2>3, EveryStepIsTablesStep DEF TablesStep
<1> QED
  BY <1>1, <1>2, TypeInvInit, TypeInvStep, PTL DEF Spec

\* Whatever raced with whatever, the newest audit entry of a job is of the
\* analysis its rows were written from, and is their digest unless two records of
\* that analysis share an id (core/pipeline.py:130).
THEOREM AuditCommits == Spec => []AuditCommitsStore
<1>1. Init => AuditCommitsStore
  BY DEF Init, StoreInit, AuditCommitsStore
<1>2. TypeInv /\ AuditCommitsStore /\ [Next]_vars => AuditCommitsStore'
  <2> SUFFICES ASSUME TypeInv, AuditCommitsStore, [Next]_vars PROVE AuditCommitsStore'
    OBVIOUS
  <2>0. StoreTypeOK
    BY DEF TypeInv, TypeOK
  <2>1. ASSUME NEW j, NEW d, NEW kept, Saves(j, d, kept) PROVE AuditCommitsStore'
    <3>1. d \in Draft /\ j \in Job
      BY <2>1, SavesDraft DEF Saves
    <3>2. ASSUME NEW k \in Job, jobs'[k] # NoRow PROVE Committed(k)'
      BY <2>0, <2>1, <3>1, <3>2, SaveCommits DEF Saves, AuditCommitsStore
    <3> QED
      BY <3>2 DEF AuditCommitsStore
  <2>2. ASSUME NEW j \in Job, DeleteRows(j) PROVE AuditCommitsStore'
    <3>1. ASSUME NEW k \in Job, jobs'[k] # NoRow PROVE Committed(k)'
      <4>1. /\ k # j /\ jobs'[k] = jobs[k] /\ sessions'[k] = sessions[k]
            /\ events'[k] = events[k] /\ auditLog' = auditLog
        BY <2>0, <2>2, <3>1 DEF DeleteRows, StoreTypeOK
      <4>2. StoredDigest(k)' = StoredDigest(k)
        BY <4>1 DEF StoredDigest
      <4> QED
        BY <3>1, <4>1, <4>2 DEF AuditCommitsStore, Committed
    <3> QED
      BY <3>1 DEF AuditCommitsStore
  <2>3. CASE TablesUnchanged
    BY <2>3 DEF TablesUnchanged, AuditCommitsStore, Committed, StoredDigest
  <2> QED
    BY <2>1, <2>2, <2>3, EveryStepIsTablesStep DEF TablesStep
<1> QED
  BY <1>1, <1>2, TypeInvInit, TypeInvStep, PTL DEF Spec

\* The chain is never broken, and one that has had the job, the analysis or the
\* capture of an entry changed, or an entry but the last taken out, is.
THEOREM Detected == Spec => []RewriteIsDetected
<1> DEFINE Inv == ChainIntact(auditLog) /\ SeqHashes(auditLog)
<1>1. Init => Inv
  BY DEF Init, StoreInit, ChainIntact, SeqHashes
<1>2. TypeInv /\ Inv /\ [Next]_vars => Inv'
  <2> SUFFICES ASSUME TypeInv, Inv, [Next]_vars PROVE Inv'
    OBVIOUS
  <2>1. ASSUME NEW j, NEW d, NEW kept, Saves(j, d, kept) PROVE Inv'
    <3>1. PICK a, c : AppendAudit(j, a, c)
      BY <2>1 DEF Saves, SaveAnalysis
    <3> QED
      BY <3>1, AppendKeepsChain DEF TypeInv, TypeOK
  <2>2. CASE UNCHANGED auditLog
    BY <2>2
  <2> QED
    BY <2>1, <2>2, EveryStepIsTablesStep DEF TablesStep, DeleteRows, TablesUnchanged
<1>3. TypeInv /\ Inv => RewriteIsDetected
  <2> SUFFICES ASSUME TypeInv, Inv PROVE RewriteIsDetected
    OBVIOUS
  <2>0. auditLog \in Seq(Range(auditLog)) /\ \A i \in DOMAIN auditLog : IsEntry(auditLog[i])
    BY DEF TypeInv, TypeOK, StoreTypeOK
  <2>1. ASSUME NEW i \in DOMAIN auditLog, NEW k \in DOMAIN auditLog,
               NEW f \in {[auditLog[i] EXCEPT !.job = auditLog[k].job],
                          [auditLog[i] EXCEPT !.analysis = auditLog[k].analysis],
                          [auditLog[i] EXCEPT !.capture = auditLog[k].capture]},
               f # auditLog[i]
        PROVE  ~ ChainIntact([auditLog EXCEPT ![i] = f])
    BY <2>0, <2>1, ForgeryBreaksChain
  <2>2. ASSUME NEW i \in DOMAIN auditLog, i < Len(auditLog)
        PROVE  ~ ChainIntact(RemoveAt(auditLog, i))
    BY <2>0, <2>2, RemovalBreaksChain
  <2> QED
    BY <2>1, <2>2 DEF RewriteIsDetected
<1> QED
  BY <1>1, <1>2, <1>3, TypeInvInit, TypeInvStep, PTL DEF Spec
-----------------------------------------------------------------------------
(* What the races of the requests with each other, with a live run and with *)
(* the audit check leave true of the store, for any number of each: rows    *)
(* and files agree, only an import undoes what was done, a flagged job has  *)
(* moved, and the store implements AuditedStore.                            *)
(*                                                                         *)
(* The handler of an import reads the job, awaits the report and upserts,   *)
(* so a delete or a tick may come in between: what it stores of a deleted   *)
(* job is outside the statements, what it stores of another one is not.     *)
-----------------------------------------------------------------------------
\* j has been stored at some time.
Logged(j) == \E i \in DOMAIN auditLog : auditLog[i].job = j

Stored(j) == jobs[j] # NoRow

\* j is stored, and not because an import brought it back.
Held(j) == Stored(j) /\ j \notin deleted

Importing(r) == pc[r] \in {"importing", "importMerged", "importListed", "importReady"}
Deleting(r) == pc[r] \in {"deleting", "unlinking"}

\* The live run keeps its job: no request is deleting it, its row once written
\* stays and names the capture, and an analysis in hand is of a file that is there.
RunOwnsJob ==
    /\ run.growing \/ run.analysed => run.state = "running"
    /\ run.analysed => disk[run.job] # Missing
    /\ run.state = "running" =>
         /\ run.job \in Job \ deleted
         /\ \A r \in Request : Deleting(r) => target[r] # run.job
         /\ Logged(run.job) => Stored(run.job) /\ jobs[run.job].kept

\* Only a DELETE takes a row away.
LoggedIsHeld == \A j \in Job : Logged(j) => Held(j) \/ j \in deleted

\* Whoever imports into a job found it stored, and no file is unlinked by a DELETE
\* before the rows are gone.
RequestsFoundJob ==
    \A r \in Request :
        /\ Importing(r) => Logged(target[r])
        /\ pc[r] = "unlinking" => target[r] \in deleted
        /\ pc[r] = "importReady" /\ Held(target[r]) => keeps[r] = jobs[target[r]].kept

\* An upload that is about to discard its file has a row that does not name it.
DiscardsUnkept ==
    \A r \in Request : pc[r] = "saved" =>
        /\ Logged(target[r]) /\ target[r] # run.job
        /\ Held(target[r]) => ~jobs[target[r]].kept

KeptHasFile == \A j \in Job : Held(j) /\ jobs[j].kept => disk[j] # Missing

UnkeptHasNone ==
    \A j \in Job : Held(j) /\ ~jobs[j].kept =>
        disk[j] = Missing \/ crashes > 0 \/ \E r \in Request : pc[r] = "saved" /\ target[r] = j

FilesInv == /\ RunOwnsJob /\ LoggedIsHeld /\ RequestsFoundJob
            /\ DiscardsUnkept /\ KeptHasFile /\ UnkeptHasNone

\* What is known of the running job's capture is no more than the file holds, nor
\* more than the analysis in hand was made from.
Current(c) == c <= disk[run.job] /\ (run.analysed => c <= run.draft.stats)

\* The analysis in hand, the stored one and those that imports hold are current.
GrowsInv ==
    run.state = "running" =>
        /\ run.analysed => run.draft.stats <= disk[run.job]
        /\ Stored(run.job) => Current(jobs[run.job].stats)
        /\ \A r \in Request : Importing(r) /\ target[r] = run.job => Current(draft[r].stats)

\* The entries the check holds are the log as it was, of jobs that were stored, and
\* what it has read of a job is what the job has unless the job has moved.
CheckInv ==
    /\ DOMAIN check.log = 1..Len(check.log) /\ Len(check.log) \in 0..Len(auditLog)
    /\ \A i \in DOMAIN check.log : check.log[i] = auditLog[i]
    /\ \A j \in check.todo \cup check.flagged : Logged(j)
    /\ check.pc \in {"sessions", "events"} =>
         /\ Logged(check.job)
         /\ Moved(check.job) \/ jobs[check.job].stats = check.stats
    /\ check.pc = "events" =>
         Moved(check.job) \/ ToBag(sessions[check.job]) = ToBag(check.sessions)
-----------------------------------------------------------------------------
(* What the steps of the store do to rows, to the jobs ever stored and to files *)

\* Entries are only added.
LEMMA LoggedGrows ==
    ASSUME StoreTypeOK, NEW j, NEW a, NEW c, AppendAudit(j, a, c)
    PROVE  \A k : Logged(k)' <=> Logged(k) \/ k = j
<1>1. /\ DOMAIN auditLog \subseteq DOMAIN auditLog'
      /\ \A i \in DOMAIN auditLog : auditLog'[i] = auditLog[i]
      /\ \A i \in DOMAIN auditLog' \ DOMAIN auditLog : auditLog'[i].job = j
      /\ IsLogged(auditLog', j, a)
  BY LogGrows
<1>2. Logged(j)'
  <2>1. PICK i \in DOMAIN auditLog' : IsNewestOf(auditLog', i, j)
    BY <1>1 DEF IsLogged
  <2> QED
    BY <2>1 DEF IsNewestOf, Logged
<1> QED
  BY <1>1, <1>2 DEF Logged

LEMMA SaveEffect ==
    ASSUME StoreTypeOK, NEW j \in Job, NEW d \in Draft, NEW kept \in BOOLEAN,
           SaveAnalysis(j, d, kept)
    PROVE  /\ Stored(j)' /\ jobs'[j].kept = kept /\ jobs'[j].stats = d.stats
           /\ \A k \in Job \ {j} : jobs'[k] = jobs[k]
           /\ \A k : Logged(k)' <=> Logged(k) \/ k = j
           /\ disk' = disk
<1>1. jobs' = [jobs EXCEPT ![j] = [stats |-> d.stats, kept |-> kept]]
  BY DEF SaveAnalysis
<1>2. [stats |-> d.stats, kept |-> kept] \in Row
  BY DEF Draft, Row
<1>3. Stored(j)' /\ jobs'[j].kept = kept /\ jobs'[j].stats = d.stats
  BY <1>1, <1>2, SentinelAssumption DEF StoreTypeOK, Stored
<1>4. \A k : Logged(k)' <=> Logged(k) \/ k = j
  BY LoggedGrows DEF SaveAnalysis
<1> QED
  BY <1>1, <1>3, <1>4 DEF StoreTypeOK, SaveAnalysis

LEMMA LoggedSame == ASSUME UNCHANGED auditLog PROVE \A k : Logged(k)' <=> Logged(k)
BY DEF Logged

\* A job in someone's hands as a new one has never been stored.
LEMMA PrivateIsNew ==
    ASSUME TypeInv, NEW r \in Request, Private(r)
    PROVE  /\ target[r] \in Job /\ disk[target[r]] \in Capture
           /\ ~Logged(target[r]) /\ ~Stored(target[r]) /\ target[r] # run.job
           /\ \A q \in Request \ {r} : target[q] # target[r]
BY DEF TypeInv, TypeOK, LocalsTypeOK, PrivateOK, Private, Logged, Stored

LEMMA FreshIsNew ==
    ASSUME TypeInv, NEW j \in Job \ issued
    PROVE  /\ ~Logged(j) /\ ~Stored(j) /\ j # run.job
           /\ \A q \in Request : target[q] # j
BY RequestAssumption DEF TypeInv, IssuedOK, Logged, Stored

LEMMA StoredWasLogged == ASSUME TypeInv, NEW j \in Job, Stored(j) PROVE Logged(j)
BY DEF TypeInv, IssuedOK, Stored, Logged
-----------------------------------------------------------------------------
(* Rows and files *)

\* A step of r that touches no row, and no file of a row or of the running job, and
\* that leaves r with nothing to import, delete or discard.
LEMMA AsideFiles ==
    ASSUME TypeInv, FilesInv, NEW r \in Request,
           UNCHANGED <<jobs, auditLog, deleted, run, crashes>>,
           \A j \in Job : \/ disk'[j] = disk[j]
                          \/ ~Held(j) /\ (run.state = "running" => j # run.job),
           \A q \in Request \ {r} : /\ pc'[q] = pc[q] /\ target'[q] = target[q]
                                    /\ keeps'[q] = keeps[q],
           pc[r] # "saved",
           pc'[r] \in {"idle", "receiving", "received", "analysed", "seeded", "seedAnalysed"}
    PROVE  FilesInv'
<1>0. \A k : Logged(k)' <=> Logged(k)
  BY LoggedSame
<1>1. \A k : (Stored(k)' <=> Stored(k)) /\ (Held(k)' <=> Held(k))
  BY DEF Stored, Held
<1>2. ~Importing(r)' /\ ~Deleting(r)' /\ pc'[r] # "saved"
  BY DEF Importing, Deleting
<1>3. \A q \in Request \ {r} : (Importing(q)' <=> Importing(q)) /\ (Deleting(q)' <=> Deleting(q))
  BY DEF Importing, Deleting
<1>4. RunOwnsJob'
  <2>1. run.analysed => disk'[run.job] = disk[run.job]
    BY DEF FilesInv, RunOwnsJob
  <2> QED
    BY <1>0, <1>1, <1>2, <1>3, <2>1 DEF FilesInv, RunOwnsJob
<1>5. RequestsFoundJob'
  BY <1>0, <1>1, <1>2, <1>3 DEF FilesInv, RequestsFoundJob, Deleting, Importing
<1>6. DiscardsUnkept'
  BY <1>0, <1>1, <1>2 DEF FilesInv, DiscardsUnkept
<1>7. KeptHasFile' /\ UnkeptHasNone'
  BY <1>1, <1>2 DEF FilesInv, KeptHasFile, UnkeptHasNone
<1>8. LoggedIsHeld'
  BY <1>0, <1>1 DEF FilesInv, LoggedIsHeld
<1> QED
  BY <1>4, <1>5, <1>6, <1>7, <1>8 DEF FilesInv

\* A save that keeps the row's claim on the file: the first one of a job, or one of
\* a row that has the same claim already.  What is saved of a deleted job is free.
LEMMA SaveFiles ==
    ASSUME TypeInv, FilesInv, NEW j \in Job, NEW d \in Draft, NEW kept \in BOOLEAN,
           SaveAnalysis(j, d, kept), UNCHANGED crashes,
           Held(j) => jobs[j].kept = kept,
           kept => disk[j] # Missing \/ j \in deleted,
           NEW r,
           \A q \in Request \ {r} : /\ pc'[q] = pc[q] /\ target'[q] = target[q]
                                    /\ keeps'[q] = keeps[q],
           r \in Request => /\ pc[r] # "saved" /\ target[r] = j
                            /\ \/ pc'[r] = "idle"
                               \/ pc'[r] = "saved" /\ target'[r] = j /\ ~kept /\ j # run.job,
           ~kept => r \in Request /\ (Held(j) \/ j \in deleted \/ pc'[r] = "saved"),
           run' = run \/ (r \notin Request /\ run'.job = run.job /\ run'.state = run.state
                          /\ run'.growing = run.growing /\ ~run'.analysed),
           run.job = j /\ run.state = "running" => kept
    PROVE  FilesInv'
<1> USE DEF FilesInv
<1>0. StoreTypeOK
  BY DEF TypeInv, TypeOK
<1>1. /\ Stored(j)' /\ jobs'[j].kept = kept
      /\ \A k \in Job \ {j} : jobs'[k] = jobs[k] /\ (Stored(k)' <=> Stored(k))
      /\ \A k : Logged(k)' <=> Logged(k) \/ k = j
      /\ disk' = disk /\ deleted' = deleted
  <2>1. deleted' = deleted
    BY DEF SaveAnalysis
  <2>2. /\ Stored(j)' /\ jobs'[j].kept = kept /\ disk' = disk
        /\ \A k \in Job \ {j} : jobs'[k] = jobs[k]
        /\ \A k : Logged(k)' <=> Logged(k) \/ k = j
    BY <1>0, SaveEffect
  <2> QED
    BY <2>1, <2>2 DEF Stored
<1>2. ASSUME NEW q \in Request \ {r}
      PROVE  (Importing(q)' <=> Importing(q)) /\ (Deleting(q)' <=> Deleting(q))
  BY DEF Importing, Deleting
<1>3. r \in Request => ~Importing(r)' /\ ~Deleting(r)'
  BY DEF Importing, Deleting
<1>4. \A q \in Request : pc[q] # "idle" => target[q] \in Job
  BY DEF TypeInv, TypeOK, LocalsTypeOK
<1>5. RunOwnsJob'
  BY <1>1, <1>2, <1>3 DEF RunOwnsJob
<1>6. /\ Held(j)' <=> j \notin deleted
      /\ \A k \in Job \ {j} : Held(k)' <=> Held(k)
      /\ Logged(j) => Held(j) \/ j \in deleted
  BY <1>1 DEF Held, LoggedIsHeld
<1>7. LoggedIsHeld'
  BY <1>1, <1>6 DEF LoggedIsHeld
<1>8. RequestsFoundJob'
  <2>1. ASSUME NEW q \in Request \ {r}
        PROVE  /\ Importing(q)' => Logged(target[q])'
               /\ pc'[q] = "unlinking" => target[q] \in deleted
               /\ pc'[q] = "importReady" /\ Held(target[q])'
                    => keeps'[q] = jobs'[target[q]].kept
    <3>1. target'[q] = target[q] /\ pc'[q] = pc[q] /\ keeps'[q] = keeps[q]
      OBVIOUS
    <3>2. /\ Importing(q) => Logged(target[q])
          /\ pc[q] = "unlinking" => target[q] \in deleted
          /\ pc[q] = "importReady" /\ Held(target[q]) => keeps[q] = jobs[target[q]].kept
      BY DEF RequestsFoundJob
    <3>3. pc[q] = "importReady" => Importing(q)
      BY DEF Importing
    <3> QED
      BY <1>1, <1>2, <1>4, <1>6, <3>1, <3>2, <3>3
  <2> QED
    BY <1>1, <1>3, <2>1 DEF RequestsFoundJob, Importing, Deleting
<1>9. DiscardsUnkept'
  BY <1>1, <1>4, <1>6 DEF DiscardsUnkept
<1>10. KeptHasFile'
  BY <1>1, <1>6 DEF KeptHasFile
<1>11. UnkeptHasNone'
  BY <1>1, <1>6 DEF UnkeptHasNone
<1> QED
  BY <1>5, <1>7, <1>8, <1>9, <1>10, <1>11

LEMMA UploadFiles == ASSUME TypeInv, FilesInv, NEW r \in Request, Upload(r) PROVE FilesInv'
<1>0. LocalsTypeOK /\ StoreTypeOK
  BY DEF TypeInv, TypeOK
<1>1. CASE OpenUpload(r)
  <2>1. PICK j \in Job \ issued, keep \in KeepCaptures :
          /\ Goto(r, "idle", "receiving")
          /\ target' = [target EXCEPT ![r] = j]
          /\ keeps' = [keeps EXCEPT ![r] = keep]
          /\ PutFile(j, 0)
          /\ UNCHANGED <<run, bounds>>
    BY <1>1 DEF OpenUpload
  <2>2. ~Held(j) /\ j # run.job
    BY FreshIsNew DEF Held
  <2>3. \A k \in Job : disk'[k] = disk[k] \/ (~Held(k) /\ k # run.job)
    BY <1>0, <2>1, <2>2 DEF PutFile, StoreTypeOK
  <2>4. /\ \A q \in Request \ {r} : pc'[q] = pc[q] /\ target'[q] = target[q] /\ keeps'[q] = keeps[q]
        /\ pc[r] = "idle" /\ pc'[r] = "receiving"
    BY <1>0, <2>1 DEF Goto, LocalsTypeOK
  <2>5. UNCHANGED <<jobs, auditLog, deleted, run, crashes>>
    BY <2>1 DEF PutFile, bounds
  <2> QED
    BY <2>3, <2>4, <2>5, AsideFiles
<1>2. CASE ReceiveRest(r) \/ RefuseUpload(r) \/ RejectUpload(r)
  <2>1. Private(r)
    BY <1>2 DEF ReceiveRest, RefuseUpload, RejectUpload, Goto, Finish, Private
  <2>2. ~Held(target[r]) /\ target[r] # run.job
    BY <2>1, PrivateIsNew DEF Held
  <2>3. \A k \in Job : disk'[k] = disk[k] \/ (~Held(k) /\ k # run.job)
    BY <1>0, <1>2, <2>2
    DEF ReceiveRest, RefuseUpload, RejectUpload, Unlink, PutFile, StoreTypeOK
  <2>4. /\ \A q \in Request \ {r} : pc'[q] = pc[q] /\ target'[q] = target[q] /\ keeps'[q] = keeps[q]
        /\ pc[r] # "saved" /\ pc'[r] \in {"idle", "received"}
    BY <1>0, <1>2 DEF ReceiveRest, RefuseUpload, RejectUpload, Goto, Finish, LocalsTypeOK
  <2>5. UNCHANGED <<jobs, auditLog, deleted, run, crashes>>
    BY <1>2 DEF ReceiveRest, RefuseUpload, RejectUpload, Unlink, PutFile, bounds
  <2> QED
    BY <2>3, <2>4, <2>5, AsideFiles
<1>3. CASE AnalyseUpload(r) \/ SaveUploadFails(r)
  <2>1. /\ \A q \in Request \ {r} : pc'[q] = pc[q] /\ target'[q] = target[q] /\ keeps'[q] = keeps[q]
        /\ pc[r] # "saved" /\ pc'[r] \in {"idle", "analysed"}
    BY <1>0, <1>3 DEF AnalyseUpload, SaveUploadFails, Goto, Finish, LocalsTypeOK
  <2>2. UNCHANGED <<jobs, auditLog, deleted, disk, run, crashes>>
    BY <1>3 DEF AnalyseUpload, SaveUploadFails, storeVars, bounds
  <2> QED
    BY <2>1, <2>2, AsideFiles
<1>4. CASE SaveUpload(r)
  <2> DEFINE j == target[r]
  <2>1. SaveAnalysis(j, draft[r], keeps[r]) /\ UNCHANGED <<run, crashes>> /\ pc[r] = "analysed"
    BY <1>4 DEF SaveUpload, Goto, Finish, bounds
  <2>2. j \in Job /\ draft[r] \in Draft /\ keeps[r] \in BOOLEAN
    BY <1>0, <2>1 DEF LocalsTypeOK
  <2>3. ~Held(j) /\ disk[j] # Missing /\ j # run.job
    BY <2>1, PrivateIsNew, SentinelAssumption DEF Private, Held
  <2>4. \A q \in Request \ {r} : pc'[q] = pc[q] /\ target'[q] = target[q] /\ keeps'[q] = keeps[q]
    BY <1>0, <1>4 DEF SaveUpload, Goto, Finish, LocalsTypeOK
  <2>5. \/ keeps[r] /\ pc'[r] = "idle"
        \/ ~keeps[r] /\ pc'[r] = "saved" /\ target'[r] = j
    BY <1>0, <1>4 DEF SaveUpload, Goto, Finish, LocalsTypeOK
  <2> QED
    BY <2>1, <2>2, <2>3, <2>4, <2>5, SaveFiles
<1>5. CASE DiscardUpload(r)
  <2> DEFINE j == target[r]
  <2>1. /\ pc[r] = "saved" /\ pc'[r] = "idle" /\ j \in Job
        /\ \A q \in Request \ {r} : pc'[q] = pc[q] /\ target'[q] = target[q] /\ keeps'[q] = keeps[q]
    BY <1>0, <1>5 DEF DiscardUpload, Finish, LocalsTypeOK
  <2>2. /\ UNCHANGED <<jobs, auditLog, deleted, run, crashes>>
        /\ disk'[j] = Missing /\ \A k \in Job \ {j} : disk'[k] = disk[k]
    BY <1>0, <1>5, <2>1 DEF DiscardUpload, Unlink, PutFile, bounds, StoreTypeOK
  <2>3. j # run.job /\ (Held(j) => ~jobs[j].kept)
    BY <2>1 DEF FilesInv, DiscardsUnkept
  <2>4. \A k : (Logged(k)' <=> Logged(k)) /\ (Stored(k)' <=> Stored(k)) /\ (Held(k)' <=> Held(k))
    BY <2>2, LoggedSame DEF Stored, Held
  <2>5. /\ ~Importing(r)' /\ ~Deleting(r)'
        /\ \A q \in Request \ {r} : (Importing(q)' <=> Importing(q)) /\ (Deleting(q)' <=> Deleting(q))
    BY <2>1 DEF Importing, Deleting
  <2>6. RunOwnsJob'
    BY <2>2, <2>3, <2>4, <2>5, <2>1 DEF FilesInv, RunOwnsJob
  <2>7. RequestsFoundJob'
    BY <2>1, <2>2, <2>4, <2>5 DEF FilesInv, RequestsFoundJob
  <2>8. DiscardsUnkept'
    BY <2>1, <2>2, <2>4 DEF FilesInv, DiscardsUnkept
  <2>9. KeptHasFile' /\ UnkeptHasNone' /\ LoggedIsHeld'
    BY <2>1, <2>2, <2>3, <2>4 DEF FilesInv, KeptHasFile, UnkeptHasNone, LoggedIsHeld
  <2> QED
    BY <2>6, <2>7, <2>8, <2>9 DEF FilesInv
<1> QED
  BY <1>1, <1>2, <1>3, <1>4, <1>5 DEF Upload

LEMMA SeedFiles == ASSUME TypeInv, FilesInv, NEW r \in Request, Seed(r) PROVE FilesInv'
<1>0. LocalsTypeOK /\ StoreTypeOK
  BY DEF TypeInv, TypeOK
<1>1. CASE SeedCopy(r)
  <2>1. PICK j \in Job \ issued :
          /\ Goto(r, "idle", "seeded")
          /\ target' = [target EXCEPT ![r] = j]
          /\ PutFile(j, DemoCapture)
          /\ UNCHANGED <<keeps, run, bounds>>
    BY <1>1 DEF SeedCopy
  <2>2. ~Held(j) /\ j # run.job
    BY FreshIsNew DEF Held
  <2>3. \A k \in Job : disk'[k] = disk[k] \/ (~Held(k) /\ k # run.job)
    BY <1>0, <2>1, <2>2 DEF PutFile, StoreTypeOK
  <2>4. /\ \A q \in Request \ {r} : pc'[q] = pc[q] /\ target'[q] = target[q] /\ keeps'[q] = keeps[q]
        /\ pc[r] = "idle" /\ pc'[r] = "seeded"
    BY <1>0, <2>1 DEF Goto, LocalsTypeOK
  <2>5. UNCHANGED <<jobs, auditLog, deleted, run, crashes>>
    BY <2>1 DEF PutFile, bounds
  <2> QED
    BY <2>3, <2>4, <2>5, AsideFiles
<1>2. CASE SeedAnalyse(r) \/ SeedFails(r)
  <2>1. /\ \A q \in Request \ {r} : pc'[q] = pc[q] /\ target'[q] = target[q] /\ keeps'[q] = keeps[q]
        /\ pc[r] # "saved" /\ pc'[r] \in {"idle", "seedAnalysed"}
    BY <1>0, <1>2 DEF SeedAnalyse, SeedFails, Goto, Finish, LocalsTypeOK
  <2>2. UNCHANGED <<jobs, auditLog, deleted, disk, run, crashes>>
    BY <1>2 DEF SeedAnalyse, SeedFails, storeVars, bounds
  <2> QED
    BY <2>1, <2>2, AsideFiles
<1>3. CASE SeedSave(r)
  <2>1. /\ SaveAnalysis(target[r], draft[r], TRUE) /\ UNCHANGED <<run, crashes>>
        /\ pc[r] = "seedAnalysed" /\ pc'[r] = "idle"
        /\ \A q \in Request \ {r} : pc'[q] = pc[q] /\ target'[q] = target[q] /\ keeps'[q] = keeps[q]
    BY <1>0, <1>3 DEF SeedSave, Finish, bounds, LocalsTypeOK
  <2>2. target[r] \in Job /\ draft[r] \in Draft
    BY <1>0, <2>1 DEF LocalsTypeOK
  <2>3. ~Held(target[r]) /\ disk[target[r]] # Missing
    BY <2>1, PrivateIsNew, SentinelAssumption DEF Private, Held
  <2> QED
    BY <2>1, <2>2, <2>3, SaveFiles
<1> QED
  BY <1>1, <1>2, <1>3 DEF Seed

\* A step of r that only reads the store, and makes r import or delete a logged job
\* that the running live run does not own.
LEMMA ReadFiles ==
    ASSUME TypeInv, FilesInv, NEW r \in Request,
           UNCHANGED <<jobs, auditLog, deleted, disk, run, crashes>>,
           \A q \in Request \ {r} : /\ pc'[q] = pc[q] /\ target'[q] = target[q]
                                    /\ keeps'[q] = keeps[q],
           pc[r] # "saved", pc'[r] # "saved", pc'[r] # "unlinking",
           Importing(r)' => Logged(target'[r]),
           pc'[r] = "deleting" /\ run.state = "running" => target'[r] # run.job,
           pc'[r] = "importReady" /\ Held(target'[r]) => keeps'[r] = jobs[target'[r]].kept
    PROVE  FilesInv'
<1>0. \A k : (Logged(k)' <=> Logged(k)) /\ (Stored(k)' <=> Stored(k)) /\ (Held(k)' <=> Held(k))
  BY LoggedSame DEF Stored, Held
<1>1. /\ Deleting(r)' => pc'[r] = "deleting"
      /\ \A q \in Request \ {r} : (Importing(q)' <=> Importing(q)) /\ (Deleting(q)' <=> Deleting(q))
  BY DEF Importing, Deleting
<1>2. RunOwnsJob'
  BY <1>0, <1>1 DEF FilesInv, RunOwnsJob
<1>3. RequestsFoundJob'
  BY <1>0, <1>1 DEF FilesInv, RequestsFoundJob
<1>4. DiscardsUnkept'
  BY <1>0 DEF FilesInv, DiscardsUnkept
<1>5. KeptHasFile' /\ UnkeptHasNone' /\ LoggedIsHeld'
  BY <1>0 DEF FilesInv, KeptHasFile, UnkeptHasNone, LoggedIsHeld
<1> QED
  BY <1>2, <1>3, <1>4, <1>5 DEF FilesInv

LEMMA ImportFiles == ASSUME TypeInv, FilesInv, NEW r \in Request, Import(r) PROVE FilesInv'
<1>0. LocalsTypeOK /\ StoreTypeOK
  BY DEF TypeInv, TypeOK
<1>1. CASE ImportJob(r)
  <2>1. PICK j \in Job : /\ Stored(j)
                         /\ Goto(r, "idle", "importing")
                         /\ target' = [target EXCEPT ![r] = j]
                         /\ UNCHANGED <<storeVars, keeps, run, bounds>>
    BY <1>1 DEF ImportJob, Stored
  <2>2. /\ \A q \in Request \ {r} : pc'[q] = pc[q] /\ target'[q] = target[q] /\ keeps'[q] = keeps[q]
        /\ pc[r] = "idle" /\ pc'[r] = "importing" /\ target'[r] = j
    BY <1>0, <2>1 DEF Goto, LocalsTypeOK
  <2>3. Logged(j)
    BY <2>1, StoredWasLogged
  <2>4. UNCHANGED <<jobs, auditLog, deleted, disk, run, crashes>>
    BY <2>1 DEF storeVars, bounds
  <2> QED
    BY <2>2, <2>3, <2>4, ReadFiles
<1>2. CASE ImportSessions(r) \/ ImportEvents(r)
  <2>1. /\ \A q \in Request \ {r} : pc'[q] = pc[q] /\ target'[q] = target[q] /\ keeps'[q] = keeps[q]
        /\ target'[r] = target[r] /\ pc[r] \in {"importing", "importMerged"}
        /\ pc'[r] \in {"importMerged", "importListed"}
    BY <1>0, <1>2 DEF ImportSessions, ImportEvents, Goto, LocalsTypeOK
  <2>2. Logged(target[r])
    BY <2>1 DEF FilesInv, RequestsFoundJob, Importing
  <2>3. UNCHANGED <<jobs, auditLog, deleted, disk, run, crashes>>
    BY <1>2 DEF ImportSessions, ImportEvents, storeVars, bounds
  <2> QED
    BY <2>1, <2>2, <2>3, ReadFiles
<1>3. CASE ImportPath(r)
  <2>1. /\ \A q \in Request \ {r} : pc'[q] = pc[q] /\ target'[q] = target[q] /\ keeps'[q] = keeps[q]
        /\ target'[r] = target[r] /\ pc[r] = "importListed" /\ pc'[r] = "importReady"
        /\ keeps'[r] = CaptureAvailable(target[r]) /\ target[r] \in Job
    BY <1>0, <1>3 DEF ImportPath, Goto, LocalsTypeOK
  <2>2. Logged(target[r])
    BY <2>1 DEF FilesInv, RequestsFoundJob, Importing
  <2>3. Held(target[r]) => keeps'[r] = jobs[target[r]].kept
    <3>1. Held(target[r]) => jobs[target[r]].kept \in BOOLEAN
      BY <1>0, <2>1 DEF StoreTypeOK, Held, Stored, Row
    <3> QED
      BY <2>1, <3>1 DEF FilesInv, KeptHasFile, CaptureAvailable, Held, Stored
  <2>4. UNCHANGED <<jobs, auditLog, deleted, disk, run, crashes>>
    BY <1>3 DEF ImportPath, storeVars, bounds
  <2> QED
    BY <2>1, <2>2, <2>3, <2>4, ReadFiles
<1>4. CASE ImportSave(r)
  <2> DEFINE j == target[r]
  <2>1. /\ SaveAnalysis(j, draft[r], keeps[r]) /\ UNCHANGED <<run, crashes>>
        /\ pc[r] = "importReady" /\ pc'[r] = "idle"
        /\ \A q \in Request \ {r} : pc'[q] = pc[q] /\ target'[q] = target[q] /\ keeps'[q] = keeps[q]
    BY <1>0, <1>4 DEF ImportSave, Finish, bounds, LocalsTypeOK
  <2>2. j \in Job /\ draft[r] \in Draft /\ keeps[r] \in BOOLEAN
    BY <1>0, <2>1 DEF LocalsTypeOK
  <2>3. /\ Held(j) => jobs[j].kept = keeps[r]
        /\ Held(j) \/ j \in deleted
    BY <2>1, <2>2 DEF FilesInv, LoggedIsHeld, RequestsFoundJob, Importing
  <2>4. keeps[r] => disk[j] # Missing \/ j \in deleted
    BY <2>2, <2>3 DEF FilesInv, KeptHasFile
  <2>5. run.job = j /\ run.state = "running" => keeps[r]
    BY <2>2, <2>3, StoredWasLogged DEF FilesInv, RunOwnsJob, Held
  <2> QED
    BY <2>1, <2>2, <2>3, <2>4, <2>5, SaveFiles
<1>5. CASE ImportFails(r)
  <2>1. /\ \A q \in Request \ {r} : pc'[q] = pc[q] /\ target'[q] = target[q] /\ keeps'[q] = keeps[q]
        /\ pc[r] # "saved" /\ pc'[r] = "idle"
    BY <1>0, <1>5 DEF ImportFails, Finish, LocalsTypeOK
  <2>2. UNCHANGED <<jobs, auditLog, deleted, disk, run, crashes>>
    BY <1>5 DEF ImportFails, storeVars, bounds
  <2> QED
    BY <2>1, <2>2, AsideFiles
<1> QED
  BY <1>1, <1>2, <1>3, <1>4, <1>5 DEF Import

LEMMA DeleteFiles == ASSUME TypeInv, FilesInv, NEW r \in Request, Delete(r) PROVE FilesInv'
<1>0. LocalsTypeOK /\ StoreTypeOK
  BY DEF TypeInv, TypeOK
<1>1. CASE DeleteJob(r)
  <2>1. PICK j \in Job : /\ ~(run.job = j /\ run.state = "running")
                         /\ Goto(r, "idle", "deleting")
                         /\ target' = [target EXCEPT ![r] = j]
                         /\ keeps' = [keeps EXCEPT ![r] = CaptureAvailable(j)]
                         /\ UNCHANGED <<storeVars, run, bounds>>
    BY <1>1 DEF DeleteJob
  <2>2. /\ \A q \in Request \ {r} : pc'[q] = pc[q] /\ target'[q] = target[q] /\ keeps'[q] = keeps[q]
        /\ pc[r] = "idle" /\ pc'[r] = "deleting" /\ target'[r] = j
    BY <1>0, <2>1 DEF Goto, LocalsTypeOK
  <2>3. ~Importing(r)'
    BY <2>2 DEF Importing
  <2>4. UNCHANGED <<jobs, auditLog, deleted, disk, run, crashes>>
    BY <2>1 DEF storeVars, bounds
  <2> QED
    BY <2>1, <2>2, <2>3, <2>4, ReadFiles
<1>2. CASE DeleteCommit(r)
  <2> DEFINE j == target[r]
  <2>1. /\ pc[r] = "deleting" /\ j \in Job /\ UNCHANGED <<auditLog, disk, run, crashes>>
        /\ jobs'[j] = NoRow /\ \A k \in Job \ {j} : jobs'[k] = jobs[k] /\ (Stored(k)' <=> Stored(k))
        /\ deleted' = deleted \cup {j}
    BY <1>0, <1>2
    DEF DeleteCommit, DeleteRows, Goto, Finish, bounds, LocalsTypeOK, StoreTypeOK, Stored
  <2>2. /\ \A q \in Request \ {r} : pc'[q] = pc[q] /\ target'[q] = target[q] /\ keeps'[q] = keeps[q]
        /\ \/ pc'[r] = "idle"
           \/ keeps[r] /\ pc'[r] = "unlinking" /\ target'[r] = j
    BY <1>0, <1>2 DEF DeleteCommit, Goto, Finish, LocalsTypeOK
  <2>3. /\ \A k : Logged(k)' <=> Logged(k)
        /\ \A k \in Job : Held(k)' <=> Held(k) /\ k # j
    BY <2>1, LoggedSame DEF Held
  <2>4. /\ ~Importing(r)' /\ Deleting(r)
        /\ \A q \in Request \ {r} : (Importing(q)' <=> Importing(q)) /\ (Deleting(q)' <=> Deleting(q))
    BY <2>1, <2>2 DEF Importing, Deleting
  <2>5. \A q \in Request : pc[q] # "idle" => target[q] \in Job
    BY <1>0 DEF LocalsTypeOK
  <2>6. RunOwnsJob'
    <3>1. run.state = "running" => j # run.job
      BY <2>4 DEF FilesInv, RunOwnsJob
    <3>2. Deleting(r)' => target'[r] = j
      BY <2>2 DEF Deleting
    <3> QED
      BY <2>1, <2>2, <2>3, <2>4, <3>1, <3>2 DEF FilesInv, RunOwnsJob
  <2>7. RequestsFoundJob'
    <3>1. ASSUME NEW q \in Request \ {r}
          PROVE  /\ Importing(q)' => Logged(target[q])'
                 /\ pc'[q] = "unlinking" => target[q] \in deleted'
                 /\ pc'[q] = "importReady" /\ Held(target[q])'
                      => keeps'[q] = jobs'[target[q]].kept
      BY <2>1, <2>2, <2>3, <2>4, <2>5 DEF FilesInv, RequestsFoundJob
    <3> QED
      BY <2>1, <2>2, <2>3, <2>4, <3>1 DEF RequestsFoundJob
  <2>8. DiscardsUnkept'
    BY <2>1, <2>2, <2>3, <2>5 DEF FilesInv, DiscardsUnkept
  <2>9. KeptHasFile' /\ UnkeptHasNone' /\ LoggedIsHeld'
    BY <2>1, <2>2, <2>3 DEF FilesInv, KeptHasFile, UnkeptHasNone, LoggedIsHeld
  <2> QED
    BY <2>6, <2>7, <2>8, <2>9 DEF FilesInv
<1>3. CASE DeleteFails(r)
  <2>1. /\ \A q \in Request \ {r} : pc'[q] = pc[q] /\ target'[q] = target[q] /\ keeps'[q] = keeps[q]
        /\ pc[r] # "saved" /\ pc'[r] = "idle"
    BY <1>0, <1>3 DEF DeleteFails, Finish, LocalsTypeOK
  <2>2. UNCHANGED <<jobs, auditLog, deleted, disk, run, crashes>>
    BY <1>3 DEF DeleteFails, storeVars, bounds
  <2> QED
    BY <2>1, <2>2, AsideFiles
<1>4. CASE DeleteFile(r)
  <2>1. /\ \A q \in Request \ {r} : pc'[q] = pc[q] /\ target'[q] = target[q] /\ keeps'[q] = keeps[q]
        /\ pc[r] = "unlinking" /\ pc'[r] = "idle"
    BY <1>0, <1>4 DEF DeleteFile, Finish, LocalsTypeOK
  <2>2. /\ UNCHANGED <<jobs, auditLog, deleted, run, crashes>>
        /\ \A k \in Job : disk'[k] = disk[k] \/ k = target[r]
    BY <1>0, <1>4 DEF DeleteFile, Unlink, PutFile, bounds, StoreTypeOK
  <2>3. ~Held(target[r]) /\ (run.state = "running" => target[r] # run.job)
    BY <2>1 DEF FilesInv, RequestsFoundJob, RunOwnsJob, Deleting, Held
  <2> QED
    BY <2>1, <2>2, <2>3, AsideFiles
<1> QED
  BY <1>1, <1>2, <1>3, <1>4 DEF Delete

LEMMA LiveFiles == ASSUME TypeInv, FilesInv, Live PROVE FilesInv'
<1>0. RunTypeOK /\ StoreTypeOK
  BY DEF TypeInv, TypeOK
<1>1. UNCHANGED <<reqVars, crashes>>
  BY DEF Live, LiveStart, SourceWrites, SourceEnds, LiveAnalyse, LiveSave, LiveEnd, bounds
<1>2. UNCHANGED <<pc, target, keeps>>
  BY <1>1 DEF reqVars
<1>3. \A q \in Request : (Importing(q)' <=> Importing(q)) /\ (Deleting(q)' <=> Deleting(q))
  BY <1>2 DEF Importing, Deleting
<1>4. CASE LiveSave
  <2> DEFINE j == run.job
  <2>1. /\ SaveAnalysis(j, run.draft, TRUE) /\ run.analysed
        /\ run' = [run EXCEPT !.analysed = FALSE, !.draft = NoDraft]
    BY <1>4 DEF LiveSave
  <2>2. j \in Job /\ run.draft \in Draft /\ run.state = "running" /\ disk[j] # Missing
    BY <1>0, <2>1 DEF RunTypeOK, FilesInv, RunOwnsJob
  <2>3. Held(j) => jobs[j].kept
    BY <2>2, StoredWasLogged DEF FilesInv, RunOwnsJob, Held
  <2>4. /\ run'.job = run.job /\ run'.state = run.state /\ run'.growing = run.growing
        /\ ~run'.analysed
    BY <1>0, <2>1 DEF RunTypeOK
  <2>5. Held(j) => jobs[j].kept = TRUE
    <3>1. Held(j) => jobs[j].kept \in BOOLEAN
      BY <1>0, <2>2 DEF StoreTypeOK, Held, Stored, Row
    <3> QED
      BY <2>3, <3>1
  <2>6. PICK nobody : nobody \notin Request
    BY NoSetContainsEverything
  <2>7. \A q \in Request \ {nobody} : pc'[q] = pc[q] /\ target'[q] = target[q] /\ keeps'[q] = keeps[q]
    BY <1>2
  <2>8. UNCHANGED crashes
    BY <1>1
  <2> QED
    BY <2>1, <2>2, <2>3, <2>4, <2>5, <2>6, <2>7, <2>8, SaveFiles
<1>5. ASSUME UNCHANGED <<jobs, auditLog, deleted>>, RunOwnsJob',
             \A j \in Job : /\ disk[j] # Missing => disk'[j] # Missing
                            /\ Held(j) /\ ~jobs[j].kept => disk'[j] = disk[j],
             run'.job = run.job \/ (run'.job \in Job \ issued)
      PROVE  FilesInv'
  <2>1. \A k : (Logged(k)' <=> Logged(k)) /\ (Stored(k)' <=> Stored(k)) /\ (Held(k)' <=> Held(k))
    BY <1>5, LoggedSame DEF Stored, Held
  <2>2. RequestsFoundJob'
    BY <1>2, <1>3, <1>5, <2>1 DEF FilesInv, RequestsFoundJob
  <2>3. DiscardsUnkept'
    BY <1>2, <1>5, <2>1, FreshIsNew DEF FilesInv, DiscardsUnkept
  <2>4. KeptHasFile' /\ UnkeptHasNone' /\ LoggedIsHeld'
    BY <1>1, <1>2, <1>5, <2>1 DEF FilesInv, KeptHasFile, UnkeptHasNone, LoggedIsHeld
  <2> QED
    BY <1>5, <2>2, <2>3, <2>4 DEF FilesInv
<1>6. CASE LiveStart
  <2>1. PICK j \in Job \ issued :
          run' = [IdleRun EXCEPT !.state = "running", !.job = j, !.growing = TRUE]
    BY <1>6 DEF LiveStart
  <2>2. ~Logged(j) /\ j \notin deleted /\ \A q \in Request : target[q] # j
    BY FreshIsNew DEF TypeInv, IssuedOK
  <2>3. UNCHANGED <<jobs, auditLog, deleted, disk>>
    BY <1>6 DEF LiveStart, storeVars
  <2>4. run'.job = j /\ ~run'.analysed /\ run'.state = "running"
    BY <2>1 DEF IdleRun
  <2>5. ~Logged(j)' /\ j \in Job \ deleted'
    BY <2>2, <2>3 DEF Logged
  <2>6. RunOwnsJob'
    BY <1>2, <2>2, <2>4, <2>5 DEF RunOwnsJob
  <2> QED
    BY <1>5, <2>3, <2>4, <2>6
<1>7. CASE SourceWrites
  <2>1. /\ UNCHANGED <<jobs, auditLog, deleted, run>> /\ run.growing
        /\ \E c \in Capture : disk' = [disk EXCEPT ![run.job] = c]
    <3>1. CASE disk[run.job] = Missing /\ PutFile(run.job, 0)
      BY <1>7, <3>1, ZeroIsCapture DEF SourceWrites, PutFile
    <3>2. CASE disk[run.job] \in 0..(MaxPackets - 1) /\ PutFile(run.job, disk[run.job] + 1)
      <4>1. disk[run.job] + 1 \in Capture
        BY <3>2, BoundAssumption DEF Capture
      <4> QED
        BY <1>7, <3>2, <4>1 DEF SourceWrites, PutFile
    <3> QED
      BY <1>7, <3>1, <3>2 DEF SourceWrites
  <2>2. run.job \in Job /\ (Held(run.job) => jobs[run.job].kept)
    BY <2>1, StoredWasLogged DEF FilesInv, RunOwnsJob, Held
  <2>3. disk'[run.job] # Missing /\ \A k \in Job \ {run.job} : disk'[k] = disk[k]
    BY <1>0, <2>1, <2>2, SentinelAssumption DEF StoreTypeOK
  <2>4. (\A k : Logged(k)' <=> Logged(k)) /\ (\A k : Stored(k)' <=> Stored(k))
    BY <2>1, LoggedSame DEF Stored
  <2>5. RunOwnsJob'
    BY <1>2, <1>3, <2>1, <2>3, <2>4 DEF FilesInv, RunOwnsJob
  <2> QED
    BY <1>5, <2>1, <2>2, <2>3, <2>5
<1>8. CASE SourceEnds \/ LiveAnalyse \/ LiveEnd
  <2>1. /\ UNCHANGED <<jobs, auditLog, deleted, disk>>
        /\ run'.job = run.job
        /\ run'.growing => run.growing
        /\ run'.analysed => run'.state = "running" /\ (run.analysed \/ disk[run.job] # Missing)
        /\ run'.state = "running" => run.state = "running"
        /\ run'.growing => run'.state = "running"
    BY <1>0, <1>8
    DEF SourceEnds, LiveAnalyse, LiveEnd, storeVars, RunTypeOK, IdleRun, FilesInv, RunOwnsJob
  <2>2. (\A k : Logged(k)' <=> Logged(k)) /\ (\A k : Stored(k)' <=> Stored(k))
    BY <2>1, LoggedSame DEF Stored
  <2>3. RunOwnsJob'
    BY <1>2, <1>3, <2>1, <2>2 DEF FilesInv, RunOwnsJob
  <2> QED
    BY <1>5, <2>1, <2>3
<1> QED
  BY <1>4, <1>6, <1>7, <1>8 DEF Live

LEMMA RestFiles ==
    ASSUME TypeInv, FilesInv, SeedSkipped \/ Verify \/ Crash \/ UNCHANGED vars PROVE FilesInv'
<1>0. UNCHANGED <<jobs, auditLog, deleted, disk>>
  BY DEF SeedSkipped, Verify, CheckEntries, CheckJob, CheckSessions, CheckEvents,
         CheckAnswers, Crash, vars, storeVars
<1>1. \A k : (Logged(k)' <=> Logged(k)) /\ (Stored(k)' <=> Stored(k)) /\ (Held(k)' <=> Held(k))
  BY <1>0, LoggedSame DEF Stored, Held
<1>2. CASE SeedSkipped \/ Verify \/ UNCHANGED vars
  <2>1. UNCHANGED <<pc, target, keeps, run, crashes>>
    BY <1>2 DEF SeedSkipped, Verify, CheckEntries, CheckJob, CheckSessions, CheckEvents,
                CheckAnswers, vars, reqVars, bounds
  <2>2. \A q \in Request : (Importing(q)' <=> Importing(q)) /\ (Deleting(q)' <=> Deleting(q))
    BY <2>1 DEF Importing, Deleting
  <2> QED
    BY <1>0, <1>1, <2>1, <2>2
    DEF FilesInv, RunOwnsJob, LoggedIsHeld, RequestsFoundJob, DiscardsUnkept, KeptHasFile,
        UnkeptHasNone
<1>3. CASE Crash
  <2>1. /\ pc' = [r \in Request |-> "idle"] /\ run' = IdleRun /\ crashes' = crashes + 1
        /\ crashes \in Nat
    BY <1>3 DEF Crash, TypeInv, TypeOK, CountersTypeOK
  <2>2. RunOwnsJob'
    BY <2>1 DEF RunOwnsJob, IdleRun
  <2>3. RequestsFoundJob' /\ DiscardsUnkept'
    BY <2>1 DEF RequestsFoundJob, DiscardsUnkept, Importing
  <2>4. KeptHasFile' /\ LoggedIsHeld'
    BY <1>0, <1>1 DEF FilesInv, KeptHasFile, LoggedIsHeld
  <2>5. UnkeptHasNone'
    BY <2>1 DEF UnkeptHasNone
  <2> QED
    BY <2>2, <2>3, <2>4, <2>5 DEF FilesInv
<1> QED
  BY <1>2, <1>3

LEMMA FilesInvInit == Init => FilesInv
BY DEF Init, StoreInit, IdleRun, FilesInv, RunOwnsJob, LoggedIsHeld, RequestsFoundJob,
       DiscardsUnkept, KeptHasFile, UnkeptHasNone, Held, Stored, Logged, Importing

LEMMA FilesInvStep == TypeInv /\ FilesInv /\ [Next]_vars => FilesInv'
BY UploadFiles, SeedFiles, ImportFiles, DeleteFiles, LiveFiles, RestFiles DEF Next

\* Rows and files agree after any step of any request, live run or crash: the order
\* in which uploads and deletes write the file and the row.  Only a job stored again
\* after its delete (requests_resurrect shows one) is left out.
THEOREM FilesMatch == Spec => []RowsMatchFiles
<1>1. TypeInv /\ FilesInv => RowsMatchFiles
  BY DEF FilesInv, KeptHasFile, UnkeptHasNone, Held, Stored, RowsMatchFiles, TypeInv, TypeOK,
         StoreTypeOK, Row
<1> QED
  BY <1>1, TypeInvInit, TypeInvStep, FilesInvInit, FilesInvStep, PTL DEF Spec
-----------------------------------------------------------------------------
(* What is undone *)

\* No upload, seed or delete touches the file or the row of a running job, and none
\* of them is an import.
LEMMA OthersSpareRun ==
    ASSUME TypeInv, FilesInv, NEW r \in Request, run.state = "running",
           Upload(r) \/ Seed(r) \/ Delete(r)
    PROVE  /\ UNCHANGED run
           /\ disk'[run.job] = disk[run.job] /\ jobs'[run.job] = jobs[run.job]
<1> DEFINE Goal == /\ UNCHANGED run
                   /\ disk'[run.job] = disk[run.job] /\ jobs'[run.job] = jobs[run.job]
<1>0. /\ LocalsTypeOK /\ StoreTypeOK /\ run.job \in Job
      /\ Private(r) => target[r] # run.job
      /\ pc[r] = "saved" => target[r] # run.job
      /\ Deleting(r) => target[r] # run.job
  BY PrivateIsNew DEF TypeInv, TypeOK, FilesInv, RunOwnsJob, DiscardsUnkept
<1>1. CASE Upload(r)
  <2>1. CASE OpenUpload(r)
    <3>1. PICK j \in Job \ issued : PutFile(j, 0) /\ UNCHANGED run
      BY <2>1 DEF OpenUpload
    <3> QED
      BY <1>0, <3>1, FreshIsNew DEF PutFile, StoreTypeOK
  <2>2. CASE SaveUpload(r)
    <3>1. /\ SaveAnalysis(target[r], draft[r], keeps[r]) /\ UNCHANGED run
          /\ target[r] # run.job
      BY <1>0, <2>2 DEF SaveUpload, Goto, Finish, Private
    <3> QED
      BY <1>0, <3>1 DEF SaveAnalysis, StoreTypeOK
  <2>3. CASE ReceiveRest(r) \/ RefuseUpload(r) \/ RejectUpload(r) \/ DiscardUpload(r)
    <3>1. target[r] # run.job
      BY <1>0, <2>3
      DEF ReceiveRest, RefuseUpload, RejectUpload, DiscardUpload, Goto, Finish, Private
    <3> QED
      BY <1>0, <2>3, <3>1
      DEF ReceiveRest, RefuseUpload, RejectUpload, DiscardUpload, Unlink, PutFile, StoreTypeOK
  <2>4. CASE AnalyseUpload(r) \/ SaveUploadFails(r)
    BY <2>4 DEF AnalyseUpload, SaveUploadFails, storeVars
  <2> QED
    BY <1>1, <2>1, <2>2, <2>3, <2>4 DEF Upload
<1>2. CASE Seed(r)
  <2>1. CASE SeedCopy(r)
    <3>1. PICK j \in Job \ issued : PutFile(j, DemoCapture) /\ UNCHANGED run
      BY <2>1 DEF SeedCopy
    <3> QED
      BY <1>0, <3>1, FreshIsNew DEF PutFile, StoreTypeOK
  <2>2. CASE SeedSave(r)
    <3>1. /\ SaveAnalysis(target[r], draft[r], TRUE) /\ UNCHANGED run
          /\ target[r] # run.job
      BY <1>0, <2>2 DEF SeedSave, Finish, Private
    <3> QED
      BY <1>0, <3>1 DEF SaveAnalysis, StoreTypeOK
  <2>3. CASE SeedAnalyse(r) \/ SeedFails(r)
    BY <2>3 DEF SeedAnalyse, SeedFails, storeVars
  <2> QED
    BY <1>2, <2>1, <2>2, <2>3 DEF Seed
<1>3. CASE Delete(r)
  <2>1. CASE DeleteCommit(r)
    <3>1. DeleteRows(target[r]) /\ UNCHANGED run /\ target[r] # run.job
      BY <1>0, <2>1 DEF DeleteCommit, Goto, Finish, Deleting
    <3> QED
      BY <1>0, <3>1 DEF DeleteRows, StoreTypeOK
  <2>2. CASE DeleteFile(r)
    <3>1. Unlink(target[r]) /\ UNCHANGED run /\ target[r] # run.job
      BY <1>0, <2>2 DEF DeleteFile, Finish, Deleting
    <3> QED
      BY <1>0, <3>1 DEF Unlink, PutFile, StoreTypeOK
  <2>3. CASE DeleteJob(r) \/ DeleteFails(r)
    BY <2>3 DEF DeleteJob, DeleteFails, storeVars
  <2> QED
    BY <1>3, <2>1, <2>2, <2>3 DEF Delete
<1> QED
  BY <1>1, <1>2, <1>3

\* Nor does one change what any import holds.
LEMMA OthersSpareImports ==
    ASSUME TypeInv, NEW r \in Request, Upload(r) \/ Seed(r) \/ Delete(r),
           NEW q \in Request, Importing(q)'
    PROVE  Importing(q) /\ target'[q] = target[q] /\ draft'[q] = draft[q]
<1>0. LocalsTypeOK
  BY DEF TypeInv, TypeOK
<1>1. CASE q # r
  BY <1>0, <1>1
  DEF Upload, Seed, Delete, OpenUpload, ReceiveRest, RefuseUpload, AnalyseUpload,
      RejectUpload, SaveUpload, SaveUploadFails, DiscardUpload, SeedCopy, SeedAnalyse,
      SeedSave, SeedFails, DeleteJob, DeleteCommit, DeleteFails, DeleteFile,
      Goto, Finish, LocalsTypeOK, Importing
<1>2. CASE q = r
  BY <1>0, <1>2
  DEF Upload, Seed, Delete, OpenUpload, ReceiveRest, RefuseUpload, AnalyseUpload,
      RejectUpload, SaveUpload, SaveUploadFails, DiscardUpload, SeedCopy, SeedAnalyse,
      SeedSave, SeedFails, DeleteJob, DeleteCommit, DeleteFails, DeleteFile,
      Goto, Finish, LocalsTypeOK, Importing
<1> QED
  BY <1>1, <1>2

\* An import reads and stores an analysis that is current.
LEMMA ImportGrows ==
    ASSUME TypeInv, FilesInv, GrowsInv, NEW r \in Request, Import(r), run.state = "running"
    PROVE  GrowsInv'
<1>0. LocalsTypeOK /\ StoreTypeOK /\ run.job \in Job
  BY DEF TypeInv, TypeOK, FilesInv, RunOwnsJob
<1>1. UNCHANGED <<run, disk>>
  BY DEF Import, ImportJob, ImportSessions, ImportEvents, ImportPath, ImportSave, ImportFails,
         SaveAnalysis, storeVars
<1>2. /\ run.analysed => run.draft.stats <= disk[run.job]
      /\ Stored(run.job) => Current(jobs[run.job].stats)
      /\ \A q \in Request : Importing(q) /\ target[q] = run.job => Current(draft[q].stats)
  BY DEF GrowsInv
<1>3. ASSUME NEW q \in Request \ {r}
      PROVE  /\ Importing(q)' <=> Importing(q)
             /\ target'[q] = target[q] /\ draft'[q] = draft[q]
  BY <1>0
  DEF Import, ImportJob, ImportSessions, ImportEvents, ImportPath, ImportSave, ImportFails,
      Goto, Finish, LocalsTypeOK, Importing
<1>4. \A c : Current(c)' <=> Current(c)
  BY <1>1 DEF Current
<1>5. Importing(r)' /\ target'[r] = run.job => Current(draft'[r].stats)
  <2>1. CASE ImportJob(r)
    <3>1. PICK j \in Job : /\ Stored(j) /\ target' = [target EXCEPT ![r] = j]
                           /\ draft' = [draft EXCEPT ![r].stats = jobs[j].stats]
      BY <2>1 DEF ImportJob, Stored
    <3>2. target'[r] = j /\ draft'[r].stats = jobs[j].stats
      BY <1>0, <3>1 DEF LocalsTypeOK, Draft
    <3> QED
      BY <1>2, <3>1, <3>2
  <2>2. CASE ImportSessions(r) \/ ImportEvents(r) \/ ImportPath(r)
    <3>1. /\ Importing(r) /\ target'[r] = target[r]
          /\ draft'[r].stats = draft[r].stats
      BY <1>0, <2>2
      DEF ImportSessions, ImportEvents, ImportPath, Goto, LocalsTypeOK, Draft, Importing
    <3> QED
      BY <1>2, <3>1
  <2>3. CASE ImportSave(r) \/ ImportFails(r)
    BY <1>0, <2>3 DEF ImportSave, ImportFails, Finish, LocalsTypeOK, Importing
  <2> QED
    BY <2>1, <2>2, <2>3 DEF Import
<1>6. Stored(run.job)' => Current(jobs'[run.job].stats)
  <2>1. CASE ImportSave(r)
    <3>1. /\ SaveAnalysis(target[r], draft[r], keeps[r]) /\ Importing(r)
          /\ target[r] \in Job /\ draft[r] \in Draft /\ keeps[r] \in BOOLEAN
      BY <1>0, <2>1 DEF ImportSave, Finish, LocalsTypeOK, Importing
    <3>2. /\ jobs'[target[r]].stats = draft[r].stats
          /\ \A k \in Job \ {target[r]} : jobs'[k] = jobs[k]
      BY <1>0, <3>1, SaveEffect
    <3> QED
      BY <1>0, <1>1, <1>2, <3>1, <3>2 DEF Stored
  <2>2. CASE ~ ImportSave(r)
    <3>1. UNCHANGED jobs
      BY <2>2 DEF Import, ImportJob, ImportSessions, ImportEvents, ImportPath, ImportFails, storeVars
    <3> QED
      BY <1>1, <1>2, <3>1 DEF Stored
  <2> QED
    BY <2>1, <2>2
<1>7. \A q \in Request : Importing(q)' /\ target'[q] = run.job => Current(draft'[q].stats)
  BY <1>2, <1>3, <1>5
<1> QED
  BY <1>1, <1>2, <1>4, <1>6, <1>7 DEF GrowsInv

LEMMA LiveGrows == ASSUME TypeInv, FilesInv, GrowsInv, Live PROVE GrowsInv'
<1>0. RunTypeOK /\ StoreTypeOK /\ LocalsTypeOK
  BY DEF TypeInv, TypeOK
<1>1. UNCHANGED <<pc, target, draft>> /\ \A q \in Request : Importing(q)' <=> Importing(q)
  BY DEF Live, LiveStart, SourceWrites, SourceEnds, LiveAnalyse, LiveSave, LiveEnd, reqVars,
         Importing
<1>2. CASE LiveStart
  <2>1. PICK j \in Job \ issued :
          run' = [IdleRun EXCEPT !.state = "running", !.job = j, !.growing = TRUE]
    BY <1>2 DEF LiveStart
  <2>2. ~Stored(j) /\ jobs' = jobs /\ \A q \in Request : target[q] # j
    BY <1>2, FreshIsNew DEF LiveStart, storeVars
  <2>3. run'.job = j /\ ~run'.analysed
    BY <2>1 DEF IdleRun
  <2> QED
    BY <1>1, <2>2, <2>3 DEF GrowsInv, Stored
<1>3. CASE SourceWrites
  <2>1. UNCHANGED <<run, jobs>> /\ run.growing /\ run.state = "running" /\ run.job \in Job \ deleted
    BY <1>3 DEF SourceWrites, PutFile, FilesInv, RunOwnsJob
  <2>2. CASE disk[run.job] = Missing
    <3>1. ~Stored(run.job) /\ ~Logged(run.job) /\ ~run.analysed
      BY <2>1, <2>2, StoredWasLogged DEF FilesInv, RunOwnsJob, LoggedIsHeld, KeptHasFile, Held
    <3>2. \A q \in Request : ~(Importing(q) /\ target[q] = run.job)
      BY <3>1 DEF FilesInv, RequestsFoundJob
    <3> QED
      BY <1>1, <2>1, <3>1, <3>2 DEF GrowsInv, Stored
  <2>3. CASE disk[run.job] # Missing
    <3>1. disk[run.job] \in Nat /\ disk'[run.job] = disk[run.job] + 1
      BY <1>0, <1>3, <2>1, <2>3, BoundAssumption DEF SourceWrites, PutFile, StoreTypeOK, Capture
    <3>2. /\ run.draft.stats \in Nat
          /\ Stored(run.job) => jobs[run.job].stats \in Nat
          /\ \A q \in Request : draft[q].stats \in Nat
      BY <1>0, <2>1, BoundAssumption
      DEF RunTypeOK, LocalsTypeOK, Draft, Capture, StoreTypeOK, Row, Stored
    <3>3. \A c \in Nat : Current(c) => Current(c)'
      BY <2>1, <3>1 DEF Current
    <3> QED
      BY <1>1, <2>1, <3>1, <3>2, <3>3 DEF GrowsInv, Stored
  <2> QED
    BY <2>2, <2>3
<1>4. CASE SourceEnds
  <2>1. /\ UNCHANGED <<jobs, disk>> /\ run'.job = run.job /\ run'.analysed = run.analysed
        /\ run'.state = run.state /\ run'.draft = run.draft
    BY <1>0, <1>4 DEF SourceEnds, storeVars, RunTypeOK
  <2> QED
    BY <1>1, <2>1 DEF GrowsInv, Stored, Current
<1>5. CASE LiveAnalyse
  <2>1. /\ UNCHANGED <<jobs, disk>> /\ run.state = "running" /\ run.job \in Job
        /\ disk[run.job] # Missing
        /\ run'.job = run.job /\ run'.draft = Analysis(disk[run.job])
    BY <1>0, <1>5 DEF LiveAnalyse, storeVars, RunTypeOK
  <2>2. disk[run.job] \in Nat /\ run'.draft.stats = disk[run.job]
    BY <1>0, <2>1, BoundAssumption DEF Analysis, StoreTypeOK, Capture
  <2>3. \A c : Current(c) => Current(c)'
    BY <2>1, <2>2 DEF Current
  <2> QED
    BY <1>1, <2>1, <2>2, <2>3 DEF GrowsInv, Stored
<1>6. CASE LiveSave
  <2>1. /\ SaveAnalysis(run.job, run.draft, TRUE) /\ run.analysed
        /\ run' = [run EXCEPT !.analysed = FALSE, !.draft = NoDraft]
    BY <1>6 DEF LiveSave
  <2>2. run.job \in Job /\ run.draft \in Draft /\ run.state = "running"
    BY <1>0, <2>1 DEF RunTypeOK, FilesInv, RunOwnsJob
  <2>3. jobs'[run.job].stats = run.draft.stats /\ disk' = disk
    BY <1>0, <2>1, <2>2, SaveEffect
  <2>4. run'.job = run.job /\ ~run'.analysed
    BY <1>0, <2>1 DEF RunTypeOK
  <2>5. \A c : Current(c) => Current(c)'
    BY <2>3, <2>4 DEF Current
  <2> QED
    BY <1>1, <2>1, <2>2, <2>3, <2>4, <2>5 DEF GrowsInv, Current
<1>7. CASE LiveEnd
  <2>1. run'.state # "running"
    BY <1>7 DEF LiveEnd, IdleRun
  <2> QED
    BY <2>1 DEF GrowsInv
<1> QED
  BY <1>2, <1>3, <1>4, <1>5, <1>6, <1>7 DEF Live

LEMMA GrowsInvStep == TypeInv /\ FilesInv /\ GrowsInv /\ [Next]_vars => GrowsInv'
<1> SUFFICES ASSUME TypeInv, FilesInv, GrowsInv, [Next]_vars PROVE GrowsInv'
  OBVIOUS
<1>1. CASE UNCHANGED vars \/ SeedSkipped \/ Verify
  <2>1. UNCHANGED <<jobs, disk, run, pc, target, draft>>
    BY <1>1 DEF SeedSkipped, Verify, CheckEntries, CheckJob, CheckSessions, CheckEvents,
                CheckAnswers, vars, storeVars, reqVars
  <2> QED
    BY <2>1 DEF GrowsInv, Stored, Current, Importing
<1>2. CASE Crash
  BY <1>2 DEF Crash, IdleRun, GrowsInv
<1>3. CASE Live
  BY <1>3, LiveGrows
<1>4. ASSUME NEW r \in Request, Upload(r) \/ Seed(r) \/ Delete(r), run.state = "running"
      PROVE  GrowsInv'
  <2>1. \A q \in Request : Importing(q)' => /\ Importing(q) /\ target'[q] = target[q]
                                            /\ draft'[q] = draft[q]
    BY <1>4, OthersSpareImports
  <2>2. /\ UNCHANGED run /\ disk'[run.job] = disk[run.job]
        /\ jobs'[run.job] = jobs[run.job]
    BY <1>4, OthersSpareRun
  <2> QED
    BY <2>1, <2>2 DEF GrowsInv, Stored, Current
<1>5. ASSUME NEW r \in Request, Upload(r) \/ Seed(r) \/ Import(r) \/ Delete(r),
             run.state # "running"
      PROVE  GrowsInv'
  <2>1. UNCHANGED run
    BY <1>5 DEF Upload, Seed, Import, Delete, OpenUpload, ReceiveRest, RefuseUpload,
        AnalyseUpload, RejectUpload, SaveUpload, SaveUploadFails, DiscardUpload, SeedCopy,
        SeedAnalyse, SeedSave, SeedFails, ImportJob, ImportSessions, ImportEvents,
        ImportPath, ImportSave, ImportFails, DeleteJob, DeleteCommit, DeleteFails, DeleteFile
  <2> QED
    BY <1>5, <2>1 DEF GrowsInv
<1> QED
  BY <1>1, <1>2, <1>3, <1>4, <1>5, ImportGrows DEF Next

\* A save that undoes something is an import's.
LEMMA UndoingStep ==
    ASSUME TypeInv, FilesInv, GrowsInv, [Next]_vars, NEW k \in Job, Undone(k)
    PROVE  \E r \in Request : target[r] = k /\ pc[r] = "importReady" /\ pc'[r] = "idle"
<1>0. StoreTypeOK /\ LocalsTypeOK /\ (jobs[k] # NoRow => jobs[k].stats \in Nat)
  BY BoundAssumption DEF TypeInv, TypeOK, StoreTypeOK, Row, Capture
<1>1. ASSUME jobs'[k] = jobs[k] PROVE FALSE
  BY <1>0, <1>1 DEF Undone
<1>2. PICK j, d, kept : Saves(j, d, kept)
  <2>1. ASSUME NEW j \in Job, DeleteRows(j) PROVE FALSE
    <3>1. jobs'[k] \in {jobs[k], NoRow}
      BY <1>0, <2>1 DEF DeleteRows, StoreTypeOK
    <3> QED
      BY <1>1, <3>1 DEF Undone
  <2> QED
    BY <1>1, <2>1, EveryStepIsTablesStep DEF TablesStep, TablesUnchanged
<1>3. /\ j \in Job /\ d \in Draft /\ d.stats \in Nat
      /\ jobs'[j].stats = d.stats /\ \A i \in Job \ {j} : jobs'[i] = jobs[i]
  BY <1>0, <1>2, SavesDraft, SaveEffect, BoundAssumption DEF Saves, Draft, Capture
<1>4. j = k
  BY <1>1, <1>3
<1>5. CASE \E r \in Request : j = target[r] /\ Private(r)
  BY <1>4, <1>5, PrivateIsNew DEF Undone, Logged, Stored
<1>6. CASE \E r \in Request : j = target[r] /\ ImportSave(r)
  BY <1>0, <1>4, <1>6 DEF ImportSave, Finish, LocalsTypeOK
<1>7. CASE j = run.job /\ d = run.draft /\ LiveSave
  <2>1. run.analysed /\ run.state = "running"
    BY <1>7 DEF LiveSave, FilesInv, RunOwnsJob
  <2>2. Logged(k) => Stored(k)
    BY <1>4, <1>7, <2>1 DEF FilesInv, RunOwnsJob
  <2>3. Stored(k) => jobs[k].stats <= d.stats
    BY <1>4, <1>7, <2>1 DEF GrowsInv, Current
  <2> QED
    BY <1>0, <1>3, <1>4, <2>2, <2>3 DEF Undone, Logged, Stored
<1> QED
  BY <1>2, <1>5, <1>6, <1>7 DEF Saves

\* No step but the save of a gateway import restores a deleted job or replaces an
\* analysis by one of a shorter capture, whatever the uploads, imports, deletes,
\* live runs and crashes that race.
THEOREM ImportsUndo == Spec => OnlyImportsUndo
<1>1. Init => GrowsInv
  BY DEF Init, IdleRun, GrowsInv
<1>2. TypeInv /\ FilesInv /\ GrowsInv /\ [Next]_vars
        => [\A j \in Job : Undone(j) =>
              \E r \in Request : target[r] = j /\ pc[r] = "importReady" /\ pc'[r] = "idle"]_vars
  BY UndoingStep
<1> QED
  BY <1>1, <1>2, TypeInvInit, TypeInvStep, FilesInvInit, FilesInvStep, GrowsInvStep, PTL
  DEF Spec, OnlyImportsUndo
-----------------------------------------------------------------------------
(* The audit check *)

\* Entries are only added, at the end, and a delete is not forgotten.
LEMMA LogIsPrefix ==
    ASSUME TypeInv, [Next]_vars
    PROVE  /\ DOMAIN auditLog \subseteq DOMAIN auditLog'
           /\ \A i \in DOMAIN auditLog : auditLog'[i] = auditLog[i]
           /\ deleted \subseteq deleted'
<1>0. StoreTypeOK
  BY DEF TypeInv, TypeOK
<1>1. ASSUME NEW j, NEW d, NEW kept, Saves(j, d, kept)
      PROVE  /\ DOMAIN auditLog \subseteq DOMAIN auditLog'
             /\ \A i \in DOMAIN auditLog : auditLog'[i] = auditLog[i]
             /\ deleted \subseteq deleted'
  <2>1. PICK a, c : AppendAudit(j, a, c)
    BY <1>1 DEF Saves, SaveAnalysis
  <2> QED
    BY <1>0, <1>1, <2>1, LogGrows DEF Saves, SaveAnalysis
<1> QED
  BY <1>1, EveryStepIsTablesStep DEF TablesStep, DeleteRows, TablesUnchanged

LEMMA LogIsSeq ==
    ASSUME TypeInv
    PROVE  /\ auditLog \in Seq(Range(auditLog))
           /\ DOMAIN auditLog = 1..Len(auditLog) /\ Len(auditLog) \in Nat
<1>1. auditLog \in Seq(Range(auditLog))
  BY DEF TypeInv, TypeOK, StoreTypeOK
<1> QED
  BY <1>1, LenProperties

\* While a job has not moved since the check began, its rows have the digest they
\* had: its newest entry is the one the check holds, and that commits to them.
LEMMA UnmovedKeepsRows ==
    ASSUME TypeInv, TypeInv', FilesInv, FilesInv', CheckInv, [Next]_vars,
           AuditCommitsStore, AuditCommitsStore', UNCHANGED check,
           NEW j \in Job, Logged(j)
    PROVE  /\ Moved(j) => Moved(j)'
           /\ \/ Moved(j)'
              \/ /\ jobs'[j].stats = jobs[j].stats
                 /\ ToBag(sessions'[j]) = ToBag(sessions[j])
<1>1. /\ DOMAIN auditLog \subseteq DOMAIN auditLog'
      /\ \A i \in DOMAIN auditLog : auditLog'[i] = auditLog[i]
      /\ deleted \subseteq deleted'
  BY LogIsPrefix
<1>2. /\ DOMAIN auditLog = 1..Len(auditLog) /\ Len(auditLog) \in Nat
      /\ Len(check.log) \in 0..Len(auditLog)
      /\ \A i \in DOMAIN auditLog' : i \in Nat /\ i # 0
  <2>1. auditLog' \in Seq(Range(auditLog'))
    BY DEF TypeInv, TypeOK, StoreTypeOK
  <2> QED
    BY <2>1, LogIsSeq, LenProperties DEF CheckInv
<1>3. \A i \in DOMAIN auditLog' : ~(i > Len(check.log)) => i \in DOMAIN auditLog
  BY <1>2
<1>4. Moved(j) => Moved(j)'
  <2>1. CASE j \in deleted \/ \E i \in DOMAIN auditLog : auditLog[i].job = j /\ i > Len(check.log)
    BY <1>1, <2>1 DEF Moved
  <2>2. ASSUME NEW i \in DOMAIN auditLog, IsNewestOf(auditLog, i, j),
               ~Keyed(auditLog[i].analysis), ~Moved(j)'
        PROVE  FALSE
    <3>1. \A k \in DOMAIN auditLog' : auditLog'[k].job = j => k \in DOMAIN auditLog
      BY <1>3, <2>2 DEF Moved
    <3>2. IsNewestOf(auditLog', i, j) /\ auditLog'[i] = auditLog[i] /\ i \in DOMAIN auditLog'
      BY <1>1, <2>2, <3>1 DEF IsNewestOf
    <3> QED
      BY <2>2, <3>2 DEF Moved
  <2> QED
    BY <2>1, <2>2 DEF Moved
<1>5. ASSUME ~Moved(j)'
      PROVE  /\ jobs'[j].stats = jobs[j].stats
             /\ ToBag(sessions'[j]) = ToBag(sessions[j])
  <2>1. /\ j \notin deleted' /\ j \notin deleted
        /\ \A i \in DOMAIN auditLog' : auditLog'[i].job = j => i \in DOMAIN auditLog
        /\ \A i \in DOMAIN auditLog' : IsNewestOf(auditLog', i, j) => Keyed(auditLog'[i].analysis)
    BY <1>1, <1>3, <1>5 DEF Moved
  <2>2. Logged(j)'
    BY <1>1 DEF Logged
  <2>3. jobs[j] # NoRow /\ jobs'[j] # NoRow
    <3>1. Held(j) /\ Held(j)'
      BY <2>1, <2>2 DEF FilesInv, LoggedIsHeld
    <3> QED
      BY <3>1 DEF Held, Stored
  <2>4. PICK i \in DOMAIN auditLog :
          /\ IsNewestOf(auditLog, i, j)
          /\ Keyed(auditLog[i].analysis) => auditLog[i].analysis = StoredDigest(j)
    BY <2>3 DEF AuditCommitsStore, Committed
  <2>5. PICK k \in DOMAIN auditLog' :
          /\ IsNewestOf(auditLog', k, j)
          /\ Keyed(auditLog'[k].analysis) => auditLog'[k].analysis = StoredDigest(j)'
    BY <2>3 DEF AuditCommitsStore, Committed
  <2>6. k \in DOMAIN auditLog /\ k = i /\ auditLog'[k] = auditLog[i]
    <3>1. k \in DOMAIN auditLog
      BY <2>1, <2>5 DEF IsNewestOf
    <3>2. k <= i /\ i <= k
      BY <1>1, <2>4, <2>5, <3>1 DEF IsNewestOf
    <3>3. k \in Nat /\ i \in Nat
      BY <1>2, <2>4, <3>1
    <3>4. k = i
      BY <3>2, <3>3
    <3> QED
      BY <1>1, <3>1, <3>4
  <2>7. StoredDigest(j)' = StoredDigest(j)
    BY <2>1, <2>4, <2>5, <2>6
  <2> QED
    BY <2>7 DEF StoredDigest, Digest
<1> QED
  BY <1>4, <1>5

LEMMA AskerStep ==
    ASSUME TypeInv, FilesInv, CheckInv, FlaggedMeansMoved, AuditCommitsStore, Verify
    PROVE  CheckInv' /\ FlaggedMeansMoved'
<1>0. /\ CheckTypeOK
      /\ auditLog \in Seq(Range(auditLog))
      /\ DOMAIN auditLog = 1..Len(auditLog) /\ Len(auditLog) \in Nat
      /\ \A i \in DOMAIN auditLog : auditLog[i].job \in Job
  BY LogIsSeq DEF TypeInv, TypeOK, StoreTypeOK, IsEntry
<1>1. UNCHANGED <<jobs, sessions, events, auditLog, deleted>>
  BY DEF Verify, CheckEntries, CheckJob, CheckSessions, CheckEvents, CheckAnswers, storeVars
<1>2. \A j : (Logged(j)' <=> Logged(j)) /\ (Stored(j)' <=> Stored(j))
  BY <1>1 DEF Logged, Stored
<1>3. check'.log = check.log => \A j : Moved(j)' <=> Moved(j)
  BY <1>1, <1>2 DEF Moved
<1>4. CASE CheckEntries
  <2>1. /\ check'.log = auditLog /\ check'.pc = "jobs" /\ check'.flagged = {}
        /\ check'.todo = {auditLog[i].job : i \in DOMAIN auditLog}
    BY <1>4 DEF CheckEntries, IdleCheck
  <2> QED
    BY <1>0, <1>1, <2>1 DEF CheckInv, FlaggedMeansMoved, Logged
<1>5. CASE CheckJob
  <2>1. PICK j \in check.todo :
          check' = IF jobs[j] = NoRow
                   THEN [check EXCEPT !.todo = @ \ {j}]
                   ELSE [check EXCEPT !.pc = "sessions", !.todo = @ \ {j},
                                      !.job = j, !.stats = jobs[j].stats]
    BY <1>5 DEF CheckJob
  <2>2. /\ check'.log = check.log /\ check'.todo \subseteq check.todo
        /\ check'.flagged = check.flagged
        /\ \/ check'.pc = "jobs"
           \/ check'.pc = "sessions" /\ check'.job = j /\ check'.stats = jobs[j].stats
    BY <1>0, <1>5, <2>1 DEF CheckJob, CheckTypeOK
  <2> QED
    BY <1>1, <1>2, <1>3, <2>2 DEF CheckInv, FlaggedMeansMoved
<1>6. CASE CheckSessions
  <2>1. /\ check'.log = check.log /\ check'.todo = check.todo
        /\ check'.flagged = check.flagged /\ check'.job = check.job
        /\ check'.stats = check.stats /\ check'.sessions = sessions[check.job]
        /\ check.pc = "sessions" /\ check'.pc = "events"
    BY <1>0, <1>6 DEF CheckSessions, CheckTypeOK
  <2> QED
    BY <1>1, <1>2, <1>3, <2>1 DEF CheckInv, FlaggedMeansMoved
<1>7. CASE CheckEvents
  <2> DEFINE found == Digest([stats |-> check.stats, sessions |-> check.sessions,
                              events |-> events[check.job]])
             flag == IF IsLogged(check.log, check.job, found) THEN {} ELSE {check.job}
  <2>1. /\ check'.log = check.log /\ check'.todo = check.todo
        /\ check'.flagged = check.flagged \cup flag
        /\ check.pc = "events" /\ check'.pc = "jobs" /\ check.job \in Job
    BY <1>0, <1>7 DEF CheckEvents, CheckTypeOK
  <2>2. ASSUME ~Moved(check.job) PROVE IsLogged(check.log, check.job, found)
    <3>1. /\ check.job \notin deleted /\ Logged(check.job)
          /\ jobs[check.job].stats = check.stats
          /\ ToBag(sessions[check.job]) = ToBag(check.sessions)
      BY <2>1, <2>2 DEF CheckInv, Moved
    <3>2. jobs[check.job] # NoRow
      BY <2>1, <3>1 DEF FilesInv, LoggedIsHeld, Held, Stored
    <3>3. PICK i \in DOMAIN auditLog : /\ IsNewestOf(auditLog, i, check.job)
                                       /\ auditLog[i].analysis = StoredDigest(check.job)
      BY <2>1, <2>2, <3>2 DEF AuditCommitsStore, Committed, Moved
    <3>4. StoredDigest(check.job) = found
      BY <3>1 DEF StoredDigest, Digest
    <3> HIDE DEF found
    <3>5. ~(i > Len(check.log))
      BY <2>2, <3>3 DEF Moved, IsNewestOf
    <3>6. i \in DOMAIN check.log /\ DOMAIN check.log \subseteq DOMAIN auditLog
      BY <1>0, <3>5 DEF CheckInv
    <3>7. IsNewestOf(check.log, i, check.job) /\ check.log[i].analysis = found
      BY <3>3, <3>4, <3>6 DEF CheckInv, IsNewestOf
    <3> QED
      BY <3>6, <3>7 DEF IsLogged
  <2>3. \A j \in flag : Moved(j) /\ Logged(j)
    BY <2>1, <2>2 DEF CheckInv
  <2> HIDE DEF flag
  <2> QED
    BY <1>1, <1>2, <1>3, <2>1, <2>3 DEF CheckInv, FlaggedMeansMoved
<1>8. CASE CheckAnswers
  BY <1>0, <1>8 DEF CheckAnswers, IdleCheck, CheckInv, FlaggedMeansMoved
<1> QED
  BY <1>4, <1>5, <1>6, <1>7, <1>8 DEF Verify

LEMMA CheckInvStep ==
    TypeInv /\ TypeInv' /\ FilesInv /\ FilesInv' /\ CheckInv /\ FlaggedMeansMoved
      /\ AuditCommitsStore /\ AuditCommitsStore' /\ [Next]_vars
        => CheckInv' /\ FlaggedMeansMoved'
<1> SUFFICES ASSUME TypeInv, TypeInv', FilesInv, FilesInv', CheckInv, FlaggedMeansMoved,
                    AuditCommitsStore, AuditCommitsStore', [Next]_vars
             PROVE  CheckInv' /\ FlaggedMeansMoved'
  OBVIOUS
<1>1. CASE UNCHANGED vars
  BY <1>1 DEF vars, storeVars, CheckInv, FlaggedMeansMoved, Moved, Logged, Stored
<1>2. CASE Verify
  BY <1>2, AskerStep
<1>3. CASE Crash
  <2>1. check' = IdleCheck /\ auditLog' = auditLog
    BY <1>3 DEF Crash, storeVars
  <2> QED
    BY <2>1, LogIsSeq DEF IdleCheck, CheckInv, FlaggedMeansMoved
<1>4. ASSUME UNCHANGED check PROVE CheckInv' /\ FlaggedMeansMoved'
  <2>1. /\ DOMAIN auditLog \subseteq DOMAIN auditLog'
        /\ \A i \in DOMAIN auditLog : auditLog'[i] = auditLog[i]
    BY LogIsPrefix
  <2>2. Len(auditLog) \in Nat /\ Len(auditLog') \in Nat /\ Len(auditLog) <= Len(auditLog')
    <3>1. /\ auditLog' \in Seq(Range(auditLog'))
          /\ DOMAIN auditLog = 1..Len(auditLog) /\ Len(auditLog) \in Nat
      BY LogIsSeq DEF TypeInv, TypeOK, StoreTypeOK
    <3>2. DOMAIN auditLog' = 1..Len(auditLog') /\ Len(auditLog') \in Nat
      BY <3>1, LenProperties
    <3> QED
      BY <2>1, <3>1, <3>2
  <2>3. \A j : Logged(j) => Logged(j)'
    BY <2>1 DEF Logged
  <2>4. check.todo \subseteq Job /\ check.flagged \subseteq Job
        /\ (check.pc \in {"sessions", "events"} => check.job \in Job)
    BY DEF TypeInv, TypeOK, CheckTypeOK
  <2>5. ASSUME NEW j \in Job, Logged(j)
        PROVE  /\ Moved(j) => Moved(j)'
               /\ Moved(j)' \/ (/\ jobs'[j].stats = jobs[j].stats
                                /\ ToBag(sessions'[j]) = ToBag(sessions[j]))
    BY <1>4, <2>5, UnmovedKeepsRows
  <2>6. FlaggedMeansMoved'
    BY <1>4, <2>4, <2>5 DEF FlaggedMeansMoved, CheckInv
  <2>7. check.pc \in {"sessions", "events"} =>
           /\ Logged(check.job)'
           /\ Moved(check.job)' \/ jobs'[check.job].stats = check.stats
    BY <1>4, <2>3, <2>4, <2>5 DEF CheckInv
  <2>8. check.pc = "events" =>
           Moved(check.job)' \/ ToBag(sessions'[check.job]) = ToBag(check.sessions)
    BY <1>4, <2>4, <2>5 DEF CheckInv
  <2>9. /\ Len(check.log) \in 0..Len(auditLog')
        /\ DOMAIN check.log = 1..Len(check.log)
        /\ \A i \in DOMAIN check.log : check.log[i] = auditLog'[i]
    <3>1. /\ DOMAIN check.log = 1..Len(check.log) /\ Len(check.log) \in 0..Len(auditLog)
          /\ \A i \in DOMAIN check.log : check.log[i] = auditLog[i]
          /\ DOMAIN auditLog = 1..Len(auditLog)
      BY LogIsSeq DEF CheckInv
    <3> QED
      BY <2>1, <2>2, <3>1
  <2> QED
    BY <1>4, <2>3, <2>6, <2>7, <2>8, <2>9 DEF CheckInv
<1>5. Next /\ ~Verify /\ ~Crash => UNCHANGED check
  BY DEF Next, Upload, Seed, Import, Delete, Live, OpenUpload, ReceiveRest, RefuseUpload,
      AnalyseUpload, RejectUpload, SaveUpload, SaveUploadFails, DiscardUpload, SeedCopy,
      SeedSkipped, SeedAnalyse, SeedSave, SeedFails, ImportJob, ImportSessions, ImportEvents,
      ImportPath, ImportSave, ImportFails, DeleteJob, DeleteCommit, DeleteFails, DeleteFile,
      LiveStart, SourceWrites, SourceEnds, LiveAnalyse, LiveSave, LiveEnd
<1> QED
  BY <1>1, <1>2, <1>3, <1>4, <1>5

\* The audit check, which reads four times with anything in between, names a job only
\* if the job was saved since it began, was deleted, or has records of one id.
THEOREM FlagsAreMoves == Spec => []FlaggedMeansMoved
<1>1. Init => CheckInv /\ FlaggedMeansMoved
  BY DEF Init, StoreInit, IdleCheck, CheckInv, FlaggedMeansMoved
<1>2. Spec => []AuditCommitsStore
  BY AuditCommits
<1> QED
  BY <1>1, <1>2, CheckInvStep, TypeInvInit, TypeInvStep, FilesInvInit, FilesInvStep, PTL DEF Spec
-----------------------------------------------------------------------------
(* The promise of AuditedStore *)

\* The history a log stands for.
Promised(e) == [job |-> e.job, analysis |-> {e.analysis}]
History(log) == [i \in DOMAIN log |-> Promised(log[i])]

\* Appending an entry appends what it stands for.
LEMMA PromisedAppend ==
    ASSUME auditLog \in Seq(Range(auditLog)), NEW e, auditLog' = Append(auditLog, e)
    PROVE  History(auditLog') = Append(History(auditLog), Promised(e))
<1> DEFINE n == Len(auditLog)
<1>1. DOMAIN auditLog = 1..n /\ n \in Nat
  BY LenProperties
<1>2. auditLog \in Seq(Range(auditLog) \cup {e})
  BY <1>1 DEF Range
<1>3. /\ DOMAIN auditLog' = 1..(n + 1) /\ auditLog'[n + 1] = e
      /\ \A i \in 1..n : auditLog'[i] = auditLog[i]
  BY <1>1, <1>2, AppendProperties
<1> DEFINE past == [i \in DOMAIN auditLog |-> Promised(auditLog[i])]
           image == {Promised(auditLog[i]) : i \in 1..n} \cup {Promised(e)}
<1>4. past \in Seq(image) /\ Len(past) = n /\ Promised(e) \in image
  <2>1. past \in [1..n -> image] /\ Promised(e) \in image
    BY <1>1
  <2> HIDE DEF image, past
  <2>2. past \in Seq(image)
    BY <1>1, <2>1
  <2>3. DOMAIN past = 1..n
    BY <2>1
  <2> QED
    BY <1>1, <2>1, <2>2, <2>3, LenProperties
<1>5. /\ DOMAIN Append(past, Promised(e)) = 1..(n + 1)
      /\ Append(past, Promised(e))[n + 1] = Promised(e)
      /\ \A i \in 1..n : Append(past, Promised(e))[i] = past[i]
      /\ Append(past, Promised(e)) \in Seq(image)
  <2> HIDE DEF image, past
  <2> QED
    BY <1>1, <1>4, AppendProperties
<1>6. Append(past, Promised(e)) = [i \in 1..(n + 1) |-> Append(past, Promised(e))[i]]
  <2> HIDE DEF image, past
  <2>1. Len(Append(past, Promised(e))) = n + 1
    BY <1>4, AppendProperties
  <2>2. Append(past, Promised(e)) \in [1..(n + 1) -> image]
    BY <1>5, <2>1, LenProperties
  <2> QED
    BY <2>2
<1>7. \A i \in 1..(n + 1) : Promised(auditLog'[i]) = Append(past, Promised(e))[i]
  <2>1. \A i \in 1..n : past[i] = Promised(auditLog[i])
    BY <1>1
  <2> HIDE DEF past
  <2> QED
    BY <1>1, <1>3, <1>5, <2>1
<1>8. History(auditLog') = Append(past, Promised(e))
  <2> HIDE DEF past
  <2> QED
    BY <1>3, <1>6, <1>7 DEF History
<1> QED
  BY <1>8 DEF History

LEMMA InitPromised == Init => Ledger!Init
BY DEF Init, StoreInit, Ledger!Init

\* A save records, the delete of a stored job forgets, and nothing else shows.
LEMMA StepPromised == TypeInv /\ [Next]_vars => [Ledger!Next]_(Ledger!vars)
<1> DEFINE cur == [j \in Job |-> IF jobs[j] = NoRow THEN {} ELSE {StoredDigest(j)}]
           hist == [i \in DOMAIN auditLog |-> [job |-> auditLog[i].job,
                                              analysis |-> {auditLog[i].analysis}]]
<1> SUFFICES ASSUME TypeInv, [Next]_vars PROVE [Ledger!Next]_(Ledger!vars)
  OBVIOUS
<1>0. StoreTypeOK
  BY DEF TypeInv, TypeOK
<1>1. ASSUME NEW j, NEW d, NEW kept, Saves(j, d, kept) PROVE Ledger!Record(j) /\ j \in Job
  <2>1. d \in Draft /\ j \in Job /\ kept \in BOOLEAN /\ SaveAnalysis(j, d, kept)
    BY <1>1, SavesDraft DEF Saves
  <2>2. jobs'[j] # NoRow /\ \A k \in Job \ {j} : jobs'[k] = jobs[k]
    BY <1>0, <2>1, SaveEffect DEF Stored
  <2>3. Keeps(Digest(d), StoredDigest(j)')
    BY <1>0, <2>1, SaveStoresDigest
  <2>4. \A k \in Job \ {j} : StoredDigest(k)' = StoredDigest(k)
    BY <1>0, <2>1, <2>2 DEF StoredDigest, SaveAnalysis, StoreTypeOK
  <2>5. cur'[j] = {StoredDigest(j)'}
    BY <2>1, <2>2
  <2>6. cur' = [cur EXCEPT ![j] = {StoredDigest(j)'}]
    BY <2>1, <2>2, <2>4
  <2>7. Ledger!IsNewest(hist, j, {Digest(d)}) <=> IsLogged(auditLog, j, Digest(d))
    BY DEF Ledger!IsNewest, IsLogged, IsNewestOf
  <2>8. ASSUME NEW c, auditLog' = Append(auditLog, NextEntry(auditLog, j, Digest(d), c))
        PROVE  hist' = Append(hist, [job |-> j, analysis |-> {Digest(d)}])
    <3> DEFINE e == NextEntry(auditLog, j, Digest(d), c)
    <3>1. Promised(e) = [job |-> j, analysis |-> {Digest(d)}]
      BY DEF NextEntry, Promised
    <3> HIDE DEF e
    <3>2. History(auditLog') = Append(History(auditLog), Promised(e))
      BY <1>0, <2>8, PromisedAppend DEF StoreTypeOK, e
    <3>3. hist = History(auditLog) /\ hist' = History(auditLog')
      BY DEF History, Promised
    <3> QED
      BY <3>1, <3>2, <3>3
  <2>9. hist' = IF Ledger!IsNewest(hist, j, {Digest(d)}) THEN hist
                ELSE Append(hist, [job |-> j, analysis |-> {Digest(d)}])
    BY <2>1, <2>7, <2>8 DEF SaveAnalysis, AppendAudit
  <2>10. {Digest(d)} \in {hist'[i].analysis : i \in DOMAIN hist'}
    <3>1. \E i \in DOMAIN auditLog' : auditLog'[i].analysis = Digest(d)
      BY <1>0, <2>1, LogGrows DEF SaveAnalysis, IsLogged
    <3> QED
      BY <3>1
  <2>11. SomeKeeps({Digest(d)}, cur'[j])
    BY <2>3, <2>5 DEF SomeKeeps
  <2> HIDE DEF cur, hist
  <2>12. cur'[j] # {} /\ cur' = [cur EXCEPT ![j] = cur'[j]]
    BY <2>5, <2>6
  <2> QED
    BY <2>1, <2>9, <2>10, <2>11, <2>12 DEF Ledger!Record, cur, hist
<1>2. ASSUME NEW j \in Job, DeleteRows(j) PROVE [Ledger!Next]_(Ledger!vars)
  <2>1. /\ jobs'[j] = NoRow /\ auditLog' = auditLog
        /\ \A k \in Job \ {j} : jobs'[k] = jobs[k] /\ StoredDigest(k)' = StoredDigest(k)
    BY <1>0, <1>2 DEF DeleteRows, StoreTypeOK, StoredDigest
  <2>2. cur' = [cur EXCEPT ![j] = {}] /\ hist' = hist
    BY <2>1
  <2>3. CASE cur[j] = {}
    <3>1. cur' = cur
      BY <2>2, <2>3
    <3> QED
      BY <2>2, <3>1 DEF Ledger!vars
  <2>4. CASE cur[j] # {}
    <3>1. Ledger!Forget(j)
      BY <2>2, <2>4 DEF Ledger!Forget
    <3> QED
      BY <3>1 DEF Ledger!Next
  <2> QED
    BY <2>3, <2>4
<1>3. CASE TablesUnchanged
  <2>1. cur' = cur /\ hist' = hist
    BY <1>3 DEF TablesUnchanged, StoredDigest
  <2> QED
    BY <2>1 DEF Ledger!vars
<1>4. (\E j \in Job : Ledger!Record(j)) => Ledger!Next
  BY DEF Ledger!Next
<1> QED
  BY <1>1, <1>2, <1>3, <1>4, EveryStepIsTablesStep DEF TablesStep

\* The tables and the log implement AuditedStore: whatever requests, live run, seed
\* and crashes interleave, a job's record changes exactly when the history does.
THEOREM Implements == Spec => ImplementsLedger
BY InitPromised, StepPromised, TypeInvInit, TypeInvStep, PTL
DEF Spec, ImplementsLedger, Ledger!Spec
=============================================================================
