----------------------------- MODULE WireProofs ------------------------------
(***************************************************************************)
(* What the decoder makes of any bytes: no payload but those that stand in  *)
(* the capture, and nothing from what may be ciphertext.                   *)
(***************************************************************************)
EXTENDS Wire, WellFoundedInduction, SequenceTheorems, TLAPS

(* Lists that are read from place to place *)

\* One element before the rest; a strict list is malformed if a part of it is.
Put(strict, x, rest) == IF strict THEN Prepend(x, rest) ELSE <<x>> \o rest

\* From each place of D: at a stop what is there, else an item and what follows.
IsWalk(D, stop, base, item, next, strict, walk) ==
    walk = [p \in D |-> IF p \in stop THEN base[p] ELSE Put(strict, item[p], walk[next[p]])]

\* Every place that is no stop leads to another that is nearer to the end.
Leads(P, stop, next, rank, n) ==
    /\ n \in Nat
    /\ rank \in [P -> 0..n]
    /\ \A p \in P \ stop : next[p] \in P /\ rank[next[p]] < rank[p]

\* A set of numbers has a least.
LEMMA LeastNumber ==
    ASSUME NEW S \in SUBSET Nat, S # {}
    PROVE  \E m \in S : \A i \in S : m <= i
<1>1. S # {}
  OBVIOUS
<1>2. IsWellFoundedOn(OpToRel(<, Nat), Nat)
  BY NatLessThanWellFounded
<1>3. PICK m \in S : \A i \in S : ~ (<<i, m>> \in OpToRel(<, Nat))
  BY <1>1, <1>2, WFMin
<1>4. \A i \in S : i \in Nat /\ m \in Nat /\ ~(i < m)
  BY <1>3 DEF OpToRel
<1> QED
  BY <1>4

\* There is such a list.
LEMMA WalkExists ==
    ASSUME NEW P, NEW stop, NEW base, NEW item, NEW next, NEW strict, NEW rank, NEW n,
           Leads(P, stop, next, rank, n)
    PROVE  \E walk : IsWalk(P, stop, base, item, next, strict, walk)
<1> DEFINE Near(k) == {p \in P : rank[p] < k}
           Walks(k) == \E walk : IsWalk(Near(k), stop, base, item, next, strict, walk)
           bad == {k \in Nat : ~Walks(k)}
<1>1. Walks(0)
  <2>1. Near(0) = {}
    BY DEF Leads
  <2>2. IsWalk({}, stop, base, item, next, strict, [p \in {} |-> 0])
    BY DEF IsWalk
  <2> QED
    BY <2>1, <2>2
<1>2. ASSUME NEW k \in Nat, Walks(k) PROVE Walks(k + 1)
  <2>1. PICK walk : IsWalk(Near(k), stop, base, item, next, strict, walk)
    BY <1>2
  <2> DEFINE more == [p \in Near(k + 1) |->
                        IF p \in stop THEN base[p] ELSE Put(strict, item[p], walk[next[p]])]
  <2>2. \A p : p \in Near(k) => p \in Near(k + 1)
    BY DEF Leads
  <2>3. \A p : p \in Near(k + 1) /\ p \notin stop => next[p] \in Near(k)
    BY DEF Leads
  <2> HIDE DEF Near
  <2>4. walk = [p \in Near(k) |->
                  IF p \in stop THEN base[p] ELSE Put(strict, item[p], walk[next[p]])]
    BY <2>1 DEF IsWalk
  <2>5. \A p \in Near(k) : more[p] = walk[p]
    BY <2>2, <2>4
  <2>6. more = [p \in Near(k + 1) |->
                  IF p \in stop THEN base[p] ELSE Put(strict, item[p], more[next[p]])]
    <3>1. \A p \in Near(k + 1) : p \notin stop => walk[next[p]] = more[next[p]]
      BY <2>3, <2>5
    <3>2. \A p \in Near(k + 1) :
            more[p] = IF p \in stop THEN base[p] ELSE Put(strict, item[p], more[next[p]])
      BY <3>1
    <3>3. more = [p \in Near(k + 1) |-> more[p]]
      OBVIOUS
    <3> HIDE DEF more
    <3> QED
      BY <3>2, <3>3
  <2> HIDE DEF more
  <2>7. IsWalk(Near(k + 1), stop, base, item, next, strict, more)
    BY <2>6 DEF IsWalk
  <2> QED
    BY <2>7
<1> HIDE DEF Walks
<1>3. bad = {}
  <2> SUFFICES ASSUME bad # {} PROVE FALSE
    OBVIOUS
  <2>1. PICK m \in bad : \A i \in bad : m <= i
    BY LeastNumber
  <2>2. m \in Nat /\ m # 0
    BY <1>1
  <2>3. m - 1 \in Nat /\ m - 1 \notin bad /\ (m - 1) + 1 = m
    BY <2>1, <2>2
  <2>4. Walks(m - 1)
    BY <2>3
  <2>5. Walks((m - 1) + 1)
    BY <1>2, <2>3, <2>4
  <2> QED
    BY <2>1, <2>3, <2>5
<1>4. Walks(n + 1) /\ Near(n + 1) = P
  BY <1>3 DEF Leads
<1> QED
  BY <1>4 DEF Walks

IsList(seq) == Len(seq) \in Nat /\ seq \in Seq(ToSet(seq))

\* One element before a list.
LEMMA OneBefore ==
    ASSUME NEW x, NEW rest, IsList(rest)
    PROVE  LET list == <<x>> \o rest
           IN  /\ IsList(list) /\ Len(list) = Len(rest) + 1 /\ list[1] = x
               /\ \A k \in 1..Len(rest) : list[k + 1] = rest[k]
<1> DEFINE list == <<x>> \o rest
           S == ToSet(rest) \cup {x}
<1>1. rest \in Seq(S)
  <2>1. rest \in Seq(ToSet(rest)) /\ ToSet(rest) \subseteq S
    BY DEF IsList
  <2> HIDE DEF S
  <2> QED
    BY <2>1
<1>2. <<x>> \in Seq(S) /\ Len(<<x>>) = 1
  OBVIOUS
<1> HIDE DEF S
<1>3. /\ list \in Seq(S) /\ Len(list) = Len(rest) + 1 /\ list[1] = x /\ Len(rest) \in Nat
      /\ \A k \in 1..Len(rest) : list[k + 1] = rest[k]
  BY <1>1, <1>2 DEF IsList
<1> HIDE DEF list
<1>4. list \in Seq(ToSet(list))
  <2>1. \A k \in 1..Len(list) : list[k] \in ToSet(list)
    BY <1>3 DEF ToSet
  <2>2. list = [k \in 1..Len(list) |-> list[k]] /\ Len(list) \in Nat
    BY <1>3
  <2> QED
    BY <2>1, <2>2
<1> QED
  BY <1>3, <1>4 DEF IsList, list

\* A list and the places it was read from: m items, and what is at the stop.
Path(P, stop, base, item, next, strict, list, m, at) ==
    /\ m \in Nat /\ at \in [0..m -> P]
    /\ \A k \in 1..m : at[k - 1] \notin stop /\ at[k] = next[at[k - 1]]
    /\ at[m] \in stop
    /\ IsList(base[at[m]]) /\ IsList(list) /\ Len(list) = m + Len(base[at[m]])
    /\ \A k \in 1..m : list[k] = item[at[k - 1]]
    /\ \A k \in 1..Len(base[at[m]]) : list[m + k] = base[at[m]][k]
    /\ strict => base[at[m]] # Malformed /\ \A k \in 1..m : item[at[k - 1]] # Malformed

\* A list that is read, is read along such a path.
LEMMA WalkHasPath ==
    ASSUME NEW P, NEW stop, NEW base, NEW item, NEW next, NEW strict \in BOOLEAN, NEW rank, NEW n,
           Leads(P, stop, next, rank, n),
           \A q \in P : q \in stop => IsList(base[q]) \/ (strict /\ base[q] = Malformed),
           NEW walk, IsWalk(P, stop, base, item, next, strict, walk),
           NEW p \in P, strict => walk[p] # Malformed
    PROVE  \E m, at : at[0] = p /\ Path(P, stop, base, item, next, strict, walk[p], m, at)
<1> DEFINE Read(q) == strict => walk[q] # Malformed
           Found(q) == \E m, at : at[0] = q /\ Path(P, stop, base, item, next, strict, walk[q], m, at)
           bad == {r \in 0..n : \E q \in P : rank[q] = r /\ Read(q) /\ ~Found(q)}
<1>1. \A q \in P : walk[q] = IF q \in stop THEN base[q] ELSE Put(strict, item[q], walk[next[q]])
  BY DEF IsWalk
<1>2. ASSUME NEW q \in P, Read(q), q \in stop PROVE Found(q)
  <2> DEFINE at == [k \in 0..0 |-> q]
  <2>1. walk[q] = base[q] /\ IsList(base[q])
    BY <1>1, <1>2
  <2>2. at \in [0..0 -> P] /\ at[0] = q /\ 1..0 = {}
    OBVIOUS
  <2> HIDE DEF at
  <2>3. Len(base[q]) = 0 + Len(base[q]) /\ \A k \in 1..Len(base[q]) : 0 + k = k
    BY <2>1 DEF IsList
  <2>4. Path(P, stop, base, item, next, strict, walk[q], 0, at)
    BY <1>2, <2>1, <2>2, <2>3 DEF Path
  <2> QED
    BY <2>2, <2>4
<1>3. ASSUME NEW q \in P, Read(q), q \notin stop, Read(next[q]) => Found(next[q]) PROVE Found(q)
  <2> DEFINE r == next[q]
             rest == walk[r]
             list == walk[q]
  <2>1. list = Put(strict, item[q], rest) /\ r \in P
    BY <1>1, <1>3 DEF Leads
  <2>2. strict => item[q] # Malformed /\ rest # Malformed
    BY <1>3, <2>1 DEF Put, Prepend
  <2>3. list = <<item[q]>> \o rest
    BY <2>1, <2>2 DEF Put, Prepend
  <2>4. PICK m, at : at[0] = r /\ Path(P, stop, base, item, next, strict, rest, m, at)
    BY <1>3, <2>2
  <2> DEFINE end == at[m]
             all == [k \in 0..m + 1 |-> IF k = 0 THEN q ELSE at[k - 1]]
  <2> HIDE DEF list, rest, r, end
  <2>5. /\ m \in Nat /\ at \in [0..m -> P]
        /\ \A k \in 1..m : at[k - 1] \notin stop /\ at[k] = next[at[k - 1]]
        /\ end \in stop
        /\ IsList(base[end]) /\ IsList(rest) /\ Len(rest) = m + Len(base[end])
        /\ \A k \in 1..m : rest[k] = item[at[k - 1]]
        /\ \A k \in 1..Len(base[end]) : rest[m + k] = base[end][k]
        /\ strict => base[end] # Malformed /\ \A k \in 1..m : item[at[k - 1]] # Malformed
    BY <2>4 DEF Path, end
  <2>6. /\ IsList(list) /\ Len(list) = Len(rest) + 1 /\ list[1] = item[q]
        /\ \A k \in 1..Len(rest) : list[k + 1] = rest[k]
    BY <2>3, <2>5, OneBefore
  <2>7. /\ all \in [0..m + 1 -> P] /\ all[0] = q /\ \A k \in 0..m : all[k + 1] = at[k]
    <3>1. \A k \in 0..m + 1 : k # 0 => k - 1 \in 0..m
      BY <2>5
    <3>2. \A k \in 0..m + 1 : all[k] \in P
      BY <2>5, <3>1
    <3>3. \A k \in 0..m : k + 1 \in 0..m + 1 /\ k + 1 # 0 /\ (k + 1) - 1 = k /\ 0 \in 0..m + 1
      BY <2>5
    <3> QED
      BY <2>5, <3>2, <3>3
  <2> HIDE DEF all
  <2>8. \A k \in 1..m + 1 : \/ k = 1 /\ all[k - 1] = q /\ all[k] = r
                            \/ /\ k - 1 \in 1..m /\ all[k - 1] = at[(k - 1) - 1]
                               /\ all[k] = at[k - 1]
    <3> SUFFICES ASSUME NEW k \in 1..m + 1
                 PROVE  \/ k = 1 /\ all[k - 1] = q /\ all[k] = r
                        \/ /\ k - 1 \in 1..m /\ all[k - 1] = at[(k - 1) - 1]
                           /\ all[k] = at[k - 1]
      OBVIOUS
    <3>1. CASE k = 1
      <4>1. k - 1 = 0 /\ 0 \in 0..m /\ k = 0 + 1
        BY <2>5, <3>1
      <4>2. all[0 + 1] = at[0]
        BY <2>7, <4>1
      <4> QED
        BY <2>4, <2>7, <3>1, <4>1, <4>2
    <3>2. CASE k # 1
      <4>1. k - 1 \in 1..m /\ k - 1 \in 0..m /\ (k - 1) + 1 = k
            /\ (k - 1) - 1 \in 0..m /\ ((k - 1) - 1) + 1 = k - 1
        BY <2>5, <3>2
      <4> QED
        BY <2>7, <4>1
    <3> QED
      BY <3>1, <3>2
  <2>9. all[m + 1] = end
    <3>1. m \in 0..m
      BY <2>5
    <3> QED
      BY <2>7, <3>1 DEF end
  <2>10. \A k \in 1..m + 1 : all[k - 1] \notin stop /\ all[k] = next[all[k - 1]]
    BY <1>3, <2>5, <2>8 DEF r
  <2>11. \A k \in 1..m + 1 : list[k] = item[all[k - 1]]
    <3> SUFFICES ASSUME NEW k \in 1..m + 1 PROVE list[k] = item[all[k - 1]]
      OBVIOUS
    <3>1. CASE k = 1 /\ all[k - 1] = q
      BY <2>6, <3>1
    <3>2. CASE k - 1 \in 1..m /\ all[k - 1] = at[(k - 1) - 1]
      <4>1. k - 1 \in 1..Len(rest) /\ (k - 1) + 1 = k
        BY <2>5, <3>2 DEF IsList
      <4> QED
        BY <2>5, <2>6, <3>2, <4>1
    <3> QED
      BY <2>8, <3>1, <3>2
  <2>12. \A k \in 1..Len(base[end]) : list[(m + 1) + k] = base[end][k]
    <3>1. \A k \in 1..Len(base[end]) : m + k \in 1..Len(rest) /\ (m + 1) + k = (m + k) + 1
      BY <2>5 DEF IsList
    <3> QED
      BY <2>5, <2>6, <3>1
  <2>13. ASSUME strict, NEW k \in 1..m + 1 PROVE item[all[k - 1]] # Malformed
    <3>1. item[q] # Malformed /\ \A j \in 1..m : item[at[j - 1]] # Malformed
      BY <2>2, <2>5, <2>13
    <3> QED
      BY <2>8, <3>1
  <2>14. m + 1 \in Nat /\ Len(list) = (m + 1) + Len(base[end])
    <3> DEFINE left == Len(base[end])
               all_of == Len(list)
               rest_of == Len(rest)
    <3>1. m \in Nat /\ left \in Nat
      BY <2>5 DEF IsList
    <3>2. rest_of = m + left
      BY <2>5
    <3>3. all_of = rest_of + 1
      BY <2>6
    <3> HIDE DEF left, all_of, rest_of
    <3>4. m + 1 \in Nat /\ all_of = (m + 1) + left
      BY <3>1, <3>2, <3>3
    <3> QED
      BY <3>4 DEF left, all_of
  <2>15. Path(P, stop, base, item, next, strict, list, m + 1, all)
    BY <2>5, <2>6, <2>7, <2>9, <2>10, <2>11, <2>12, <2>13, <2>14 DEF Path
  <2> QED
    BY <2>7, <2>15 DEF list
<1> HIDE DEF Found, Read
<1>4. bad = {}
  <2> SUFFICES ASSUME bad # {} PROVE FALSE
    OBVIOUS
  <2>1. bad \in SUBSET Nat
    BY DEF Leads
  <2>2. PICK r \in bad : \A i \in bad : r <= i
    BY <2>1, LeastNumber
  <2>3. PICK q \in P : rank[q] = r /\ Read(q) /\ ~Found(q)
    BY <2>2
  <2>4. q \notin stop
    BY <1>2, <2>3
  <2>5. next[q] \in P /\ rank[next[q]] < rank[q] /\ rank[next[q]] \in 0..n /\ rank[q] \in Nat
    BY <2>4 DEF Leads
  <2>6. rank[next[q]] \notin bad
    <3> SUFFICES ASSUME rank[next[q]] \in bad PROVE FALSE
      OBVIOUS
    <3>1. r <= rank[next[q]]
      BY <2>2
    <3> QED
      BY <2>3, <2>5, <3>1
  <2>7. Read(next[q]) => Found(next[q])
    BY <2>5, <2>6
  <2> QED
    BY <1>3, <2>3, <2>4, <2>7
<1>5. Read(p)
  BY DEF Read
<1>6. rank[p] \in 0..n
  BY DEF Leads
<1>7. Found(p)
  BY <1>4, <1>5, <1>6
<1> QED
  BY <1>7 DEF Found
-----------------------------------------------------------------------------
(* Bytes *)

Data == Seq(0..255)

\* A byte is one, and two of them make a number.
LEMMA ByteIsByte ==
    ASSUME NEW data \in Data, NEW at \in Nat, at < Len(data)
    PROVE  Byte(data, at) \in 0..255
<1>1. at + 1 \in 1..Len(data)
  BY DEF Data
<1>2. data[at + 1] \in 0..255
  BY <1>1, ElementOfSeq DEF Data
<1> QED
  BY <1>2 DEF Byte

LEMMA WordIsNumber ==
    ASSUME NEW data \in Data, NEW at \in Nat, at + 1 < Len(data)
    PROVE  Word(data, at) \in Nat
<1>1. Byte(data, at) \in 0..255 /\ Byte(data, at + 1) \in 0..255
  <2>1. at + 1 \in Nat /\ at < Len(data)
    BY DEF Data
  <2> QED
    BY <2>1, ByteIsByte
<1> DEFINE high == Byte(data, at)
           low == Byte(data, at + 1)
<1>2. Word(data, at) = 256 * high + low
  BY DEF Word
<1> HIDE DEF high, low
<1>3. high \in 0..255 /\ low \in 0..255
  BY <1>1 DEF high, low
<1> QED
  BY <1>2, <1>3

\* What a slice within the data is.
LEMMA SliceWithin ==
    ASSUME NEW data \in Data, NEW from \in Nat, NEW to \in Nat, from <= to, to <= Len(data)
    PROVE  /\ Slice(data, from, to) = SubSeq(data, from + 1, to)
           /\ Slice(data, from, to) \in Data
           /\ Len(Slice(data, from, to)) = to - from
<1>1. Min({to, Len(data)}) = to
  <2>1. to \in {to, Len(data)} /\ \A y \in {to, Len(data)} : to <= y
    <3>1. to <= to /\ to <= Len(data)
      OBVIOUS
    <3> QED
      BY <3>1
  <2>2. \A x \in {to, Len(data)} : (\A y \in {to, Len(data)} : x <= y) => x = to
    BY DEF Data
  <2> QED
    BY <2>1, <2>2 DEF Min
<1>2. SubSeq(data, from + 1, to) \in Data /\ Len(SubSeq(data, from + 1, to)) = to - from
  <2> DEFINE bytes == 0..255
             m == from + 1
  <2>1. data \in Seq(bytes)
    BY DEF Data
  <2> HIDE DEF bytes
  <2>2. \A i \in m..to : i \in 1..Len(data)
    BY <2>1
  <2>3. \A i \in m..to : data[i] \in bytes
    BY <2>1, <2>2, ElementOfSeq
  <2>4. m \in Int /\ to \in Int /\ (m <= to => to - m + 1 = to - from) /\ (~(m <= to) => to - from = 0)
    OBVIOUS
  <2> HIDE DEF m
  <2>5. /\ SubSeq(data, m, to) \in Seq(bytes)
        /\ Len(SubSeq(data, m, to)) = IF m <= to THEN to - m + 1 ELSE 0
    BY <2>3, <2>4, SubSeqProperties
  <2>6. Len(SubSeq(data, m, to)) = to - from
    BY <2>4, <2>5
  <2> QED
    BY <2>5, <2>6 DEF Data, bytes, m
<1> QED
  BY <1>1, <1>2 DEF Slice

\* A payload that is framed stands in the data.
LEMMA FramedStands ==
    ASSUME NEW data \in Data, NEW at \in Nat, Framed(data, at)
    PROVE  /\ Word(data, at + 2) \in Nat /\ Word(data, at + 2) >= 4
           /\ at + Word(data, at + 2) <= Len(data)
           /\ After(data, at) \in Nat \X Nat
           /\ After(data, at)[1] = at + Word(data, at + 2)
           /\ After(data, at)[2] = Byte(data, at)
           /\ Content(data, at) \in Data
           /\ Content(data, at) = SubSeq(data, at + 5, at + Word(data, at + 2))
           /\ Len(Content(data, at)) = Word(data, at + 2) - 4
<1>1. at + 4 <= Len(data) /\ Len(data) \in Nat
  BY DEF Framed, Data
<1>2. Word(data, at + 2) \in Nat /\ Byte(data, at) \in 0..255
  <2>1. at + 2 \in Nat /\ (at + 2) + 1 < Len(data) /\ at < Len(data)
    BY <1>1
  <2>2. Word(data, at + 2) \in Nat
    BY <2>1, WordIsNumber
  <2>3. Byte(data, at) \in 0..255
    BY <2>1, ByteIsByte
  <2> QED
    BY <2>2, <2>3
<1>3. Word(data, at + 2) >= 4 /\ at + Word(data, at + 2) <= Len(data)
  BY DEF Framed, Stands
<1> DEFINE w == Word(data, at + 2)
<1>4. After(data, at) = <<at + w, Byte(data, at)>>
  BY DEF After
<1>5. Content(data, at) = Slice(data, at + 4, at + w)
  BY DEF Content
<1> HIDE DEF w
<1>6. w \in Nat /\ w >= 4 /\ at + w <= Len(data)
  BY <1>2, <1>3 DEF w
<1>7. at + 4 \in Nat /\ at + w \in Nat /\ at + 4 <= at + w /\ (at + 4) + 1 = at + 5 /\ (at + w) - (at + 4) = w - 4
  BY <1>6
<1>8. /\ Content(data, at) \in Data
      /\ Content(data, at) = SubSeq(data, at + 5, at + w)
      /\ Len(Content(data, at)) = w - 4
  <2> DEFINE from == at + 4
             to == at + w
  <2>1. from \in Nat /\ to \in Nat /\ from <= to /\ to <= Len(data) /\ from + 1 = at + 5 /\ to - from = w - 4
    BY <1>6, <1>7
  <2> HIDE DEF from, to
  <2>2. /\ Slice(data, from, to) = SubSeq(data, from + 1, to)
        /\ Slice(data, from, to) \in Data
        /\ Len(Slice(data, from, to)) = to - from
    BY <2>1, SliceWithin
  <2> QED
    BY <1>5, <2>1, <2>2 DEF from, to
<1>9. After(data, at) \in Nat \X Nat /\ After(data, at)[1] = at + w /\ After(data, at)[2] = Byte(data, at)
  BY <1>2, <1>4, <1>7
<1> QED
  BY <1>6, <1>8, <1>9 DEF w
-----------------------------------------------------------------------------
(* Sums *)

\* The sums of the first numbers, up to the first n.
IsSum(numbers, n, sum) ==
    sum = [j \in 0..n |-> IF j = 0 THEN 0 ELSE sum[j - 1] + numbers[j]]

LEMMA SumExists ==
    ASSUME NEW numbers, NEW n \in Nat
    PROVE  \E sum : IsSum(numbers, n, sum)
<1> DEFINE Sums(k) == \E sum : IsSum(numbers, k, sum)
           bad == {k \in Nat : ~Sums(k)}
<1>1. Sums(0)
  <2> DEFINE sum == [j \in 0..0 |-> 0]
  <2>1. sum = [j \in 0..0 |-> IF j = 0 THEN 0 ELSE sum[j - 1] + numbers[j]]
    <3>1. \A j \in 0..0 : j = 0
      OBVIOUS
    <3>2. \A j \in 0..0 : sum[j] = IF j = 0 THEN 0 ELSE sum[j - 1] + numbers[j]
      BY <3>1
    <3> QED
      BY <3>2
  <2> HIDE DEF sum
  <2> QED
    BY <2>1 DEF IsSum
<1>2. ASSUME NEW k \in Nat, Sums(k) PROVE Sums(k + 1)
  <2>1. PICK sum : IsSum(numbers, k, sum)
    BY <1>2
  <2> DEFINE more == [j \in 0..k + 1 |-> IF j = 0 THEN 0 ELSE sum[j - 1] + numbers[j]]
  <2>2. sum = [j \in 0..k |-> IF j = 0 THEN 0 ELSE sum[j - 1] + numbers[j]]
    BY <2>1 DEF IsSum
  <2>3. \A j \in 0..k : j \in 0..k + 1
    OBVIOUS
  <2>4. \A j \in 0..k : more[j] = sum[j]
    BY <2>2, <2>3
  <2>5. \A j \in 0..k + 1 : j # 0 => j - 1 \in 0..k
    OBVIOUS
  <2>6. \A j \in 0..k + 1 : more[j] = IF j = 0 THEN 0 ELSE more[j - 1] + numbers[j]
    <3>1. \A j \in 0..k + 1 : j # 0 => sum[j - 1] = more[j - 1]
      BY <2>4, <2>5
    <3> QED
      BY <3>1
  <2>7. more = [j \in 0..k + 1 |-> more[j]]
    OBVIOUS
  <2> HIDE DEF more
  <2>8. IsSum(numbers, k + 1, more)
    BY <2>6, <2>7 DEF IsSum
  <2> QED
    BY <2>8
<1> HIDE DEF Sums
<1>3. bad = {}
  <2> SUFFICES ASSUME bad # {} PROVE FALSE
    OBVIOUS
  <2>1. PICK m \in bad : \A i \in bad : m <= i
    BY LeastNumber
  <2>2. m \in Nat /\ m # 0
    BY <1>1
  <2>3. m - 1 \in Nat /\ m - 1 \notin bad /\ (m - 1) + 1 = m
    BY <2>1, <2>2
  <2>4. Sums(m - 1)
    BY <2>3
  <2>5. Sums((m - 1) + 1)
    BY <1>2, <2>3, <2>4
  <2> QED
    BY <2>1, <2>3, <2>5
<1> QED
  BY <1>3 DEF Sums

\* A sum grows by each number.
LEMMA SumToGrows ==
    ASSUME NEW numbers, Len(numbers) \in Nat
    PROVE  /\ SumTo(numbers, 0) = 0
           /\ \A k \in 1..Len(numbers) : SumTo(numbers, k) = SumTo(numbers, k - 1) + numbers[k]
<1> DEFINE n == Len(numbers)
           chosen == CHOOSE sum : IsSum(numbers, n, sum)
<1>1. IsSum(numbers, n, chosen)
  BY SumExists
<1>2. \A k : SumTo(numbers, k) = chosen[k]
  BY Zenon DEF SumTo, IsSum
<1> HIDE DEF chosen
<1>3. \A k \in 0..n : chosen[k] = IF k = 0 THEN 0 ELSE chosen[k - 1] + numbers[k]
  BY <1>1 DEF IsSum
<1>4. 0 \in 0..n /\ \A k \in 1..n : k \in 0..n /\ k # 0
  OBVIOUS
<1>5. chosen[0] = 0 /\ \A k \in 1..n : chosen[k] = chosen[k - 1] + numbers[k]
  BY <1>3, <1>4
<1> QED
  BY <1>2, <1>5

\* Numbers that add up step by step to those of another list are its sums.
LEMMA SumToIs ==
    ASSUME NEW numbers, NEW n \in Nat, Len(numbers) = n, NEW w \in [0..n -> Nat], w[0] = 0,
           \A k \in 1..n : w[k] = w[k - 1] + numbers[k]
    PROVE  \A k \in 0..n : SumTo(numbers, k) = w[k]
<1> DEFINE bad == {k \in 0..n : SumTo(numbers, k) # w[k]}
<1> SUFFICES ASSUME bad # {} PROVE FALSE
  OBVIOUS
<1>0. bad \in SUBSET Nat
  OBVIOUS
<1>1. PICK m \in bad : \A i \in bad : m <= i
  BY <1>0, LeastNumber
<1>2. m \in 1..n
  <2>1. SumTo(numbers, 0) = 0
    BY SumToGrows
  <2>2. 0 \in 0..n /\ w[0] \in Nat
    OBVIOUS
  <2>3. m # 0
    BY <2>1, <2>2
  <2> QED
    BY <2>3
<1>3. m - 1 \in 0..n /\ m - 1 \notin bad
  BY <1>1, <1>2
<1>4. SumTo(numbers, m - 1) = w[m - 1]
  BY <1>3
<1>5. SumTo(numbers, m) = SumTo(numbers, m - 1) + numbers[m]
  BY <1>2, SumToGrows
<1>6. SumTo(numbers, m) = w[m]
  BY <1>2, <1>4, <1>5
<1> QED
  BY <1>1, <1>6

\* A sum of numbers is at most what takes at least each of them in turn.
LEMMA SumToAtMost ==
    ASSUME NEW numbers, NEW n \in Nat, Len(numbers) = n, NEW w \in [0..n -> Nat],
           \A k \in 1..n : numbers[k] \in Nat /\ w[k - 1] + numbers[k] <= w[k]
    PROVE  \A k \in 0..n : SumTo(numbers, k) \in Nat /\ SumTo(numbers, k) <= w[k]
<1> DEFINE bad == {k \in 0..n : ~(SumTo(numbers, k) \in Nat /\ SumTo(numbers, k) <= w[k])}
<1> SUFFICES ASSUME bad # {} PROVE FALSE
  OBVIOUS
<1>0. bad \in SUBSET Nat
  OBVIOUS
<1>1. PICK m \in bad : \A i \in bad : m <= i
  BY <1>0, LeastNumber
<1>2. m \in 1..n
  <2>1. SumTo(numbers, 0) = 0
    BY SumToGrows
  <2>2. 0 \in 0..n /\ w[0] \in Nat
    OBVIOUS
  <2>3. m # 0
    BY <2>1, <2>2
  <2> QED
    BY <2>3
<1>3. m - 1 \in 0..n /\ m - 1 \notin bad /\ m \in 0..n
  BY <1>1, <1>2
<1>4. SumTo(numbers, m - 1) \in Nat /\ SumTo(numbers, m - 1) <= w[m - 1]
  BY <1>3
<1>5. SumTo(numbers, m) = SumTo(numbers, m - 1) + numbers[m]
  BY <1>2, SumToGrows
<1>6. w[m] \in Nat /\ w[m - 1] \in Nat /\ numbers[m] \in Nat /\ w[m - 1] + numbers[m] <= w[m]
  BY <1>2, <1>3
<1> DEFINE before == SumTo(numbers, m - 1)
           now == SumTo(numbers, m)
           number == numbers[m]
           here == w[m]
           there == w[m - 1]
<1>7. now \in Nat /\ now <= here
  <2>1. before \in Nat /\ before <= there /\ now = before + number
    BY <1>4, <1>5
  <2>2. here \in Nat /\ there \in Nat /\ number \in Nat /\ there + number <= here
    BY <1>6
  <2> HIDE DEF before, now, number, here, there
  <2> QED
    BY <2>1, <2>2
<1> QED
  BY <1>1, <1>7
-----------------------------------------------------------------------------
(* Payloads at their places *)

\* What a payload shows of the place it is read from.
Reads(version, data, p, payload) ==
    /\ payload.raw = Content(data, p[1])
    /\ payload.type = PayloadType(version, p[2])
    /\ Least(payload.proposals) <= Len(payload.raw)

\* Payloads that are read one after the other.
Stood(version, ps, data, first, at) ==
    /\ Len(ps) \in Nat
    /\ at \in [0..Len(ps) -> Nat \X Nat] /\ at[0] = <<0, first>>
    /\ \A k \in 1..Len(ps) : /\ Framed(data, at[k - 1][1])
                             /\ at[k] = After(data, at[k - 1][1])
                             /\ Reads(version, data, at[k - 1], ps[k])

\* Payloads that tile the data, and end at their places.
TiledAt(version, ps, data, first, at) ==
    /\ Tiles(version, ps, data, first)
    /\ \A k \in 0..Len(ps) : End(ps, k) = at[k][1] /\ Announced(ps, data, first, k) = at[k][2]

\* Payloads that are read one after the other do.
LEMMA StoodTiles ==
    ASSUME NEW version, NEW ps, NEW data \in Data, NEW first \in Nat, NEW at,
           Stood(version, ps, data, first, at)
    PROVE  TiledAt(version, ps, data, first, at)
<1> DEFINE n == Len(ps)
           sizes == [j \in 1..Len(ps) |-> Size(ps[j])]
           place == [k \in 0..n |-> at[k][1]]
<1>1. n \in Nat /\ at \in [0..n -> Nat \X Nat] /\ at[0] = <<0, first>>
  BY DEF Stood
<1>2. \A k \in 0..n : at[k][1] \in Nat /\ at[k][2] \in Nat
  BY <1>1
<1>3. ASSUME NEW k \in 1..n
      PROVE  /\ k - 1 \in 0..n /\ Size(ps[k]) \in Nat
             /\ Word(data, at[k - 1][1] + 2) = Size(ps[k])
             /\ at[k][1] = at[k - 1][1] + Size(ps[k])
             /\ at[k][2] = Byte(data, at[k - 1][1])
             /\ at[k][1] <= Len(data)
             /\ ps[k].raw = SubSeq(data, at[k - 1][1] + 5, at[k - 1][1] + Size(ps[k]))
             /\ ps[k].type = PayloadType(version, at[k - 1][2])
             /\ Least(ps[k].proposals) <= Len(ps[k].raw)
  <2> DEFINE a == at[k - 1][1]
             wd == Word(data, a + 2)
             len == Len(ps[k].raw)
  <2>1. k - 1 \in 0..n /\ a \in Nat
    BY <1>1, <1>2
  <2>2. Framed(data, a) /\ at[k] = After(data, a) /\ Reads(version, data, at[k - 1], ps[k])
    BY DEF Stood
  <2>3. /\ ps[k].raw = Content(data, a) /\ ps[k].type = PayloadType(version, at[k - 1][2])
        /\ Least(ps[k].proposals) <= Len(ps[k].raw)
    BY <2>2 DEF Reads
  <2> HIDE DEF a
  <2>4. /\ wd \in Nat /\ wd >= 4 /\ a + wd <= Len(data)
        /\ After(data, a)[1] = a + wd /\ After(data, a)[2] = Byte(data, a)
        /\ Content(data, a) = SubSeq(data, a + 5, a + wd)
        /\ Len(Content(data, a)) = wd - 4
    BY <2>1, <2>2, FramedStands
  <2>5. Size(ps[k]) = 4 + len /\ len = wd - 4
    BY <2>3, <2>4 DEF Size
  <2> HIDE DEF wd, len
  <2>6. Size(ps[k]) = wd /\ Size(ps[k]) \in Nat
    BY <2>4, <2>5
  <2>7. at[k][1] = a + wd /\ at[k][2] = Byte(data, a) /\ at[k][1] <= Len(data)
    BY <2>2, <2>4
  <2>8. ps[k].raw = SubSeq(data, a + 5, a + wd)
    BY <2>3, <2>4
  <2> QED
    BY <2>1, <2>3, <2>6, <2>7, <2>8 DEF a, wd
<1>4. Len(sizes) = n /\ \A k \in 1..n : sizes[k] = Size(ps[k])
  BY <1>1
<1>5. place \in [0..n -> Nat] /\ place[0] = 0
  <2>1. 0 \in 0..n /\ at[0][1] = 0
    BY <1>1
  <2>2. \A k \in 0..n : at[k][1] \in Nat
    BY <1>2
  <2> QED
    BY <2>1, <2>2
<1>6. \A k \in 1..n : place[k] = place[k - 1] + sizes[k]
  <2>1. \A k \in 1..n : k \in 0..n /\ k - 1 \in 0..n
    BY <1>1
  <2> QED
    BY <1>3, <1>4, <2>1
<1>7. \A k : End(ps, k) = SumTo(sizes, k)
  BY DEF End
<1>8. \A k \in 0..n : place[k] = at[k][1]
  OBVIOUS
<1> HIDE DEF sizes, place
<1>9. \A k \in 0..n : SumTo(sizes, k) = place[k]
  <2>1. n \in Nat /\ Len(sizes) = n /\ place \in [0..n -> Nat] /\ place[0] = 0
    BY <1>1, <1>4, <1>5
  <2>2. \A k \in 1..n : place[k] = place[k - 1] + sizes[k]
    BY <1>6
  <2> HIDE DEF n
  <2> QED
    BY <2>1, <2>2, SumToIs, ZenonT(60)
<1>10. \A k \in 0..n : End(ps, k) = at[k][1]
  BY <1>7, <1>8, <1>9
<1>11. \A k \in 0..n : Announced(ps, data, first, k) = at[k][2]
  <2> SUFFICES ASSUME NEW k \in 0..n PROVE Announced(ps, data, first, k) = at[k][2]
    OBVIOUS
  <2>1. CASE k = 0
    BY <1>1, <2>1 DEF Announced
  <2>2. CASE k # 0
    <3>1. k \in 1..n /\ k - 1 \in 0..n
      BY <1>1, <2>2
    <3>2. at[k][2] = Byte(data, at[k - 1][1]) /\ End(ps, k - 1) = at[k - 1][1]
      BY <1>3, <1>10, <3>1
    <3> QED
      BY <2>2, <3>2 DEF Announced
  <2> QED
    BY <2>1, <2>2
<1>12. Tiles(version, ps, data, first)
  <2> SUFFICES ASSUME NEW k \in 1..n
               PROVE  /\ End(ps, k - 1) + Size(ps[k]) <= Len(data)
                      /\ Word(data, End(ps, k - 1) + 2) = Size(ps[k])
                      /\ ps[k].raw = SubSeq(data, End(ps, k - 1) + 5, End(ps, k - 1) + Size(ps[k]))
                      /\ ps[k].type = PayloadType(version, Announced(ps, data, first, k - 1))
                      /\ Least(ps[k].proposals) <= Len(ps[k].raw)
    BY DEF Tiles
  <2>1. k - 1 \in 0..n
    BY <1>3
  <2>2. End(ps, k - 1) = at[k - 1][1] /\ Announced(ps, data, first, k - 1) = at[k - 1][2]
    BY <1>10, <1>11, <2>1
  <2> QED
    BY <1>3, <2>2
<1> QED
  BY <1>10, <1>11, <1>12 DEF TiledAt
-----------------------------------------------------------------------------
(* Transforms and proposals *)

TransformAt(body, at) ==
    [type |-> TransformType(Byte(body, at + 4)), id |-> Word(body, at + 6),
     key_length |-> KeyLength(Slice(body, at + 8, at + Word(body, at + 2)))]

\* Where the reading of a list ends, with the elements of a list whose header has eight bytes.
NoElement(body, end) == {at \in Nat : at + 8 > end \/ ~Stands(body, at, end, 8)}
Nothing(end) == [at \in Nat |-> IF at + 8 > end THEN <<>> ELSE Malformed]
NextElement(body, end) ==
    [at \in Nat |-> IF Byte(body, at) = 0 THEN end ELSE at + Word(body, at + 2)]
Left(end) == [at \in Nat |-> IF at <= end THEN end - at ELSE 0]

\* The next element starts eight bytes on at least, and within the end.
LEMMA ElementsAdvance ==
    ASSUME NEW body \in Data, NEW end \in Nat, end <= Len(body),
           NEW at \in Nat, at \notin NoElement(body, end)
    PROVE  /\ at + 8 <= end /\ Word(body, at + 2) \in Nat /\ Word(body, at + 2) >= 8
           /\ at + Word(body, at + 2) <= end
           /\ NextElement(body, end)[at] \in Nat
           /\ at + Word(body, at + 2) <= NextElement(body, end)[at]
           /\ NextElement(body, end)[at] <= end
<1> DEFINE w == Word(body, at + 2)
           next == NextElement(body, end)[at]
<1>1. ~(at + 8 > end) /\ Stands(body, at, end, 8)
  BY DEF NoElement
<1>2. at + 8 <= end /\ w >= 8 /\ at + w <= end
  BY <1>1 DEF Stands
<1>3. w \in Nat
  <2>1. at + 2 \in Nat /\ (at + 2) + 1 < Len(body)
    BY <1>2 DEF Data
  <2> QED
    BY <2>1, WordIsNumber
<1>4. next = end \/ next = at + w
  BY DEF NextElement
<1> HIDE DEF w, next
<1>5. next \in Nat /\ at + w <= next /\ next <= end
  BY <1>2, <1>3, <1>4
<1> QED
  BY <1>2, <1>3, <1>5 DEF w, next

\* So the reading comes to an end.
LEMMA ElementsLead ==
    ASSUME NEW body \in Data, NEW end \in Nat, end <= Len(body)
    PROVE  Leads(Nat, NoElement(body, end), NextElement(body, end), Left(end), end)
<1>1. Left(end) \in [Nat -> 0..end]
  BY DEF Left
<1>2. ASSUME NEW at \in Nat \ NoElement(body, end)
      PROVE  /\ NextElement(body, end)[at] \in Nat
             /\ Left(end)[NextElement(body, end)[at]] < Left(end)[at]
  <2> DEFINE w == Word(body, at + 2)
             next == NextElement(body, end)[at]
  <2>1. at + 8 <= end /\ w >= 8 /\ next \in Nat /\ at + w <= next /\ next <= end /\ w \in Nat
    BY ElementsAdvance
  <2> HIDE DEF w, next
  <2>2. at < next /\ at <= end
    BY <2>1
  <2>3. Left(end)[next] = end - next /\ Left(end)[at] = end - at
    BY <2>1, <2>2 DEF Left
  <2>4. end - next < end - at
    BY <2>1, <2>2
  <2> QED
    BY <2>1, <2>3, <2>4 DEF next
<1> QED
  BY <1>1, <1>2 DEF Leads

\* The elements of a list and the places that they are read at, eight bytes apart at least.
Placed(body, end, item, start, list, m, at) ==
    /\ m \in Nat /\ at \in [0..m -> Nat]
    /\ at[0] = start /\ (m > 0 => at[m] <= end)
    /\ IsList(list) /\ Len(list) = m
    /\ \A k \in 1..m : /\ at[k - 1] \notin NoElement(body, end)
                       /\ at[k - 1] + Word(body, at[k - 1] + 2) <= at[k]
                       /\ at[k - 1] + 8 <= at[k]
                       /\ list[k] = item[at[k - 1]]
                       /\ item[at[k - 1]] # Malformed

\* A list of such elements that is read has such places.
LEMMA ElementsHavePlaces ==
    ASSUME NEW body \in Data, NEW end \in Nat, end <= Len(body), NEW item, NEW walk,
           IsWalk(Nat, NoElement(body, end), Nothing(end), item, NextElement(body, end), TRUE, walk),
           NEW start \in Nat, walk[start] # Malformed
    PROVE  \E m, at : Placed(body, end, item, start, walk[start], m, at)
<1> DEFINE stop == NoElement(body, end)
           base == Nothing(end)
           next == NextElement(body, end)
           rank == Left(end)
<1>1. \A q \in Nat : q \in stop => IsList(base[q]) \/ (TRUE /\ base[q] = Malformed)
  <2>1. IsList(<<>>)
    BY DEF IsList, ToSet
  <2> QED
    BY <2>1 DEF Nothing
<1>2. Leads(Nat, stop, next, rank, end)
  BY ElementsLead
<1>3. IsWalk(Nat, stop, base, item, next, TRUE, walk)
  OBVIOUS
<1> HIDE DEF stop, base, next, rank
<1>4. \E m, at : at[0] = start /\ Path(Nat, stop, base, item, next, TRUE, walk[start], m, at)
  BY <1>1, <1>2, <1>3, WalkHasPath
<1>5. PICK m, at : at[0] = start /\ Path(Nat, stop, base, item, next, TRUE, walk[start], m, at)
  BY <1>4
<1> DEFINE list == walk[start]
<1> HIDE DEF list
<1>6. /\ m \in Nat /\ at \in [0..m -> Nat]
      /\ \A k \in 1..m : at[k - 1] \notin stop /\ at[k] = next[at[k - 1]]
      /\ IsList(list) /\ Len(list) = m + Len(base[at[m]])
      /\ \A k \in 1..m : list[k] = item[at[k - 1]]
      /\ base[at[m]] # Malformed /\ \A k \in 1..m : item[at[k - 1]] # Malformed
  BY <1>5 DEF Path, list
<1>7. Len(list) = m
  <2>1. at[m] \in Nat
    BY <1>6
  <2>2. base[at[m]] = <<>>
    BY <1>6, <2>1 DEF base, Nothing
  <2>3. Len(base[at[m]]) = 0
    BY <2>2
  <2> QED
    BY <1>6, <2>3
<1>8. ASSUME NEW k \in 1..m
      PROVE  /\ at[k - 1] + Word(body, at[k - 1] + 2) <= at[k]
             /\ at[k - 1] + 8 <= at[k] /\ at[k] <= end
  <2> DEFINE a == at[k - 1]
             b == at[k]
             w == Word(body, a + 2)
  <2>1. a \in Nat /\ a \notin NoElement(body, end) /\ b = NextElement(body, end)[a]
    BY <1>6 DEF stop, next
  <2> HIDE DEF a, b
  <2>2. w \in Nat /\ w >= 8 /\ b \in Nat /\ a + w <= b /\ b <= end
    BY <2>1, ElementsAdvance
  <2> HIDE DEF w
  <2>3. a + w <= b /\ a + 8 <= b /\ b <= end
    BY <2>1, <2>2
  <2> QED
    BY <2>3 DEF a, b, w
<1>9. m > 0 => at[m] <= end
  <2>1. m > 0 => m \in 1..m
    BY <1>6
  <2> QED
    BY <1>8, <2>1
<1>10. Placed(body, end, item, start, list, m, at)
  BY <1>5, <1>6, <1>7, <1>8, <1>9 DEF Placed, stop
<1> QED
  BY <1>10 DEF list

IsTransforms(body, end, From) ==
    From = [at \in Nat |->
              LET len == Word(body, at + 2)
                  t == [type |-> TransformType(Byte(body, at + 4)), id |-> Word(body, at + 6),
                        key_length |-> KeyLength(Slice(body, at + 8, at + len))]
              IN  CASE at + 8 > end -> <<>>
                    [] at + 8 <= end /\ ~Stands(body, at, end, 8) -> Malformed
                    [] OTHER -> Prepend(t, From[IF Byte(body, at) = 0 THEN end ELSE at + len])]

\* The reading of transforms is such a reading.
LEMMA TransformsWalk ==
    ASSUME NEW body \in Data, NEW end \in Nat, end <= Len(body), NEW start \in Nat
    PROVE  \E walk : /\ IsWalk(Nat, NoElement(body, end), Nothing(end),
                               [at \in Nat |-> TransformAt(body, at)], NextElement(body, end), TRUE, walk)
                     /\ TransformsOf(body, start, end) = walk[start]
<1> DEFINE Read(f, at) ==
              LET len == Word(body, at + 2)
                  t == [type |-> TransformType(Byte(body, at + 4)), id |-> Word(body, at + 6),
                        key_length |-> KeyLength(Slice(body, at + 8, at + len))]
              IN  CASE at + 8 > end -> <<>>
                    [] at + 8 <= end /\ ~Stands(body, at, end, 8) -> Malformed
                    [] OTHER -> Prepend(t, f[IF Byte(body, at) = 0 THEN end ELSE at + len])
           stop == NoElement(body, end)
           base == Nothing(end)
           next == NextElement(body, end)
           item == [at \in Nat |-> TransformAt(body, at)]
           Walked(f, at) == IF at \in stop THEN base[at] ELSE Put(TRUE, item[at], f[next[at]])
           chosen == CHOOSE f : IsTransforms(body, end, f)
<1>1. ASSUME NEW f, NEW at \in Nat PROVE Read(f, at) = Walked(f, at)
  <2>1. CASE at + 8 > end
    <3>1. at \in stop /\ base[at] = <<>>
      BY <2>1 DEF NoElement, Nothing
    <3>2. Read(f, at) = <<>>
      BY <2>1
    <3> QED
      BY <3>1, <3>2
  <2>2. CASE at + 8 <= end /\ ~Stands(body, at, end, 8)
    <3>0. ~(at + 8 > end)
      BY <2>2
    <3>1. at \in stop /\ base[at] = Malformed
      BY <2>2, <3>0 DEF NoElement, Nothing
    <3>2. Read(f, at) = Malformed
      BY <2>2, <3>0
    <3> QED
      BY <3>1, <3>2
  <2>3. CASE at + 8 <= end /\ Stands(body, at, end, 8)
    <3>0. ~(at + 8 > end)
      BY <2>3
    <3>1. at \notin stop
      BY <2>3, <3>0 DEF NoElement
    <3>2. Read(f, at) = Prepend(TransformAt(body, at),
                                f[IF Byte(body, at) = 0 THEN end ELSE at + Word(body, at + 2)])
      BY <2>3, <3>0 DEF TransformAt
    <3>3. next[at] = IF Byte(body, at) = 0 THEN end ELSE at + Word(body, at + 2)
      BY DEF NextElement
    <3>4. item[at] = TransformAt(body, at)
      OBVIOUS
    <3> HIDE DEF item, next
    <3>5. Walked(f, at) = Prepend(item[at], f[next[at]])
      BY <3>1 DEF Put
    <3> QED
      BY <3>2, <3>3, <3>4, <3>5
  <2> HIDE DEF Read, Walked
  <2>4. at + 8 > end \/ at + 8 <= end
    OBVIOUS
  <2> QED
    BY <2>1, <2>2, <2>3, <2>4
<1>2. \A f : IsTransforms(body, end, f) <=> f = [at \in Nat |-> Read(f, at)]
  BY DEF IsTransforms
<1>3. \A f : IsWalk(Nat, stop, base, item, next, TRUE, f) <=> f = [at \in Nat |-> Walked(f, at)]
  BY DEF IsWalk
<1>4. TransformsOf(body, start, end) = chosen[start]
  BY Zenon DEF TransformsOf, IsTransforms
<1>5. \E f : IsWalk(Nat, stop, base, item, next, TRUE, f)
  BY ElementsLead, WalkExists
<1> HIDE DEF Read, Walked, stop, base, item, next
<1>6. \A f : IsTransforms(body, end, f) <=> IsWalk(Nat, stop, base, item, next, TRUE, f)
  <2> SUFFICES ASSUME NEW f
               PROVE  IsTransforms(body, end, f) <=> IsWalk(Nat, stop, base, item, next, TRUE, f)
    OBVIOUS
  <2>1. [at \in Nat |-> Read(f, at)] = [at \in Nat |-> Walked(f, at)]
    BY <1>1
  <2> QED
    BY <1>2, <1>3, <2>1
<1>7. IsWalk(Nat, stop, base, item, next, TRUE, chosen)
  <2>1. \E f : IsTransforms(body, end, f)
    BY <1>5, <1>6
  <2>2. IsTransforms(body, end, chosen)
    BY <2>1
  <2> QED
    BY <1>6, <2>2
<1> QED
  BY <1>4, <1>7 DEF stop, base, item, next

\* Numbers that grow by eight at least.
LEMMA EightsApart ==
    ASSUME NEW m \in Nat, NEW at \in [0..m -> Nat], \A k \in 1..m : at[k - 1] + 8 <= at[k]
    PROVE  at[0] + 8 * m <= at[m]
<1> DEFINE bad == {k \in 0..m : ~(at[0] + 8 * k <= at[k])}
<1>1. bad = {}
  <2> SUFFICES ASSUME bad # {} PROVE FALSE
    OBVIOUS
  <2>0. bad \in SUBSET Nat
    OBVIOUS
  <2>1. PICK k \in bad : \A i \in bad : k <= i
    BY <2>0, LeastNumber
  <2>2. k # 0
    <3>1. 0 \in 0..m /\ at[0] \in Nat
      OBVIOUS
    <3> QED
      BY <3>1
  <2>3. k \in 1..m /\ k - 1 \in 0..m /\ k - 1 \notin bad /\ k \in 0..m
    BY <2>1, <2>2
  <2>4. at[0] + 8 * (k - 1) <= at[k - 1] /\ at[k - 1] + 8 <= at[k]
    BY <2>3
  <2>5. at[0] \in Nat /\ at[k - 1] \in Nat /\ at[k] \in Nat
    BY <2>3
  <2> DEFINE a == at[0]
             b == at[k - 1]
             c == at[k]
  <2>6. a + 8 * k <= c
    <3>1. a + 8 * (k - 1) <= b /\ b + 8 <= c /\ a \in Nat /\ b \in Nat /\ c \in Nat /\ k \in Nat
      BY <2>3, <2>4, <2>5
    <3> HIDE DEF a, b, c
    <3> QED
      BY <3>1
  <2> QED
    BY <2>1, <2>6
<1>2. m \in 0..m
  OBVIOUS
<1> QED
  BY <1>1, <1>2

\* Transforms have eight bytes each at least, before the end.
LEMMA TransformsFit ==
    ASSUME NEW body \in Data, NEW end \in Nat, end <= Len(body), NEW start \in Nat,
           TransformsOf(body, start, end) # Malformed
    PROVE  /\ Len(TransformsOf(body, start, end)) \in Nat
           /\ \/ Len(TransformsOf(body, start, end)) = 0
              \/ start + 8 * Len(TransformsOf(body, start, end)) <= end
<1> DEFINE item == [at \in Nat |-> TransformAt(body, at)]
           ts == TransformsOf(body, start, end)
<1>1. PICK walk : /\ IsWalk(Nat, NoElement(body, end), Nothing(end), item,
                            NextElement(body, end), TRUE, walk)
                  /\ ts = walk[start]
  BY TransformsWalk
<1> HIDE DEF item, ts
<1>2. ts # Malformed
  BY DEF ts
<1>3. walk[start] # Malformed
  BY <1>1, <1>2
<1>4. PICK m, at : Placed(body, end, item, start, walk[start], m, at)
  BY <1>1, <1>3, ElementsHavePlaces
<1>5. /\ Len(ts) = m /\ m \in Nat /\ at \in [0..m -> Nat] /\ at[0] = start /\ (m > 0 => at[m] <= end)
      /\ \A k \in 1..m : at[k - 1] + 8 <= at[k]
  BY <1>1, <1>4 DEF Placed
<1>6. at[0] + 8 * m <= at[m]
  BY <1>5, EightsApart
<1>7. at[m] \in Nat
  BY <1>5
<1>8. m = 0 \/ start + 8 * m <= end
  BY <1>5, <1>6, <1>7
<1> QED
  BY <1>5, <1>8 DEF ts

ProposalAt(body, at) ==
    Proposal(Byte(body, at + 5),
             TransformsOf(body, at + 8 + Byte(body, at + 6), at + Word(body, at + 2)))

IsProposals(body, From) ==
    From = [at \in Nat |->
              LET end == at + Word(body, at + 2)
                  ts == TransformsOf(body, at + 8 + Byte(body, at + 6), end)
              IN  CASE at + 8 > Len(body) -> <<>>
                    [] at + 8 <= Len(body) /\ ~Stands(body, at, Len(body), 8) -> Malformed
                    [] OTHER -> Prepend(Proposal(Byte(body, at + 5), ts),
                                        From[IF Byte(body, at) = 0 THEN Len(body) ELSE end])]

\* The reading of proposals is such a reading.
LEMMA ProposalsWalk ==
    ASSUME NEW body \in Data
    PROVE  \E walk : /\ IsWalk(Nat, NoElement(body, Len(body)), Nothing(Len(body)),
                               [at \in Nat |-> ProposalAt(body, at)],
                               NextElement(body, Len(body)), TRUE, walk)
                     /\ Proposals(body) = walk[0]
<1> DEFINE Read(f, at) ==
              LET end == at + Word(body, at + 2)
                  ts == TransformsOf(body, at + 8 + Byte(body, at + 6), end)
              IN  CASE at + 8 > Len(body) -> <<>>
                    [] at + 8 <= Len(body) /\ ~Stands(body, at, Len(body), 8) -> Malformed
                    [] OTHER -> Prepend(Proposal(Byte(body, at + 5), ts),
                                        f[IF Byte(body, at) = 0 THEN Len(body) ELSE end])
           stop == NoElement(body, Len(body))
           base == Nothing(Len(body))
           next == NextElement(body, Len(body))
           item == [at \in Nat |-> ProposalAt(body, at)]
           Walked(f, at) == IF at \in stop THEN base[at] ELSE Put(TRUE, item[at], f[next[at]])
           chosen == CHOOSE f : IsProposals(body, f)
<1>0. Len(body) \in Nat
  BY DEF Data
<1>1. ASSUME NEW f, NEW at \in Nat PROVE Read(f, at) = Walked(f, at)
  <2>1. CASE at + 8 > Len(body)
    <3>1. at \in stop /\ base[at] = <<>>
      BY <2>1 DEF NoElement, Nothing
    <3>2. Read(f, at) = <<>>
      BY <2>1
    <3> QED
      BY <3>1, <3>2
  <2>2. CASE at + 8 <= Len(body) /\ ~Stands(body, at, Len(body), 8)
    <3>0. ~(at + 8 > Len(body))
      BY <1>0, <2>2
    <3>1. at \in stop /\ base[at] = Malformed
      BY <2>2, <3>0 DEF NoElement, Nothing
    <3>2. Read(f, at) = Malformed
      BY <2>2, <3>0
    <3> QED
      BY <3>1, <3>2
  <2>3. CASE at + 8 <= Len(body) /\ Stands(body, at, Len(body), 8)
    <3>0. ~(at + 8 > Len(body))
      BY <1>0, <2>3
    <3>1. at \notin stop
      BY <2>3, <3>0 DEF NoElement
    <3>2. Read(f, at) = Prepend(ProposalAt(body, at),
                                f[IF Byte(body, at) = 0 THEN Len(body) ELSE at + Word(body, at + 2)])
      BY <2>3, <3>0 DEF ProposalAt
    <3>3. next[at] = IF Byte(body, at) = 0 THEN Len(body) ELSE at + Word(body, at + 2)
      BY DEF NextElement
    <3>4. item[at] = ProposalAt(body, at)
      OBVIOUS
    <3> HIDE DEF item, next
    <3>5. Walked(f, at) = Prepend(item[at], f[next[at]])
      BY <3>1 DEF Put
    <3> QED
      BY <3>2, <3>3, <3>4, <3>5
  <2> HIDE DEF Read, Walked
  <2>4. at + 8 > Len(body) \/ at + 8 <= Len(body)
    BY <1>0
  <2> QED
    BY <2>1, <2>2, <2>3, <2>4
<1>2. \A f : IsProposals(body, f) <=> f = [at \in Nat |-> Read(f, at)]
  BY DEF IsProposals
<1>3. \A f : IsWalk(Nat, stop, base, item, next, TRUE, f) <=> f = [at \in Nat |-> Walked(f, at)]
  BY DEF IsWalk
<1>4. Proposals(body) = chosen[0]
  BY Zenon DEF Proposals, IsProposals
<1>5. \E f : IsWalk(Nat, stop, base, item, next, TRUE, f)
  <2>1. Leads(Nat, stop, next, Left(Len(body)), Len(body))
    BY <1>0, ElementsLead
  <2> QED
    BY <2>1, WalkExists
<1> HIDE DEF Read, Walked, stop, base, item, next
<1>6. \A f : IsProposals(body, f) <=> IsWalk(Nat, stop, base, item, next, TRUE, f)
  <2> SUFFICES ASSUME NEW f
               PROVE  IsProposals(body, f) <=> IsWalk(Nat, stop, base, item, next, TRUE, f)
    OBVIOUS
  <2>1. [at \in Nat |-> Read(f, at)] = [at \in Nat |-> Walked(f, at)]
    BY <1>1
  <2> QED
    BY <1>2, <1>3, <2>1
<1>7. IsWalk(Nat, stop, base, item, next, TRUE, chosen)
  <2>1. \E f : IsProposals(body, f)
    BY <1>5, <1>6
  <2>2. IsProposals(body, chosen)
    BY <2>1
  <2> QED
    BY <1>6, <2>2
<1> QED
  BY <1>4, <1>7 DEF stop, base, item, next

\* Proposals take no more bytes than there are.
LEMMA ProposalsFit ==
    ASSUME NEW body \in Data, Proposals(body) # Malformed
    PROVE  Least(Proposals(body)) <= Len(body)
<1> DEFINE end == Len(body)
           item == [at \in Nat |-> ProposalAt(body, at)]
           ps == Proposals(body)
           numbers == [j \in 1..Len(ps) |-> 8 + 8 * Len(ps[j].transforms)]
<1>0. end \in Nat /\ end <= Len(body)
  BY DEF Data
<1>1. PICK walk : /\ IsWalk(Nat, NoElement(body, end), Nothing(end), item,
                            NextElement(body, end), TRUE, walk)
                  /\ ps = walk[0]
  BY ProposalsWalk
<1>2. \A at \in Nat : item[at] = ProposalAt(body, at)
  OBVIOUS
<1> HIDE DEF item, ps, end
<1>3. walk[0] # Malformed
  BY <1>1 DEF ps
<1>4. PICK m, at : Placed(body, end, item, 0, walk[0], m, at)
  BY <1>0, <1>1, <1>3, ElementsHavePlaces
<1>5. /\ m \in Nat /\ at \in [0..m -> Nat] /\ at[0] = 0 /\ (m > 0 => at[m] <= end) /\ Len(ps) = m
      /\ \A k \in 1..m : /\ at[k - 1] \notin NoElement(body, end)
                         /\ at[k - 1] + Word(body, at[k - 1] + 2) <= at[k]
                         /\ ps[k] = item[at[k - 1]]
                         /\ item[at[k - 1]] # Malformed
  BY <1>1, <1>4 DEF Placed
<1>6. Len(numbers) = m /\ \A k \in 1..m : numbers[k] = 8 + 8 * Len(ps[k].transforms)
  BY <1>5
<1> HIDE DEF numbers
<1>7. ASSUME NEW k \in 1..m PROVE numbers[k] \in Nat /\ at[k - 1] + numbers[k] <= at[k]
  <2> DEFINE a == at[k - 1]
             b == at[k]
             w == Word(body, a + 2)
             skip == Byte(body, a + 6)
             ts == TransformsOf(body, a + 8 + skip, a + w)
             len == Len(ts)
  <2>1. a \in Nat /\ b \in Nat /\ a \notin NoElement(body, end) /\ a + w <= b
        /\ ps[k] = ProposalAt(body, a) /\ ps[k] # Malformed
    <3>1. k - 1 \in 0..m /\ k \in 0..m
      BY <1>5
    <3>2. a \in Nat /\ b \in Nat
      BY <1>5, <3>1
    <3> QED
      BY <1>2, <1>5, <3>2
  <2> HIDE DEF a, b
  <2>2. a + 8 <= end /\ w \in Nat /\ w >= 8 /\ a + w <= end
    BY <1>0, <2>1, ElementsAdvance
  <2>3. skip \in Nat
    <3>1. a + 6 \in Nat /\ a + 6 < Len(body)
      BY <1>0, <2>1, <2>2
    <3>2. skip \in 0..255
      BY <3>1, ByteIsByte
    <3> QED
      BY <3>2
  <2>4. ps[k] = Proposal(Byte(body, a + 5), ts)
    BY <2>1 DEF ProposalAt
  <2> HIDE DEF ts
  <2>5. ts # Malformed
    BY <2>1, <2>4 DEF Proposal
  <2>6. ps[k].transforms = ts
    BY <2>4, <2>5 DEF Proposal
  <2> HIDE DEF w, skip
  <2>7. a + 8 + skip \in Nat /\ a + w \in Nat /\ a + w <= Len(body)
    BY <1>0, <2>1, <2>2, <2>3
  <2>8. len \in Nat /\ (len = 0 \/ (a + 8 + skip) + 8 * len <= a + w)
    <3> DEFINE s == a + 8 + skip
               e == a + w
    <3>1. s \in Nat /\ e \in Nat /\ e <= Len(body)
      BY <2>7
    <3>2. ts = TransformsOf(body, s, e)
      BY DEF ts, w, skip
    <3> HIDE DEF s, e
    <3>3. len \in Nat /\ (len = 0 \/ s + 8 * len <= e)
      BY <2>5, <3>1, <3>2, TransformsFit
    <3> QED
      BY <3>3 DEF s, e
  <2>9. numbers[k] = 8 + 8 * len
    BY <1>6, <2>6
  <2> HIDE DEF len
  <2>10. numbers[k] \in Nat /\ a + numbers[k] <= b
    BY <2>1, <2>2, <2>3, <2>8, <2>9
  <2> QED
    BY <2>10 DEF a, b
<1>8. \A k \in 0..m : SumTo(numbers, k) \in Nat /\ SumTo(numbers, k) <= at[k]
  BY <1>5, <1>6, <1>7, SumToAtMost
<1>9. SumTo(numbers, m) \in Nat /\ SumTo(numbers, m) <= at[m] /\ at[m] \in Nat
  <2>1. m \in 0..m
    BY <1>5
  <2> QED
    BY <1>5, <1>8, <2>1
<1>10. at[m] <= end
  <2>1. CASE m = 0
    BY <1>0, <1>5, <2>1
  <2>2. CASE m # 0
    BY <1>5, <2>2
  <2> QED
    BY <2>1, <2>2
<1>11. Least(ps) = SumTo(numbers, m)
  BY <1>5 DEF Least, numbers
<1>12. Least(ps) <= end
  BY <1>0, <1>9, <1>10, <1>11
<1> QED
  BY <1>12 DEF ps, end
-----------------------------------------------------------------------------
(* One payload *)

\* What is made of a payload shows its bytes, its type, and no more proposals than they hold.
Shows(payload, type, raw) ==
    /\ payload.raw = raw /\ payload.type = type /\ payload.inner = None
    /\ Least(payload.proposals) <= Len(raw)

LEMMA NoProposals ==
    ASSUME NEW proposals, proposals = <<>>
    PROVE  Least(proposals) = 0
<1> DEFINE numbers == [j \in 1..Len(proposals) |-> 8 + 8 * Len(proposals[j].transforms)]
<1>1. Len(proposals) = 0
  OBVIOUS
<1>2. Len(numbers) = 0
  BY <1>1
<1>3. Least(proposals) = SumTo(numbers, 0)
  BY <1>1 DEF Least
<1> HIDE DEF numbers
<1>4. SumTo(numbers, 0) = 0
  BY <1>2, SumToGrows
<1> QED
  BY <1>3, <1>4

LEMMA PlainShows ==
    ASSUME NEW version, NEW n, NEW raw \in Data
    PROVE  Shows(Plain(version, n, raw), PayloadType(version, n), raw)
<1> DEFINE p == Plain(version, n, raw)
<1>1. p.raw = raw /\ p.type = PayloadType(version, n) /\ p.inner = None /\ p.proposals = <<>>
  BY DEF Plain
<1> HIDE DEF p
<1>2. Least(p.proposals) = 0
  BY <1>1, NoProposals
<1>3. Len(raw) \in Nat
  BY DEF Data
<1>4. Least(p.proposals) <= Len(raw)
  BY <1>2, <1>3
<1> QED
  BY <1>1, <1>4 DEF Shows, p

\* The structured view adds only what the bytes say.
LEMMA DecorateShows ==
    ASSUME NEW version, NEW n \in Nat, NEW raw \in Data, Decorate(version, n, raw) # Malformed
    PROVE  Shows(Decorate(version, n, raw), PayloadType(version, n), raw)
<1> DEFINE p == Plain(version, n, raw)
           d == Decorate(version, n, raw)
<1>1. Shows(p, PayloadType(version, n), raw)
  BY PlainShows
<1>2. d = Decorated(p, n, raw) /\ d # Malformed
  BY DEF Decorate
<1>3. \A x : LET q == [p EXCEPT !.dh_group = x]
             IN  q.raw = p.raw /\ q.type = p.type /\ q.inner = p.inner /\ q.proposals = p.proposals
  BY DEF Plain
<1>4. \A x : LET q == [p EXCEPT !.auth_method = x]
             IN  q.raw = p.raw /\ q.type = p.type /\ q.inner = p.inner /\ q.proposals = p.proposals
  BY DEF Plain
<1>5. \A x : LET q == [p EXCEPT !.notify_type = x]
             IN  q.raw = p.raw /\ q.type = p.type /\ q.inner = p.inner /\ q.proposals = p.proposals
  BY DEF Plain
<1>6. \A x : LET q == [p EXCEPT !.proposals = x]
             IN  q.raw = p.raw /\ q.type = p.type /\ q.inner = p.inner /\ q.proposals = x
  BY DEF Plain
<1> HIDE DEF p, d
<1>7. CASE n = 33
  <2>1. d = WithProposals(p, Proposals(raw))
    BY <1>2, <1>7 DEF Decorated
  <2>2. Proposals(raw) # Malformed /\ d = [p EXCEPT !.proposals = Proposals(raw)]
    BY <1>2, <2>1 DEF WithProposals
  <2>3. Least(Proposals(raw)) <= Len(raw)
    BY <2>2, ProposalsFit
  <2>4. d.raw = p.raw /\ d.type = p.type /\ d.inner = p.inner /\ d.proposals = Proposals(raw)
    BY <1>6, <2>2
  <2> QED
    BY <1>1, <2>3, <2>4 DEF Shows, d
<1>8. CASE n # 33
  <2>1. \/ d = p
        \/ d = [p EXCEPT !.dh_group = Word(raw, 0)]
        \/ d = [p EXCEPT !.auth_method = Byte(raw, 0)]
        \/ d = [p EXCEPT !.notify_type = Word(raw, 2)]
    <3>1. Len(raw) < 4 \/ Len(raw) >= 4
      BY DEF Data
    <3>2. n \in {34, 35, 36, 39, 41} => ~(Len(raw) < 4)
      BY <1>2, <1>8 DEF Decorated
    <3>3. CASE n = 34
      BY <1>2, <1>8, <3>1, <3>2, <3>3 DEF Decorated
    <3>4. CASE n = 39
      BY <1>2, <1>8, <3>1, <3>2, <3>4 DEF Decorated
    <3>5. CASE n = 41
      BY <1>2, <1>8, <3>1, <3>2, <3>5 DEF Decorated
    <3>6. CASE n \notin {34, 39, 41}
      <4>1. ~(n \in {34, 35, 36, 39, 41} /\ Len(raw) < 4)
        BY <3>2
      <4>2. n # 34 /\ n # 39 /\ n # 41
        BY <3>6
      <4> QED
        BY <1>2, <1>8, <4>1, <4>2 DEF Decorated
    <3> QED
      BY <3>3, <3>4, <3>5, <3>6
  <2>2. d.raw = p.raw /\ d.type = p.type /\ d.inner = p.inner /\ d.proposals = p.proposals
    <3>1. CASE d = p
      BY <3>1
    <3>2. CASE d = [p EXCEPT !.dh_group = Word(raw, 0)]
      BY <1>3, <3>2, Zenon
    <3>3. CASE d = [p EXCEPT !.auth_method = Byte(raw, 0)]
      BY <1>4, <3>3, Zenon
    <3>4. CASE d = [p EXCEPT !.notify_type = Word(raw, 2)]
      BY <1>5, <3>4, Zenon
    <3> QED
      BY <2>1, <3>1, <3>2, <3>3, <3>4
  <2> QED
    BY <1>1, <2>2 DEF Shows, d
<1> QED
  BY <1>7, <1>8

\* So does a payload whose structured view is left out.
LEMMA ToleratedShows ==
    ASSUME NEW version, NEW n \in Nat, NEW raw \in Data
    PROVE  Shows(Tolerated(version, n, raw), PayloadType(version, n), raw)
<1>1. CASE Decorate(version, n, raw) = Malformed
  BY <1>1, PlainShows DEF Tolerated, Readable
<1>2. CASE Decorate(version, n, raw) # Malformed
  BY <1>2, DecorateShows DEF Tolerated, Readable
<1> QED
  BY <1>1, <1>2

\* No payload is the mark of one that is cut off.
LEMMA NotCut ==
    ASSUME NEW version, NEW n, NEW payload, payload.type = PayloadType(version, n)
    PROVE  payload # Cut
<1>1. PayloadType(version, n) # "cut"
  BY DEF PayloadType
<1>2. Cut.type = "cut"
  BY DEF Cut
<1> QED
  BY <1>1, <1>2
-----------------------------------------------------------------------------
(* Chains of payloads *)

Places == Nat \X Nat
NextPayload(data) == [p \in Places |-> After(data, p[1])]
ToEnd(data) == [p \in Places |-> IF p[1] <= Len(data) THEN Len(data) - p[1] ELSE 0]

\* A chain that only reads on from payloads that are framed comes to an end.
LEMMA PayloadsLead ==
    ASSUME NEW data \in Data, NEW stop, \A p \in Places \ stop : Framed(data, p[1])
    PROVE  Leads(Places, stop, NextPayload(data), ToEnd(data), Len(data))
<1> DEFINE end == Len(data)
<1>0. end \in Nat
  BY DEF Data
<1>1. ToEnd(data) \in [Places -> 0..end]
  <2>1. \A p \in Places : p[1] \in Nat
    BY DEF Places
  <2>2. \A p \in Places : (IF p[1] <= end THEN end - p[1] ELSE 0) \in 0..end
    BY <1>0, <2>1
  <2> QED
    BY <2>2 DEF ToEnd
<1>2. ASSUME NEW p \in Places \ stop
      PROVE  NextPayload(data)[p] \in Places /\ ToEnd(data)[NextPayload(data)[p]] < ToEnd(data)[p]
  <2> DEFINE a == p[1]
             w == Word(data, a + 2)
             q == After(data, a)
             b == q[1]
  <2>1. a \in Nat /\ Framed(data, a)
    BY DEF Places
  <2> HIDE DEF a
  <2>2. w \in Nat /\ w >= 4 /\ a + w <= Len(data) /\ q \in Places /\ b = a + w
    BY <2>1, FramedStands DEF Places
  <2>3. NextPayload(data)[p] = q
    BY DEF NextPayload, a
  <2>4. ToEnd(data)[q] = (IF b <= end THEN end - b ELSE 0) /\ ToEnd(data)[p] = (IF a <= end THEN end - a ELSE 0)
    BY <2>2 DEF ToEnd, a
  <2> HIDE DEF w, q, b
  <2>5. b \in Nat /\ a < b /\ b <= end
    BY <1>0, <2>1, <2>2
  <2>6. ToEnd(data)[q] < ToEnd(data)[p]
    BY <1>0, <2>1, <2>4, <2>5
  <2> QED
    BY <2>2, <2>3, <2>6
<1> QED
  BY <1>0, <1>1, <1>2 DEF Leads

(* A chain that may be ciphertext *)

ChainStop(data) == {p \in Places : p[2] = 0 \/ ~Framed(data, p[1])}
ChainBase(data) == [p \in Places |-> IF p[2] = 0 /\ p[1] = Len(data) THEN <<>> ELSE Malformed]
ChainItem(version, data) == [p \in Places |-> Decorate(version, p[2], Content(data, p[1]))]

IsChain(version, data, From) ==
    From = [p \in Nat \X Nat |->
              LET at == p[1]
                  n == p[2]
              IN  CASE n = 0 -> IF at = Len(data) THEN <<>> ELSE Malformed
                    [] n # 0 /\ ~Framed(data, at) -> Malformed
                    [] OTHER -> Prepend(Decorate(version, n, Content(data, at)), From[After(data, at)])]

\* The reading of a chain is such a reading.
LEMMA ChainWalk ==
    ASSUME NEW version, NEW data \in Data, NEW first \in Nat
    PROVE  \E walk : /\ IsWalk(Places, ChainStop(data), ChainBase(data), ChainItem(version, data),
                               NextPayload(data), TRUE, walk)
                     /\ FrameChain(version, data, first) = walk[<<0, first>>]
<1> DEFINE Read(f, p) ==
              LET at == p[1]
                  n == p[2]
              IN  CASE n = 0 -> IF at = Len(data) THEN <<>> ELSE Malformed
                    [] n # 0 /\ ~Framed(data, at) -> Malformed
                    [] OTHER -> Prepend(Decorate(version, n, Content(data, at)), f[After(data, at)])
           stop == ChainStop(data)
           base == ChainBase(data)
           next == NextPayload(data)
           item == ChainItem(version, data)
           Walked(f, p) == IF p \in stop THEN base[p] ELSE Put(TRUE, item[p], f[next[p]])
           chosen == CHOOSE f : IsChain(version, data, f)
<1>1. ASSUME NEW f, NEW p \in Places PROVE Read(f, p) = Walked(f, p)
  <2>1. CASE p[2] = 0
    <3>1. p \in stop /\ base[p] = IF p[1] = Len(data) THEN <<>> ELSE Malformed
      BY <2>1 DEF ChainStop, ChainBase
    <3>2. Read(f, p) = IF p[1] = Len(data) THEN <<>> ELSE Malformed
      BY <2>1
    <3> QED
      BY <3>1, <3>2
  <2>2. CASE p[2] # 0 /\ ~Framed(data, p[1])
    <3>1. p \in stop /\ base[p] = Malformed
      BY <2>2 DEF ChainStop, ChainBase
    <3>2. Read(f, p) = Malformed
      BY <2>2
    <3> QED
      BY <3>1, <3>2
  <2>3. CASE p[2] # 0 /\ Framed(data, p[1])
    <3>1. p \notin stop
      BY <2>3 DEF ChainStop
    <3>2. Read(f, p) = Prepend(Decorate(version, p[2], Content(data, p[1])), f[After(data, p[1])])
      BY <2>3
    <3>3. next[p] = After(data, p[1]) /\ item[p] = Decorate(version, p[2], Content(data, p[1]))
      BY DEF NextPayload, ChainItem
    <3>4. Walked(f, p) = Prepend(item[p], f[next[p]])
      BY <3>1 DEF Put
    <3> QED
      BY <3>2, <3>3, <3>4
  <2> QED
    BY <2>1, <2>2, <2>3
<1>2. \A f : IsChain(version, data, f) <=> f = [p \in Places |-> Read(f, p)]
  BY DEF IsChain, Places
<1>3. \A f : IsWalk(Places, stop, base, item, next, TRUE, f) <=> f = [p \in Places |-> Walked(f, p)]
  BY DEF IsWalk
<1>4. FrameChain(version, data, first) = chosen[<<0, first>>]
  BY Zenon DEF FrameChain, IsChain
<1>5. \E f : IsWalk(Places, stop, base, item, next, TRUE, f)
  <2>1. \A p \in Places \ stop : Framed(data, p[1])
    BY DEF ChainStop
  <2>2. Leads(Places, stop, next, ToEnd(data), Len(data))
    BY <2>1, PayloadsLead
  <2> QED
    BY <2>2, WalkExists
<1> HIDE DEF Read, Walked, stop, base, item, next
<1>6. \A f : IsChain(version, data, f) <=> IsWalk(Places, stop, base, item, next, TRUE, f)
  <2> SUFFICES ASSUME NEW f
               PROVE  IsChain(version, data, f) <=> IsWalk(Places, stop, base, item, next, TRUE, f)
    OBVIOUS
  <2>1. [p \in Places |-> Read(f, p)] = [p \in Places |-> Walked(f, p)]
    BY <1>1
  <2> QED
    BY <1>2, <1>3, <2>1
<1>7. IsWalk(Places, stop, base, item, next, TRUE, chosen)
  <2>1. \E f : IsChain(version, data, f)
    BY <1>5, <1>6
  <2>2. IsChain(version, data, chosen)
    BY <2>1
  <2> QED
    BY <1>6, <2>2
<1> QED
  BY <1>4, <1>7 DEF stop, base, item, next

\* A payload that is read at a place shows what stands there.
LEMMA ShowsReads ==
    ASSUME NEW version, NEW data, NEW p, NEW payload,
           Shows(payload, PayloadType(version, p[2]), Content(data, p[1]))
    PROVE  Reads(version, data, p, payload)
  BY DEF Shows, Reads

\* Payloads that are read to the last byte, and end there, are exactly the data.
LEMMA ChainIsExact ==
    ASSUME NEW version, NEW data \in Data, NEW first \in Nat,
           FrameChain(version, data, first) # Malformed
    PROVE  /\ Exactly(version, FrameChain(version, data, first), data, first)
           /\ Len(FrameChain(version, data, first)) \in Nat
           /\ \A k \in 1..Len(FrameChain(version, data, first)) :
                 \E type : Shows(FrameChain(version, data, first)[k], PayloadType(version, type),
                                 FrameChain(version, data, first)[k].raw)
<1> DEFINE stop == ChainStop(data)
           base == ChainBase(data)
           next == NextPayload(data)
           item == ChainItem(version, data)
           list == FrameChain(version, data, first)
           start == <<0, first>>
<1>1. PICK walk : IsWalk(Places, stop, base, item, next, TRUE, walk) /\ list = walk[start]
  BY ChainWalk
<1>2. Leads(Places, stop, next, ToEnd(data), Len(data))
  <2>1. \A p \in Places \ stop : Framed(data, p[1])
    BY DEF ChainStop
  <2> QED
    BY <2>1, PayloadsLead
<1>3. \A q \in Places : q \in stop => IsList(base[q]) \/ (TRUE /\ base[q] = Malformed)
  <2>1. IsList(<<>>)
    BY DEF IsList, ToSet
  <2> QED
    BY <2>1 DEF ChainBase
<1>4. start \in Places
  BY DEF Places
<1> HIDE DEF list
<1>5. walk[start] # Malformed
  BY <1>1 DEF list
<1> HIDE DEF stop, base, next, item
<1>6. PICK m, at : at[0] = start /\ Path(Places, stop, base, item, next, TRUE, walk[start], m, at)
  BY <1>1, <1>2, <1>3, <1>4, <1>5, WalkHasPath
<1>7. /\ m \in Nat /\ at \in [0..m -> Places] /\ at[m] \in stop
      /\ \A k \in 1..m : at[k - 1] \notin stop /\ at[k] = next[at[k - 1]]
      /\ IsList(list) /\ Len(list) = m + Len(base[at[m]])
      /\ \A k \in 1..m : list[k] = item[at[k - 1]]
      /\ base[at[m]] # Malformed /\ \A k \in 1..m : item[at[k - 1]] # Malformed
  BY <1>1, <1>6 DEF Path
<1>8. at[m] \in Places /\ at[m][2] = 0 /\ at[m][1] = Len(data) /\ Len(list) = m
  <2>1. at[m] \in Places
    BY <1>7
  <2>2. at[m][2] = 0 /\ at[m][1] = Len(data) /\ base[at[m]] = <<>>
    BY <1>7, <2>1 DEF base, ChainBase
  <2>3. Len(base[at[m]]) = 0
    BY <2>2
  <2> QED
    BY <1>7, <2>1, <2>2, <2>3
<1>9. ASSUME NEW k \in 1..m
      PROVE  /\ Framed(data, at[k - 1][1]) /\ at[k] = After(data, at[k - 1][1])
             /\ Shows(list[k], PayloadType(version, at[k - 1][2]), Content(data, at[k - 1][1]))
  <2> DEFINE p == at[k - 1]
  <2>1. p \in Places /\ p \notin stop /\ at[k] = next[p] /\ list[k] = item[p] /\ item[p] # Malformed
    <3>1. k - 1 \in 0..m
      BY <1>7
    <3> QED
      BY <1>7, <3>1
  <2> HIDE DEF p
  <2>2. p[1] \in Nat /\ p[2] \in Nat /\ Framed(data, p[1])
    BY <2>1 DEF Places, stop, ChainStop
  <2>3. at[k] = After(data, p[1]) /\ list[k] = Decorate(version, p[2], Content(data, p[1]))
    BY <2>1 DEF next, NextPayload, item, ChainItem
  <2>4. Content(data, p[1]) \in Data
    BY <2>2, FramedStands
  <2>5. Shows(list[k], PayloadType(version, p[2]), Content(data, p[1]))
    BY <2>1, <2>2, <2>3, <2>4, DecorateShows
  <2> QED
    BY <2>2, <2>3, <2>5 DEF p
<1>10. Stood(version, list, data, first, at)
  <2>1. \A k \in 1..m : Reads(version, data, at[k - 1], list[k])
    BY <1>9, ShowsReads
  <2> QED
    BY <1>6, <1>7, <1>8, <1>9, <2>1 DEF Stood, Places, start
<1>11. Tiles(version, list, data, first) /\ End(list, m) = Len(data) /\ Announced(list, data, first, m) = 0
  <2>1. m \in 0..m
    BY <1>7
  <2>2. TiledAt(version, list, data, first, at)
    BY <1>10, StoodTiles
  <2> QED
    BY <1>8, <2>1, <2>2 DEF TiledAt
<1>12. Exactly(version, list, data, first)
  BY <1>8, <1>11 DEF Exactly
<1>13. \A k \in 1..m : \E type : Shows(list[k], PayloadType(version, type), list[k].raw)
  <2> SUFFICES ASSUME NEW k \in 1..m
               PROVE  \E type : Shows(list[k], PayloadType(version, type), list[k].raw)
    OBVIOUS
  <2>1. Shows(list[k], PayloadType(version, at[k - 1][2]), Content(data, at[k - 1][1]))
    BY <1>9
  <2>2. list[k].raw = Content(data, at[k - 1][1])
    BY <2>1 DEF Shows
  <2>3. Shows(list[k], PayloadType(version, at[k - 1][2]), list[k].raw)
    BY <2>1, <2>2
  <2> QED
    BY <2>3
<1> QED
  BY <1>7, <1>8, <1>12, <1>13 DEF list

(* The chain of a message *)

LastSK(version, data, p) ==
    [Plain(version, p[2], Content(data, p[1])) EXCEPT
       !.inner = TryFrameChain(version, Content(data, p[1]), Byte(data, p[1]))]

TopStop(data) == {p \in Places : p[2] = 0 \/ ~Framed(data, p[1]) \/ p[2] = SK}
TopBase(version, data) ==
    [p \in Places |-> IF p[2] = 0 THEN <<>>
                      ELSE IF ~Framed(data, p[1]) THEN <<Cut>> ELSE <<LastSK(version, data, p)>>]
TopItem(version, data) == [p \in Places |-> Tolerated(version, p[2], Content(data, p[1]))]

IsTop(version, data, From) ==
    From = [p \in Nat \X Nat |->
              LET at == p[1]
                  n == p[2]
                  raw == Content(data, at)
              IN  CASE n = 0 -> <<>>
                    [] n # 0 /\ ~Framed(data, at) -> <<Cut>>
                    [] n = SK /\ Framed(data, at) ->
                         <<[Plain(version, n, raw) EXCEPT
                              !.inner = TryFrameChain(version, raw, Byte(data, at))]>>
                    [] OTHER -> <<Tolerated(version, n, raw)>> \o From[After(data, at)]]

\* The reading of the payloads of a message is such a reading.
LEMMA TopWalk ==
    ASSUME NEW version, NEW data \in Data, NEW first \in Nat
    PROVE  \E walk : /\ IsWalk(Places, TopStop(data), TopBase(version, data), TopItem(version, data),
                               NextPayload(data), FALSE, walk)
                     /\ TopLevel(version, data, first) = walk[<<0, first>>]
<1> DEFINE Read(f, p) ==
              LET at == p[1]
                  n == p[2]
                  raw == Content(data, at)
              IN  CASE n = 0 -> <<>>
                    [] n # 0 /\ ~Framed(data, at) -> <<Cut>>
                    [] n = SK /\ Framed(data, at) ->
                         <<[Plain(version, n, raw) EXCEPT
                              !.inner = TryFrameChain(version, raw, Byte(data, at))]>>
                    [] OTHER -> <<Tolerated(version, n, raw)>> \o f[After(data, at)]
           stop == TopStop(data)
           base == TopBase(version, data)
           next == NextPayload(data)
           item == TopItem(version, data)
           Walked(f, p) == IF p \in stop THEN base[p] ELSE Put(FALSE, item[p], f[next[p]])
           chosen == CHOOSE f : IsTop(version, data, f)
<1>0. SK # 0
  BY DEF SK
<1>1. ASSUME NEW f, NEW p \in Places PROVE Read(f, p) = Walked(f, p)
  <2>1. CASE p[2] = 0
    <3>1. p \in stop /\ base[p] = <<>>
      BY <2>1 DEF TopStop, TopBase
    <3>2. Read(f, p) = <<>>
      BY <1>0, <2>1
    <3> QED
      BY <3>1, <3>2
  <2>2. CASE p[2] # 0 /\ ~Framed(data, p[1])
    <3>1. p \in stop /\ base[p] = <<Cut>>
      BY <2>2 DEF TopStop, TopBase
    <3>2. Read(f, p) = <<Cut>>
      BY <2>2
    <3> QED
      BY <3>1, <3>2
  <2>3. CASE p[2] # 0 /\ Framed(data, p[1]) /\ p[2] = SK
    <3>1. p \in stop /\ base[p] = <<LastSK(version, data, p)>>
      BY <2>3 DEF TopStop, TopBase
    <3>2. Read(f, p) = <<LastSK(version, data, p)>>
      BY <2>3 DEF LastSK
    <3> QED
      BY <3>1, <3>2
  <2>4. CASE p[2] # 0 /\ Framed(data, p[1]) /\ p[2] # SK
    <3>1. p \notin stop
      BY <2>4 DEF TopStop
    <3>2. Read(f, p) = <<Tolerated(version, p[2], Content(data, p[1]))>> \o f[After(data, p[1])]
      BY <2>4
    <3>3. next[p] = After(data, p[1]) /\ item[p] = Tolerated(version, p[2], Content(data, p[1]))
      BY DEF NextPayload, TopItem
    <3>4. Walked(f, p) = <<item[p]>> \o f[next[p]]
      BY <3>1 DEF Put
    <3> QED
      BY <3>2, <3>3, <3>4
  <2> QED
    BY <2>1, <2>2, <2>3, <2>4
<1>2. \A f : IsTop(version, data, f) <=> f = [p \in Places |-> Read(f, p)]
  BY DEF IsTop, Places
<1>3. \A f : IsWalk(Places, stop, base, item, next, FALSE, f) <=> f = [p \in Places |-> Walked(f, p)]
  BY DEF IsWalk
<1>4. TopLevel(version, data, first) = chosen[<<0, first>>]
  BY Zenon DEF TopLevel, IsTop
<1>5. \E f : IsWalk(Places, stop, base, item, next, FALSE, f)
  <2>1. \A p \in Places \ stop : Framed(data, p[1])
    BY DEF TopStop
  <2>2. Leads(Places, stop, next, ToEnd(data), Len(data))
    BY <2>1, PayloadsLead
  <2> QED
    BY <2>2, WalkExists
<1> HIDE DEF Read, Walked, stop, base, item, next
<1>6. \A f : IsTop(version, data, f) <=> IsWalk(Places, stop, base, item, next, FALSE, f)
  <2> SUFFICES ASSUME NEW f
               PROVE  IsTop(version, data, f) <=> IsWalk(Places, stop, base, item, next, FALSE, f)
    OBVIOUS
  <2>1. [p \in Places |-> Read(f, p)] = [p \in Places |-> Walked(f, p)]
    BY <1>1
  <2> QED
    BY <1>2, <1>3, <2>1
<1>7. IsWalk(Places, stop, base, item, next, FALSE, chosen)
  <2>1. \E f : IsTop(version, data, f)
    BY <1>5, <1>6
  <2>2. IsTop(version, data, chosen)
    BY <2>1
  <2> QED
    BY <1>6, <2>2
<1> QED
  BY <1>4, <1>7 DEF stop, base, item, next

\* What is inside an SK payload: payloads to its last byte, or nothing.
InsideIsExact(version, ps, data, k, a) ==
    ps[k].inner # None => /\ k = Len(ps)
                          /\ Exactly(version, ps[k].inner, ps[k].raw, Byte(data, a))

\* The payload that is read last shows its bytes, and what is inside it if it is all payloads.
LEMMA LastSKReads ==
    ASSUME NEW version, NEW data \in Data, NEW p \in Places, Framed(data, p[1])
    PROVE  LET sk == LastSK(version, data, p)
           IN  /\ Reads(version, data, p, sk)
               /\ sk.inner # None => Exactly(version, sk.inner, sk.raw, Byte(data, p[1]))
<1> DEFINE a == p[1]
           raw == Content(data, a)
           plain == Plain(version, p[2], raw)
           inner == TryFrameChain(version, raw, Byte(data, a))
           sk == LastSK(version, data, p)
<1>1. a \in Nat /\ raw \in Data
  <2>1. a \in Nat
    BY DEF Places
  <2> QED
    BY <2>1, FramedStands
<1>2. Byte(data, a) \in Nat
  <2>1. After(data, a) \in Nat \X Nat /\ After(data, a)[2] = Byte(data, a)
    BY <1>1, FramedStands
  <2> QED
    BY <2>1
<1>3. sk.raw = plain.raw /\ sk.type = plain.type /\ sk.proposals = plain.proposals /\ sk.inner = inner
  BY DEF LastSK, Plain
<1>4. Shows(plain, PayloadType(version, p[2]), raw)
  BY <1>1, PlainShows
<1> HIDE DEF sk, plain, raw, inner
<1>5. Reads(version, data, p, sk)
  BY <1>3, <1>4 DEF Shows, Reads, raw
<1>6. inner # None => Exactly(version, inner, raw, Byte(data, a))
  <2> SUFFICES ASSUME inner # None PROVE Exactly(version, inner, raw, Byte(data, a))
    OBVIOUS
  <2>1. inner = Readable(FrameChain(version, raw, Byte(data, a)), None)
    BY DEF inner, TryFrameChain
  <2>2. FrameChain(version, raw, Byte(data, a)) # Malformed /\ inner = FrameChain(version, raw, Byte(data, a))
    BY <2>1 DEF Readable
  <2> QED
    BY <1>1, <1>2, <2>2, ChainIsExact
<1>7. sk.raw = raw
  BY <1>3, <1>4 DEF Shows
<1> QED
  BY <1>3, <1>5, <1>6, <1>7 DEF sk

\* The chain without the mark of a payload that is cut off.
Whole(chain) == IF chain # <<>> /\ Last(chain) = Cut THEN Front(chain) ELSE chain

\* The payloads of a message are read one after the other, and SK is the last.
LEMMA TopIsRead ==
    ASSUME NEW version, NEW data \in Data, NEW first \in Nat
    PROVE  LET ps == Whole(TopLevel(version, data, first))
           IN  \E at : /\ Stood(version, ps, data, first, at)
                       /\ \A k \in 1..Len(ps) : InsideIsExact(version, ps, data, k, at[k - 1][1])
<1> DEFINE stop == TopStop(data)
           base == TopBase(version, data)
           next == NextPayload(data)
           item == TopItem(version, data)
           list == TopLevel(version, data, first)
           ps == Whole(list)
           start == <<0, first>>
           Goal(at) == /\ Stood(version, ps, data, first, at)
                       /\ \A k \in 1..Len(ps) : InsideIsExact(version, ps, data, k, at[k - 1][1])
<1>1. PICK walk : IsWalk(Places, stop, base, item, next, FALSE, walk) /\ list = walk[start]
  BY TopWalk
<1>2. Leads(Places, stop, next, ToEnd(data), Len(data))
  <2>1. \A p \in Places \ stop : Framed(data, p[1])
    BY DEF TopStop
  <2> QED
    BY <2>1, PayloadsLead
<1>3. \A x : IsList(<<x>>) /\ Len(<<x>>) = 1 /\ <<x>>[1] = x
  BY DEF IsList, ToSet
<1>4. IsList(<<>>) /\ Len(<<>>) = 0
  BY DEF IsList, ToSet
<1>5. \A q \in Places : q \in stop => IsList(base[q])
  BY <1>3, <1>4 DEF TopBase
<1>6. start \in Places
  BY DEF Places
<1> HIDE DEF list, stop, base, next, item
<1>7. PICK m, at : at[0] = start /\ Path(Places, stop, base, item, next, FALSE, walk[start], m, at)
  <2>1. \A q \in Places : q \in stop => IsList(base[q]) \/ (FALSE /\ base[q] = Malformed)
    BY <1>5
  <2>2. FALSE \in BOOLEAN /\ (FALSE => walk[start] # Malformed)
    OBVIOUS
  <2> QED
    BY <1>1, <1>2, <1>6, <2>1, <2>2, WalkHasPath
<1> DEFINE last == at[m]
<1>8. /\ m \in Nat /\ at \in [0..m -> Places] /\ last \in stop
      /\ \A k \in 1..m : at[k - 1] \notin stop /\ at[k] = next[at[k - 1]]
      /\ IsList(list) /\ Len(list) = m + Len(base[last])
      /\ \A k \in 1..m : list[k] = item[at[k - 1]]
      /\ \A k \in 1..Len(base[last]) : list[m + k] = base[last][k]
  BY <1>1, <1>7 DEF Path
<1>9. last \in Places
  BY <1>8
<1>10. ASSUME NEW k \in 1..m
       PROVE  /\ Framed(data, at[k - 1][1]) /\ at[k] = After(data, at[k - 1][1])
              /\ Shows(list[k], PayloadType(version, at[k - 1][2]), Content(data, at[k - 1][1]))
  <2> DEFINE p == at[k - 1]
  <2>1. p \in Places /\ p \notin stop /\ at[k] = next[p] /\ list[k] = item[p]
    <3>1. k - 1 \in 0..m
      BY <1>8
    <3> QED
      BY <1>8, <3>1
  <2> HIDE DEF p
  <2>2. p[1] \in Nat /\ p[2] \in Nat /\ Framed(data, p[1])
    BY <2>1 DEF Places, stop, TopStop
  <2>3. at[k] = After(data, p[1]) /\ list[k] = Tolerated(version, p[2], Content(data, p[1]))
    BY <2>1 DEF next, NextPayload, item, TopItem
  <2>4. Content(data, p[1]) \in Data
    BY <2>2, FramedStands
  <2>5. Shows(list[k], PayloadType(version, p[2]), Content(data, p[1]))
    BY <2>2, <2>3, <2>4, ToleratedShows
  <2> QED
    BY <2>2, <2>3, <2>5 DEF p
<1> HIDE DEF last
<1>11. ASSUME Len(ps) = m, \A k \in 1..m : ps[k] = list[k] PROVE Goal(at)
  <2>1. \A k \in 1..m : Reads(version, data, at[k - 1], list[k]) /\ list[k].inner = None
    <3>1. \A k \in 1..m : Reads(version, data, at[k - 1], list[k])
      BY <1>10, ShowsReads
    <3>2. \A k \in 1..m : list[k].inner = None
      BY <1>10 DEF Shows
    <3> QED
      BY <3>1, <3>2
  <2> HIDE DEF ps
  <2>2. Stood(version, ps, data, first, at)
    BY <1>7, <1>8, <1>10, <1>11, <2>1 DEF Stood, Places, start
  <2>3. \A k \in 1..Len(ps) : InsideIsExact(version, ps, data, k, at[k - 1][1])
    BY <1>11, <2>1 DEF InsideIsExact
  <2> QED
    BY <2>2, <2>3
<1>12. \A k \in 1..m : list[k] # Cut
  <2> SUFFICES ASSUME NEW k \in 1..m PROVE list[k] # Cut
    OBVIOUS
  <2>1. list[k].type = PayloadType(version, at[k - 1][2])
    BY <1>10 DEF Shows
  <2> QED
    BY <2>1, NotCut
<1>13. CASE last[2] = 0
  <2>1. base[last] = <<>>
    BY <1>9, <1>13 DEF base, TopBase
  <2>2. Len(list) = m
    BY <1>4, <1>8, <2>1
  <2>3. list # <<>> => Last(list) # Cut
    <3> SUFFICES ASSUME list # <<>> PROVE Last(list) # Cut
      OBVIOUS
    <3>1. Len(list) # 0
      BY <1>8 DEF IsList
    <3>2. m \in 1..m
      BY <1>8, <2>2, <3>1
    <3> QED
      BY <1>12, <2>2, <3>2 DEF Last
  <2>4. ps = list
    BY <2>3 DEF Whole
  <2> HIDE DEF ps
  <2>5. Goal(at)
    BY <1>11, <2>2, <2>4
  <2> QED
    BY <2>5 DEF ps, list
<1>14. CASE last[2] # 0 /\ ~Framed(data, last[1])
  <2>1. base[last] = <<Cut>>
    BY <1>9, <1>14 DEF base, TopBase
  <2>2. Len(base[last]) = 1 /\ base[last][1] = Cut /\ 1 \in 1..1
    BY <1>3, <2>1
  <2>3. Len(list) = m + 1 /\ list[m + 1] = Cut
    BY <1>8, <2>2
  <2>4. list # <<>> /\ Last(list) = Cut
    <3>1. Len(list) # 0
      BY <1>8, <2>3
    <3> QED
      BY <1>4, <2>3, <3>1 DEF Last
  <2>5. ps = SubSeq(list, 1, m)
    <3>1. Len(list) - 1 = m
      BY <1>8, <2>3
    <3> QED
      BY <2>4, <3>1 DEF Whole, Front
  <2>6. Len(ps) = m /\ \A k \in 1..m : ps[k] = list[k]
    <3>1. \A i \in 1..m : i \in 1..Len(list)
      BY <1>8, <2>3
    <3>2. \A i \in 1..m : list[i] \in ToSet(list)
      BY <3>1 DEF ToSet
    <3> HIDE DEF ps
    <3>3. /\ Len(SubSeq(list, 1, m)) = IF 1 <= m THEN m - 1 + 1 ELSE 0
          /\ \A i \in 1..m - 1 + 1 : SubSeq(list, 1, m)[i] = list[1 + i - 1]
      BY <1>8, <3>2, SubSeqProperties
    <3>4. m - 1 + 1 = m /\ (~(1 <= m) => m = 0) /\ \A i \in 1..m : 1 + i - 1 = i
      BY <1>8
    <3> QED
      BY <2>5, <3>3, <3>4
  <2> HIDE DEF ps
  <2>7. Goal(at)
    BY <1>11, <2>6
  <2> QED
    BY <2>7 DEF ps, list
<1>15. CASE last[2] # 0 /\ Framed(data, last[1])
  <2> DEFINE sk == LastSK(version, data, last)
             all == [k \in 0..m + 1 |-> IF k = m + 1 THEN After(data, last[1]) ELSE at[k]]
  <2>1. base[last] = <<sk>>
    BY <1>9, <1>15 DEF base, TopBase
  <2>2. Len(base[last]) = 1 /\ base[last][1] = sk /\ 1 \in 1..1
    BY <1>3, <2>1
  <2> HIDE DEF sk
  <2>3. Len(list) = m + 1 /\ list[m + 1] = sk
    BY <1>8, <2>2
  <2>4. Reads(version, data, last, sk) /\ (sk.inner # None => Exactly(version, sk.inner, sk.raw, Byte(data, last[1])))
    BY <1>9, <1>15, LastSKReads DEF sk
  <2>5. Last(list) # Cut
    <3>1. sk.type = PayloadType(version, last[2])
      BY <2>4 DEF Reads
    <3> QED
      BY <2>3, <3>1, NotCut DEF Last
  <2>6. ps = list
    BY <2>5 DEF Whole
  <2>7. /\ all \in [0..m + 1 -> Places] /\ all[0] = start
        /\ all[m + 1] = After(data, last[1]) /\ \A k \in 0..m : all[k] = at[k]
    <3>1. \A k \in 0..m + 1 : k # m + 1 => k \in 0..m
      BY <1>8
    <3>2. After(data, last[1]) \in Places
      <4>1. last[1] \in Nat
        BY <1>9 DEF Places
      <4> QED
        BY <1>15, <4>1, FramedStands DEF Places
    <3>3. \A k \in 0..m + 1 : all[k] \in Places
      BY <1>8, <3>1, <3>2
    <3>4. 0 \in 0..m + 1 /\ 0 # m + 1 /\ m + 1 \in 0..m + 1 /\ \A k \in 0..m : k \in 0..m + 1 /\ k # m + 1
      BY <1>8
    <3> QED
      BY <1>7, <3>3, <3>4
  <2> HIDE DEF all, ps
  <2>8. ASSUME NEW k \in 1..m + 1
        PROVE  \/ k \in 1..m /\ all[k] = at[k] /\ all[k - 1] = at[k - 1]
               \/ k = m + 1 /\ all[k] = After(data, last[1]) /\ all[k - 1] = last
    <3>1. CASE k = m + 1
      <4>1. k - 1 = m /\ m \in 0..m
        BY <1>8, <3>1
      <4> QED
        BY <2>7, <3>1, <4>1 DEF last
    <3>2. CASE k # m + 1
      <4>1. k \in 1..m /\ k \in 0..m /\ k - 1 \in 0..m
        BY <1>8, <3>2
      <4> QED
        BY <2>7, <4>1
    <3> QED
      BY <3>1, <3>2
  <2>9. ASSUME NEW k \in 1..m + 1
        PROVE  /\ Framed(data, all[k - 1][1]) /\ all[k] = After(data, all[k - 1][1])
               /\ Reads(version, data, all[k - 1], list[k])
               /\ InsideIsExact(version, list, data, k, all[k - 1][1])
    <3>1. CASE k \in 1..m /\ all[k] = at[k] /\ all[k - 1] = at[k - 1]
      <4>1. Reads(version, data, at[k - 1], list[k])
        BY <1>10, <3>1, ShowsReads
      <4>2. list[k].inner = None
        BY <1>10, <3>1 DEF Shows
      <4>3. InsideIsExact(version, list, data, k, all[k - 1][1])
        BY <4>2 DEF InsideIsExact
      <4> QED
        BY <1>10, <3>1, <4>1, <4>3
    <3>2. CASE k = m + 1 /\ all[k] = After(data, last[1]) /\ all[k - 1] = last
      <4>1. list[k] = sk
        BY <2>3, <3>2
      <4>2. InsideIsExact(version, list, data, k, all[k - 1][1])
        BY <2>3, <2>4, <3>2, <4>1 DEF InsideIsExact
      <4> QED
        BY <1>15, <2>4, <3>2, <4>1, <4>2
    <3> QED
      BY <2>8, <3>1, <3>2
  <2>10. Len(list) \in Nat
    BY <1>8 DEF IsList
  <2>11. Stood(version, list, data, first, all)
    BY <2>3, <2>7, <2>9, <2>10 DEF Stood, Places, start
  <2>12. Goal(all)
    BY <2>3, <2>6, <2>9, <2>11
  <2> QED
    BY <2>12 DEF ps, list
<1> QED
  BY <1>13, <1>14, <1>15
-----------------------------------------------------------------------------
(* The message under way *)

Sendable(m) ==
    /\ m = [header |-> m.header, body |-> m.body, says |-> m.says]
    /\ m.body \in Data /\ m.header.next \in 0..255
    /\ m.header.length = IKE_HEADER_LEN + Len(m.body)

\* The invariant: what is decoded is what there is of a message of bytes.
Decodes ==
    /\ Sendable(message)
    /\ kept \in Nat /\ kept <= message.header.length
    /\ decoded = decode_message(message, kept)

\* A byte that is not what was sent leaves a message of as many bytes.
LEMMA SpoiltIsSendable ==
    ASSUME NEW m, Sendable(m), NEW k \in 1..Len(m.body), NEW byte \in 0..255
    PROVE  /\ Sendable([m EXCEPT !.body[k] = byte])
           /\ [m EXCEPT !.body[k] = byte].header = m.header
<1> DEFINE bytes == 0..255
           new == [m.body EXCEPT ![k] = byte]
           n == [m EXCEPT !.body[k] = byte]
<1>1. m = [header |-> m.header, body |-> m.body, says |-> m.says]
  BY DEF Sendable
<1>2. m.body \in Seq(bytes)
  BY DEF Sendable, Data
<1>3. new \in Seq(bytes) /\ Len(new) = Len(m.body)
  <2>1. byte \in bytes
    OBVIOUS
  <2> HIDE DEF bytes
  <2> QED
    BY <1>2, <2>1
<1>4. n = [m EXCEPT !.body = new]
  OBVIOUS
<1> HIDE DEF n, new, bytes
<1>5. n = [header |-> m.header, body |-> new, says |-> m.says]
  <2> DEFINE h == m.header
             b == m.body
             s == m.says
  <2>1. m = [header |-> h, body |-> b, says |-> s]
    BY <1>1
  <2> HIDE DEF h, b, s
  <2>2. [m EXCEPT !.body = new] = [header |-> h, body |-> new, says |-> s]
    BY <2>1
  <2> QED
    BY <1>4, <2>2 DEF h, s
<1>6. n.header = m.header /\ n.body = new /\ n.says = m.says
  BY <1>5
<1>7. n.body \in Data
  BY <1>3, <1>6 DEF Data, bytes
<1>8. Sendable(n)
  BY <1>3, <1>5, <1>6, <1>7 DEF Sendable
<1> QED
  BY <1>6, <1>8 DEF n

LEMMA DecodesInit == Init => Decodes
<1> SUFFICES ASSUME Init PROVE Decodes
  OBVIOUS
<1>1. message \in Message /\ kept = IKE_HEADER_LEN - 1 /\ decoded = decode_message(message, kept)
  BY DEF Init
<1>2. Sendable(message)
  BY <1>1, WireAssumption DEF Sendable, Data
<1>3. kept \in Nat /\ kept <= message.header.length
  <2>1. Len(message.body) \in Nat
    BY <1>2 DEF Sendable, Data
  <2> QED
    BY <1>1, <1>2, <2>1 DEF Sendable, IKE_HEADER_LEN
<1> QED
  BY <1>1, <1>2, <1>3 DEF Decodes

LEMMA DecodesKeep == Decodes /\ Keep => Decodes'
<1> SUFFICES ASSUME Decodes, Keep PROVE Decodes'
  OBVIOUS
<1>1. /\ kept < message.header.length /\ kept' = kept + 1 /\ message' = message
      /\ decoded' = decode_message(message', kept')
  BY DEF Keep
<1>2. Sendable(message) /\ kept \in Nat
  BY DEF Decodes
<1>3. message.header.length \in Nat
  <2>1. Len(message.body) \in Nat
    BY <1>2 DEF Sendable, Data
  <2> QED
    BY <1>2, <2>1 DEF Sendable, IKE_HEADER_LEN
<1>4. kept' \in Nat /\ kept' <= message.header.length
  BY <1>1, <1>2, <1>3
<1> QED
  BY <1>1, <1>2, <1>4 DEF Decodes

LEMMA DecodesSpoil ==
    ASSUME Decodes, NEW k \in 1..Len(message.body), NEW byte \in Damage, Spoil(k, byte)
    PROVE  Decodes'
<1>1. /\ message' = [message EXCEPT !.body[k] = byte] /\ kept' = kept
      /\ decoded' = decode_message(message', kept)
  BY DEF Spoil
<1>2. Sendable(message) /\ byte \in 0..255
  BY WireAssumption DEF Decodes
<1>3. Sendable(message') /\ message'.header = message.header
  <2> DEFINE m == message
             n == [m EXCEPT !.body[k] = byte]
  <2>1. Sendable(m) /\ k \in 1..Len(m.body) /\ byte \in 0..255
    BY <1>2
  <2>2. message' = n
    BY <1>1
  <2>3. Sendable(n) /\ n.header = m.header
    BY <2>1, SpoiltIsSendable, ZenonT(60)
  <2> HIDE DEF n
  <2> QED
    BY <2>2, <2>3
<1>4. kept \in Nat /\ kept <= message.header.length
  BY DEF Decodes
<1> QED
  BY <1>1, <1>3, <1>4, Zenon DEF Decodes

LEMMA DecodesStep == Decodes /\ [Next]_vars => Decodes'
<1> SUFFICES ASSUME Decodes, [Next]_vars PROVE Decodes'
  OBVIOUS
<1>1. CASE Keep
  BY <1>1, DecodesKeep
<1>2. ASSUME NEW k \in 1..Len(message.body), NEW byte \in Damage, Spoil(k, byte) PROVE Decodes'
  BY <1>2, DecodesSpoil
<1>3. CASE UNCHANGED vars
  BY <1>3 DEF vars, Decodes
<1> QED
  BY <1>1, <1>2, <1>3 DEF Next

\* Every state has what is decoded of a message of bytes.
LEMMA Decoding == Spec => []Decodes
  BY DecodesInit, DecodesStep, PTL DEF Spec

\* What the properties ask of the payloads read from some bytes.
Sound(version, locked, ps, body, next) ==
    /\ locked /\ ps # <<>> => Exactly(version, ps, body, next)
    /\ Tiles(version, ps, body, next)
    /\ \A k \in 1..Len(ps) : ps[k].inner # None =>
         /\ k = Len(ps)
         /\ Exactly(version, ps[k].inner, ps[k].raw, Byte(body, End(ps, k - 1)))

LEMMA NothingIsSound ==
    ASSUME NEW version, NEW locked, NEW body, NEW next, NEW ps, ps = <<>>
    PROVE  Sound(version, locked, ps, body, next)
<1>1. Len(ps) = 0
  OBVIOUS
<1>2. Tiles(version, ps, body, next)
  BY <1>1 DEF Tiles
<1> QED
  BY <1>1, <1>2 DEF Sound

\* What may be ciphertext is read to the last byte.
LEMMA ChainIsSound ==
    ASSUME NEW version, NEW locked \in BOOLEAN, NEW body \in Data, NEW next \in Nat,
           FrameChain(version, body, next) # Malformed
    PROVE  Sound(version, locked, Whole(FrameChain(version, body, next)), body, next)
<1> DEFINE chain == FrameChain(version, body, next)
<1>1. /\ Exactly(version, chain, body, next) /\ Len(chain) \in Nat
      /\ \A k \in 1..Len(chain) : \E type : Shows(chain[k], PayloadType(version, type), chain[k].raw)
  BY ChainIsExact
<1> HIDE DEF chain
<1>2. \A k \in 1..Len(chain) : chain[k].inner = None /\ chain[k] # Cut
  <2> SUFFICES ASSUME NEW k \in 1..Len(chain) PROVE chain[k].inner = None /\ chain[k] # Cut
    OBVIOUS
  <2>1. PICK type : Shows(chain[k], PayloadType(version, type), chain[k].raw)
    BY <1>1
  <2>2. chain[k].inner = None /\ chain[k].type = PayloadType(version, type)
    BY <2>1 DEF Shows
  <2> QED
    BY <2>2, NotCut
<1>3. Whole(chain) = chain
  <2> SUFFICES ASSUME chain # <<>> PROVE Last(chain) # Cut
    BY DEF Whole
  <2>1. CASE Len(chain) \in 1..Len(chain)
    BY <1>2, <2>1 DEF Last
  <2>2. CASE Len(chain) = 0
    <3> DEFINE at == 0
    <3> QED
      BY <2>2 DEF Last
  <2> QED
    BY <1>1, <2>1, <2>2
<1>4. Tiles(version, chain, body, next)
  BY <1>1 DEF Exactly
<1>5. Sound(version, locked, chain, body, next)
  BY <1>1, <1>2, <1>4 DEF Sound
<1> QED
  BY <1>3, <1>5 DEF chain

\* Any other message is read as far as it goes.
LEMMA TopIsSound ==
    ASSUME NEW version, NEW locked, locked = FALSE, NEW body \in Data, NEW next \in Nat
    PROVE  Sound(version, locked, Whole(TopLevel(version, body, next)), body, next)
<1> DEFINE ps == Whole(TopLevel(version, body, next))
<1>1. PICK at : /\ Stood(version, ps, body, next, at)
                /\ \A k \in 1..Len(ps) : InsideIsExact(version, ps, body, k, at[k - 1][1])
  BY TopIsRead
<1> HIDE DEF ps
<1>2. /\ Tiles(version, ps, body, next)
      /\ \A k \in 0..Len(ps) : End(ps, k) = at[k][1]
  <2>1. Stood(version, ps, body, next, at)
    BY <1>1
  <2>2. TiledAt(version, ps, body, next, at)
    BY <2>1, StoodTiles
  <2> QED
    BY <2>2 DEF TiledAt
<1>3. ASSUME NEW k \in 1..Len(ps), ps[k].inner # None
      PROVE  /\ k = Len(ps)
             /\ Exactly(version, ps[k].inner, ps[k].raw, Byte(body, End(ps, k - 1)))
  <2>1. k - 1 \in 0..Len(ps)
    BY <1>1 DEF Stood
  <2>2. End(ps, k - 1) = at[k - 1][1]
    BY <1>2, <2>1
  <2>3. k = Len(ps) /\ Exactly(version, ps[k].inner, ps[k].raw, Byte(body, at[k - 1][1]))
    BY <1>1, <1>3 DEF InsideIsExact
  <2> QED
    BY <2>2, <2>3
<1>4. Sound(version, locked, ps, body, next)
  BY <1>2, <1>3 DEF Sound
<1> QED
  BY <1>4 DEF ps

\* Whatever the bytes of a message are, cut off and damaged as they may be, the
\* payloads that are made of them stand in them, one after the other, each under the
\* type and the length that its header gives; and of what may be ciphertext nothing
\* is read unless it is payloads to its last byte (decode_message, _frame_chain).
THEOREM NothingIsInvented == Spec => []NothingInvented
<1>1. Decodes => NothingInvented
  <2> SUFFICES ASSUME Decodes, decoded # Malformed PROVE NothingInvented
    BY DEF NothingInvented
  <2> DEFINE h == message.header
             body == SubSeq(message.body, 1, kept - IKE_HEADER_LEN)
             locked == h.version = "IKEv1" /\ h.encrypted
             chain == IF locked THEN TryFrameChain(h.version, body, h.next)
                      ELSE TopLevel(h.version, body, h.next)
             ps == decoded.payloads
  <2>1. Sendable(message) /\ kept \in Nat /\ kept <= h.length /\ decoded = decode_message(message, kept)
    BY DEF Decodes
  <2>2. ~(kept < IKE_HEADER_LEN) /\ decoded = Decoded(h, kept, chain)
    BY <2>1 DEF decode_message
  <2>3. body \in Data
    <3> DEFINE size == kept - IKE_HEADER_LEN
    <3>1. size \in Nat /\ size <= Len(message.body) /\ Len(message.body) \in Nat
      <4>1. Len(message.body) \in Nat /\ h.length = IKE_HEADER_LEN + Len(message.body)
        BY <2>1 DEF Sendable, Data
      <4> QED
        BY <2>1, <2>2, <4>1 DEF IKE_HEADER_LEN
    <3> DEFINE bytes == 0..255
    <3>2. message.body \in Seq(bytes)
      BY <2>1 DEF Sendable, Data
    <3> HIDE DEF size, bytes
    <3>3. \A i \in 1..size : i \in 1..Len(message.body)
      BY <3>1
    <3>4. \A i \in 1..size : message.body[i] \in bytes
      BY <3>2, <3>3, ElementOfSeq
    <3>5. SubSeq(message.body, 1, size) \in Seq(bytes)
      BY <3>1, <3>4, SubSeqProperties
    <3> QED
      BY <3>5 DEF Data, size, bytes
  <2>4. h.next \in Nat
    <3>1. h.next \in 0..255
      BY <2>1, Zenon DEF Sendable
    <3> QED
      BY <3>1
  <2> HIDE DEF h, body, chain
  <2>5. ps = IF chain = None THEN <<>> ELSE Whole(chain)
    BY <2>2 DEF Decoded, Whole
  <2>6. Sound(h.version, locked, ps, body, h.next)
    <3> HIDE DEF ps
    <3>1. CASE chain = None
      BY <2>5, <3>1, NothingIsSound
    <3>2. CASE chain # None /\ locked
      <4>1. chain = Readable(FrameChain(h.version, body, h.next), None)
        BY <3>2 DEF chain, TryFrameChain
      <4>2. FrameChain(h.version, body, h.next) # Malformed /\ chain = FrameChain(h.version, body, h.next)
        BY <3>2, <4>1 DEF Readable
      <4>3. Sound(h.version, TRUE, Whole(chain), body, h.next)
        BY <2>3, <2>4, <4>2, ChainIsSound
      <4> QED
        BY <2>5, <3>2, <4>3
    <3>3. CASE chain # None /\ ~locked
      <4>1. chain = TopLevel(h.version, body, h.next)
        BY <3>3 DEF chain
      <4>2. Sound(h.version, FALSE, Whole(chain), body, h.next)
        BY <2>3, <2>4, <4>1, TopIsSound
      <4> QED
        BY <2>5, <3>3, <4>2
    <3> QED
      BY <3>1, <3>2, <3>3
  <2> QED
    BY <2>6 DEF NothingInvented, Sound, h, body
<1> QED
  BY <1>1, Decoding, PTL
=============================================================================
