--------------------------- MODULE AnalysisProofs ----------------------------
(***************************************************************************)
(* What an analysis promises of any capture, however long and of whatever   *)
(* packets.                                                                *)
(***************************************************************************)
EXTENDS StoredAnalysis, FiniteSetTheorems, SequenceTheorems, TLAPS

(* Lists *)

\* The positions of a set, in order: each once, the smaller first.
LEMMA NthOfSet ==
    ASSUME NEW n \in Nat, NEW I \in SUBSET (1..n)
    PROVE  /\ Cardinality(I) \in Nat
           /\ \A k \in 1..Cardinality(I) : Nth(I, k) \in I
           /\ \A i \in I : \E k \in 1..Cardinality(I) : Nth(I, k) = i
           /\ \A j, k \in 1..Cardinality(I) : j < k => Nth(I, j) < Nth(I, k)
<1> DEFINE c == Cardinality(I)
           rank == [i \in I |-> Cardinality(I \cap 1..i)]
<1>1. IsFiniteSet(I) /\ c \in Nat
  <2>1. IsFiniteSet(1..n)
    BY FS_Interval
  <2>2. IsFiniteSet(I)
    BY <2>1, FS_Subset
  <2> QED
    BY <2>2, FS_CardinalityType
<1>2. ASSUME NEW i \in I
      PROVE  /\ IsFiniteSet(I \cap 1..i)
             /\ rank[i] \in 1..c
             /\ rank[i] \in Nat
  <2>1. IsFiniteSet(I \cap 1..i) /\ Cardinality(I \cap 1..i) \in Nat
        /\ Cardinality(I \cap 1..i) <= c
    BY <1>1, FS_Subset, FS_CardinalityType
  <2>2. I \cap 1..i # {}
    OBVIOUS
  <2>3. Cardinality(I \cap 1..i) # 0
    BY <2>1, <2>2, FS_EmptySet
  <2> QED
    BY <1>1, <2>1, <2>3
<1>3. ASSUME NEW i \in I, NEW j \in I, i < j PROVE rank[i] < rank[j]
  <2>1. I \cap 1..i \subseteq I \cap 1..j /\ I \cap 1..i # I \cap 1..j
    BY <1>3
  <2>2. Cardinality(I \cap 1..i) \in Nat /\ Cardinality(I \cap 1..j) \in Nat
    BY <1>2, FS_CardinalityType
  <2> QED
    BY <1>2, <2>1, <2>2, FS_Subset
<1>4. rank \in Injection(I, 1..c)
  <2>1. \A i, j \in I : rank[i] = rank[j] => i = j
    BY <1>2, <1>3
  <2> QED
    BY <1>2, <2>1 DEF Injection, IsInjective
<1>5. Cardinality(1..c) = c /\ IsFiniteSet(1..c)
  BY <1>1, FS_Interval
<1>6. rank \in Surjection(I, 1..c)
  BY <1>1, <1>4, <1>5, FS_Injection
<1>7. ASSUME NEW k \in 1..c PROVE Nth(I, k) \in I /\ rank[Nth(I, k)] = k
  <2>1. \E i \in I : Cardinality(I \cap 1..i) = k
    BY <1>6 DEF Surjection
  <2> QED
    BY <2>1 DEF Nth
<1>8. ASSUME NEW i \in I PROVE \E k \in 1..c : Nth(I, k) = i
  <2>1. Nth(I, rank[i]) \in I /\ rank[Nth(I, rank[i])] = rank[i]
    BY <1>2, <1>7
  <2> DEFINE m == Nth(I, rank[i])
  <2> HIDE DEF m, rank
  <2>2. m \in I /\ rank[m] = rank[i]
    BY <2>1 DEF m
  <2>3. m \in Nat /\ i \in Nat
    BY <2>2
  <2>4. rank[i] \in Nat
    BY <1>2
  <2>5. ~(m < i) /\ ~(i < m)
    BY <1>3, <2>2, <2>4
  <2>6. m = i
    BY <2>3, <2>5
  <2> QED
    BY <1>2, <2>6 DEF m
<1>9. ASSUME NEW j \in 1..c, NEW k \in 1..c, j < k PROVE Nth(I, j) < Nth(I, k)
  <2> DEFINE u == Nth(I, j)
             v == Nth(I, k)
  <2> HIDE DEF u, v, rank
  <2>1. u \in I /\ v \in I /\ rank[u] = j /\ rank[v] = k
    BY <1>7 DEF u, v
  <2>2. ~(v < u) /\ u # v
    BY <1>1, <1>3, <1>9, <2>1
  <2>3. u \in Nat /\ v \in Nat
    BY <2>1
  <2>4. u < v
    BY <2>2, <2>3
  <2> QED
    BY <2>4 DEF u, v
<1> QED
  BY <1>1, <1>7, <1>8, <1>9

\* What is picked of a list are its members at these places.
LEMMA PickedMembers ==
    ASSUME NEW seq, NEW n \in Nat, NEW I \in SUBSET (1..n)
    PROVE  /\ Len(Picked(seq, I)) = Cardinality(I) /\ Cardinality(I) \in Nat
           /\ Picked(seq, I) \in Seq(ToSet(Picked(seq, I)))
           /\ \A x : x \in ToSet(Picked(seq, I)) <=> \E i \in I : x = seq[i]
           /\ \A k \in 1..Cardinality(I) : Picked(seq, I)[k] = seq[Nth(I, k)]
<1> DEFINE c == Cardinality(I)
           out == Picked(seq, I)
<1>1. /\ c \in Nat /\ \A k \in 1..c : Nth(I, k) \in I
      /\ \A i \in I : \E k \in 1..c : Nth(I, k) = i
  BY NthOfSet
<1>2. out = [k \in 1..c |-> seq[Nth(I, k)]]
  BY DEF Picked
<1> HIDE DEF c, out
<1>3. \A x : x \in ToSet(out) <=> \E i \in I : x = seq[i]
  BY <1>1, <1>2 DEF ToSet
<1>4. Len(out) = c /\ \A k \in 1..c : out[k] = seq[Nth(I, k)]
  BY <1>1, <1>2
<1>5. out \in [1..c -> ToSet(out)]
  BY <1>1, <1>2, <1>3
<1> QED
  BY <1>1, <1>3, <1>4, <1>5 DEF c, out

\* A set of positions has a first one.
LEMMA LeastOf ==
    ASSUME NEW n \in Nat, NEW I \in SUBSET (1..n), I # {}
    PROVE  \E m \in I : \A i \in I : m <= i
<1> DEFINE c == Cardinality(I)
<1>1. /\ c \in Nat
      /\ \A k \in 1..c : Nth(I, k) \in I
      /\ \A i \in I : \E k \in 1..c : Nth(I, k) = i
      /\ \A j, k \in 1..c : j < k => Nth(I, j) < Nth(I, k)
  BY NthOfSet
<1> HIDE DEF c
<1>2. 1 \in 1..c
  <2>1. PICK k \in 1..c : TRUE
    BY <1>1
  <2> QED
    BY <1>1, <2>1
<1>3. ASSUME NEW i \in I PROVE Nth(I, 1) <= i
  <2>1. PICK k \in 1..c : Nth(I, k) = i
    BY <1>1
  <2>2. k = 1 \/ 1 < k
    BY <1>1
  <2>3. Nth(I, 1) \in 1..n
    BY <1>1, <1>2
  <2>4. CASE k = 1
    BY <2>1, <2>3, <2>4
  <2>5. CASE 1 < k
    <3>1. Nth(I, 1) < i
      BY <1>1, <1>2, <2>1, <2>5
    <3> QED
      BY <2>3, <3>1
  <2> QED
    BY <2>2, <2>4, <2>5
<1> QED
  BY <1>1, <1>2, <1>3

\* Uniques has every key, and each once.
LEMMA UniquesOf ==
    ASSUME NEW keys, Len(keys) \in Nat
    PROVE  LET dict == Uniques(keys)
           IN  /\ Len(dict) \in Nat
               /\ dict \in Seq(ToSet(dict))
               /\ \A x : x \in ToSet(dict) <=> \E i \in 1..Len(keys) : x = keys[i]
               /\ \A j, k \in 1..Len(dict) : dict[j] = dict[k] => j = k
<1> DEFINE n == Len(keys)
           I == {i \in 1..n : \A j \in 1..(i - 1) : keys[j] # keys[i]}
           dict == Uniques(keys)
           c == Cardinality(I)
<1>1. I \in SUBSET (1..n) /\ n \in Nat
  OBVIOUS
<1>2. dict = Picked(keys, I)
  BY DEF Uniques
<1>3. \A i, j \in I : keys[i] = keys[j] => i = j
  <2> SUFFICES ASSUME NEW i \in I, NEW j \in I, keys[i] = keys[j], i < j PROVE FALSE
    BY <1>1
  <2>1. i \in 1..(j - 1)
    BY <1>1
  <2> QED
    BY <2>1
<1>4. ASSUME NEW i \in 1..n PROVE \E m \in I : keys[m] = keys[i]
  <2> DEFINE J == {j \in 1..n : keys[j] = keys[i]}
  <2>1. PICK m \in J : \A j \in J : m <= j
    BY <1>1, LeastOf
  <2>2. m \in I
    BY <2>1, <1>1
  <2> QED
    BY <2>1, <2>2
<1> HIDE DEF n, I
<1>5. /\ c \in Nat /\ \A k \in 1..c : Nth(I, k) \in I
      /\ \A j, k \in 1..c : j < k => Nth(I, j) < Nth(I, k)
  BY <1>1, NthOfSet
<1> HIDE DEF dict
<1>6. /\ Len(dict) = c
      /\ dict \in Seq(ToSet(dict))
      /\ \A x : x \in ToSet(dict) <=> \E i \in I : x = keys[i]
      /\ \A k \in 1..c : dict[k] = keys[Nth(I, k)]
  <2>1. /\ Len(Picked(keys, I)) = c
        /\ Picked(keys, I) \in Seq(ToSet(Picked(keys, I)))
        /\ \A x : x \in ToSet(Picked(keys, I)) <=> \E i \in I : x = keys[i]
        /\ \A k \in 1..c : Picked(keys, I)[k] = keys[Nth(I, k)]
    BY <1>1, PickedMembers
  <2> QED
    BY <1>2, <2>1
<1> HIDE DEF c
<1>7. \A x : x \in ToSet(dict) <=> \E i \in 1..n : x = keys[i]
  BY <1>1, <1>4, <1>6
<1>8. ASSUME NEW j \in 1..c, NEW k \in 1..c, dict[j] = dict[k] PROVE j = k
  <2>1. Nth(I, j) = Nth(I, k)
    BY <1>3, <1>5, <1>6, <1>8
  <2>2. Nth(I, j) \in 1..n
    BY <1>1, <1>5
  <2>3. ~(j < k) /\ ~(k < j)
    BY <1>5, <2>1, <2>2
  <2>4. j \in Nat /\ k \in Nat
    BY <1>5
  <2> QED
    BY <2>3, <2>4
<1> QED
  BY <1>5, <1>6, <1>7, <1>8 DEF dict, n

\* groups has one group for each of the n keys, under its entry in dict.
OneForEach(groups, keys, n, dict) ==
    /\ Len(groups) \in Nat
    /\ Len(groups) = Len(dict)
    /\ \A j \in 1..n : \E k \in 1..Len(groups) : dict[k] = keys[j]
    /\ \A k, l \in 1..Len(groups) : dict[k] = dict[l] => k = l

\* group is what seq has under key, and is not empty.
HasUnder(group, seq, keys, key) ==
    /\ Len(group) \in Nat \ {0}
    /\ \A x : x \in ToSet(group) <=> \E m \in 1..Len(group) : x = group[m]
    /\ \A x : x \in ToSet(group) <=> \E j \in 1..Len(seq) : x = seq[j] /\ keys[j] = key
    /\ group = Picked(seq, {j \in 1..Len(seq) : keys[j] = key})
    /\ Len(group) = Cardinality({j \in 1..Len(seq) : keys[j] = key})

\* Groups has a group for every key, and in it what is under the key.
LEMMA GroupsOf ==
    ASSUME NEW seq, Len(seq) \in Nat, NEW keys, Len(keys) = Len(seq)
    PROVE  OneForEach(Groups(seq, keys), keys, Len(seq), Uniques(keys))
<1> DEFINE n == Len(seq)
           dict == Uniques(keys)
           groups == Groups(seq, keys)
<1>1. /\ Len(dict) \in Nat
      /\ dict \in Seq(ToSet(dict))
      /\ \A x : x \in ToSet(dict) <=> \E i \in 1..n : x = keys[i]
      /\ \A j, k \in 1..Len(dict) : dict[j] = dict[k] => j = k
  BY UniquesOf
<1>2. groups = [k \in 1..Len(dict) |-> Picked(seq, {i \in 1..n : keys[i] = dict[k]})]
  BY DEF Groups
<1> HIDE DEF dict, groups, n
<1>3. Len(groups) = Len(dict)
  BY <1>1, <1>2
<1>4. ASSUME NEW j \in 1..n PROVE \E k \in 1..Len(dict) : dict[k] = keys[j]
  <2>1. keys[j] \in ToSet(dict)
    BY <1>1
  <2> QED
    BY <1>1, <2>1 DEF ToSet
<1> QED
  BY <1>1, <1>3, <1>4 DEF dict, groups, n, OneForEach

\* The k-th group holds, in their order, the elements under the k-th key, and at
\* least one of them.
LEMMA GroupMembers ==
    ASSUME NEW seq, Len(seq) \in Nat, NEW keys, Len(keys) = Len(seq),
           NEW k \in 1..Len(Groups(seq, keys))
    PROVE  HasUnder(Groups(seq, keys)[k], seq, keys, Uniques(keys)[k])
<1> DEFINE n == Len(seq)
           dict == Uniques(keys)
           I == {j \in 1..n : keys[j] = dict[k]}
           g == Picked(seq, I)
<1>1. /\ Len(dict) \in Nat /\ k \in 1..Len(dict)
      /\ dict \in Seq(ToSet(dict))
      /\ \A x : x \in ToSet(dict) <=> \E i \in 1..n : x = keys[i]
  BY UniquesOf, GroupsOf DEF OneForEach
<1>2. Groups(seq, keys)[k] = g
  BY <1>1 DEF Groups
<1> HIDE DEF dict
<1>3. dict[k] \in ToSet(dict)
  BY <1>1 DEF ToSet
<1>4. PICK i \in 1..n : dict[k] = keys[i]
  BY <1>1, <1>3
<1>5. /\ I \in SUBSET (1..n) /\ i \in I
      /\ \A j : j \in I <=> j \in 1..n /\ keys[j] = dict[k]
  BY <1>4
<1> HIDE DEF I
<1>6. /\ Len(g) = Cardinality(I) /\ Cardinality(I) \in Nat
      /\ g \in Seq(ToSet(g))
      /\ \A x : x \in ToSet(g) <=> \E j \in I : x = seq[j]
  BY <1>5, PickedMembers
<1> HIDE DEF g
<1>7. \A x : x \in ToSet(g) <=> \E m \in 1..Len(g) : x = g[m]
  BY <1>6 DEF ToSet
<1>8. Len(g) # 0
  <2>1. seq[i] \in ToSet(g)
    BY <1>5, <1>6
  <2>2. PICK m \in 1..Len(g) : seq[i] = g[m]
    BY <1>7, <2>1
  <2> QED
    BY <1>6, <2>2
<1>9. \A x : x \in ToSet(g) <=> \E j \in 1..n : x = seq[j] /\ keys[j] = dict[k]
  BY <1>5, <1>6
<1>10. /\ g = Picked(seq, {j \in 1..n : keys[j] = dict[k]})
       /\ Len(g) = Cardinality({j \in 1..n : keys[j] = dict[k]})
  BY <1>6 DEF g, I
<1>11. Len(g) \in Nat \ {0}
  BY <1>6, <1>8
<1>12. HasUnder(g, seq, keys, dict[k])
  BY <1>7, <1>9, <1>10, <1>11 DEF HasUnder
<1> QED
  BY <1>2, <1>12 DEF dict

\* A record that is joined with another keeps its fields and takes the new ones.
LEMMA JoinedOf ==
    ASSUME NEW f, NEW g
    PROVE  /\ DOMAIN Joined(f, g) = DOMAIN f \cup DOMAIN g
           /\ \A x \in DOMAIN f : Joined(f, g)[x] = f[x]
           /\ \A x \in DOMAIN g \ DOMAIN f : Joined(f, g)[x] = g[x]
BY DEF Joined

\* The members of a concatenation are the members of its two parts.
LEMMA ConcatOf ==
    ASSUME NEW S, NEW f \in Seq(S), NEW g \in Seq(S)
    PROVE  /\ Len(f \o g) \in Nat
           /\ DOMAIN (f \o g) = 1..Len(f \o g)
           /\ \A x : x \in ToSet(f \o g) <=> \/ \E k \in 1..Len(f) : x = f[k]
                                            \/ \E k \in 1..Len(g) : x = g[k]
<1> DEFINE h == f \o g
<1>1. /\ h \in Seq(S) /\ Len(h) = Len(f) + Len(g)
      /\ Len(f) \in Nat /\ Len(g) \in Nat
  OBVIOUS
<1>2. \A k \in 1..Len(f) : h[k] = f[k]
  OBVIOUS
<1>3. \A k \in 1..Len(g) : h[Len(f) + k] = g[k]
  OBVIOUS
<1> HIDE DEF h
<1>4. \A x : x \in ToSet(h) <=> \E k \in 1..Len(h) : x = h[k]
  BY <1>1 DEF ToSet
<1>5. ASSUME NEW k \in 1..Len(h)
      PROVE  \/ \E j \in 1..Len(f) : h[k] = f[j]
             \/ \E j \in 1..Len(g) : h[k] = g[j]
  <2>1. CASE k <= Len(f)
    BY <1>1, <1>2, <2>1
  <2>2. CASE k > Len(f)
    <3>1. k - Len(f) \in 1..Len(g) /\ k = Len(f) + (k - Len(f))
      BY <1>1, <2>2
    <3> QED
      BY <1>3, <3>1
  <2> QED
    BY <1>1, <2>1, <2>2
<1>6. \A k \in 1..Len(f) : k \in 1..Len(h)
  BY <1>1
<1>7. \A k \in 1..Len(g) : Len(f) + k \in 1..Len(h)
  BY <1>1
<1>8. Len(h) \in Nat /\ DOMAIN h = 1..Len(h)
  BY <1>1
<1>9. ASSUME NEW x
      PROVE  x \in ToSet(h) <=> \/ \E k \in 1..Len(f) : x = f[k]
                               \/ \E k \in 1..Len(g) : x = g[k]
  <2>1. CASE x \in ToSet(h)
    <3>1. PICK k \in 1..Len(h) : x = h[k]
      BY <1>4, <2>1
    <3> QED
      BY <1>5, <2>1, <3>1
  <2>2. ASSUME NEW k \in 1..Len(f), x = f[k] PROVE x \in ToSet(h)
    <3>1. k \in 1..Len(h) /\ x = h[k]
      BY <1>2, <1>6, <2>2
    <3> QED
      BY <1>4, <3>1
  <2>3. ASSUME NEW k \in 1..Len(g), x = g[k] PROVE x \in ToSet(h)
    <3>1. Len(f) + k \in 1..Len(h) /\ x = h[Len(f) + k]
      BY <1>3, <1>7, <2>3
    <3> QED
      BY <1>4, <3>1
  <2> QED
    BY <2>1, <2>2, <2>3
<1> QED
  BY <1>8, <1>9 DEF h
-----------------------------------------------------------------------------
(* Stage 1: the frames, the SAs, and whose an ESP packet is *)

\* What read_capture keeps as IKE has one of the two versions, and what it keeps
\* as ESP carries the number of its packet.
LEMMA FrameKinds ==
    ASSUME NEW p, NEW n
    PROVE  LET f == FrameOf(p, n)
           IN  /\ f.kind = "ike" => f.msg.version \in {"IKEv1", "IKEv2"}
               /\ f.kind = "esp" => f.frame = n
<1>1. Skipped.kind = "none"
  BY DEF Skipped
<1>2. \A proto : EspFrame(p, proto, n).kind = "esp" /\ EspFrame(p, proto, n).frame = n
  BY DEF EspFrame
<1>3. IkeFrame(p, n).kind = "ike" /\ IkeFrame(p, n).msg = p.msg
  BY DEF IkeFrame
<1>4. \/ FrameOf(p, n) = Skipped
      \/ FrameOf(p, n) = EspFrame(p, p.proto, n) \/ FrameOf(p, n) = EspFrame(p, "ESP", n)
      \/ FrameOf(p, n) = IkeFrame(p, n) /\ p.msg.version \in {"IKEv1", "IKEv2"}
  BY DEF FrameOf
<1> QED
  BY <1>1, <1>2, <1>3, <1>4

\* What is read of a capture: of every packet at most one frame, in their order.
LEMMA FramesRead ==
    ASSUME NEW packets, Len(packets) \in Nat
    PROVE  LET read == read_capture(packets)
           IN  /\ Len(read.ike) \in Nat /\ Len(read.esp) \in Nat
               /\ read.esp \in Seq(ToSet(read.esp)) /\ read.ike \in Seq(ToSet(read.ike))
               /\ \A j \in 1..Len(read.ike) : read.ike[j].msg.version \in {"IKEv1", "IKEv2"}
               /\ \A j, k \in 1..Len(read.esp) : read.esp[j] = read.esp[k] => j = k
<1> DEFINE frames == [n \in 1..Len(packets) |-> FrameOf(packets[n], n)]
           E == {i \in 1..Len(packets) : frames[i].kind = "esp"}
           I == {i \in 1..Len(packets) : frames[i].kind = "ike"}
           ike == read_capture(packets).ike
           esp == read_capture(packets).esp
<1>1. Len(frames) = Len(packets)
  OBVIOUS
<1>2. esp = Picked(frames, E)
  BY <1>1 DEF read_capture, Filter
<1>3. ike = Picked(frames, I)
  BY <1>1 DEF read_capture, Filter
<1>4. \A i \in E : frames[i].frame = i
  BY FrameKinds
<1>5. \A i \in I : frames[i].msg.version \in {"IKEv1", "IKEv2"}
  BY FrameKinds
<1>6. E \in SUBSET (1..Len(packets)) /\ I \in SUBSET (1..Len(packets))
  OBVIOUS
<1> HIDE DEF frames, E, I
<1>7. /\ Len(Picked(frames, E)) = Cardinality(E) /\ Cardinality(E) \in Nat
      /\ Picked(frames, E) \in Seq(ToSet(Picked(frames, E)))
      /\ \A k \in 1..Cardinality(E) : Picked(frames, E)[k] = frames[Nth(E, k)]
  BY <1>6, PickedMembers
<1>8. /\ Len(Picked(frames, I)) = Cardinality(I) /\ Cardinality(I) \in Nat
      /\ Picked(frames, I) \in Seq(ToSet(Picked(frames, I)))
      /\ \A k \in 1..Cardinality(I) : Picked(frames, I)[k] = frames[Nth(I, k)]
  BY <1>6, PickedMembers
<1>9. \A k \in 1..Cardinality(I) : Nth(I, k) \in I
  BY <1>6, NthOfSet
<1>10. \A j, k \in 1..Cardinality(E) : j < k => Nth(E, j) < Nth(E, k)
  BY <1>6, NthOfSet
<1>11. \A k \in 1..Cardinality(E) : Nth(E, k) \in E
  BY <1>6, NthOfSet
<1> HIDE DEF ike, esp
<1>12. ASSUME NEW j \in 1..Len(esp), NEW k \in 1..Len(esp), esp[j] = esp[k] PROVE j = k
  <2>1. Nth(E, j) = Nth(E, k)
    BY <1>2, <1>4, <1>7, <1>11, <1>12
  <2>2. Nth(E, j) \in 1..Len(packets)
    BY <1>2, <1>6, <1>7, <1>11
  <2>3. ~(j < k) /\ ~(k < j)
    BY <1>2, <1>7, <1>10, <2>1, <2>2
  <2>4. j \in Nat /\ k \in Nat
    BY <1>2, <1>7
  <2> QED
    BY <2>3, <2>4
<1>13. ASSUME NEW j \in 1..Len(ike) PROVE ike[j].msg.version \in {"IKEv1", "IKEv2"}
  BY <1>3, <1>5, <1>8, <1>9
<1> QED
  BY <1>2, <1>3, <1>7, <1>8, <1>12, <1>13 DEF ike, esp

\* The places of the messages with this initiator SPI.
OfSpi(ike, spi) == {j \in 1..Len(ike) : ike[j].msg.initiator_spi = spi}

\* frames are the messages with this initiator SPI, and there are some.
FramesShape(frames, ike, spi) ==
    /\ Len(frames) \in Nat \ {0}
    /\ frames = Picked(ike, OfSpi(ike, spi))
    /\ \A x : x \in ToSet(frames) <=> \E m \in 1..Len(frames) : x = frames[m]
    /\ \A x \in ToSet(frames) : x.msg.initiator_spi = spi /\ \E j \in 1..Len(ike) : x = ike[j]

\* An SA has the frames of its initiator SPI, and the version of the first.
SaShape(sa, ike) ==
    /\ FramesShape(sa.ike_frames, ike, sa.spi)
    /\ sa.ike_version = sa.ike_frames[1].msg.version

\* There is one SA for each initiator SPI, with its messages.
LEMMA SasOf ==
    ASSUME NEW ike, Len(ike) \in Nat
    PROVE  /\ Len(IkeSAs(ike)) \in Nat
           /\ \A k \in 1..Len(IkeSAs(ike)) : SaShape(IkeSAs(ike)[k], ike)
           /\ \A k, l \in 1..Len(IkeSAs(ike)) :
                IkeSAs(ike)[k].spi = IkeSAs(ike)[l].spi => k = l
<1> DEFINE keys == [i \in 1..Len(ike) |-> InitiatorSpi(ike[i])]
           groups == Groups(ike, keys)
           dict == Uniques(keys)
           sas == IkeSAs(ike)
<1>1. Len(keys) = Len(ike) /\ \A i \in 1..Len(ike) : keys[i] = ike[i].msg.initiator_spi
  BY DEF InitiatorSpi
<1>2. sas = [k \in 1..Len(groups) |->
               [spi |-> groups[k][1].msg.initiator_spi,
                ike_version |-> groups[k][1].msg.version,
                ip_version |-> groups[k][1].ip_version,
                ike_frames |-> groups[k],
                peers |-> PeersOf(Opener(groups[k]))]]
  BY DEF IkeSAs, GroupBy
<1> HIDE DEF keys
<1>3. OneForEach(groups, keys, Len(ike), dict)
  BY <1>1, GroupsOf
<1>4. \A k \in 1..Len(groups) : HasUnder(groups[k], ike, keys, dict[k])
  BY <1>1, GroupMembers
<1> HIDE DEF groups, dict, sas
<1>5. Len(sas) = Len(groups)
  BY <1>2, <1>3 DEF OneForEach
<1>6. ASSUME NEW k \in 1..Len(groups) PROVE sas[k].spi = dict[k] /\ SaShape(sas[k], ike)
  <2> DEFINE g == groups[k]
             key == dict[k]
             sa == sas[k]
  <2>1. /\ sa.spi = g[1].msg.initiator_spi /\ sa.ike_version = g[1].msg.version
        /\ sa.ike_frames = g
    BY <1>2
  <2>2. HasUnder(g, ike, keys, key)
    BY <1>4
  <2> HIDE DEF g, key, sa
  <2>3. {j \in 1..Len(ike) : keys[j] = key} = {j \in 1..Len(ike) : ike[j].msg.initiator_spi = key}
    BY <1>1
  <2>4. g = Picked(ike, OfSpi(ike, key))
    BY <2>2, <2>3 DEF HasUnder, OfSpi
  <2>5. \A x \in ToSet(g) : x.msg.initiator_spi = key /\ \E j \in 1..Len(ike) : x = ike[j]
    BY <1>1, <2>2 DEF HasUnder
  <2>6. 1 \in 1..Len(g)
    BY <2>2 DEF HasUnder
  <2>7. g[1] \in ToSet(g)
    BY <2>2, <2>6 DEF HasUnder
  <2>8. sa.spi = key
    BY <2>1, <2>5, <2>7
  <2>9. FramesShape(g, ike, key)
    BY <2>2, <2>4, <2>5 DEF HasUnder, FramesShape
  <2>10. SaShape(sa, ike)
    BY <2>1, <2>8, <2>9 DEF SaShape
  <2> QED
    BY <2>8, <2>10 DEF key, sa
<1>7. \A k, l \in 1..Len(groups) : sas[k].spi = sas[l].spi => k = l
  BY <1>3, <1>6 DEF OneForEach
<1>8. Len(groups) \in Nat
  BY <1>3 DEF OneForEach
<1> QED
  BY <1>5, <1>6, <1>7, <1>8 DEF sas

PairsOf(sas) == {sas[k].peers : k \in 1..Len(sas)}

\* The peer pairs that own e, as Accounted has them.
OwnersOf(e, pairs) ==
    LET sharing == {pair \in pairs : pair \cap PeersOf(e) # {}}
    IN  IF PeersOf(e) \in pairs THEN {PeersOf(e)}
        ELSE IF Cardinality(sharing) = 1 THEN sharing ELSE {}

\* The pair that OwnerPair finds is the only owner.
LEMMA OwnerIsOnly ==
    ASSUME NEW e, NEW sas, Len(sas) \in Nat,
           \A k \in 1..Len(sas) : sas[k].peers # {}
    PROVE  /\ \A p : p # {} => (p \in OwnersOf(e, PairsOf(sas)) <=> OwnerPair(e, sas) = p)
           /\ OwnersOf(e, PairsOf(sas)) = {} <=> OwnerPair(e, sas) = {}
<1> DEFINE peers == [k \in 1..Len(sas) |-> sas[k].peers]
           dict == Uniques(peers)
           pairs == PairsOf(sas)
           mine == PeersOf(e)
           J == {i \in 1..Len(dict) : dict[i] \cap mine # {}}
           sharing == {pair \in pairs : pair \cap mine # {}}
<1>1. Len(peers) = Len(sas)
  OBVIOUS
<1>2. /\ Len(dict) \in Nat
      /\ dict \in Seq(ToSet(dict))
      /\ \A x : x \in ToSet(dict) <=> \E i \in 1..Len(sas) : x = peers[i]
      /\ \A j, k \in 1..Len(dict) : dict[j] = dict[k] => j = k
  BY <1>1, UniquesOf
<1>3. \A x : x \in ToSet(dict) <=> x \in pairs
  BY <1>2 DEF PairsOf
<1>4. {} \notin pairs /\ mine # {}
  BY DEF PairsOf, PeersOf
<1>5. \A x : x \in ToSet(dict) <=> \E i \in 1..Len(dict) : dict[i] = x
  <2> HIDE DEF dict
  <2> QED
    BY <1>2 DEF ToSet
<1>6. \A i \in 1..Len(dict) : dict[i] \in pairs
  <2> HIDE DEF dict, pairs
  <2> QED
    BY <1>3, <1>5
<1>7. OwnerPair(e, sas) = IF mine \in ToSet(dict) THEN mine ELSE nat_owner(mine, dict)
  BY DEF OwnerPair
<1>8. nat_owner(mine, dict) = IF Len(Picked(dict, J)) = 1 THEN Picked(dict, J)[1] ELSE {}
  BY DEF nat_owner, Filter
<1>9. J \in SUBSET (1..Len(dict)) /\ Len(dict) \in Nat
  BY <1>2
<1>10. OwnersOf(e, pairs) = IF mine \in pairs THEN {mine}
                            ELSE IF Cardinality(sharing) = 1 THEN sharing ELSE {}
  BY DEF OwnersOf
<1>11. \A i \in 1..Len(dict) : i \in J <=> dict[i] \in sharing
  BY <1>6
<1>12. \A x \in sharing : x \in pairs
  OBVIOUS
<1> HIDE DEF J, sharing, dict, mine, pairs, peers
<1>13. /\ Len(Picked(dict, J)) = Cardinality(J) /\ Cardinality(J) \in Nat
       /\ \A k \in 1..Cardinality(J) : Picked(dict, J)[k] = dict[Nth(J, k)]
  BY <1>9, PickedMembers
<1>14. \A k \in 1..Cardinality(J) : Nth(J, k) \in J
  BY <1>9, NthOfSet
<1>15. Cardinality(sharing) = Cardinality(J)
  <2> DEFINE f == [j \in J |-> dict[j]]
  <2>1. IsFiniteSet(1..Len(dict))
    BY <1>2, FS_Interval
  <2>2. IsFiniteSet(J)
    BY <1>9, <2>1, FS_Subset
  <2>3. \A j \in J : f[j] \in sharing
    BY <1>9, <1>11
  <2>4. \A x \in sharing : \E j \in J : f[j] = x
    BY <1>3, <1>5, <1>11, <1>12
  <2>5. \A i, j \in J : f[i] = f[j] => i = j
    BY <1>2, <1>9
  <2>6. f \in Bijection(J, sharing)
    BY <2>3, <2>4, <2>5 DEF Bijection, Injection, Surjection, IsInjective
  <2>7. ExistsBijection(J, sharing)
    BY <2>6 DEF ExistsBijection
  <2> QED
    BY <2>2, <2>7, FS_Bijection
<1>16. CASE Cardinality(J) = 1 /\ mine \notin pairs
  <2>1. sharing = {dict[Nth(J, 1)]}
    <3>1. Nth(J, 1) \in J
      BY <1>14, <1>16
    <3>2. dict[Nth(J, 1)] \in sharing
      BY <3>1, <1>9, <1>11
    <3>3. ASSUME NEW x \in sharing PROVE x = dict[Nth(J, 1)]
      <4>1. PICK i \in 1..Len(dict) : dict[i] = x
        BY <1>3, <1>5, <1>12
      <4>2. PICK k \in 1..Cardinality(J) : Nth(J, k) = i
        BY <4>1, <1>9, <1>11, NthOfSet
      <4> QED
        BY <4>1, <4>2, <1>16
    <3> QED
      BY <3>2, <3>3
  <2>2. nat_owner(mine, dict) = dict[Nth(J, 1)]
    BY <1>8, <1>13, <1>16
  <2>3. dict[Nth(J, 1)] \in pairs
    BY <1>12, <2>1
  <2>4. OwnersOf(e, pairs) = {OwnerPair(e, sas)} /\ OwnerPair(e, sas) # {}
    BY <1>3, <1>4, <1>7, <1>10, <1>15, <1>16, <2>1, <2>2, <2>3
  <2> QED
    BY <2>4 DEF pairs
<1>17. CASE Cardinality(J) # 1 /\ mine \notin pairs
  <2>1. OwnersOf(e, pairs) = {} /\ OwnerPair(e, sas) = {}
    BY <1>3, <1>7, <1>8, <1>10, <1>13, <1>15, <1>17
  <2> QED
    BY <2>1 DEF pairs
<1>18. CASE mine \in pairs
  <2>1. OwnersOf(e, pairs) = {OwnerPair(e, sas)} /\ OwnerPair(e, sas) # {}
    BY <1>3, <1>4, <1>7, <1>10, <1>18
  <2> QED
    BY <2>1 DEF pairs
<1> QED
  BY <1>16, <1>17, <1>18

\* The positions of the ESP packets that are of the peer pair p.
Owned(read, sas, p) == {i \in 1..Len(read.esp) : OwnerPair(read.esp[i], sas) = p}

\* Stage 1 makes a session of each SA, and gives it the ESP of its pair.
LEMMA BucketOf ==
    ASSUME NEW read, Len(read.ike) \in Nat, Len(read.esp) \in Nat
    PROVE  LET sas == IkeSAs(read.ike)
               out == bucket(read)
           IN  /\ Len(sas) \in Nat
               /\ Len(out.sessions) = Len(sas)
               /\ \A raw : raw \in ToSet(out.sessions)
                             <=> \E k \in 1..Len(sas) : raw = out.sessions[k]
               /\ \A k \in 1..Len(sas) :
                    /\ sas[k].peers # {}
                    /\ out.sessions[k].peers = sas[k].peers
                    /\ out.sessions[k].spi = sas[k].spi
                    /\ out.sessions[k].ike_version = sas[k].ike_version
                    /\ out.sessions[k].ike_frames = sas[k].ike_frames
                    /\ out.sessions[k].esp_frames
                         = Picked(read.esp, Owned(read, sas, sas[k].peers))
               /\ out.orphan_esp = Picked(read.esp, Owned(read, sas, {}))
<1> DEFINE keys == [i \in 1..Len(read.ike) |-> InitiatorSpi(read.ike[i])]
           groups == Groups(read.ike, keys)
           sas == IkeSAs(read.ike)
           out == bucket(read)
<1>1. Len(groups) \in Nat
  <2>1. Len(keys) = Len(read.ike)
    OBVIOUS
  <2> HIDE DEF keys
  <2> QED
    BY <2>1, GroupsOf DEF OneForEach
<1>2. sas = [k \in 1..Len(groups) |->
               [spi |-> groups[k][1].msg.initiator_spi,
                ike_version |-> groups[k][1].msg.version,
                ip_version |-> groups[k][1].ip_version,
                ike_frames |-> groups[k],
                peers |-> PeersOf(Opener(groups[k]))]]
  BY DEF IkeSAs, GroupBy
<1>3. Len(sas) = Len(groups)
  <2> HIDE DEF groups, sas
  <2> QED
    BY <1>1, <1>2
<1>4. ASSUME NEW k \in 1..Len(sas) PROVE sas[k].peers # {}
  <2> HIDE DEF groups, sas
  <2>1. sas[k].peers = PeersOf(Opener(groups[k]))
    BY <1>2, <1>3
  <2> QED
    BY <2>1 DEF PeersOf
<1>5. out.orphan_esp = Picked(read.esp, Owned(read, sas, {}))
  <2> HIDE DEF sas
  <2> QED
    BY DEF bucket, Filter, Owned, sas
<1>6. out.sessions = [k \in 1..Len(sas) |->
                        [spi |-> sas[k].spi, ike_version |-> sas[k].ike_version,
                         ip_version |-> sas[k].ip_version, peers |-> sas[k].peers,
                         ike_frames |-> sas[k].ike_frames,
                         esp_frames |-> Picked(read.esp, Owned(read, sas, sas[k].peers))]]
  <2> HIDE DEF sas
  <2> QED
    BY DEF bucket, Filter, Owned, sas
<1> HIDE DEF sas, out, groups
<1>7. Len(sas) \in Nat /\ Len(out.sessions) = Len(sas)
  BY <1>1, <1>3, <1>6
<1>8. \A raw : raw \in ToSet(out.sessions)
                 <=> \E k \in 1..Len(sas) : raw = out.sessions[k]
  BY <1>6 DEF ToSet
<1>9. \A k \in 1..Len(sas) :
        /\ out.sessions[k].peers = sas[k].peers
        /\ out.sessions[k].spi = sas[k].spi
        /\ out.sessions[k].ike_version = sas[k].ike_version
        /\ out.sessions[k].ike_frames = sas[k].ike_frames
        /\ out.sessions[k].esp_frames = Picked(read.esp, Owned(read, sas, sas[k].peers))
  BY <1>6
<1> QED
  BY <1>4, <1>5, <1>7, <1>8, <1>9 DEF sas, out
-----------------------------------------------------------------------------
(* The sessions of the report *)

\* What the stages after the parser write: of ike, these fields.
Guessed == {"encryption", "dh_group", "mode", "inferred_fields", "confidence_source"}

\* _fill_from_structure changes the guessed fields of a session and nothing else.
LEMMA FillKeeps ==
    ASSUME NEW session, "ike" \in DOMAIN session, NEW raw
    PROVE  LET out == FillFromStructure(session, raw)
           IN  /\ DOMAIN out = DOMAIN session
               /\ \A x \in DOMAIN session \ {"ike"} : out[x] = session[x]
               /\ DOMAIN out.ike = DOMAIN session.ike
               /\ \A x \in DOMAIN session.ike \ Guessed : out.ike[x] = session.ike[x]
<1> DEFINE out == FillFromStructure(session, raw)
           guess == PredictIke([k \in 1..Len(raw.ike_frames) |-> raw.ike_frames[k].msg])
           filled == FilledIke(session.ike, guess)
<1>1. out = session \/ out = [session EXCEPT !.ike = filled]
  <2> HIDE DEF filled
  <2> QED
    BY DEF FillFromStructure, Some, filled
<1>2. /\ DOMAIN filled = DOMAIN session.ike
      /\ \A x \in DOMAIN session.ike \ Guessed : filled[x] = session.ike[x]
  <2> HIDE DEF guess
  <2> QED
    BY DEF FilledIke, Guessed
<1> HIDE DEF out, filled
<1>3. /\ DOMAIN out = DOMAIN session
      /\ \A x \in DOMAIN session \ {"ike"} : out[x] = session[x]
      /\ out.ike = session.ike \/ out.ike = filled
  BY <1>1
<1> QED
  BY <1>2, <1>3 DEF out

\* _infer_mode changes the guessed fields of a session, neither its cipher nor its
\* group, and nothing else.
LEMMA InferKeeps ==
    ASSUME NEW session, "ike" \in DOMAIN session, NEW flow
    PROVE  LET out == InferMode(session, flow)
           IN  /\ DOMAIN out = DOMAIN session
               /\ \A x \in DOMAIN session \ {"ike"} : out[x] = session[x]
               /\ DOMAIN out.ike = DOMAIN session.ike
               /\ \A x \in DOMAIN session.ike \ Guessed : out.ike[x] = session.ike[x]
               /\ \A x \in {"encryption", "dh_group"} \cap DOMAIN session.ike :
                    out.ike[x] = session.ike[x]
<1> DEFINE out == InferMode(session, flow)
           guess == PredictMode(flow, session.ike.ip_version, session.ike.encryption)
           moded == InferredMode(session.ike, guess)
<1>1. out = session \/ out = [session EXCEPT !.ike = moded]
  <2> HIDE DEF moded
  <2> QED
    BY DEF InferMode, moded
<1>2. /\ DOMAIN moded = DOMAIN session.ike
      /\ \A x \in DOMAIN session.ike \ {"mode", "inferred_fields"} : moded[x] = session.ike[x]
  <2> HIDE DEF guess
  <2> QED
    BY DEF InferredMode
<1> HIDE DEF out, moded
<1>3. /\ DOMAIN out = DOMAIN session
      /\ \A x \in DOMAIN session \ {"ike"} : out[x] = session[x]
      /\ out.ike = session.ike \/ out.ike = moded
  BY <1>1
<1> QED
  BY <1>2, <1>3 DEF out, Guessed

\* _classify adds the traffic to a session and changes nothing.
LEMMA ClassifyKeeps ==
    ASSUME NEW session, NEW flow
    PROVE  LET out == Classify(session, flow)
           IN  /\ DOMAIN out = DOMAIN session \cup {"pkt_total", "traffic_prediction"}
               /\ \A x \in DOMAIN session : out[x] = session[x]
<1> DEFINE traffic == [pkt_total |-> Len(flow),
                       traffic_prediction |->
                         IF flow = <<>>
                         THEN [predicted_type |-> "Other", confidence |-> 0, abstained |-> FALSE]
                         ELSE PredictTraffic(flow)]
<1>1. DOMAIN traffic = {"pkt_total", "traffic_prediction"}
  OBVIOUS
<1>2. Classify(session, flow) = Joined(session, traffic)
  BY DEF Classify
<1> HIDE DEF traffic
<1>3. /\ DOMAIN Joined(session, traffic) = DOMAIN session \cup DOMAIN traffic
      /\ \A x \in DOMAIN session : Joined(session, traffic)[x] = session[x]
  BY JoinedOf
<1> QED
  BY <1>1, <1>2, <1>3

\* After the parser nothing of an SA changes but what is guessed, and the two
\* verdicts on its traffic are added.
LEMMA FinishKeeps ==
    ASSUME NEW sa, "ike" \in DOMAIN sa.session
    PROVE  LET out == Finish(sa)
           IN  /\ DOMAIN out = DOMAIN sa.session \cup {"pkt_total", "traffic_prediction"}
               /\ \A x \in DOMAIN sa.session \ {"ike"} : out[x] = sa.session[x]
               /\ DOMAIN out.ike = DOMAIN sa.session.ike
               /\ \A x \in DOMAIN sa.session.ike \ Guessed : out.ike[x] = sa.session.ike[x]
               /\ \A x \in {"encryption", "dh_group"} \cap DOMAIN sa.session.ike :
                    out.ike[x] = FillFromStructure(sa.session, sa.raw).ike[x]
<1> DEFINE filled == FillFromStructure(sa.session, sa.raw)
           labelled == Classify(filled, sa.flow)
           out == Finish(sa)
<1>1. /\ DOMAIN filled = DOMAIN sa.session
      /\ \A x \in DOMAIN sa.session \ {"ike"} : filled[x] = sa.session[x]
      /\ DOMAIN filled.ike = DOMAIN sa.session.ike
      /\ \A x \in DOMAIN sa.session.ike \ Guessed : filled.ike[x] = sa.session.ike[x]
  BY FillKeeps
<1>2. out = InferMode(labelled, sa.flow)
  BY DEF Finish
<1> HIDE DEF filled
<1>3. /\ DOMAIN labelled = DOMAIN filled \cup {"pkt_total", "traffic_prediction"}
      /\ \A x \in DOMAIN filled : labelled[x] = filled[x]
  BY ClassifyKeeps
<1> HIDE DEF labelled, out
<1>4. /\ DOMAIN out = DOMAIN labelled
      /\ \A x \in DOMAIN labelled \ {"ike"} : out[x] = labelled[x]
      /\ DOMAIN out.ike = DOMAIN labelled.ike
      /\ \A x \in DOMAIN labelled.ike \ Guessed : out.ike[x] = labelled.ike[x]
      /\ \A x \in {"encryption", "dh_group"} \cap DOMAIN labelled.ike :
           out.ike[x] = labelled.ike[x]
  BY <1>1, <1>2, <1>3, InferKeeps
<1>5. labelled.ike = filled.ike
  BY <1>1, <1>3
<1> QED
  BY <1>1, <1>3, <1>4, <1>5 DEF filled, out

\* The assessment is added to a session and changes nothing.
LEMMA AssessKeeps ==
    ASSUME NEW session
    PROVE  \A x \in DOMAIN session : Assess(session)[x] = session[x]
<1> DEFINE extra == [security_assessment |-> evaluate_rules(session)]
<1>1. Assess(session) = Joined(session, extra)
  BY DEF Assess
<1> HIDE DEF extra
<1>2. \A x \in DOMAIN session : Joined(session, extra)[x] = session[x]
  BY JoinedOf
<1> QED
  BY <1>1, <1>2

SessionKeys == {"session_id", "initiator_ip", "responder_ip", "ike", "packet_refs", "timestamp"}

\* A session carries the SPI of its SA, the addresses of its context and the
\* fields that were read, joined with fresh bookkeeping.
LEMMA SessionShape ==
    ASSUME NEW spi, NEW messages, NEW ctx, NEW ike
    PROVE  LET out == SessionOf(spi, messages, ctx, ike)
           IN  /\ DOMAIN out = SessionKeys
               /\ out.session_id[1] = "ike" /\ out.session_id[2] = spi
               /\ out.initiator_ip = ctx.initiator_ip
               /\ out.responder_ip = ctx.responder_ip
               /\ out.ike = Joined(ike, Fresh)
<1> DEFINE Answerer(m) == IF m.responder_spi = ZeroSpi THEN Unset ELSE m.responder_spi
           rspi == Default(FirstOf(messages, Answerer), ZeroSpi)
           stamp == IF ctx.times = {} THEN None ELSE Min(ctx.times)
<1>1. SessionOf(spi, messages, ctx, ike)
        = [session_id |-> <<"ike", spi, rspi>>,
           initiator_ip |-> ctx.initiator_ip, responder_ip |-> ctx.responder_ip,
           ike |-> Joined(ike, Fresh), packet_refs |-> ctx.ike_frames, timestamp |-> stamp]
  BY DEF SessionOf
<1> HIDE DEF rspi, stamp
<1> QED
  BY <1>1 DEF SessionKeys

\* A parsed SA is an IKE session with its flow.
LEMMA ParsedShape ==
    ASSUME NEW raw
    PROVE  LET sa == Parse(raw)
           IN  /\ sa.raw = raw /\ sa.flow = BusiestFlow(raw.esp_frames)
               /\ DOMAIN sa.session = SessionKeys
               /\ sa.session.session_id[1] = "ike"
<1>1. DOMAIN ParseV1(raw) = SessionKeys /\ ParseV1(raw).session_id[1] = "ike"
  BY SessionShape DEF ParseV1, AnalyseV1
<1>2. DOMAIN ParseV2(raw) = SessionKeys /\ ParseV2(raw).session_id[1] = "ike"
  BY SessionShape DEF ParseV2, AnalyseV2, AnalyseApplied
<1> QED
  BY <1>1, <1>2 DEF Parse

\* The record of ESP that no SA owns names the peers of the first packet and the
\* first twenty packets.
LEMMA OrphanShape ==
    ASSUME NEW esp
    PROVE  LET out == OrphanRecord(esp)
           IN  /\ DOMAIN out = SessionKeys
               /\ out.session_id[1] = "esp"
               /\ out.initiator_ip = esp[1].src /\ out.responder_ip = esp[1].dst
               /\ out.ike = EspOnly(esp).ike
               /\ out.packet_refs = [k \in 1..Min({20, Len(esp)}) |-> esp[k].frame]
<1> DEFINE ike == EspOnly(esp).ike
           refs == [k \in 1..Min({20, Len(esp)}) |-> esp[k].frame]
           spi == IF esp[1].spi = None THEN 0 ELSE esp[1].spi
<1>1. EspOnly(esp) = [session_id |-> <<"esp-only">>, initiator_ip |-> "", responder_ip |-> "",
                      ike |-> ike, packet_refs |-> <<>>, timestamp |-> None]
  BY DEF EspOnly
<1>2. OrphanRecord(esp) = [EspOnly(esp) EXCEPT
                             !.session_id = <<"esp", spi>>,
                             !.initiator_ip = esp[1].src, !.responder_ip = esp[1].dst,
                             !.packet_refs = refs]
  BY DEF OrphanRecord
<1> HIDE DEF ike, refs, spi
<1> DEFINE base == EspOnly(esp)
           out == OrphanRecord(esp)
<1>3. DOMAIN base = SessionKeys /\ base.ike = ike
  <2>1. DOMAIN base = SessionKeys
    BY <1>1 DEF SessionKeys
  <2>2. base.ike = ike
    BY DEF ike
  <2> QED
    BY <2>1, <2>2
<1> HIDE DEF base
<1>4. DOMAIN out = DOMAIN base /\ out.ike = base.ike
  BY <1>2, <1>3 DEF base, SessionKeys
<1>5. out.session_id = <<"esp", spi>>
  BY <1>2, <1>3 DEF base, SessionKeys
<1>6. out.initiator_ip = esp[1].src /\ out.responder_ip = esp[1].dst /\ out.packet_refs = refs
  BY <1>2, <1>3 DEF base, SessionKeys
<1> HIDE DEF out
<1>7. out.session_id[1] = "esp"
  BY <1>5
<1> QED
  BY <1>3, <1>4, <1>6, <1>7 DEF ike, refs, out

\* The report has a session for each SA that can be represented, and one for each
\* peer pair whose ESP is an orphan.
OrphanGroups(orphans) == GroupBy(orphans, PeersOf)

\* The sessions of a report are the SAs that could be represented, each finished,
\* and one record for every group of orphans, each assessed.
LEMMA SessionsAre ==
    ASSUME NEW read, NEW ingested, Len(ingested.sessions) \in Nat,
           Len(ingested.orphan_esp) \in Nat
    PROVE  LET raws == ingested.sessions
               groups == OrphanGroups(ingested.orphan_esp)
               out == AnalyseSAs(read, ingested)
           IN  /\ out.anomalies = detect_anomalies(SessionsIn(ingested))
               /\ Len(SessionsIn(ingested)) \in Nat
               /\ \A t : t \in ToSet(SessionsIn(ingested))
                           <=> \E k \in 1..Len(SessionsIn(ingested)) : t = SessionsIn(ingested)[k]
               /\ \A s : s \in ToSet(out.sessions)
                           <=> \E t \in ToSet(SessionsIn(ingested)) : s = Assess(t)
               /\ \A t : t \in ToSet(SessionsIn(ingested)) <=>
                    \/ \E k \in 1..Len(raws) : /\ Representable(Parse(raws[k]))
                                               /\ t = Finish(Parse(raws[k]))
                    \/ \E k \in 1..Len(groups) :
                         t = Classify(OrphanRecord(groups[k]), BusiestFlow(groups[k]))
<1> DEFINE raws == ingested.sessions
           groups == OrphanGroups(ingested.orphan_esp)
           sessions == SessionsIn(ingested)
           parsed == [k \in 1..Len(raws) |-> Parse(raws[k])]
           I == {k \in 1..Len(raws) : Representable(parsed[k])}
           sas == Picked(parsed, I)
           ikes == [k \in 1..Len(sas) |-> Finish(sas[k])]
           esps == [k \in 1..Len(groups) |->
                      Classify(OrphanRecord(groups[k]), BusiestFlow(groups[k]))]
<1>1. Len(groups) \in Nat
  <2> DEFINE keys == [i \in 1..Len(ingested.orphan_esp) |-> PeersOf(ingested.orphan_esp[i])]
  <2>1. groups = Groups(ingested.orphan_esp, keys)
    BY DEF OrphanGroups, GroupBy
  <2>2. Len(keys) = Len(ingested.orphan_esp)
    OBVIOUS
  <2> HIDE DEF keys
  <2> QED
    BY <2>1, <2>2, GroupsOf DEF OneForEach
<1>2. Len(parsed) = Len(raws) /\ I \in SUBSET (1..Len(raws))
  OBVIOUS
<1>3. sessions = ikes \o esps
  BY <1>2, Zenon DEF SessionsIn, SessionsOf, FinishAll, Filter, OrphanSessions, OrphanGroups
<1>4. \A k \in 1..Len(raws) : parsed[k] = Parse(raws[k])
                              /\ (k \in I <=> Representable(Parse(raws[k])))
  OBVIOUS
<1> HIDE DEF parsed, I, sas, ikes, esps, sessions, groups, raws
<1>5. /\ Len(Picked(parsed, I)) \in Nat
      /\ Picked(parsed, I) \in Seq(ToSet(Picked(parsed, I)))
      /\ \A x : x \in ToSet(Picked(parsed, I)) <=> \E i \in I : x = parsed[i]
  <2>1. Len(parsed) \in Nat /\ I \in SUBSET (1..Len(parsed))
    BY <1>2 DEF raws
  <2>2. Len(Picked(parsed, I)) = Cardinality(I) /\ Cardinality(I) \in Nat
    BY <2>1, PickedMembers
  <2>3. Picked(parsed, I) \in Seq(ToSet(Picked(parsed, I)))
    BY <2>1, PickedMembers
  <2>4. \A x : x \in ToSet(Picked(parsed, I)) <=> \E i \in I : x = parsed[i]
    BY <2>1, PickedMembers
  <2> QED
    BY <2>2, <2>3, <2>4
<1> USE DEF sas, ikes, esps, sessions, groups, raws
<1>6. /\ Len(sas) \in Nat
      /\ \A x : (\E k \in 1..Len(sas) : x = sas[k]) <=> \E i \in I : x = parsed[i]
  <2> HIDE DEF sas
  <2>1. \A x : x \in ToSet(sas) <=> \E k \in 1..Len(sas) : x = sas[k]
    BY <1>5 DEF ToSet, sas
  <2> QED
    BY <1>5, <2>1 DEF sas
<1> HIDE DEF sas, groups
<1>7. /\ Len(ikes) = Len(sas) /\ Len(esps) = Len(groups)
      /\ \A k \in 1..Len(sas) : ikes[k] = Finish(sas[k])
      /\ \A k \in 1..Len(groups) :
           esps[k] = Classify(OrphanRecord(groups[k]), BusiestFlow(groups[k]))
  BY <1>1, <1>6
<1> DEFINE S == {ikes[k] : k \in 1..Len(sas)} \cup {esps[k] : k \in 1..Len(groups)}
<1>8. ikes \in Seq(S) /\ esps \in Seq(S)
  BY <1>1, <1>6
<1> HIDE DEF ikes, esps, sessions, S
<1>9. /\ Len(sessions) \in Nat
      /\ DOMAIN sessions = 1..Len(sessions)
      /\ \A t : t \in ToSet(sessions)
                  <=> \/ \E k \in 1..Len(sas) : t = ikes[k]
                      \/ \E k \in 1..Len(groups) : t = esps[k]
  <2>1. /\ Len(ikes \o esps) \in Nat
        /\ DOMAIN (ikes \o esps) = 1..Len(ikes \o esps)
        /\ \A x : x \in ToSet(ikes \o esps) <=> \/ \E k \in 1..Len(ikes) : x = ikes[k]
                                                \/ \E k \in 1..Len(esps) : x = esps[k]
    BY <1>8, ConcatOf
  <2> QED
    BY <1>3, <1>7, <2>1
<1>10. \A t : t \in ToSet(sessions) <=>
          \/ \E k \in 1..Len(raws) : /\ Representable(Parse(raws[k]))
                                     /\ t = Finish(Parse(raws[k]))
          \/ \E k \in 1..Len(groups) :
               t = Classify(OrphanRecord(groups[k]), BusiestFlow(groups[k]))
  <2>1. \A t : (\E k \in 1..Len(sas) : t = ikes[k]) <=> (\E i \in I : t = Finish(parsed[i]))
    <3>1. ASSUME NEW k \in 1..Len(sas) PROVE \E i \in I : ikes[k] = Finish(parsed[i])
      <4>1. PICK i \in I : sas[k] = parsed[i]
        BY <1>6
      <4> QED
        BY <1>7, <4>1
    <3>2. ASSUME NEW i \in I PROVE \E k \in 1..Len(sas) : ikes[k] = Finish(parsed[i])
      <4>1. PICK k \in 1..Len(sas) : parsed[i] = sas[k]
        BY <1>6
      <4> QED
        BY <1>7, <4>1
    <3> QED
      BY <3>1, <3>2
  <2>2. \A t : (\E i \in I : t = Finish(parsed[i]))
                 <=> \E k \in 1..Len(raws) : /\ Representable(Parse(raws[k]))
                                             /\ t = Finish(Parse(raws[k]))
    BY <1>2, <1>4
  <2>3. \A t : (\E k \in 1..Len(groups) : t = esps[k])
                 <=> \E k \in 1..Len(groups) :
                        t = Classify(OrphanRecord(groups[k]), BusiestFlow(groups[k]))
    BY <1>7
  <2> HIDE DEF raws
  <2> SUFFICES ASSUME NEW t
               PROVE  t \in ToSet(sessions) <=>
                        \/ \E k \in 1..Len(raws) : /\ Representable(Parse(raws[k]))
                                                   /\ t = Finish(Parse(raws[k]))
                        \/ \E k \in 1..Len(groups) :
                             t = Classify(OrphanRecord(groups[k]), BusiestFlow(groups[k]))
    OBVIOUS
  <2>4. t \in ToSet(sessions) <=> \/ \E k \in 1..Len(sas) : t = ikes[k]
                                  \/ \E k \in 1..Len(groups) : t = esps[k]
    BY <1>9
  <2> QED
    BY <2>1, <2>2, <2>3, <2>4, Zenon
<1>11. /\ AnalyseSAs(read, ingested).anomalies = detect_anomalies(sessions)
       /\ AnalyseSAs(read, ingested).sessions = [k \in 1..Len(sessions) |-> Assess(sessions[k])]
  BY DEF AnalyseSAs, Assembled, sessions
<1>12. \A s : s \in ToSet(AnalyseSAs(read, ingested).sessions)
                <=> \E t \in ToSet(sessions) : s = Assess(t)
  <2>1. \A t : t \in ToSet(sessions) <=> \E k \in 1..Len(sessions) : t = sessions[k]
    BY <1>9 DEF ToSet
  <2> DEFINE out == AnalyseSAs(read, ingested).sessions
  <2>2. \A s : s \in ToSet(out) <=> \E k \in 1..Len(sessions) : s = Assess(sessions[k])
    BY <1>9, <1>11 DEF ToSet
  <2> QED
    BY <2>1, <2>2
<1>13. \A t : t \in ToSet(sessions) <=> \E k \in 1..Len(sessions) : t = sessions[k]
  BY <1>9 DEF ToSet
<1> QED
  BY <1>9, <1>10, <1>11, <1>12, <1>13 DEF sessions, groups
-----------------------------------------------------------------------------
(* Accounted *)

\* The report is the analysis of the capture.
Analysed == capture \in Seq(Alphabet) /\ report = analyze_capture(capture)

\* group is of orphans of one peer pair.
PeerGroup(group, orphans) ==
    /\ Len(group) \in Nat \ {0}
    /\ \A x : x \in ToSet(group) <=> \E m \in 1..Len(group) : x = group[m]
    /\ \A x \in ToSet(group) : /\ \E j \in 1..Len(orphans) : x = orphans[j]
                               /\ PeersOf(x) = PeersOf(group[1])

\* Orphans are grouped by their peers, and every orphan is in a group.
LEMMA OrphanGroupsOf ==
    ASSUME NEW orphans, Len(orphans) \in Nat
    PROVE  /\ \A k \in 1..Len(OrphanGroups(orphans)) : PeerGroup(OrphanGroups(orphans)[k], orphans)
           /\ \A j \in 1..Len(orphans) : \E k \in 1..Len(OrphanGroups(orphans)) :
                orphans[j] \in ToSet(OrphanGroups(orphans)[k])
<1> DEFINE keys == [i \in 1..Len(orphans) |-> PeersOf(orphans[i])]
           groups == Groups(orphans, keys)
<1>1. Len(keys) = Len(orphans) /\ \A i \in 1..Len(orphans) : keys[i] = PeersOf(orphans[i])
  OBVIOUS
<1>2. OrphanGroups(orphans) = groups
  BY DEF OrphanGroups, GroupBy
<1> HIDE DEF keys
<1>3. ASSUME NEW k \in 1..Len(groups)
      PROVE  HasUnder(groups[k], orphans, keys, Uniques(keys)[k])
  BY <1>1, GroupMembers
<1>4. OneForEach(groups, keys, Len(orphans), Uniques(keys))
  BY <1>1, GroupsOf
<1> HIDE DEF groups
<1>5. ASSUME NEW k \in 1..Len(groups) PROVE PeerGroup(groups[k], orphans)
  <2> DEFINE g == groups[k]
             key == Uniques(keys)[k]
  <2>1. HasUnder(g, orphans, keys, key)
    BY <1>3
  <2> HIDE DEF g, key
  <2>2. \A x \in ToSet(g) : PeersOf(x) = key /\ \E j \in 1..Len(orphans) : x = orphans[j]
    BY <1>1, <2>1 DEF HasUnder
  <2>3. 1 \in 1..Len(g)
    BY <2>1 DEF HasUnder
  <2>4. g[1] \in ToSet(g)
    BY <2>1, <2>3 DEF HasUnder
  <2>5. PeerGroup(g, orphans)
    BY <2>1, <2>2, <2>4 DEF HasUnder, PeerGroup
  <2> QED
    BY <2>5 DEF g
<1>6. ASSUME NEW j \in 1..Len(orphans)
      PROVE  \E k \in 1..Len(groups) : orphans[j] \in ToSet(groups[k])
  <2>1. PICK k \in 1..Len(groups) : Uniques(keys)[k] = keys[j]
    BY <1>4 DEF OneForEach
  <2>2. HasUnder(groups[k], orphans, keys, Uniques(keys)[k])
    BY <1>3
  <2> QED
    BY <2>1, <2>2 DEF HasUnder
<1> QED
  BY <1>2, <1>5, <1>6

\* The smaller of two numbers.
LEMMA LeastOfTwo ==
    ASSUME NEW a \in Nat, NEW b \in Nat
    PROVE  Min({a, b}) = IF a <= b THEN a ELSE b
BY DEF Min

\* The session of a group of orphans names its peers, and every packet of it or
\* twenty of them.
LEMMA OrphanReported ==
    ASSUME NEW esp, Len(esp) \in Nat \ {0}
    PROVE  LET s == Assess(Classify(OrphanRecord(esp), BusiestFlow(esp)))
           IN  /\ s.session_id[1] = "esp"
               /\ {s.initiator_ip, s.responder_ip} = PeersOf(esp[1])
               /\ \A m \in 1..Len(esp) :
                    esp[m].frame \in ToSet(s.packet_refs) \/ Len(s.packet_refs) = 20
<1> DEFINE rec == OrphanRecord(esp)
           labelled == Classify(rec, BusiestFlow(esp))
           s == Assess(labelled)
           refs == [k \in 1..Min({20, Len(esp)}) |-> esp[k].frame]
<1>1. /\ DOMAIN rec = SessionKeys
      /\ rec.session_id[1] = "esp"
      /\ rec.initiator_ip = esp[1].src /\ rec.responder_ip = esp[1].dst
      /\ rec.packet_refs = refs
  BY OrphanShape
<1> HIDE DEF rec
<1>2. /\ DOMAIN labelled = DOMAIN rec \cup {"pkt_total", "traffic_prediction"}
      /\ \A x \in DOMAIN rec : labelled[x] = rec[x]
  BY ClassifyKeeps
<1> HIDE DEF labelled
<1>3. \A x \in DOMAIN labelled : s[x] = labelled[x]
  BY AssessKeeps
<1> HIDE DEF s
<1>4. /\ s.session_id = rec.session_id /\ s.initiator_ip = rec.initiator_ip
      /\ s.responder_ip = rec.responder_ip /\ s.packet_refs = rec.packet_refs
  BY <1>1, <1>2, <1>3 DEF SessionKeys
<1>5. {s.initiator_ip, s.responder_ip} = PeersOf(esp[1])
  BY <1>1, <1>4 DEF PeersOf
<1>6. ASSUME NEW m \in 1..Len(esp)
      PROVE  esp[m].frame \in ToSet(refs) \/ Len(refs) = 20
  <2>1. Min({20, Len(esp)}) = IF 20 <= Len(esp) THEN 20 ELSE Len(esp)
    BY LeastOfTwo
  <2>2. CASE 20 <= Len(esp)
    BY <2>1, <2>2
  <2>3. CASE ~(20 <= Len(esp))
    <3>1. m \in DOMAIN refs /\ refs[m] = esp[m].frame
      BY <2>1, <2>3
    <3> HIDE DEF refs
    <3> QED
      BY <3>1 DEF ToSet
  <2> QED
    BY <2>2, <2>3
<1> QED
  BY <1>1, <1>4, <1>5, <1>6 DEF s, labelled, rec

\* The session of an SA is an IKE session.
LEMMA SaReported ==
    ASSUME NEW raw
    PROVE  Assess(Finish(Parse(raw))).session_id[1] = "ike"
<1> DEFINE sa == Parse(raw)
           fin == Finish(sa)
           s == Assess(fin)
<1>1. DOMAIN sa.session = SessionKeys /\ sa.session.session_id[1] = "ike"
  BY ParsedShape
<1> HIDE DEF sa
<1>2. /\ DOMAIN fin = DOMAIN sa.session \cup {"pkt_total", "traffic_prediction"}
      /\ \A x \in DOMAIN sa.session \ {"ike"} : fin[x] = sa.session[x]
  BY <1>1, FinishKeeps DEF SessionKeys
<1> HIDE DEF fin
<1>3. \A x \in DOMAIN fin : s[x] = fin[x]
  BY AssessKeeps
<1> HIDE DEF s
<1>4. s.session_id = sa.session.session_id
  BY <1>1, <1>2, <1>3 DEF SessionKeys
<1> QED
  BY <1>1, <1>4 DEF s, fin, sa

\* A report that is the analysis of its capture gives every ESP packet to the SA
\* that owns it, or names it in a record of its own.
LEMMA AnalysedAccounted == Analysed => Accounted
<1> SUFFICES ASSUME Analysed PROVE Accounted
  OBVIOUS
<1> DEFINE read == read_capture(capture)
           sas == IkeSAs(read.ike)
           out == bucket(read)
           pairs == {raw.peers : raw \in ToSet(out.sessions)}
           groups == OrphanGroups(out.orphan_esp)
           All == ToSet(AnalyseSAs(read, out).sessions)
           Names(s, e) == /\ {s.initiator_ip, s.responder_ip} = PeersOf(e)
                          /\ e.frame \in ToSet(s.packet_refs) \/ Len(s.packet_refs) = 20
<1>1. Len(capture) \in Nat
  BY DEF Analysed
<1>2. /\ Len(read.ike) \in Nat /\ Len(read.esp) \in Nat
      /\ read.esp \in Seq(ToSet(read.esp))
  BY <1>1, FramesRead
<1>3. report.sessions = AnalyseSAs(read, out).sessions
  BY DEF Analysed, analyze_capture
<1> SUFFICES ASSUME NEW e \in ToSet(read.esp)
             PROVE  /\ \A raw \in ToSet(out.sessions) :
                         e \in ToSet(raw.esp_frames) <=> raw.peers \in OwnersOf(e, pairs)
                    /\ OwnersOf(e, pairs) = {}
                         <=> \E s \in All : s.session_id[1] # "ike" /\ Names(s, e)
  <2> HIDE DEF read, out, All
  <2>1. Sessions = All /\ RawSas = ToSet(out.sessions) /\ Read = read
    BY <1>3 DEF Sessions, RawSas, Ingested, Read, read, out, All
  <2> QED
    BY <2>1, ZenonT(60) DEF Accounted, OwnersOf, OrphanRecords, IkeSessions
<1> HIDE DEF read
<1>4. /\ Len(sas) \in Nat
      /\ Len(out.sessions) = Len(sas)
      /\ \A raw : raw \in ToSet(out.sessions) <=> \E k \in 1..Len(sas) : raw = out.sessions[k]
      /\ \A k \in 1..Len(sas) :
           /\ sas[k].peers # {}
           /\ out.sessions[k].peers = sas[k].peers
           /\ out.sessions[k].esp_frames = Picked(read.esp, Owned(read, sas, sas[k].peers))
      /\ out.orphan_esp = Picked(read.esp, Owned(read, sas, {}))
  BY <1>2, BucketOf
<1> HIDE DEF sas, out, groups, All
<1>5. pairs = PairsOf(sas)
  <2>1. \A p : p \in pairs <=> \E k \in 1..Len(sas) : p = out.sessions[k].peers
    BY <1>4
  <2>2. \A p : p \in PairsOf(sas) <=> \E k \in 1..Len(sas) : p = sas[k].peers
    BY DEF PairsOf
  <2>3. \A p : p \in pairs <=> p \in PairsOf(sas)
    BY <1>4, <2>1, <2>2
  <2> HIDE DEF pairs
  <2> QED
    BY <2>3
<1>6. /\ \A p : p # {} => (p \in OwnersOf(e, PairsOf(sas)) <=> OwnerPair(e, sas) = p)
      /\ OwnersOf(e, PairsOf(sas)) = {} <=> OwnerPair(e, sas) = {}
  BY <1>4, OwnerIsOnly
<1> HIDE DEF pairs
<1>7. PICK i \in 1..Len(read.esp) : e = read.esp[i]
  BY <1>2 DEF ToSet
<1>8. ASSUME NEW p
      PROVE  LET mine == Picked(read.esp, Owned(read, sas, p))
             IN  /\ e \in ToSet(mine) <=> OwnerPair(e, sas) = p
                 /\ Len(mine) \in Nat
                 /\ mine \in Seq(ToSet(mine))
                 /\ \A x \in ToSet(mine) : OwnerPair(x, sas) = p
  <2> DEFINE I == Owned(read, sas, p)
             mine == Picked(read.esp, I)
  <2>1. /\ I \in SUBSET (1..Len(read.esp))
        /\ \A j : j \in I <=> j \in 1..Len(read.esp) /\ OwnerPair(read.esp[j], sas) = p
    BY DEF Owned
  <2> HIDE DEF I
  <2>2. /\ Len(mine) \in Nat
        /\ mine \in Seq(ToSet(mine))
        /\ \A x : x \in ToSet(mine) <=> \E j \in I : x = read.esp[j]
    BY <1>2, <2>1, PickedMembers
  <2> HIDE DEF mine
  <2>3. e \in ToSet(mine) <=> OwnerPair(e, sas) = p
    BY <1>7, <2>1, <2>2
  <2>4. \A x \in ToSet(mine) : OwnerPair(x, sas) = p
    BY <2>1, <2>2
  <2> QED
    BY <2>2, <2>3, <2>4 DEF mine, I
<1>9. ASSUME NEW raw \in ToSet(out.sessions)
      PROVE  e \in ToSet(raw.esp_frames) <=> raw.peers \in OwnersOf(e, pairs)
  <2>1. PICK k \in 1..Len(sas) : raw = out.sessions[k]
    BY <1>4
  <2>2. e \in ToSet(raw.esp_frames) <=> OwnerPair(e, sas) = raw.peers
    BY <1>4, <1>8, <2>1
  <2>3. raw.peers # {}
    BY <1>4, <2>1
  <2> QED
    BY <1>5, <1>6, <2>2, <2>3
<1>10. /\ Len(out.orphan_esp) \in Nat
       /\ e \in ToSet(out.orphan_esp) <=> OwnersOf(e, pairs) = {}
       /\ \A x : x \in ToSet(out.orphan_esp)
                   <=> \E j \in 1..Len(out.orphan_esp) : x = out.orphan_esp[j]
       /\ \A x \in ToSet(out.orphan_esp) : OwnerPair(x, sas) = {}
  <2>1. /\ Len(out.orphan_esp) \in Nat
        /\ e \in ToSet(out.orphan_esp) <=> OwnerPair(e, sas) = {}
        /\ \A x \in ToSet(out.orphan_esp) : OwnerPair(x, sas) = {}
        /\ out.orphan_esp \in Seq(ToSet(out.orphan_esp))
    BY <1>4, <1>8
  <2>2. \A x : x \in ToSet(out.orphan_esp)
                 <=> \E j \in 1..Len(out.orphan_esp) : x = out.orphan_esp[j]
    BY <2>1 DEF ToSet
  <2> QED
    BY <1>5, <1>6, <2>1, <2>2
<1>11. \A s : s \in All <=>
          \/ \E k \in 1..Len(out.sessions) : /\ Representable(Parse(out.sessions[k]))
                                             /\ s = Assess(Finish(Parse(out.sessions[k])))
          \/ \E k \in 1..Len(groups) :
               s = Assess(Classify(OrphanRecord(groups[k]), BusiestFlow(groups[k])))
  <2>1. Len(out.sessions) \in Nat /\ Len(out.orphan_esp) \in Nat
    BY <1>4, <1>10
  <2>2. \A s : s \in All <=> \E t \in ToSet(SessionsIn(out)) : s = Assess(t)
    BY <2>1, SessionsAre DEF All
  <2>3. \A t : t \in ToSet(SessionsIn(out)) <=>
             \/ \E k \in 1..Len(out.sessions) : /\ Representable(Parse(out.sessions[k]))
                                                /\ t = Finish(Parse(out.sessions[k]))
             \/ \E k \in 1..Len(groups) :
                  t = Classify(OrphanRecord(groups[k]), BusiestFlow(groups[k]))
    BY <2>1, SessionsAre DEF groups
  <2> QED
    BY <2>2, <2>3
<1>12. /\ \A k \in 1..Len(groups) : PeerGroup(groups[k], out.orphan_esp)
       /\ \A j \in 1..Len(out.orphan_esp) : \E k \in 1..Len(groups) :
            out.orphan_esp[j] \in ToSet(groups[k])
  BY <1>10, OrphanGroupsOf DEF groups
<1>13. ASSUME OwnersOf(e, pairs) = {}
       PROVE  \E s \in All : s.session_id[1] # "ike" /\ Names(s, e)
  <2>1. PICK k \in 1..Len(groups) : e \in ToSet(groups[k])
    BY <1>10, <1>12, <1>13
  <2>2. PICK m \in 1..Len(groups[k]) : e = groups[k][m]
    <3>1. PeerGroup(groups[k], out.orphan_esp)
      BY <1>12
    <3> QED
      BY <2>1, <3>1 DEF PeerGroup
  <2> DEFINE s == Assess(Classify(OrphanRecord(groups[k]), BusiestFlow(groups[k])))
  <2>3. s \in All
    BY <1>11
  <2>4. /\ s.session_id[1] = "esp"
        /\ {s.initiator_ip, s.responder_ip} = PeersOf(groups[k][1])
        /\ e.frame \in ToSet(s.packet_refs) \/ Len(s.packet_refs) = 20
    BY <1>12, <2>2, OrphanReported DEF PeerGroup
  <2>5. PeersOf(groups[k][1]) = PeersOf(e)
    BY <1>12, <2>1 DEF PeerGroup
  <2> HIDE DEF s
  <2> QED
    BY <2>3, <2>4, <2>5
<1>14. ASSUME NEW s \in All, s.session_id[1] # "ike", Names(s, e)
       PROVE  OwnersOf(e, pairs) = {}
  <2>1. PICK k \in 1..Len(groups) :
           s = Assess(Classify(OrphanRecord(groups[k]), BusiestFlow(groups[k])))
    BY <1>11, <1>14, SaReported
  <2> DEFINE x == groups[k][1]
  <2>2. {s.initiator_ip, s.responder_ip} = PeersOf(x)
    BY <1>12, <2>1, OrphanReported DEF PeerGroup
  <2>3. PeersOf(e) = PeersOf(x)
    BY <1>14, <2>2
  <2>4. 1 \in 1..Len(groups[k])
    BY <1>12 DEF PeerGroup
  <2>5. x \in ToSet(groups[k])
    BY <1>12, <2>4 DEF PeerGroup
  <2> HIDE DEF x
  <2>6. x \in ToSet(out.orphan_esp)
    BY <1>10, <1>12, <2>5 DEF PeerGroup
  <2>7. OwnerPair(x, sas) = {}
    BY <1>10, <2>6
  <2>8. OwnerPair(e, sas) = OwnerPair(x, sas)
    BY <2>3 DEF OwnerPair
  <2> QED
    BY <1>5, <1>6, <2>7, <2>8
<1> QED
  BY <1>9, <1>13, <1>14

\* The stored report is the analysis of the capture read so far, of packets of the
\* alphabet, whatever is analysed or imported: the invariant that every theorem
\* below rests on.
THEOREM AnalysisFollows == StoredSpec => []Analysed
<1>1. StoredInit => Analysed
  BY DEF StoredInit, Init, Analysed
<1>2. Analysed /\ [StoredNext]_storedVars => Analysed'
  <2> SUFFICES ASSUME Analysed, [StoredNext]_storedVars PROVE Analysed'
    OBVIOUS
  <2>1. CASE Analyse
    BY <2>1 DEF Analysed, Analyse, Next, Packet
  <2>2. ASSUME NEW text \in Texts, ImportGatewayState(text) PROVE Analysed'
    BY <2>2 DEF Analysed, ImportGatewayState, vars
  <2>3. CASE UNCHANGED storedVars
    BY <2>3 DEF Analysed, storedVars, vars
  <2> QED
    BY <2>1, <2>2, <2>3 DEF StoredNext
<1> QED
  BY <1>1, <1>2, PTL DEF StoredSpec

\* Every ESP packet is given to the SA that owns it or named in an ESP-only record
\* (core/ingestion/engine.py, nat_owner and bucket).
THEOREM EspIsAccounted == StoredSpec => []Accounted
BY AnalysisFollows, AnalysedAccounted, PTL
-----------------------------------------------------------------------------
(* The fields of an SA *)

IkeFields ==
    {"version", "aggressive_mode", "ip_version", "nat_traversal", "encryption", "integrity",
     "prf", "dh_group", "additional_key_exchanges", "auth_method", "mode", "sa_lifetime_sec",
     "capture_complete", "pfs_status"}
EdgeFields == {"vendor", "fragmented_ike", "anti_replay", "dpd_status", "cert"}

\* The fields of a suite of IKEv1.
LEMMA SuiteV1Shape ==
    ASSUME NEW t1, NEW quick
    PROVE  DOMAIN SuiteV1(t1, quick)
             = {"encryption", "integrity", "prf", "auth_method", "dh_group",
                "sa_lifetime_sec", "mode", "pfs_status"}
<1> DEFINE phase1 == IF t1 = Malformed THEN Phase1Unread ELSE ApplyPhase1Sa(t1)
           Six == {"encryption", "integrity", "prf", "auth_method", "dh_group",
                   "sa_lifetime_sec"}
<1>1. DOMAIN ApplyPhase1Sa(t1) = Six
  BY DEF ApplyPhase1Sa
<1>2. DOMAIN Phase1Unread = Six
  BY DEF Phase1Unread
<1>3. DOMAIN phase1 = Six
  BY <1>1, <1>2
<1> HIDE DEF phase1
<1> DEFINE none == [mode |-> "unknown", pfs_status |-> "unknown"]
           Two == {"mode", "pfs_status"}
<1>4. DOMAIN none = Two
  OBVIOUS
<1> HIDE DEF none, Six, Two
<1>5. DOMAIN Joined(phase1, none) = Six \cup Two
  <2>1. DOMAIN Joined(phase1, none) = DOMAIN phase1 \cup DOMAIN none
    BY JoinedOf
  <2> QED
    BY <1>3, <1>4, <2>1
<1>6. ASSUME NEW t, NEW ke PROVE DOMAIN ApplyQuickMode(phase1, t, ke) = Six \cup Two
  <2> DEFINE ipsec == SuiteOfIpsec(phase1, t.attrs, t.id)
             verdicts == ModeAndPfs(t.attrs, ke)
  <2>1. DOMAIN verdicts = Two
    BY DEF ModeAndPfs, Two
  <2>2. DOMAIN ipsec = DOMAIN phase1
    BY DEF SuiteOfIpsec
  <2>3. ApplyQuickMode(phase1, t, ke) = Joined(ipsec, verdicts)
    BY DEF ApplyQuickMode
  <2> HIDE DEF ipsec, verdicts
  <2>4. DOMAIN Joined(ipsec, verdicts) = DOMAIN ipsec \cup DOMAIN verdicts
    BY JoinedOf
  <2> QED
    BY <1>3, <2>1, <2>2, <2>3, <2>4
<1>7. \/ SuiteV1(t1, quick) = Joined(phase1, none)
      \/ SuiteV1(t1, quick) = ApplyQuickMode(phase1, SaOf(quick).transform, HasV1(quick, "KE"))
  BY DEF SuiteV1, phase1, none
<1>8. DOMAIN SuiteV1(t1, quick) = Six \cup Two
  BY <1>5, <1>6, <1>7
<1> QED
  BY <1>8 DEF Six, Two

\* Both parsers fill the same fields.
LEMMA FieldsShape ==
    ASSUME NEW messages, NEW ctx, NEW applied, NEW complete
    PROVE  /\ DOMAIN FieldsV2(messages, ctx, applied, complete) = IkeFields
           /\ DOMAIN FieldsV1(messages, ctx, complete) = IkeFields
<1>1. DOMAIN FieldsV2(messages, ctx, applied, complete) = IkeFields
  BY DEF FieldsV2, IkeFields
<1>3. DOMAIN FieldsV1(messages, ctx, complete) = IkeFields
  <2> DEFINE suite == SuiteV1(Phase1Transform(messages), QuickMode(messages))
             closed == [suite EXCEPT !.sa_lifetime_sec = Default(@, None)]
             NatD(m) == HasV1(m, "NAT_D")
             natd == ctx.nat_traversal \/ Some(messages, NatD)
             rest == [version |-> "IKEv1", aggressive_mode |-> AggressiveMode(messages),
                      ip_version |-> ctx.ip_version, nat_traversal |-> natd,
                      additional_key_exchanges |-> <<>>, capture_complete |-> complete]
  <2>1. FieldsV1(messages, ctx, complete) = Joined(closed, rest)
    BY DEF FieldsV1
  <2> HIDE DEF suite, natd
  <2>2. DOMAIN closed = DOMAIN suite
    OBVIOUS
  <2>3. DOMAIN suite = {"encryption", "integrity", "prf", "auth_method", "dh_group",
                        "sa_lifetime_sec", "mode", "pfs_status"}
    BY SuiteV1Shape DEF suite
  <2>4. DOMAIN rest = {"version", "aggressive_mode", "ip_version", "nat_traversal",
                       "additional_key_exchanges", "capture_complete"}
    OBVIOUS
  <2> HIDE DEF closed, rest
  <2>5. DOMAIN Joined(closed, rest) = DOMAIN closed \cup DOMAIN rest
    BY JoinedOf
  <2> QED
    BY <2>1, <2>2, <2>3, <2>4, <2>5 DEF IkeFields
<1> QED
  BY <1>1, <1>3

\* mark_unobserved gives the fields that nothing told their default and leaves the
\* others.
LEMMA MarkedShape ==
    ASSUME NEW fields, DOMAIN fields = IkeFields
    PROVE  LET out == mark_unobserved(fields)
           IN  /\ DOMAIN out = IkeFields
               /\ \A f \in {"encryption", "integrity", "prf", "dh_group"} :
                    out[f] = Default(fields[f], "unknown")
               /\ out.auth_method = Default(fields.auth_method, None)
               /\ \A f \in IkeFields \ Suite : out[f] = fields[f]
<1>1. /\ fields.encryption = fields["encryption"] /\ "encryption" \in DOMAIN fields
      /\ "integrity" \in DOMAIN fields /\ "prf" \in DOMAIN fields
      /\ "dh_group" \in DOMAIN fields /\ "auth_method" \in DOMAIN fields
  BY DEF IkeFields
<1>2. DOMAIN mark_unobserved(fields) = IkeFields
  BY DEF mark_unobserved
<1>3. mark_unobserved(fields).encryption = Default(fields.encryption, "unknown")
  BY <1>1 DEF mark_unobserved
<1>4. mark_unobserved(fields).integrity = Default(fields.integrity, "unknown")
  BY <1>1 DEF mark_unobserved
<1>5. mark_unobserved(fields).prf = Default(fields.prf, "unknown")
  BY <1>1 DEF mark_unobserved
<1>6. mark_unobserved(fields).dh_group = Default(fields.dh_group, "unknown")
  BY <1>1 DEF mark_unobserved
<1>7. mark_unobserved(fields).auth_method = Default(fields.auth_method, None)
  BY <1>1 DEF mark_unobserved
<1>8. ASSUME NEW f \in IkeFields \ Suite PROVE mark_unobserved(fields)[f] = fields[f]
  BY <1>8 DEF mark_unobserved, Suite
<1> QED
  BY <1>2, <1>3, <1>4, <1>5, <1>6, <1>7, <1>8

\* The record of an SA has what was read of its messages, marked, and the edge cases.
RecordHas(ike, fields, edge) ==
    /\ DOMAIN ike = IkeFields \cup {"pqc_status"} \cup EdgeFields \cup DOMAIN Fresh
    /\ \A f \in IkeFields : ike[f] = mark_unobserved(fields)[f]
    /\ \A f \in EdgeFields : ike[f] = edge[f]
    /\ \A f \in DOMAIN Fresh : ike[f] = Fresh[f]

\* The bookkeeping of a record that was just parsed.
LEMMA FreshFields ==
    DOMAIN Fresh = {"inferred_fields", "confidence_source", "gateway_fields", "gateway_mismatches"}
BY DEF Fresh

\* A parsed record has the marked fields, the edge cases and fresh bookkeeping.
LEMMA RecordShape ==
    ASSUME NEW fields, DOMAIN fields = IkeFields, NEW edge, DOMAIN edge = EdgeFields
    PROVE  RecordHas(Joined(Joined(WithPqc(mark_unobserved(fields)), edge), Fresh), fields, edge)
<1> DEFINE marked == mark_unobserved(fields)
           pqc == [pqc_status |-> pqc_status(marked.dh_group, marked.additional_key_exchanges)]
           with == WithPqc(marked)
           edged == Joined(with, edge)
           ike == Joined(edged, Fresh)
<1>1. DOMAIN marked = IkeFields
  BY MarkedShape
<1>2. with = Joined(marked, pqc)
  BY DEF WithPqc
<1>3. DOMAIN pqc = {"pqc_status"}
  OBVIOUS
<1> HIDE DEF marked, pqc, with
<1>4. DOMAIN with = IkeFields \cup {"pqc_status"} /\ \A f \in IkeFields : with[f] = marked[f]
  <2>1. /\ DOMAIN Joined(marked, pqc) = DOMAIN marked \cup DOMAIN pqc
        /\ \A x \in DOMAIN marked : Joined(marked, pqc)[x] = marked[x]
    BY JoinedOf
  <2> QED
    BY <1>1, <1>2, <1>3, <2>1
<1>5. /\ DOMAIN edged = DOMAIN with \cup EdgeFields
      /\ \A f \in DOMAIN with : edged[f] = with[f]
      /\ \A f \in EdgeFields \ DOMAIN with : edged[f] = edge[f]
  BY JoinedOf
<1>6. \A f \in EdgeFields : f \notin DOMAIN with
  BY <1>4 DEF EdgeFields, IkeFields
<1> HIDE DEF edged
<1>7. /\ DOMAIN ike = DOMAIN edged \cup DOMAIN Fresh
      /\ \A f \in DOMAIN edged : ike[f] = edged[f]
      /\ \A f \in DOMAIN Fresh \ DOMAIN edged : ike[f] = Fresh[f]
  BY JoinedOf
<1>8. \A f \in DOMAIN Fresh : f \notin DOMAIN edged
  BY <1>4, <1>5, FreshFields DEF EdgeFields, IkeFields
<1> HIDE DEF ike
<1>9. DOMAIN ike = IkeFields \cup {"pqc_status"} \cup EdgeFields \cup DOMAIN Fresh
  BY <1>4, <1>5, <1>7
<1>10. \A f \in IkeFields : ike[f] = marked[f]
  BY <1>4, <1>5, <1>7
<1>11. \A f \in EdgeFields : ike[f] = edge[f]
  BY <1>5, <1>6, <1>7
<1>12. \A f \in DOMAIN Fresh : ike[f] = Fresh[f]
  BY <1>7, <1>8
<1> QED
  BY <1>9, <1>10, <1>11, <1>12 DEF RecordHas, ike, edged, with, marked

\* The messages of an SA that its parser reads, and what it reads in them.
MessagesIn(raw) ==
    MessagesOf(raw.ike_frames, IF raw.ike_version = "IKEv1" THEN "IKEv1" ELSE "IKEv2")

FieldsIn(raw) ==
    LET messages == MessagesIn(raw)
        ctx == FramesCtx(raw.ike_frames, raw.esp_frames)
        applied == AppliedProposals(messages)
    IN  IF raw.ike_version = "IKEv1"
        THEN FieldsV1(messages, ctx, Phase1Initial(messages) # None)
        ELSE FieldsV2(messages, ctx, applied, CompleteV2(messages, applied))

\* The edge cases take the anti-replay verdict from the ESP records of the context.
LEMMA EdgeShape ==
    ASSUME NEW messages, NEW ctx, NEW version, NEW complete
    PROVE  LET out == EdgeCases(messages, ctx, version, complete)
           IN  /\ DOMAIN out = EdgeFields
               /\ out.anti_replay = anti_replay_from_esp(ctx.esp_records)
BY DEF EdgeCases, EdgeFields

\* A parsed SA carries the SPI of its first message and the fields of its parser's
\* reading.
LEMMA ParsedIke ==
    ASSUME NEW raw
    PROVE  /\ Parse(raw).session.session_id[2] = MessagesIn(raw)[1].initiator_spi
           /\ \E edge : /\ RecordHas(Parse(raw).session.ike, FieldsIn(raw), edge)
                        /\ edge.anti_replay = anti_replay_from_esp(EspRecords(raw.esp_frames))
<1> DEFINE messages == MessagesIn(raw)
           ctx == FramesCtx(raw.ike_frames, raw.esp_frames)
           applied == AppliedProposals(messages)
           Record(fields, edge) == Joined(Joined(WithPqc(mark_unobserved(fields)), edge), Fresh)
<1>1. ctx.esp_records = EspRecords(raw.esp_frames)
  BY DEF FramesCtx
<1> HIDE DEF ctx
<1>2. CASE raw.ike_version = "IKEv1"
  <2> DEFINE complete == Phase1Initial(messages) # None
             edge == EdgeCases(messages, ctx, "IKEv1", complete)
             fields == FieldsV1(messages, ctx, complete)
  <2>1. Parse(raw).session
          = SessionOf(messages[1].initiator_spi, messages, ctx,
                      Joined(WithPqc(mark_unobserved(fields)), edge))
    BY <1>2 DEF Parse, ParseV1, AnalyseV1, MessagesIn, ctx
  <2>2. FieldsIn(raw) = fields
    BY <1>2 DEF FieldsIn, ctx
  <2>3. DOMAIN edge = EdgeFields /\ edge.anti_replay = anti_replay_from_esp(ctx.esp_records)
    BY EdgeShape
  <2>4. DOMAIN fields = IkeFields
    BY FieldsShape
  <2> HIDE DEF edge, fields, messages
  <2>5. /\ Parse(raw).session.session_id[2] = messages[1].initiator_spi
        /\ Parse(raw).session.ike = Record(fields, edge)
    BY <2>1, SessionShape
  <2>6. RecordHas(Record(fields, edge), fields, edge)
    BY <2>3, <2>4, RecordShape
  <2> QED
    BY <1>1, <2>2, <2>3, <2>5, <2>6 DEF messages
<1>3. CASE raw.ike_version # "IKEv1"
  <2> DEFINE complete == CompleteV2(messages, applied)
             edge == EdgeCases(messages, ctx, "IKEv2", complete)
             fields == FieldsV2(messages, ctx, applied, complete)
  <2>1. Parse(raw).session
          = SessionOf(messages[1].initiator_spi, messages, ctx,
                      Joined(WithPqc(mark_unobserved(fields)), edge))
    BY <1>3 DEF Parse, ParseV2, AnalyseV2, AnalyseApplied, MessagesIn, ctx
  <2>2. FieldsIn(raw) = fields
    BY <1>3 DEF FieldsIn, ctx
  <2>3. DOMAIN edge = EdgeFields /\ edge.anti_replay = anti_replay_from_esp(ctx.esp_records)
    BY EdgeShape
  <2>4. DOMAIN fields = IkeFields
    BY FieldsShape
  <2> HIDE DEF edge, fields, messages
  <2>5. /\ Parse(raw).session.session_id[2] = messages[1].initiator_spi
        /\ Parse(raw).session.ike = Record(fields, edge)
    BY <2>1, SessionShape
  <2>6. RecordHas(Record(fields, edge), fields, edge)
    BY <2>3, <2>4, RecordShape
  <2> QED
    BY <1>1, <2>2, <2>3, <2>5, <2>6 DEF messages
<1> QED
  BY <1>2, <1>3
-----------------------------------------------------------------------------
(* ReplayVerdict *)

Zero(n) == IF n = None THEN 0 ELSE n

\* The packets of esp under the SPI of e.
SaOfPacket(esp, e) == {d \in esp : Zero(d.spi) = Zero(e.spi)}

\* Packets enough of one ESP SA, all under one number, a number cut off being zero.
StuckCutAt(esp, e) ==
    /\ Cardinality(SaOfPacket(esp, e)) >= ReplaySample
    /\ \A d \in SaOfPacket(esp, e) : Zero(d.seq) = Zero(e.seq)

\* A list of records says one number exactly when the set of their numbers is one.
LEMMA OneNumber ==
    ASSUME NEW list, Len(list) \in Nat \ {0},
           \A x : x \in ToSet(list) <=> \E m \in 1..Len(list) : x = list[m]
    PROVE  Cardinality({r[2] : r \in ToSet(list)}) = 1
             <=> \A m \in 1..Len(list) : list[m][2] = list[1][2]
<1> DEFINE S == {r[2] : r \in ToSet(list)}
           f == [m \in 1..Len(list) |-> list[m][2]]
<1>1. /\ \A x : x \in S <=> \E m \in 1..Len(list) : x = list[m][2]
      /\ 1 \in 1..Len(list)
  OBVIOUS
<1> HIDE DEF S
<1>2. IsFiniteSet(S)
  <2>1. IsFiniteSet(1..Len(list))
    BY FS_Interval
  <2>2. f \in Surjection(1..Len(list), S)
    BY <1>1 DEF Surjection
  <2> QED
    BY <2>1, <2>2, FS_Surjection
<1>3. Cardinality(S) = 1 <=> \E x : S = {x}
  BY <1>2, FS_Singleton
<1>4. (\E x : S = {x}) <=> \A m \in 1..Len(list) : list[m][2] = list[1][2]
  <2>1. ASSUME NEW x, S = {x}, NEW m \in 1..Len(list) PROVE list[m][2] = list[1][2]
    <3>1. list[m][2] \in S /\ list[1][2] \in S
      BY <1>1
    <3> QED
      BY <2>1, <3>1
  <2>2. ASSUME \A m \in 1..Len(list) : list[m][2] = list[1][2] PROVE S = {list[1][2]}
    BY <1>1, <2>2
  <2> QED
    BY <2>1, <2>2
<1> QED
  BY <1>3, <1>4 DEF S

\* anti_replay_from_esp says FALSE exactly when some packet is of a stuck SA.
LEMMA ReplayOf ==
    ASSUME PipelineAssumption, NEW esp, Len(esp) \in Nat,
           \A x : x \in ToSet(esp) <=> \E j \in 1..Len(esp) : x = esp[j],
           \A j, k \in 1..Len(esp) : esp[j] = esp[k] => j = k
    PROVE  anti_replay_from_esp(EspRecords(esp)) = FALSE
             <=> \E e \in ToSet(esp) : StuckCutAt(ToSet(esp), e)
<1> DEFINE n == Len(esp)
           records == EspRecords(esp)
           keys == [i \in 1..Len(records) |-> records[i][1]]
           sas == Groups(records, keys)
           dict == Uniques(keys)
           decided == {k \in 1..Len(sas) : Len(sas[k]) >= ReplaySample}
           Stuck(sa) == Cardinality({r[2] : r \in ToSet(sa)}) = 1
<1>1. /\ Len(records) = n
      /\ \A j \in 1..n : records[j][1] = Zero(esp[j].spi) /\ records[j][2] = Zero(esp[j].seq)
  BY DEF EspRecords, Zero
<1>2. anti_replay_from_esp(records)
        = IF decided = {} THEN None ELSE \A k \in decided : ~Stuck(sas[k])
  BY DEF anti_replay_from_esp, GroupBy
<1> HIDE DEF records
<1>3. Len(keys) = n /\ \A j \in 1..n : keys[j] = Zero(esp[j].spi)
  BY <1>1
<1> HIDE DEF keys
<1>4. OneForEach(sas, keys, n, dict)
  BY <1>1, <1>3, GroupsOf
<1>5. \A k \in 1..Len(sas) : HasUnder(sas[k], records, keys, dict[k])
  BY <1>1, <1>3, GroupMembers
<1> HIDE DEF sas, dict
<1>6. (anti_replay_from_esp(records) = FALSE)
        <=> \E k \in 1..Len(sas) : Len(sas[k]) >= ReplaySample /\ Stuck(sas[k])
  <2>1. None # FALSE
    BY DEF PipelineAssumption
  <2> HIDE DEF Stuck
  <2> QED
    BY <1>2, <2>1
<1>7. ASSUME NEW k \in 1..Len(sas), NEW j \in 1..n, keys[j] = dict[k]
      PROVE  /\ Len(sas[k]) = Cardinality(SaOfPacket(ToSet(esp), esp[j]))
             /\ Stuck(sas[k]) <=> \A d \in SaOfPacket(ToSet(esp), esp[j]) :
                                       Zero(d.seq) = Zero(esp[j].seq)
  <2> DEFINE g == sas[k]
             key == dict[k]
             sa == SaOfPacket(ToSet(esp), esp[j])
             J == {i \in 1..n : keys[i] = key}
  <2>1. HasUnder(g, records, keys, key)
    BY <1>5
  <2>2. keys[j] = key
    BY <1>7
  <2> HIDE DEF g, key
  <2>3. \A d : d \in sa <=> \E i \in J : d = esp[i]
    BY <1>3, <2>2 DEF SaOfPacket
  <2>4. \A i \in J : i \in 1..n
    OBVIOUS
  <2> HIDE DEF sa
  <2>5. Cardinality(J) = Cardinality(sa)
    <3> DEFINE f == [i \in J |-> esp[i]]
    <3>1. IsFiniteSet(J)
      <4>1. IsFiniteSet(1..n)
        BY FS_Interval
      <4> QED
        BY <4>1, FS_Subset
    <3> HIDE DEF J
    <3>2. f \in Bijection(J, sa)
      BY <2>3, <2>4 DEF Bijection, Injection, Surjection, IsInjective
    <3>3. ExistsBijection(J, sa)
      BY <3>2 DEF ExistsBijection
    <3> QED
      BY <3>1, <3>3, FS_Bijection
  <2>6. Len(g) = Cardinality(J)
    BY <1>1, <2>1 DEF HasUnder
  <2>7. /\ Len(g) \in Nat \ {0}
        /\ \A x : x \in ToSet(g) <=> \E m \in 1..Len(g) : x = g[m]
        /\ \A x : x \in ToSet(g) <=> \E i \in J : x = records[i]
    <3>1. \A i : i \in J <=> i \in 1..n /\ keys[i] = key
      OBVIOUS
    <3> HIDE DEF J
    <3>2. /\ Len(g) \in Nat \ {0}
          /\ \A x : x \in ToSet(g) <=> \E m \in 1..Len(g) : x = g[m]
          /\ \A x : x \in ToSet(g)
                      <=> \E i \in 1..Len(records) : x = records[i] /\ keys[i] = key
      BY <2>1 DEF HasUnder
    <3> QED
      BY <1>1, <3>1, <3>2
  <2>8. Stuck(g) <=> \A m \in 1..Len(g) : g[m][2] = g[1][2]
    BY <2>7, OneNumber
  <2>9. j \in J
    BY <2>2
  <2> HIDE DEF J, Stuck
  <2>10. \A i \in J : records[i][2] = Zero(esp[i].seq)
    BY <1>1, <2>4
  <2>11. (\A m \in 1..Len(g) : g[m][2] = g[1][2]) <=> \A d \in sa : Zero(d.seq) = Zero(esp[j].seq)
    <3>1. 1 \in 1..Len(g)
      BY <2>7
    <3>2. \A m \in 1..Len(g) : \E i \in J : g[m] = records[i]
      BY <2>7
    <3>3. \A i \in J : \E m \in 1..Len(g) : records[i] = g[m]
      BY <2>7
    <3>4. ASSUME \A m \in 1..Len(g) : g[m][2] = g[1][2], NEW d \in sa
          PROVE  Zero(d.seq) = Zero(esp[j].seq)
      <4>1. PICK i \in J : d = esp[i]
        BY <2>3
      <4>2. records[i][2] = g[1][2] /\ records[j][2] = g[1][2]
        BY <2>9, <3>3, <3>4
      <4> QED
        BY <2>9, <2>10, <4>1, <4>2
    <3>5. ASSUME \A d \in sa : Zero(d.seq) = Zero(esp[j].seq), NEW m \in 1..Len(g)
          PROVE  g[m][2] = Zero(esp[j].seq)
      <4>1. PICK i \in J : g[m] = records[i]
        BY <3>2
      <4>2. esp[i] \in sa
        BY <2>3
      <4> QED
        BY <2>10, <3>5, <4>1, <4>2
    <3> QED
      BY <3>1, <3>4, <3>5
  <2> QED
    BY <2>5, <2>6, <2>8, <2>11 DEF g, sa
<1> HIDE DEF Stuck
<1>8. ASSUME NEW k \in 1..Len(sas), Len(sas[k]) >= ReplaySample, Stuck(sas[k])
      PROVE  \E e \in ToSet(esp) : StuckCutAt(ToSet(esp), e)
  <2>1. PICK j \in 1..n : keys[j] = dict[k]
    <3> DEFINE g == sas[k]
               key == dict[k]
    <3>1. HasUnder(g, records, keys, key)
      BY <1>5
    <3> HIDE DEF g, key
    <3>2. 1 \in 1..Len(g)
      BY <3>1 DEF HasUnder
    <3>3. g[1] \in ToSet(g)
      BY <3>1, <3>2 DEF HasUnder
    <3>4. \E j \in 1..n : keys[j] = key
      BY <1>1, <3>1, <3>3 DEF HasUnder
    <3> QED
      BY <3>4 DEF key
  <2>2. StuckCutAt(ToSet(esp), esp[j])
    BY <1>7, <1>8, <2>1 DEF StuckCutAt
  <2> QED
    BY <2>2
<1>9. ASSUME NEW e \in ToSet(esp), StuckCutAt(ToSet(esp), e)
      PROVE  \E k \in 1..Len(sas) : Len(sas[k]) >= ReplaySample /\ Stuck(sas[k])
  <2>1. PICK j \in 1..n : e = esp[j]
    OBVIOUS
  <2>2. PICK k \in 1..Len(sas) : dict[k] = keys[j]
    BY <1>4 DEF OneForEach
  <2> QED
    BY <1>7, <1>9, <2>1, <2>2 DEF StuckCutAt
<1> QED
  BY <1>6, <1>8, <1>9 DEF records

\* What is picked of a list without repetition has none.
LEMMA PickedOnce ==
    ASSUME NEW seq, NEW n \in Nat, NEW I \in SUBSET (1..n),
           \A j, k \in 1..n : seq[j] = seq[k] => j = k
    PROVE  \A j, k \in 1..Len(Picked(seq, I)) : Picked(seq, I)[j] = Picked(seq, I)[k] => j = k
<1> DEFINE c == Cardinality(I)
           out == Picked(seq, I)
<1>1. /\ c \in Nat /\ \A k \in 1..c : Nth(I, k) \in I
      /\ \A j, k \in 1..c : j < k => Nth(I, j) < Nth(I, k)
  BY NthOfSet
<1>2. Len(out) = c /\ \A k \in 1..c : out[k] = seq[Nth(I, k)]
  BY PickedMembers
<1> HIDE DEF c, out
<1>3. ASSUME NEW j \in 1..c, NEW k \in 1..c, out[j] = out[k] PROVE j = k
  <2>1. Nth(I, j) = Nth(I, k)
    BY <1>1, <1>2, <1>3
  <2>2. Nth(I, j) \in 1..n
    BY <1>1
  <2>3. ~(j < k) /\ ~(k < j)
    BY <1>1, <2>1, <2>2
  <2>4. j \in Nat /\ k \in Nat
    BY <1>1
  <2> QED
    BY <2>3, <2>4
<1> QED
  BY <1>2, <1>3 DEF out

\* raw is an SA of what was read, with some of its ESP, each packet once.
RawIs(raw, read) ==
    /\ SaShape(raw, read.ike)
    /\ Len(raw.esp_frames) \in Nat
    /\ \A x : x \in ToSet(raw.esp_frames) <=> \E j \in 1..Len(raw.esp_frames) : x = raw.esp_frames[j]
    /\ \A j, k \in 1..Len(raw.esp_frames) : raw.esp_frames[j] = raw.esp_frames[k] => j = k

\* Stage 1 makes such SAs, no two of which have one SPI.
LEMMA RawsAre ==
    ASSUME NEW packets, Len(packets) \in Nat
    PROVE  LET read == read_capture(packets)
               raws == bucket(read).sessions
           IN  /\ Len(raws) \in Nat
               /\ \A raw : raw \in ToSet(raws) <=> \E k \in 1..Len(raws) : raw = raws[k]
               /\ \A raw \in ToSet(raws) : RawIs(raw, read)
               /\ \A raw, x \in ToSet(raws) : raw.spi = x.spi => raw = x
<1> DEFINE read == read_capture(packets)
           raws == bucket(read).sessions
           sas == IkeSAs(read.ike)
<1>1. /\ Len(read.ike) \in Nat /\ Len(read.esp) \in Nat
      /\ \A j, k \in 1..Len(read.esp) : read.esp[j] = read.esp[k] => j = k
  BY FramesRead
<1> HIDE DEF read
<1>2. /\ Len(sas) \in Nat /\ Len(raws) = Len(sas)
      /\ \A raw : raw \in ToSet(raws) <=> \E k \in 1..Len(sas) : raw = raws[k]
      /\ \A k \in 1..Len(sas) :
           /\ raws[k].spi = sas[k].spi
           /\ raws[k].ike_version = sas[k].ike_version
           /\ raws[k].ike_frames = sas[k].ike_frames
           /\ raws[k].esp_frames = Picked(read.esp, Owned(read, sas, sas[k].peers))
  BY <1>1, BucketOf
<1>3. /\ \A k \in 1..Len(sas) : SaShape(sas[k], read.ike)
      /\ \A k, l \in 1..Len(sas) : sas[k].spi = sas[l].spi => k = l
  BY <1>1, SasOf
<1> HIDE DEF raws, sas
<1>4. ASSUME NEW k \in 1..Len(sas) PROVE RawIs(raws[k], read)
  <2> DEFINE raw == raws[k]
             I == Owned(read, sas, sas[k].peers)
  <2>1. I \in SUBSET (1..Len(read.esp)) /\ raw.esp_frames = Picked(read.esp, I)
    BY <1>2 DEF Owned
  <2>2. SaShape(raw, read.ike)
    BY <1>2, <1>3 DEF SaShape
  <2> HIDE DEF raw, I
  <2> DEFINE mine == Picked(read.esp, I)
  <2>3. Len(mine) \in Nat /\ mine \in Seq(ToSet(mine))
    BY <1>1, <2>1, PickedMembers
  <2>4. \A i, j \in 1..Len(mine) : mine[i] = mine[j] => i = j
    BY <1>1, <2>1, PickedOnce
  <2> HIDE DEF mine
  <2>5. \A x : x \in ToSet(mine) <=> \E j \in 1..Len(mine) : x = mine[j]
    BY <2>3 DEF ToSet
  <2>6. raw.esp_frames = mine
    BY <2>1 DEF mine
  <2> QED
    BY <2>2, <2>3, <2>4, <2>5, <2>6 DEF RawIs, raw
<1>5. ASSUME NEW raw \in ToSet(raws) PROVE RawIs(raw, read)
  BY <1>2, <1>4
<1>6. ASSUME NEW raw \in ToSet(raws), NEW x \in ToSet(raws), raw.spi = x.spi PROVE raw = x
  <2>1. PICK k \in 1..Len(sas) : raw = raws[k]
    BY <1>2
  <2>2. PICK l \in 1..Len(sas) : x = raws[l]
    BY <1>2
  <2>3. k = l
    BY <1>2, <1>3, <1>6, <2>1, <2>2
  <2> QED
    BY <2>1, <2>2, <2>3
<1>7. /\ Len(raws) \in Nat
      /\ \A raw : raw \in ToSet(raws) <=> \E k \in 1..Len(raws) : raw = raws[k]
  BY <1>2
<1> QED
  BY <1>5, <1>6, <1>7 DEF raws, read

\* The IKE sessions of a report are the SAs that can be represented, the other
\* sessions are records of orphans.
SessionsSorted ==
    /\ \A s : s \in IkeSessions <=> \E raw \in RawSas : /\ Representable(Parse(raw))
                                                        /\ s = Assess(Finish(Parse(raw)))
    /\ \A s \in Sessions \ IkeSessions :
         \E esp : s = Assess(Classify(OrphanRecord(esp), BusiestFlow(esp)))

\* In a report that is the analysis of its capture, an IKE session comes from an SA
\* of the ingestion and every other one from a group of orphans.
LEMMA SessionsSort == Analysed => SessionsSorted
<1> SUFFICES ASSUME Analysed PROVE SessionsSorted
  OBVIOUS
<1> DEFINE read == read_capture(capture)
           out == bucket(read)
           sas == IkeSAs(read.ike)
           groups == OrphanGroups(out.orphan_esp)
           All == ToSet(AnalyseSAs(read, out).sessions)
<1>1. Len(capture) \in Nat
  BY DEF Analysed
<1>2. Len(read.ike) \in Nat /\ Len(read.esp) \in Nat
  BY <1>1, FramesRead
<1>3. Sessions = All /\ RawSas = ToSet(out.sessions)
  BY DEF Analysed, analyze_capture, Sessions, RawSas, Ingested, Read
<1>4. /\ Len(out.sessions) \in Nat
      /\ \A raw : raw \in ToSet(out.sessions) <=> \E k \in 1..Len(out.sessions) : raw = out.sessions[k]
  BY <1>1, RawsAre
<1>5. out.orphan_esp = Picked(read.esp, Owned(read, sas, {}))
  <2> HIDE DEF read
  <2> QED
    BY <1>2, BucketOf
<1> HIDE DEF read, out, groups, All, sas
<1>6. Len(out.orphan_esp) \in Nat
  <2>1. Owned(read, sas, {}) \in SUBSET (1..Len(read.esp))
    BY DEF Owned
  <2> QED
    BY <1>2, <1>5, <2>1, PickedMembers
<1>7. \A s : s \in All <=>
        \/ \E k \in 1..Len(out.sessions) : /\ Representable(Parse(out.sessions[k]))
                                           /\ s = Assess(Finish(Parse(out.sessions[k])))
        \/ \E k \in 1..Len(groups) :
             s = Assess(Classify(OrphanRecord(groups[k]), BusiestFlow(groups[k])))
  <2>1. \A s : s \in All <=> \E t \in ToSet(SessionsIn(out)) : s = Assess(t)
    BY <1>4, <1>6, SessionsAre DEF All
  <2>2. \A t : t \in ToSet(SessionsIn(out)) <=>
             \/ \E k \in 1..Len(out.sessions) : /\ Representable(Parse(out.sessions[k]))
                                                /\ t = Finish(Parse(out.sessions[k]))
             \/ \E k \in 1..Len(groups) :
                  t = Classify(OrphanRecord(groups[k]), BusiestFlow(groups[k]))
    BY <1>4, <1>6, SessionsAre DEF groups
  <2> QED
    BY <2>1, <2>2
<1>8. \A k \in 1..Len(groups) :
        Assess(Classify(OrphanRecord(groups[k]), BusiestFlow(groups[k]))).session_id[1] = "esp"
  <2> SUFFICES ASSUME NEW k \in 1..Len(groups)
               PROVE  Assess(Classify(OrphanRecord(groups[k]), BusiestFlow(groups[k])))
                        .session_id[1] = "esp"
    OBVIOUS
  <2>1. PeerGroup(groups[k], out.orphan_esp)
    BY <1>6, OrphanGroupsOf DEF groups
  <2>2. Len(groups[k]) \in Nat \ {0}
    BY <2>1 DEF PeerGroup
  <2> QED
    BY <2>2, OrphanReported
<1>9. \A raw : Assess(Finish(Parse(raw))).session_id[1] = "ike"
  BY SaReported
<1>10. \A s : s \in IkeSessions <=> s \in All /\ s.session_id[1] = "ike"
  BY <1>3 DEF IkeSessions
<1>11. \A s : s \in IkeSessions <=> \E raw \in RawSas : /\ Representable(Parse(raw))
                                                         /\ s = Assess(Finish(Parse(raw)))
  BY <1>3, <1>4, <1>7, <1>8, <1>9, <1>10
<1>12. \A s \in Sessions \ IkeSessions :
         \E esp : s = Assess(Classify(OrphanRecord(esp), BusiestFlow(esp)))
  BY <1>3, <1>7, <1>9, <1>10
<1> QED
  BY <1>11, <1>12 DEF SessionsSorted

\* The IKE sessions of a report are the SAs that can be represented.
LEMMA IkeSessionsAre ==
    Analysed => \A s : s \in IkeSessions
                  <=> \E raw \in RawSas : /\ Representable(Parse(raw))
                                          /\ s = Assess(Finish(Parse(raw)))
BY SessionsSort DEF SessionsSorted

VersionOf(raw) == IF raw.ike_version = "IKEv1" THEN "IKEv1" ELSE "IKEv2"

\* A parser reads some messages of an SA: those of its version, in their order.
LEMMA MessagesAre ==
    ASSUME NEW raw, NEW ike, SaShape(raw, ike),
           \A j \in 1..Len(ike) : ike[j].msg.version \in {"IKEv1", "IKEv2"}
    PROVE  /\ Len(MessagesIn(raw)) \in Nat \ {0}
           /\ \A m : m \in ToSet(MessagesIn(raw))
                       <=> \E k \in 1..Len(MessagesIn(raw)) : m = MessagesIn(raw)[k]
           /\ \A m : m \in ToSet(MessagesIn(raw))
                       <=> \E k \in 1..Len(raw.ike_frames) :
                             m = raw.ike_frames[k].msg /\ m.version = VersionOf(raw)
           /\ \A m \in ToSet(MessagesIn(raw)) : m.initiator_spi = raw.spi
<1> DEFINE frames == raw.ike_frames
           all == [k \in 1..Len(frames) |-> frames[k].msg]
           I == {k \in 1..Len(frames) : all[k].version = VersionOf(raw)}
           out == MessagesIn(raw)
<1>1. /\ Len(frames) \in Nat \ {0}
      /\ \A k \in 1..Len(frames) : /\ frames[k].msg.initiator_spi = raw.spi
                                   /\ frames[k].msg.version \in {"IKEv1", "IKEv2"}
      /\ raw.ike_version = frames[1].msg.version
  <2>1. FramesShape(frames, ike, raw.spi) /\ raw.ike_version = frames[1].msg.version
    BY DEF SaShape
  <2> HIDE DEF frames
  <2> QED
    BY <2>1 DEF FramesShape
<1> HIDE DEF frames
<1>2. Len(all) = Len(frames) /\ \A k \in 1..Len(frames) : all[k] = frames[k].msg
  BY <1>1
<1>3. out = Picked(all, I)
  BY <1>2 DEF MessagesIn, MessagesOf, Filter, frames, VersionOf
<1>4. /\ I \in SUBSET (1..Len(frames))
      /\ \A k : k \in I <=> k \in 1..Len(frames) /\ all[k].version = VersionOf(raw)
  OBVIOUS
<1>5. 1 \in I
  BY <1>1, <1>2, <1>4 DEF VersionOf
<1> HIDE DEF all, I
<1>6. /\ Len(Picked(all, I)) \in Nat
      /\ Picked(all, I) \in Seq(ToSet(Picked(all, I)))
      /\ \A x : x \in ToSet(Picked(all, I)) <=> \E k \in I : x = all[k]
  <2>1. Len(frames) \in Nat /\ I \in SUBSET (1..Len(frames))
    BY <1>1, <1>4
  <2>2. Len(Picked(all, I)) = Cardinality(I) /\ Cardinality(I) \in Nat
    BY <2>1, PickedMembers
  <2>3. Picked(all, I) \in Seq(ToSet(Picked(all, I)))
    BY <2>1, PickedMembers
  <2>4. \A x : x \in ToSet(Picked(all, I)) <=> \E k \in I : x = all[k]
    BY <2>1, PickedMembers, Zenon
  <2> QED
    BY <2>2, <2>3, <2>4
<1> HIDE DEF out
<1>7. \A m : m \in ToSet(out) <=> \E k \in 1..Len(out) : m = out[k]
  BY <1>3, <1>6 DEF ToSet
<1>8. Len(out) \in Nat \ {0}
  <2>1. all[1] \in ToSet(out)
    BY <1>3, <1>5, <1>6
  <2>2. PICK k \in 1..Len(out) : all[1] = out[k]
    BY <1>7, <2>1
  <2>3. Len(out) \in Nat
    BY <1>3, <1>6
  <2> QED
    BY <2>2, <2>3
<1>9. \A m : m \in ToSet(out)
               <=> \E k \in 1..Len(frames) : m = frames[k].msg /\ m.version = VersionOf(raw)
  BY <1>2, <1>3, <1>4, <1>6
<1>10. \A m \in ToSet(out) : m.initiator_spi = raw.spi
  BY <1>1, <1>9
<1> QED
  BY <1>7, <1>8, <1>9, <1>10 DEF out, frames

\* What the report says of an SA is what its parser read, but for what is guessed.
LEMMA SessionRecord ==
    ASSUME NEW raw
    PROVE  LET s == Assess(Finish(Parse(raw)))
               read == Parse(raw).session
           IN  /\ \A x \in SessionKeys \ {"ike"} : s[x] = read[x]
               /\ DOMAIN s.ike = DOMAIN read.ike
               /\ \A f \in DOMAIN read.ike \ Guessed : s.ike[f] = read.ike[f]
               /\ \A f \in {"encryption", "dh_group"} \cap DOMAIN read.ike :
                    s.ike[f] = FillFromStructure(read, raw).ike[f]
<1> DEFINE sa == Parse(raw)
           fin == Finish(sa)
           s == Assess(fin)
<1>1. sa.raw = raw /\ DOMAIN sa.session = SessionKeys
  BY ParsedShape
<1> HIDE DEF sa
<1>2. /\ DOMAIN fin = DOMAIN sa.session \cup {"pkt_total", "traffic_prediction"}
      /\ \A x \in DOMAIN sa.session \ {"ike"} : fin[x] = sa.session[x]
      /\ DOMAIN fin.ike = DOMAIN sa.session.ike
      /\ \A x \in DOMAIN sa.session.ike \ Guessed : fin.ike[x] = sa.session.ike[x]
      /\ \A x \in {"encryption", "dh_group"} \cap DOMAIN sa.session.ike :
           fin.ike[x] = FillFromStructure(sa.session, sa.raw).ike[x]
  BY <1>1, FinishKeeps DEF SessionKeys
<1> HIDE DEF fin
<1>3. \A x \in DOMAIN fin : s[x] = fin[x]
  BY AssessKeeps
<1> HIDE DEF s
<1>4. s.ike = fin.ike
  BY <1>1, <1>2, <1>3 DEF SessionKeys
<1>5. \A x \in SessionKeys \ {"ike"} : s[x] = sa.session[x]
  BY <1>1, <1>2, <1>3
<1> QED
  BY <1>1, <1>2, <1>4, <1>5 DEF s, fin, sa

\* The SA that a session of the report is about.
IsOf(s, raw) ==
    /\ Representable(Parse(raw))
    /\ s = Assess(Finish(Parse(raw)))
    /\ RawIs(raw, Read)
    /\ Spi(s) = raw.spi
    /\ \A x \in RawSas : x.spi = raw.spi => x = raw

\* Every IKE session of the report is about an SA, which has its SPI.
LEMMA SessionsOfRaws ==
    ASSUME Analysed, NEW s \in IkeSessions
    PROVE  \E raw \in RawSas : IsOf(s, raw)
<1>1. PICK raw \in RawSas : Representable(Parse(raw)) /\ s = Assess(Finish(Parse(raw)))
  BY IkeSessionsAre
<1>2. Len(capture) \in Nat
  BY DEF Analysed
<1>3. /\ RawIs(raw, Read)
      /\ \A x \in RawSas : x.spi = raw.spi => x = raw
  BY <1>1, <1>2, RawsAre DEF RawSas, Ingested, Read
<1>4. \A j \in 1..Len(Read.ike) : Read.ike[j].msg.version \in {"IKEv1", "IKEv2"}
  BY <1>2, FramesRead DEF Read
<1>5. SaShape(raw, Read.ike)
  BY <1>3 DEF RawIs
<1> DEFINE messages == MessagesIn(raw)
           parsed == Parse(raw).session
<1>6. /\ Len(messages) \in Nat \ {0}
      /\ \A m : m \in ToSet(messages) <=> \E k \in 1..Len(messages) : m = messages[k]
      /\ \A m \in ToSet(messages) : m.initiator_spi = raw.spi
  BY <1>4, <1>5, MessagesAre
<1>7. parsed.session_id[2] = messages[1].initiator_spi
  BY ParsedIke
<1> HIDE DEF messages, parsed
<1>8. 1 \in 1..Len(messages)
  BY <1>6
<1>9. messages[1].initiator_spi = raw.spi
  BY <1>6, <1>8
<1>10. s.session_id = parsed.session_id
  BY <1>1, SessionRecord DEF SessionKeys, parsed
<1>11. Spi(s) = raw.spi
  BY <1>7, <1>9, <1>10 DEF Spi
<1> QED
  BY <1>1, <1>3, <1>11 DEF IsOf

\* The verdict on anti-replay takes every number that is cut off for zero.
LEMMA AnalysedReplay ==
    ASSUME PipelineAssumption, Analysed, NEW s \in IkeSessions
    PROVE  s.ike.anti_replay = FALSE <=> \E e \in EspOf(s) : StuckCutAt(EspOf(s), e)
<1>1. PICK raw \in RawSas : IsOf(s, raw)
  BY SessionsOfRaws
<1>2. EspOf(s) = ToSet(raw.esp_frames)
  <2>1. {x \in RawSas : x.spi = Spi(s)} = {raw}
    BY <1>1 DEF IsOf
  <2> QED
    BY <2>1 DEF EspOf
<1>3. s.ike.anti_replay = anti_replay_from_esp(EspRecords(raw.esp_frames))
  <2> DEFINE ike == Parse(raw).session.ike
  <2>1. PICK edge : /\ RecordHas(ike, FieldsIn(raw), edge)
                    /\ edge.anti_replay = anti_replay_from_esp(EspRecords(raw.esp_frames))
    BY ParsedIke
  <2>2. \A f \in DOMAIN ike \ Guessed : s.ike[f] = ike[f]
    BY <1>1, SessionRecord DEF IsOf
  <2> HIDE DEF ike
  <2>3. "anti_replay" \in DOMAIN ike \ Guessed /\ ike["anti_replay"] = edge["anti_replay"]
    BY <2>1 DEF RecordHas, EdgeFields, Guessed
  <2> QED
    BY <2>1, <2>2, <2>3
<1>4. anti_replay_from_esp(EspRecords(raw.esp_frames)) = FALSE
        <=> \E e \in ToSet(raw.esp_frames) : StuckCutAt(ToSet(raw.esp_frames), e)
  BY <1>1, ReplayOf DEF IsOf, RawIs
<1> QED
  BY <1>2, <1>3, <1>4

\* Where no number is cut off, an SA is stuck with zeros when it is stuck.
LEMMA StuckAlike ==
    ASSUME NEW esp, NEW e \in esp, \A d \in esp : Numbered(d)
    PROVE  StuckCutAt(esp, e) <=> StuckAt(esp, e)
<1>1. \A d \in esp : Zero(d.spi) = d.spi /\ Zero(d.seq) = d.seq
  BY DEF Numbered, Zero
<1>2. SaOfPacket(esp, e) = {d \in esp : d.spi = e.spi}
  BY <1>1 DEF SaOfPacket
<1>3. \A d \in SaOfPacket(esp, e) : Zero(d.seq) = Zero(e.seq) <=> d.seq = e.seq
  BY <1>1 DEF SaOfPacket
<1> QED
  BY <1>2, <1>3 DEF StuckCutAt, StuckAt

\* Where no ESP header of a session is cut off, anti-replay is called off exactly when
\* one ESP SA repeats its number (anti_replay_from_esp).
THEOREM ReplayIsRight == StoredSpec => []ReplayVerdict
<1>1. Analysed => ReplayVerdict
  <2> SUFFICES ASSUME Analysed, NEW s \in IkeSessions, \A e \in EspOf(s) : Numbered(e)
               PROVE  s.ike.anti_replay = FALSE <=> \E e \in EspOf(s) : StuckAt(EspOf(s), e)
    BY DEF ReplayVerdict
  <2>1. s.ike.anti_replay = FALSE <=> \E e \in EspOf(s) : StuckCutAt(EspOf(s), e)
    BY AnalysedReplay, PipelineAssumption
  <2>2. \A e \in EspOf(s) : StuckCutAt(EspOf(s), e) <=> StuckAt(EspOf(s), e)
    BY StuckAlike
  <2> QED
    BY <2>1, <2>2
<1> QED
  BY <1>1, AnalysisFollows, PTL
-----------------------------------------------------------------------------
(* ObservedOnly *)

\* A set of positions has a first one and a last one.
LEMMA ExtremesOf ==
    ASSUME NEW n \in Nat, NEW I \in SUBSET (1..n), I # {}
    PROVE  /\ Min(I) \in I /\ \A i \in I : Min(I) <= i
           /\ Max(I) \in I /\ \A i \in I : i <= Max(I)
<1>1. \E m \in I : \A i \in I : m <= i
  BY LeastOf
<1>2. \E m \in I : \A i \in I : i <= m
  <2> DEFINE J == {(n + 1) - i : i \in I}
  <2>1. J \in SUBSET (1..n) /\ J # {}
    <3>1. \A i \in I : (n + 1) - i \in 1..n
      OBVIOUS
    <3> QED
      BY <3>1
  <2>2. PICK l \in J : \A j \in J : l <= j
    BY <2>1, LeastOf
  <2>3. PICK m \in I : l = (n + 1) - m
    BY <2>2
  <2>4. ASSUME NEW i \in I PROVE i <= m
    <3>1. (n + 1) - i \in J
      OBVIOUS
    <3>2. (n + 1) - m <= (n + 1) - i
      BY <2>2, <2>3, <3>1
    <3>3. i \in 1..n /\ m \in 1..n
      OBVIOUS
    <3> QED
      BY <3>2, <3>3
  <2> QED
    BY <2>4
<1>3. Min(I) \in I /\ \A i \in I : Min(I) <= i
  BY <1>1 DEF Min
<1>4. Max(I) \in I /\ \A i \in I : i <= Max(I)
  BY <1>2 DEF Max
<1> QED
  BY <1>3, <1>4

\* A key of the dict holds one of the values it was given: the last, or the first.
LEMMA SetOf ==
    ASSUME NEW values, Len(values) \in Nat
    PROVE  /\ LastSet(values) # Unset =>
                \E k \in 1..Len(values) : /\ values[k] = LastSet(values)
                                          /\ \A j \in (k + 1)..Len(values) : values[j] = Unset
           /\ FirstSet(values) # Unset =>
                \E k \in 1..Len(values) : values[k] = FirstSet(values)
<1> DEFINE n == Len(values)
           set == {k \in 1..n : values[k] # Unset}
<1>1. set \in SUBSET (1..n)
  OBVIOUS
<1>2. ASSUME LastSet(values) # Unset
      PROVE  \E k \in 1..n : /\ values[k] = LastSet(values)
                             /\ \A j \in (k + 1)..n : values[j] = Unset
  <2>1. set # {} /\ LastSet(values) = values[Max(set)]
    BY <1>2 DEF LastSet
  <2>2. Max(set) \in set /\ \A k \in set : k <= Max(set)
    BY <1>1, <2>1, ExtremesOf
  <2> DEFINE m == Max(set)
  <2> HIDE DEF m
  <2>3. m \in 1..n /\ \A k \in set : k <= m
    BY <1>1, <2>2 DEF m
  <2>4. ASSUME NEW j \in (m + 1)..n PROVE values[j] = Unset
    <3>1. j \in 1..n /\ ~(j <= m)
      BY <2>3
    <3> QED
      BY <2>3, <3>1
  <2> QED
    BY <2>1, <2>3, <2>4 DEF m
<1>3. ASSUME FirstSet(values) # Unset PROVE \E k \in 1..n : values[k] = FirstSet(values)
  <2>1. set # {} /\ FirstSet(values) = values[Min(set)]
    BY <1>3 DEF FirstSet
  <2>2. Min(set) \in set
    BY <1>1, <2>1, ExtremesOf
  <2> QED
    BY <1>1, <2>1, <2>2
<1> QED
  BY <1>2, <1>3

\* Every proposal that is applied was in a message.
LEMMA AppliedAre ==
    ASSUME NEW messages, Len(messages) \in Nat
    PROVE  LET applied == AppliedProposals(messages)
           IN  /\ Len(applied) \in Nat
               /\ \A i \in 1..Len(applied) : \E k \in 1..Len(messages) :
                    applied[i] = OfferIn(messages[k]) /\ OfferIn(messages[k]) # Unset
<1> DEFINE n == Len(messages)
           Answers(k) == messages[k].is_response /\ OfferIn(messages[k]) # Unset
           Applied(k) == /\ OfferIn(messages[k]) # Unset
                         /\ Answers(k) \/ \A j \in 1..(k - 1) : ~Answers(j)
           places == [k \in 1..n |-> k]
           I == {i \in 1..n : Applied(places[i])}
           picked == Picked(places, I)
           applied == AppliedProposals(messages)
<1>1. Len(places) = n
  OBVIOUS
<1>2. applied = [k \in 1..Len(picked) |-> OfferIn(messages[picked[k]])]
  BY <1>1 DEF AppliedProposals, Filter
<1>3. /\ I \in SUBSET (1..n)
      /\ \A i \in I : places[i] = i /\ OfferIn(messages[i]) # Unset
  OBVIOUS
<1> HIDE DEF places, I
<1> HIDE DEF n
<1>4. /\ Len(picked) \in Nat /\ picked \in Seq(ToSet(picked))
      /\ \A x : x \in ToSet(picked) <=> \E i \in I : x = places[i]
  <2>1. n \in Nat /\ I \in SUBSET (1..n)
    BY <1>3 DEF n
  <2>2. /\ Len(Picked(places, I)) = Cardinality(I) /\ Cardinality(I) \in Nat
        /\ Picked(places, I) \in Seq(ToSet(Picked(places, I)))
        /\ \A x : x \in ToSet(Picked(places, I)) <=> \E i \in I : x = places[i]
    BY <2>1, PickedMembers
  <2> QED
    BY <2>2
<1> HIDE DEF picked, applied
<1>5. Len(applied) = Len(picked)
  BY <1>2, <1>4
<1>6. ASSUME NEW k \in 1..Len(picked)
      PROVE  picked[k] \in I /\ applied[k] = OfferIn(messages[picked[k]])
  <2>1. picked[k] \in ToSet(picked)
    BY <1>4
  <2> QED
    BY <1>2, <1>3, <1>4, <2>1
<1> QED
  BY <1>3, <1>4, <1>5, <1>6 DEF applied, n

\* What a message of IKEv2 says of the suite.
TellsV2(m) ==
    {<<"dh_group", KeGroup(m)>>, <<"auth_method", AuthOf(m)>>}
    \cup IF OfferIn(m) = Unset THEN {}
         ELSE {<<"encryption", Encryption(OfferIn(m))>>, <<"integrity", Integrity(OfferIn(m))>>,
               <<"prf", Prf(OfferIn(m))>>, <<"dh_group", DhGroup(OfferIn(m))>>}

\* What the IKEv2 parser sets in the suite, a message of the SA tells.
LEMMA ToldInV2 ==
    ASSUME NEW messages, Len(messages) \in Nat, NEW ctx, NEW complete
    PROVE  LET fields == FieldsV2(messages, ctx, AppliedProposals(messages), complete)
           IN  \A f \in Suite : \/ fields[f] = Unset
                                \/ \E k \in 1..Len(messages) : <<f, fields[f]>> \in TellsV2(messages[k])
<1> DEFINE n == Len(messages)
           applied == AppliedProposals(messages)
           fields == FieldsV2(messages, ctx, applied, complete)
           c == Len(applied)
           ciphers == [i \in 1..c |-> Encryption(applied[i])]
           hashes == [i \in 1..c |-> Integrity(applied[i])]
           prfs == [i \in 1..c |-> Prf(applied[i])]
           dhs == [i \in 1..c |-> DhGroup(applied[i])]
           kes == [k \in 1..n |-> KeGroup(messages[k])]
           auths == [k \in 1..n |-> AuthOf(messages[k])]
<1>1. /\ fields["encryption"] = LastSet(ciphers)
      /\ fields["integrity"] = LastSet(hashes)
      /\ fields["prf"] = LastSet(prfs)
      /\ fields["dh_group"] = Default(LastSet(dhs), FirstSet(kes))
      /\ fields["auth_method"] = LastSet(auths)
  BY DEF FieldsV2, LastOf, FirstOf
<1> HIDE DEF fields, applied
<1>2. /\ c \in Nat
      /\ \A i \in 1..c : \E k \in 1..n :
           applied[i] = OfferIn(messages[k]) /\ OfferIn(messages[k]) # Unset
  BY AppliedAre DEF applied
<1>3. /\ Len(ciphers) = c /\ Len(hashes) = c /\ Len(prfs) = c /\ Len(dhs) = c
      /\ Len(kes) = n /\ Len(auths) = n
  BY <1>2
<1>4. /\ \A i \in 1..c : /\ ciphers[i] = Encryption(applied[i])
                         /\ hashes[i] = Integrity(applied[i])
                         /\ prfs[i] = Prf(applied[i])
                         /\ dhs[i] = DhGroup(applied[i])
      /\ \A k \in 1..n : kes[k] = KeGroup(messages[k]) /\ auths[k] = AuthOf(messages[k])
  OBVIOUS
<1> HIDE DEF c, n, ciphers, hashes, prfs, dhs, kes, auths
<1>5. /\ LastSet(ciphers) # Unset => \E i \in 1..c : ciphers[i] = LastSet(ciphers)
      /\ LastSet(hashes) # Unset => \E i \in 1..c : hashes[i] = LastSet(hashes)
      /\ LastSet(prfs) # Unset => \E i \in 1..c : prfs[i] = LastSet(prfs)
      /\ LastSet(dhs) # Unset => \E i \in 1..c : dhs[i] = LastSet(dhs)
      /\ FirstSet(kes) # Unset => \E k \in 1..n : kes[k] = FirstSet(kes)
      /\ LastSet(auths) # Unset => \E k \in 1..n : auths[k] = LastSet(auths)
  BY <1>2, <1>3, SetOf DEF n
<1>6. \A i \in 1..c : \E k \in 1..n :
        {<<"encryption", ciphers[i]>>, <<"integrity", hashes[i]>>, <<"prf", prfs[i]>>,
         <<"dh_group", dhs[i]>>} \subseteq TellsV2(messages[k])
  BY <1>2, <1>4 DEF TellsV2
<1>7. \A k \in 1..n : {<<"dh_group", kes[k]>>, <<"auth_method", auths[k]>>} \subseteq TellsV2(messages[k])
  BY <1>4 DEF TellsV2
<1> HIDE DEF TellsV2
<1> DEFINE Fine(f) == \/ fields[f] = Unset
                      \/ \E k \in 1..n : <<f, fields[f]>> \in TellsV2(messages[k])
<1>8. Fine("encryption") /\ Fine("integrity") /\ Fine("prf")
  BY <1>1, <1>5, <1>6
<1>9. Fine("dh_group")
  BY <1>1, <1>5, <1>6, <1>7 DEF Default
<1>10. Fine("auth_method")
  BY <1>1, <1>5, <1>7
<1> QED
  BY <1>8, <1>9, <1>10 DEF Suite, fields, applied, n

\* What a message of IKEv1 says of the suite.
TellsV1(m) ==
    LET sa == SaOf(m).transform
        v1 == IF m.exchange = "QUICK" THEN ApplyQuickMode(Phase1Unread, sa, FALSE)
              ELSE ApplyPhase1Sa(sa)
    IN  IF HasV1(m, "SA") /\ sa # Malformed THEN {<<f, v1[f]>> : f \in Suite} ELSE {}

\* Phase 1 is read from a message that has an SA payload, and is no Quick Mode.
LEMMA Phase1Of ==
    ASSUME NEW messages, Len(messages) \in Nat,
           \A k \in 1..Len(messages) :
             messages[k].exchange = "QUICK" => messages[k].message_id # 0
    PROVE  \/ Phase1Transform(messages) = Malformed
           \/ \E k \in 1..Len(messages) :
                /\ HasV1(messages[k], "SA") /\ messages[k].exchange # "QUICK"
                /\ Phase1Transform(messages) = SaOf(messages[k]).transform
<1> DEFINE n == Len(messages)
           I == {k \in 1..n : messages[k].message_id = 0 /\ HasV1(messages[k], "SA")}
           J == {k \in 1..n : messages[k].exchange # "QUICK" /\ HasV1(messages[k], "SA")}
           initial == Phase1Initial(messages)
           other == IF J = {} THEN None ELSE messages[Min(J)]
           m == IF initial # None THEN initial ELSE other
<1>1. initial = IF I = {} THEN None ELSE messages[Min(I)]
  BY DEF Phase1Initial, First
<1>2. Phase1Transform(messages) = IF m = None THEN Malformed ELSE SaOf(m).transform
  BY DEF Phase1Transform, First
<1>3. /\ I \in SUBSET (1..n) /\ J \in SUBSET (1..n)
      /\ \A k \in I \cup J : HasV1(messages[k], "SA") /\ messages[k].exchange # "QUICK"
  OBVIOUS
<1> HIDE DEF I, J, initial
<1>4. (I # {} => Min(I) \in I) /\ (J # {} => Min(J) \in J)
  BY <1>3, ExtremesOf
<1>5. m = None \/ \E k \in I \cup J : m = messages[k]
  BY <1>1, <1>4
<1> HIDE DEF m
<1> QED
  BY <1>2, <1>3, <1>5

\* The Quick Mode that is read is a message of Quick Mode with an SA payload.
LEMMA QuickOf ==
    ASSUME NEW messages, Len(messages) \in Nat
    PROVE  \/ QuickMode(messages) = None
           \/ \E k \in 1..Len(messages) :
                /\ HasV1(messages[k], "SA") /\ messages[k].exchange = "QUICK"
                /\ QuickMode(messages) = messages[k]
<1> DEFINE n == Len(messages)
           I == {k \in 1..n : messages[k].exchange = "QUICK" /\ HasV1(messages[k], "SA")}
<1>1. QuickMode(messages) = IF I = {} THEN None ELSE messages[Min(I)]
  BY DEF QuickMode, First
<1>2. I \in SUBSET (1..n)
  OBVIOUS
<1>3. I # {} => Min(I) \in I
  BY <1>2, ExtremesOf
<1> QED
  BY <1>1, <1>3

Phase1Fields == {"encryption", "integrity", "prf", "auth_method", "dh_group", "sa_lifetime_sec"}

\* A field of the IPsec SA is what its Quick Mode says, or what phase 1 said.
LEMMA IpsecOver ==
    ASSUME NEW phase1, DOMAIN phase1 = Phase1Fields, NEW attrs, NEW id
    PROVE  \A f \in Suite : SuiteOfIpsec(phase1, attrs, id)[f]
                              \in {SuiteOfIpsec(Phase1Unread, attrs, id)[f], phase1[f]}
<1> DEFINE out == SuiteOfIpsec(phase1, attrs, id)
           alone == SuiteOfIpsec(Phase1Unread, attrs, id)
           integrity == Canon(attrs.auth_alg, canon_v1_esp_integrity)
           cipher == canon_v1_esp_encryption(id, attrs.key_length)
           group == canon_dh_group(attrs.group_desc)
           given == attrs.group_desc \notin {None, 0}
           Over(p) == [p EXCEPT !.encryption = cipher,
                                !.integrity = Default(integrity, @),
                                !.dh_group = IF given THEN group ELSE @,
                                !.sa_lifetime_sec = Default(LifetimeOf(attrs), @)]
<1>1. out = Over(phase1) /\ alone = Over(Phase1Unread)
  BY DEF SuiteOfIpsec
<1>2. DOMAIN Phase1Unread = Phase1Fields
  BY DEF Phase1Unread, Phase1Fields
<1> HIDE DEF integrity, cipher, group, given, out, alone
<1>3. ASSUME NEW p, DOMAIN p = Phase1Fields
      PROVE  /\ Over(p)["encryption"] = cipher
             /\ Over(p)["integrity"] = Default(integrity, p["integrity"])
             /\ Over(p)["dh_group"] = IF given THEN group ELSE p["dh_group"]
             /\ Over(p)["prf"] = p["prf"]
             /\ Over(p)["auth_method"] = p["auth_method"]
  <2>1. \A f \in {"encryption", "integrity", "dh_group", "prf", "auth_method"} : f \in DOMAIN p
    BY <1>3 DEF Phase1Fields
  <2>2. Over(p)["encryption"] = cipher
    BY <2>1
  <2>3. Over(p)["integrity"] = Default(integrity, p["integrity"])
    BY <2>1
  <2>4. Over(p)["dh_group"] = IF given THEN group ELSE p["dh_group"]
    BY <2>1
  <2>5. Over(p)["prf"] = p["prf"]
    BY <2>1
  <2>6. Over(p)["auth_method"] = p["auth_method"]
    BY <2>1
  <2> QED
    BY <2>2, <2>3, <2>4, <2>5, <2>6
<1> HIDE DEF Over
<1>4. /\ out["encryption"] = alone["encryption"]
      /\ out["integrity"] \in {alone["integrity"], phase1["integrity"]}
      /\ out["dh_group"] \in {alone["dh_group"], phase1["dh_group"]}
      /\ out["prf"] = phase1["prf"]
      /\ out["auth_method"] = phase1["auth_method"]
  BY <1>1, <1>2, <1>3 DEF Default
<1> QED
  BY <1>4 DEF Suite, out, alone

\* What phase 1 and Quick Mode say is in a message.
LEMMA ToldInV1 ==
    ASSUME NEW messages, Len(messages) \in Nat, NEW ctx, NEW complete,
           \A k \in 1..Len(messages) :
             messages[k].exchange = "QUICK" => messages[k].message_id # 0
    PROVE  LET fields == FieldsV1(messages, ctx, complete)
           IN  \A f \in Suite : \/ fields[f] = Unset
                                \/ \E k \in 1..Len(messages) : <<f, fields[f]>> \in TellsV1(messages[k])
<1> DEFINE n == Len(messages)
           t1 == Phase1Transform(messages)
           quick == QuickMode(messages)
           phase1 == IF t1 = Malformed THEN Phase1Unread ELSE ApplyPhase1Sa(t1)
           suite == SuiteV1(t1, quick)
           fields == FieldsV1(messages, ctx, complete)
           Told1(f, value) == \E k \in 1..n : <<f, value>> \in TellsV1(messages[k])
<1>1. DOMAIN phase1 = Phase1Fields
  <2>1. DOMAIN Phase1Unread = Phase1Fields
    BY DEF Phase1Unread, Phase1Fields
  <2>2. DOMAIN ApplyPhase1Sa(t1) = Phase1Fields
    BY DEF ApplyPhase1Sa, Phase1Fields
  <2> QED
    BY <2>1, <2>2
<1>2. \A f \in Suite : phase1[f] = Unset \/ Told1(f, phase1[f])
  <2>1. CASE t1 = Malformed
    <3>1. phase1 = Phase1Unread
      BY <2>1
    <3> HIDE DEF phase1
    <3>2. \A f \in Suite : phase1[f] = Unset
      BY <3>1 DEF Phase1Unread, Suite
    <3> QED
      BY <3>2
  <2>2. CASE t1 # Malformed
    <3>1. PICK k \in 1..n : /\ HasV1(messages[k], "SA") /\ messages[k].exchange # "QUICK"
                            /\ t1 = SaOf(messages[k]).transform
      BY <2>2, Phase1Of
    <3>2. phase1 = ApplyPhase1Sa(t1)
      BY <2>2
    <3> HIDE DEF phase1, t1, n
    <3>3. \A f \in Suite : <<f, phase1[f]>> \in TellsV1(messages[k])
      BY <2>2, <3>1, <3>2 DEF TellsV1
    <3> QED
      BY <3>3
  <2> QED
    BY <2>1, <2>2
<1>3. \A f \in Suite : f \in Phase1Fields
  BY DEF Suite, Phase1Fields
<1>4. \A f \in Suite : suite[f] = Unset \/ Told1(f, suite[f])
  <2> DEFINE none == [mode |-> "unknown", pfs_status |-> "unknown"]
  <2>1. CASE quick = None \/ SaOf(quick).transform = Malformed
    <3>1. suite = Joined(phase1, none)
      BY <2>1 DEF SuiteV1
    <3> HIDE DEF phase1, none, suite, Told1
    <3>2. \A f \in DOMAIN phase1 : Joined(phase1, none)[f] = phase1[f]
      BY JoinedOf
    <3> QED
      BY <1>1, <1>2, <1>3, <3>1, <3>2
  <2>2. CASE ~(quick = None \/ SaOf(quick).transform = Malformed)
    <3>1. PICK k \in 1..n : /\ HasV1(messages[k], "SA") /\ messages[k].exchange = "QUICK"
                            /\ quick = messages[k]
      BY <2>2, QuickOf
    <3> DEFINE t == SaOf(quick).transform
               ipsec == SuiteOfIpsec(phase1, t.attrs, t.id)
               alone == SuiteOfIpsec(Phase1Unread, t.attrs, t.id)
               rest(ke) == ModeAndPfs(t.attrs, ke)
    <3>2. suite = Joined(ipsec, rest(HasV1(quick, "KE")))
      BY <2>2 DEF SuiteV1, ApplyQuickMode
    <3>3. ApplyQuickMode(Phase1Unread, t, FALSE) = Joined(alone, rest(FALSE))
      BY DEF ApplyQuickMode
    <3>4. DOMAIN Phase1Unread = Phase1Fields
      BY DEF Phase1Unread, Phase1Fields
    <3>5. DOMAIN ipsec = DOMAIN phase1 /\ DOMAIN alone = DOMAIN Phase1Unread
      BY DEF SuiteOfIpsec
    <3>6. \A f \in Suite : ipsec[f] \in {alone[f], phase1[f]}
      BY <1>1, IpsecOver
    <3> HIDE DEF phase1, suite, quick, ipsec, alone, rest
    <3>7. /\ \A ke : \A f \in DOMAIN ipsec : Joined(ipsec, rest(ke))[f] = ipsec[f]
          /\ \A ke : \A f \in DOMAIN alone : Joined(alone, rest(ke))[f] = alone[f]
      BY JoinedOf
    <3>8. \A f \in Suite : suite[f] = ipsec[f]
      BY <1>1, <1>3, <3>2, <3>5, <3>7
    <3>9. \A f \in Suite : <<f, ApplyQuickMode(Phase1Unread, t, FALSE)[f]>> \in TellsV1(messages[k])
      BY <2>2, <3>1 DEF TellsV1
    <3>10. \A f \in Suite : <<f, alone[f]>> \in TellsV1(messages[k])
      BY <1>3, <3>3, <3>4, <3>5, <3>7, <3>9
    <3> HIDE DEF n
    <3>11. \A f \in Suite : Told1(f, alone[f])
      BY <3>1, <3>10
    <3> HIDE DEF Told1
    <3> QED
      BY <1>2, <3>6, <3>8, <3>11
  <2> QED
    BY <2>1, <2>2
<1>5. \A f \in Suite : fields[f] = suite[f]
  <2> DEFINE closed == [suite EXCEPT !.sa_lifetime_sec = Default(@, None)]
             NatD(m) == HasV1(m, "NAT_D")
             natd == ctx.nat_traversal \/ Some(messages, NatD)
             rest == [version |-> "IKEv1", aggressive_mode |-> AggressiveMode(messages),
                      ip_version |-> ctx.ip_version, nat_traversal |-> natd,
                      additional_key_exchanges |-> <<>>, capture_complete |-> complete]
  <2>1. fields = Joined(closed, rest)
    BY DEF FieldsV1
  <2>2. DOMAIN fields = IkeFields
    BY FieldsShape
  <2> HIDE DEF suite, natd, fields
  <2>3. DOMAIN rest = {"version", "aggressive_mode", "ip_version", "nat_traversal",
                       "additional_key_exchanges", "capture_complete"}
    OBVIOUS
  <2>4. DOMAIN closed = DOMAIN suite /\ \A f \in DOMAIN suite \ {"sa_lifetime_sec"} : closed[f] = suite[f]
    OBVIOUS
  <2> HIDE DEF closed, rest
  <2>5. /\ DOMAIN Joined(closed, rest) = DOMAIN closed \cup DOMAIN rest
        /\ \A f \in DOMAIN closed : Joined(closed, rest)[f] = closed[f]
    BY JoinedOf
  <2>6. \A f \in Suite : f \in IkeFields /\ f \notin DOMAIN rest /\ f # "sa_lifetime_sec"
    BY <2>3 DEF Suite, IkeFields
  <2> QED
    BY <2>1, <2>2, <2>4, <2>5, <2>6
<1> HIDE DEF suite, fields, phase1, t1, quick
<1> QED
  BY <1>4, <1>5 DEF fields, n

\* What the classifier fills in was unknown, and is marked.
LEMMA FillMarks ==
    ASSUME NEW session, "ike" \in DOMAIN session, Guessed \subseteq DOMAIN session.ike, NEW raw
    PROVE  LET out == FillFromStructure(session, raw)
           IN  \A f \in {"encryption", "dh_group"} :
                 \/ out.ike[f] = session.ike[f]
                 \/ /\ session.ike[f] = "unknown"
                    /\ f \in out.ike["inferred_fields"]
                    /\ PredictIke([k \in 1..Len(raw.ike_frames) |-> raw.ike_frames[k].msg]) # None
                    /\ out.ike[f] = PredictIke([k \in 1..Len(raw.ike_frames) |-> raw.ike_frames[k].msg])[f]
<1> DEFINE out == FillFromStructure(session, raw)
           ike == session.ike
           guess == PredictIke([k \in 1..Len(raw.ike_frames) |-> raw.ike_frames[k].msg])
           filled == FilledIke(ike, guess)
<1>1. \/ out = session
      \/ guess # None /\ out = [session EXCEPT !.ike = filled]
  <2> HIDE DEF filled
  <2> QED
    BY DEF FillFromStructure, Some, filled
<1> HIDE DEF guess
<1>2. {"encryption", "dh_group", "inferred_fields", "confidence_source"} \subseteq DOMAIN ike
  BY DEF Guessed
<1> HIDE DEF ike
<1>3. filled["encryption"] = IF ike["encryption"] = "unknown" THEN guess["encryption"] ELSE ike["encryption"]
  BY <1>2 DEF FilledIke
<1>4. filled["dh_group"] = IF ike["dh_group"] = "unknown" THEN guess["dh_group"] ELSE ike["dh_group"]
  BY <1>2 DEF FilledIke
<1>5. filled["inferred_fields"] = ike["inferred_fields"] \cup Gaps(ike)
  BY <1>2 DEF FilledIke
<1> HIDE DEF out, filled
<1>6. \/ out.ike = session.ike
      \/ guess # None /\ out.ike = filled
  BY <1>1
<1>7. \A f \in {"encryption", "dh_group"} :
        filled[f] = ike[f] \/ /\ ike[f] = "unknown" /\ f \in filled["inferred_fields"]
                              /\ filled[f] = guess[f]
  BY <1>3, <1>4, <1>5 DEF Gaps
<1> QED
  BY <1>6, <1>7 DEF out, ike, guess

\* The guess at the mode takes no mark away.
LEMMA InferMarks ==
    ASSUME NEW session, "ike" \in DOMAIN session, Guessed \subseteq DOMAIN session.ike, NEW flow
    PROVE  session.ike["inferred_fields"] \subseteq InferMode(session, flow).ike["inferred_fields"]
<1> DEFINE out == InferMode(session, flow)
           ike == session.ike
           guess == PredictMode(flow, session.ike.ip_version, session.ike.encryption)
           moded == InferredMode(ike, guess)
<1>1. out = session \/ out = [session EXCEPT !.ike = moded]
  <2> HIDE DEF moded
  <2> QED
    BY DEF InferMode, moded
<1>2. "inferred_fields" \in DOMAIN ike
  BY DEF Guessed
<1> HIDE DEF guess, ike
<1>3. moded["inferred_fields"] = ike["inferred_fields"] \cup {"mode"}
  BY <1>2 DEF InferredMode
<1> HIDE DEF out, moded
<1>4. out.ike = session.ike \/ out.ike = moded
  BY <1>1
<1> QED
  BY <1>3, <1>4 DEF out, ike

\* A field of the suite that the report does not have from the parser was unknown
\* to it, and is marked as inferred.
LEMMA SuiteMarked ==
    ASSUME NEW raw, Guessed \subseteq DOMAIN Parse(raw).session.ike,
           Suite \subseteq DOMAIN Parse(raw).session.ike
    PROVE  LET s == Assess(Finish(Parse(raw)))
               read == Parse(raw).session.ike
           IN  \A f \in Suite :
                 \/ s.ike[f] = read[f]
                 \/ /\ read[f] = "unknown" /\ f \in s.ike["inferred_fields"]
                    /\ f \in {"encryption", "dh_group"}
                    /\ PredictIke([k \in 1..Len(raw.ike_frames) |-> raw.ike_frames[k].msg]) # None
                    /\ s.ike[f] = PredictIke([k \in 1..Len(raw.ike_frames) |-> raw.ike_frames[k].msg])[f]
<1> DEFINE sa == Parse(raw)
           filled == FillFromStructure(sa.session, raw)
           labelled == Classify(filled, sa.flow)
           fin == Finish(sa)
           s == Assess(fin)
           guess == PredictIke([k \in 1..Len(raw.ike_frames) |-> raw.ike_frames[k].msg])
<1>1. sa.raw = raw /\ DOMAIN sa.session = SessionKeys
  BY ParsedShape
<1>2. /\ DOMAIN s.ike = DOMAIN sa.session.ike
      /\ \A f \in DOMAIN sa.session.ike \ Guessed : s.ike[f] = sa.session.ike[f]
      /\ \A f \in {"encryption", "dh_group"} \cap DOMAIN sa.session.ike : s.ike[f] = filled.ike[f]
  BY SessionRecord
<1>3. /\ DOMAIN filled = DOMAIN sa.session
      /\ DOMAIN filled.ike = DOMAIN sa.session.ike
  BY <1>1, FillKeeps DEF SessionKeys
<1>4. \A f \in {"encryption", "dh_group"} :
        \/ filled.ike[f] = sa.session.ike[f]
        \/ /\ sa.session.ike[f] = "unknown" /\ f \in filled.ike["inferred_fields"]
           /\ guess # None /\ filled.ike[f] = guess[f]
  BY <1>1, FillMarks DEF SessionKeys
<1>5. fin = InferMode(labelled, sa.flow)
  BY <1>1 DEF Finish
<1> HIDE DEF filled, guess, sa
<1>6. /\ DOMAIN labelled = DOMAIN filled \cup {"pkt_total", "traffic_prediction"}
      /\ \A x \in DOMAIN filled : labelled[x] = filled[x]
  BY ClassifyKeeps
<1>7. labelled.ike = filled.ike /\ "ike" \in DOMAIN labelled
  BY <1>1, <1>3, <1>6 DEF SessionKeys
<1> HIDE DEF labelled
<1>8. Guessed \subseteq DOMAIN labelled.ike
  BY <1>3, <1>7 DEF sa
<1>9. filled.ike["inferred_fields"] \subseteq fin.ike["inferred_fields"]
  BY <1>5, <1>7, <1>8, InferMarks
<1>10. "ike" \in DOMAIN fin
  BY <1>5, <1>7, InferKeeps
<1> HIDE DEF fin
<1>11. \A x \in DOMAIN fin : s[x] = fin[x]
  BY AssessKeeps
<1> HIDE DEF s
<1>12. s.ike = fin.ike
  BY <1>10, <1>11
<1>13. \A f \in Suite : f \in {"encryption", "dh_group"} \/ f \notin Guessed
  BY DEF Suite, Guessed
<1>14. Suite \subseteq DOMAIN sa.session.ike
  BY DEF sa
<1>15. \A f \in Suite :
         \/ s.ike[f] = sa.session.ike[f]
         \/ /\ sa.session.ike[f] = "unknown" /\ f \in s.ike["inferred_fields"]
            /\ f \in {"encryption", "dh_group"} /\ guess # None /\ s.ike[f] = guess[f]
  BY <1>2, <1>4, <1>9, <1>12, <1>13, <1>14
<1> QED
  BY <1>15 DEF s, fin, sa, guess

\* frame is the IKE message that the packet p carries.
IsFrameOf(frame, p) == frame.msg = p.msg /\ p.msg # Malformed /\ PeersOf(frame) = PeersOf(p)

\* Every message that is read was in a packet.
LEMMA MessagesSent ==
    ASSUME Analysed
    PROVE  \A j \in 1..Len(Read.ike) : \E p \in Alphabet :
             /\ Read.ike[j].msg = p.msg /\ p.msg # Malformed
             /\ PeersOf(Read.ike[j]) = PeersOf(p)
<1> DEFINE frames == [n \in 1..Len(capture) |-> FrameOf(capture[n], n)]
           I == {i \in 1..Len(capture) : frames[i].kind = "ike"}
           ike == Picked(frames, I)
<1>1. /\ capture \in Seq(Alphabet) /\ Len(capture) \in Nat
      /\ \A n \in 1..Len(capture) : capture[n] \in Alphabet
  BY DEF Analysed
<1>2. Len(frames) = Len(capture)
  BY <1>1
<1>3. Read.ike = ike
  BY <1>2 DEF Read, read_capture, Filter
<1>4. \A p, n : FrameOf(p, n).kind = "ike" => IsFrameOf(FrameOf(p, n), p)
  <2> SUFFICES ASSUME NEW p, NEW n, FrameOf(p, n).kind = "ike"
               PROVE  IsFrameOf(FrameOf(p, n), p)
    OBVIOUS
  <2>1. Skipped.kind # "ike"
    BY DEF Skipped
  <2>2. \A proto : EspFrame(p, proto, n).kind # "ike"
    BY DEF EspFrame
  <2>3. IkeFrame(p, n).msg = p.msg /\ PeersOf(IkeFrame(p, n)) = PeersOf(p)
    BY DEF IkeFrame, PeersOf
  <2>4. \/ FrameOf(p, n) = Skipped
        \/ FrameOf(p, n) = EspFrame(p, p.proto, n) \/ FrameOf(p, n) = EspFrame(p, "ESP", n)
        \/ FrameOf(p, n) = IkeFrame(p, n) /\ p.msg # Malformed
    BY DEF FrameOf
  <2> QED
    BY <2>1, <2>2, <2>3, <2>4 DEF IsFrameOf
<1>5. /\ I \in SUBSET (1..Len(capture))
      /\ \A i \in I : IsFrameOf(frames[i], capture[i])
  BY <1>4
<1> HIDE DEF frames, I
<1>6. /\ Len(ike) \in Nat /\ ike \in Seq(ToSet(ike))
      /\ \A x : x \in ToSet(ike) <=> \E i \in I : x = frames[i]
  BY <1>1, <1>5, PickedMembers
<1> HIDE DEF ike
<1>7. ASSUME NEW j \in 1..Len(ike) PROVE \E p \in Alphabet : IsFrameOf(ike[j], p)
  <2>1. ike[j] \in ToSet(ike)
    BY <1>6
  <2>2. PICK i \in I : ike[j] = frames[i]
    BY <1>6, <2>1
  <2>3. capture[i] \in Alphabet
    BY <1>1, <1>5
  <2> QED
    BY <1>5, <2>2, <2>3
<1> QED
  BY <1>3, <1>7 DEF IsFrameOf

\* What a message of an SA says is told of its session.
LEMMA ToldByOf ==
    ASSUME Analysed, NEW s, NEW raw, IsOf(s, raw)
    PROVE  /\ FramesWith(Spi(s)) = raw.ike_frames
           /\ MessagesWith(Spi(s)) = {f.msg : f \in ToSet(raw.ike_frames)}
           /\ \A m \in ToSet(MessagesIn(raw)) : ToldBy(m) \subseteq Told(s)
<1>1. SaShape(raw, Read.ike) /\ Spi(s) = raw.spi
  BY DEF IsOf, RawIs
<1> DEFINE frames == raw.ike_frames
<1>2. FramesShape(frames, Read.ike, raw.spi)
  BY <1>1 DEF SaShape
<1> HIDE DEF frames
<1>3. FramesWith(raw.spi) = Picked(Read.ike, OfSpi(Read.ike, raw.spi))
  BY DEF FramesWith, Filter, OfSpi
<1>4. /\ frames = Picked(Read.ike, OfSpi(Read.ike, raw.spi))
      /\ \A x : x \in ToSet(frames) <=> \E m \in 1..Len(frames) : x = frames[m]
  BY <1>2 DEF FramesShape
<1>5. FramesWith(Spi(s)) = frames
  BY <1>1, <1>3, <1>4
<1>6. MessagesWith(Spi(s)) = {f.msg : f \in ToSet(frames)}
  BY <1>5 DEF MessagesWith
<1>7. Len(capture) \in Nat
  BY DEF Analysed
<1>8. \A j \in 1..Len(Read.ike) : Read.ike[j].msg.version \in {"IKEv1", "IKEv2"}
  BY <1>7, FramesRead DEF Read
<1>9. \A m : m \in ToSet(MessagesIn(raw))
               => \E k \in 1..Len(frames) : m = frames[k].msg
  BY <1>1, <1>8, MessagesAre DEF frames
<1>10. ASSUME NEW m \in ToSet(MessagesIn(raw)) PROVE m \in MessagesWith(Spi(s))
  <2>1. PICK k \in 1..Len(frames) : m = frames[k].msg
    BY <1>9
  <2>2. frames[k] \in ToSet(frames)
    BY <1>4
  <2> QED
    BY <1>6, <2>1, <2>2
<1> HIDE DEF frames
<1>11. \A m \in ToSet(MessagesIn(raw)) : ToldBy(m) \subseteq Told(s)
  BY <1>10 DEF Told
<1> QED
  BY <1>5, <1>6, <1>11 DEF frames

\* What the parser has of the suite is unknown, or told by a message of the SA.
LEMMA ReadIsTold ==
    ASSUME QuickModeIsNumbered, Analysed, NEW s, NEW raw, IsOf(s, raw)
    PROVE  LET ike == Parse(raw).session.ike
           IN  /\ Guessed \subseteq DOMAIN ike /\ Suite \subseteq DOMAIN ike
               /\ \A f \in Suite : ike[f] \in {"unknown", None} \/ <<f, ike[f]>> \in Told(s)
<1> DEFINE messages == MessagesIn(raw)
           ctx == FramesCtx(raw.ike_frames, raw.esp_frames)
           fields == FieldsIn(raw)
           ike == Parse(raw).session.ike
<1>1. Len(capture) \in Nat
  BY DEF Analysed
<1>2. \A j \in 1..Len(Read.ike) : Read.ike[j].msg.version \in {"IKEv1", "IKEv2"}
  BY <1>1, FramesRead DEF Read
<1>3. SaShape(raw, Read.ike)
  BY DEF IsOf, RawIs
<1>4. /\ Len(messages) \in Nat
      /\ \A m : m \in ToSet(messages) <=> \E k \in 1..Len(messages) : m = messages[k]
      /\ \A m \in ToSet(messages) : /\ m.version = VersionOf(raw)
                                    /\ \E k \in 1..Len(raw.ike_frames) : m = raw.ike_frames[k].msg
  BY <1>2, <1>3, MessagesAre
<1>5. ASSUME NEW m \in ToSet(messages) PROVE m.exchange = "QUICK" => m.message_id # 0
  <2> DEFINE frames == raw.ike_frames
  <2>1. FramesShape(frames, Read.ike, raw.spi)
    BY <1>3 DEF SaShape
  <2>2. PICK k \in 1..Len(frames) : m = frames[k].msg
    BY <1>4
  <2> HIDE DEF frames
  <2>3. frames[k] \in ToSet(frames)
    BY <2>1 DEF FramesShape
  <2>4. PICK j \in 1..Len(Read.ike) : frames[k] = Read.ike[j]
    BY <2>1, <2>3 DEF FramesShape
  <2>5. PICK p \in Alphabet : Read.ike[j].msg = p.msg /\ p.msg # Malformed
    BY MessagesSent
  <2> QED
    BY <2>2, <2>4, <2>5 DEF QuickModeIsNumbered
<1>6. \A m : ToldBy(m) = IF m.version = "IKEv1" THEN TellsV1(m) ELSE TellsV2(m)
  BY DEF ToldBy, TellsV1, TellsV2
<1>7. \A m \in ToSet(messages) : ToldBy(m) \subseteq Told(s)
  BY ToldByOf
<1> HIDE DEF messages, ctx
<1>8. \A k \in 1..Len(messages) : messages[k] \in ToSet(messages)
  BY <1>4
<1>9. ASSUME NEW f \in Suite PROVE fields[f] = Unset \/ <<f, fields[f]>> \in Told(s)
  <2>1. CASE raw.ike_version = "IKEv1"
    <3>1. fields = FieldsV1(messages, ctx, Phase1Initial(messages) # None)
      BY <2>1 DEF FieldsIn, messages, ctx
    <3> HIDE DEF fields
    <3>2. fields[f] = Unset \/ \E k \in 1..Len(messages) : <<f, fields[f]>> \in TellsV1(messages[k])
      BY <1>4, <1>5, <1>8, <3>1, ToldInV1
    <3>3. \A k \in 1..Len(messages) : TellsV1(messages[k]) \subseteq Told(s)
      BY <1>4, <1>6, <1>7, <1>8, <2>1 DEF VersionOf
    <3> QED
      BY <3>2, <3>3
  <2>2. CASE raw.ike_version # "IKEv1"
    <3> DEFINE applied == AppliedProposals(messages)
    <3>1. fields = FieldsV2(messages, ctx, applied, CompleteV2(messages, applied))
      BY <2>2 DEF FieldsIn, messages, ctx
    <3> HIDE DEF fields
    <3>2. fields[f] = Unset \/ \E k \in 1..Len(messages) : <<f, fields[f]>> \in TellsV2(messages[k])
      BY <1>4, <3>1, ToldInV2
    <3>3. \A k \in 1..Len(messages) : TellsV2(messages[k]) \subseteq Told(s)
      BY <1>4, <1>6, <1>7, <1>8, <2>2 DEF VersionOf
    <3> QED
      BY <3>2, <3>3
  <2> QED
    BY <2>1, <2>2
<1>10. DOMAIN fields = IkeFields
  BY FieldsShape DEF FieldsIn
<1> HIDE DEF fields
<1>11. PICK edge : RecordHas(ike, fields, edge)
  BY ParsedIke DEF fields
<1> HIDE DEF ike
<1>12. /\ DOMAIN ike = IkeFields \cup {"pqc_status"} \cup EdgeFields \cup DOMAIN Fresh
       /\ \A f \in IkeFields : ike[f] = mark_unobserved(fields)[f]
  BY <1>11 DEF RecordHas
<1>13. Guessed \subseteq DOMAIN ike /\ Suite \subseteq DOMAIN ike
  BY <1>12, FreshFields DEF Guessed, Suite, IkeFields
<1> DEFINE marked == mark_unobserved(fields)
<1>14. /\ \A f \in {"encryption", "integrity", "prf", "dh_group"} :
            marked[f] = Default(fields[f], "unknown")
       /\ marked["auth_method"] = Default(fields["auth_method"], None)
  BY <1>10, MarkedShape
<1> HIDE DEF marked
<1>15. \A f \in Suite : ike[f] = marked[f]
  BY <1>12 DEF marked, Suite, IkeFields
<1>16. ASSUME NEW f \in Suite
       PROVE  \/ ike[f] \in {"unknown", None}
              \/ ike[f] = fields[f] /\ fields[f] # Unset
  <2>1. CASE f \in {"encryption", "integrity", "prf", "dh_group"}
    <3>1. ike[f] = Default(fields[f], "unknown")
      BY <1>14, <1>15, <2>1
    <3> QED
      BY <3>1 DEF Default
  <2>2. CASE f = "auth_method"
    <3>1. ike[f] = Default(fields[f], None)
      BY <1>14, <1>15, <2>2
    <3> QED
      BY <3>1 DEF Default
  <2> QED
    BY <2>1, <2>2 DEF Suite
<1> QED
  BY <1>9, <1>13, <1>16 DEF ike

\* Nothing the capture did not show is reported as seen, of any report.
LEMMA AnalysedObserved == QuickModeIsNumbered /\ Analysed => ObservedOnly
<1> SUFFICES ASSUME QuickModeIsNumbered, Analysed, NEW s \in IkeSessions, NEW f \in Suite,
                    Known(s.ike[f])
             PROVE  <<f, s.ike[f]>> \in Told(s) \/ f \in s.ike.inferred_fields
  BY DEF ObservedOnly
<1>1. PICK raw \in RawSas : IsOf(s, raw)
  BY SessionsOfRaws
<1> DEFINE read == Parse(raw).session.ike
<1>2. /\ Guessed \subseteq DOMAIN read /\ Suite \subseteq DOMAIN read
      /\ read[f] \in {"unknown", None} \/ <<f, read[f]>> \in Told(s)
  BY <1>1, ReadIsTold
<1>3. s = Assess(Finish(Parse(raw)))
  BY <1>1 DEF IsOf
<1>4. s.ike[f] = read[f] \/ f \in s.ike["inferred_fields"]
  BY <1>2, <1>3, SuiteMarked
<1> QED
  BY <1>2, <1>4 DEF Known

\* Nothing the capture did not show is reported as seen.
THEOREM OnlyTheObserved ==
    ASSUME QuickModeIsNumbered
    PROVE  StoredSpec => []ObservedOnly
<1>1. Analysed => ObservedOnly
  BY AnalysedObserved
<1> QED
  BY <1>1, AnalysisFollows, PTL
-----------------------------------------------------------------------------
(* FindingsRest *)

\* The clauses of the rules about the suite.
SuiteClauses ==
    {In("encryption", {"DES-CBC", "DES-IV32", "DES-IV64", "NULL"}), In("encryption", {"3DES-CBC"}),
     In("dh_group", {"MODP768"}), In("dh_group", {"MODP1024"}), In("dh_group", {"MODP1536"}),
     In("dh_group", WeakGroups), In("integrity", {"HMAC-MD5"}), In("integrity", {"HMAC-SHA1"}), Psk}

\* A rule about the suite asks for values that are known.
LEMMA ClausesAsk ==
    ASSUME PipelineAssumption, NEW rule \in RuleTable, NEW c \in rule.when, c.field \in Suite
    PROVE  /\ c.op = "in"
           /\ \A value \in c.values : Known(value)
<1>1. /\ \A field, values : /\ In(field, values).field = field
                           /\ In(field, values).op = "in"
                           /\ In(field, values).values = values
      /\ \A field, value : Gt(field, value).field = field
      /\ \A field : NonEmpty(field).field = field
  BY DEF In, Gt, NonEmpty
<1>2. c \in SuiteClauses
  <2> DEFINE rest == {V1, Aggressive, In("pfs_status", {"disabled"}),
                      Gt("sa_lifetime_sec", 86400), Gt("sa_lifetime_sec", 28800),
                      In("fragmented_ike", {TRUE}), In("vendor", {"Cisco"}),
                      In("anti_replay", {FALSE}), In("cert.expired", {TRUE}),
                      In("dpd_status", {"disabled"}), In("ip_version", {"IPv6"}),
                      In("pqc_status", {"classical"}), NonEmpty("gateway_mismatches")}
         apart == {"version", "aggressive_mode", "pfs_status", "sa_lifetime_sec",
                   "fragmented_ike", "vendor", "anti_replay", "cert.expired", "dpd_status",
                   "ip_version", "pqc_status", "gateway_mismatches"}
  <2>1. c \in SuiteClauses \cup rest
    BY DEF RuleTable, Rule, SuiteClauses
  <2>2. V1.field \in apart /\ Aggressive.field \in apart
    BY <1>1 DEF V1, Aggressive
  <2>3. \A x \in rest : x.field \in apart
    <3>1. /\ In("pfs_status", {"disabled"}).field \in apart
          /\ In("fragmented_ike", {TRUE}).field \in apart
          /\ In("vendor", {"Cisco"}).field \in apart
          /\ In("anti_replay", {FALSE}).field \in apart
          /\ In("cert.expired", {TRUE}).field \in apart
          /\ In("dpd_status", {"disabled"}).field \in apart
          /\ In("ip_version", {"IPv6"}).field \in apart
          /\ In("pqc_status", {"classical"}).field \in apart
      BY <1>1
    <3>2. /\ Gt("sa_lifetime_sec", 86400).field \in apart
          /\ Gt("sa_lifetime_sec", 28800).field \in apart
          /\ NonEmpty("gateway_mismatches").field \in apart
      BY <1>1
    <3> HIDE DEF apart
    <3> QED
      BY <2>2, <3>1, <3>2
  <2>4. apart \cap Suite = {}
    BY DEF Suite
  <2> HIDE DEF rest, apart
  <2> QED
    BY <2>1, <2>3, <2>4
<1>3. "unknown" \notin WeakGroups
  BY DEF WeakGroups
<1>4. c.op = "in" /\ "unknown" \notin c.values
  <2> DEFINE values == {{"DES-CBC", "DES-IV32", "DES-IV64", "NULL"}, {"3DES-CBC"}, {"MODP768"},
                        {"MODP1024"}, {"MODP1536"}, WeakGroups, {"HMAC-MD5"}, {"HMAC-SHA1"}, {"PSK"}}
  <2>1. \A v \in values : "unknown" \notin v
    BY <1>3
  <2>2. \E f : \E v \in values : c = In(f, v)
    <3> HIDE DEF values
    <3>1. {{"DES-CBC", "DES-IV32", "DES-IV64", "NULL"}, {"3DES-CBC"}, {"MODP768"}, {"MODP1024"},
           {"MODP1536"}, WeakGroups, {"HMAC-MD5"}, {"HMAC-SHA1"}, {"PSK"}} \subseteq values
      BY DEF values
    <3> QED
      BY <1>2, <3>1, Zenon DEF SuiteClauses, Psk
  <2> HIDE DEF values
  <2> QED
    BY <1>1, <2>1, <2>2
<1> QED
  BY <1>4 DEF Known, PipelineAssumption

\* What a rule found in a record that is not of an SA is not about the suite.
LEMMA OrphanUnknown ==
    ASSUME NEW esp
    PROVE  /\ \A f \in Suite : ~Known(EspOnly(esp).ike[f])
           /\ EspOnly(esp).ike["encryption"] = "unknown"
<1> DEFINE verdict == anti_replay_from_esp(EspRecords(esp))
           ike == [version |-> "IKEv2", aggressive_mode |-> FALSE, ip_version |-> "IPv4",
                   nat_traversal |-> FALSE, encryption |-> "unknown", integrity |-> "unknown",
                   prf |-> "unknown", dh_group |-> "unknown", additional_key_exchanges |-> <<>>,
                   auth_method |-> None, mode |-> "unknown", sa_lifetime_sec |-> None,
                   capture_complete |-> FALSE, pfs_status |-> "unknown", pqc_status |-> "unknown",
                   vendor |-> "unknown", fragmented_ike |-> FALSE, anti_replay |-> verdict,
                   dpd_status |-> "unknown", cert |-> None]
<1>1. EspOnly(esp).ike = Joined(ike, Fresh)
  BY DEF EspOnly
<1> HIDE DEF verdict
<1>2. /\ \A f \in Suite : f \in DOMAIN ike /\ ike[f] \in {None, "unknown"}
      /\ "encryption" \in DOMAIN ike /\ ike["encryption"] = "unknown"
  BY DEF Suite
<1> HIDE DEF ike
<1>3. \A f \in DOMAIN ike : Joined(ike, Fresh)[f] = ike[f]
  BY JoinedOf
<1> QED
  BY <1>1, <1>2, <1>3 DEF Known

\* A session of the report has the findings of the rules that match it.
LEMMA FindingsOfReport ==
    ASSUME NEW t, DOMAIN t = SessionKeys \cup {"pkt_total", "traffic_prediction"}
    PROVE  LET s == Assess(t)
           IN  /\ s.ike = t.ike
               /\ \A finding \in s.security_assessment.findings : \E rule \in RuleTable :
                    Matches(rule, t.ike) /\ finding = Finding(rule, t.ike)
<1> DEFINE extra == [security_assessment |-> evaluate_rules(t)]
           s == Assess(t)
<1>1. s = Joined(t, extra)
  BY DEF Assess
<1>2. DOMAIN extra = {"security_assessment"} /\ extra["security_assessment"] = evaluate_rules(t)
  OBVIOUS
<1> HIDE DEF extra, s
<1>3. /\ \A x \in DOMAIN t : Joined(t, extra)[x] = t[x]
      /\ \A x \in DOMAIN extra \ DOMAIN t : Joined(t, extra)[x] = extra[x]
  BY JoinedOf
<1>4. s.ike = t.ike /\ s.security_assessment = evaluate_rules(t)
  BY <1>1, <1>2, <1>3 DEF SessionKeys
<1>5. evaluate_rules(t).findings = {Finding(r, t.ike) : r \in {x \in RuleTable : Matches(x, t.ike)}}
  BY DEF evaluate_rules
<1> QED
  BY <1>4, <1>5 DEF s

\* A clause about the suite holds of a session whose value it names, and so knows.
LEMMA ClauseKnows ==
    ASSUME PipelineAssumption, NEW rule \in RuleTable, NEW ike, Matches(rule, ike),
           NEW c \in rule.when, c.field \in Suite
    PROVE  Known(ike[c.field])
<1>1. c.op = "in" /\ \A value \in c.values : Known(value)
  BY ClausesAsk
<1>2. Holds(c, ike)
  BY DEF Matches
<1>3. c.field # "cert.expired"
  BY DEF Suite
<1>4. Resolve(ike, c.field) = ike[c.field]
  BY <1>3 DEF Resolve
<1>5. Resolve(ike, c.field) \in c.values
  BY <1>1, <1>2 DEF Holds
<1> QED
  BY <1>1, <1>4, <1>5

\* Every session of a report is assessed, and complete when it is.
LEMMA SessionsAssessed ==
    Analysed => \A s \in Sessions :
      \E t : /\ s = Assess(t)
             /\ DOMAIN t = SessionKeys \cup {"pkt_total", "traffic_prediction"}
             /\ s \notin IkeSessions => \E esp : t.ike = EspOnly(esp).ike
<1> SUFFICES ASSUME Analysed, NEW s \in Sessions
             PROVE  \E t : /\ s = Assess(t)
                           /\ DOMAIN t = SessionKeys \cup {"pkt_total", "traffic_prediction"}
                           /\ s \notin IkeSessions => \E esp : t.ike = EspOnly(esp).ike
  OBVIOUS
<1>1. SessionsSorted
  BY SessionsSort
<1>2. CASE s \in IkeSessions
  <2>1. PICK raw \in RawSas : s = Assess(Finish(Parse(raw)))
    BY <1>1, <1>2 DEF SessionsSorted
  <2> DEFINE sa == Parse(raw)
  <2>2. DOMAIN sa.session = SessionKeys
    BY ParsedShape
  <2> HIDE DEF sa
  <2>3. DOMAIN Finish(sa) = DOMAIN sa.session \cup {"pkt_total", "traffic_prediction"}
    BY <2>2, FinishKeeps DEF SessionKeys
  <2> QED
    BY <1>2, <2>1, <2>2, <2>3 DEF sa
<1>3. CASE s \notin IkeSessions
  <2>1. PICK esp : s = Assess(Classify(OrphanRecord(esp), BusiestFlow(esp)))
    BY <1>1, <1>3 DEF SessionsSorted
  <2> DEFINE rec == OrphanRecord(esp)
             t == Classify(rec, BusiestFlow(esp))
  <2>2. DOMAIN rec = SessionKeys /\ rec.ike = EspOnly(esp).ike
    BY OrphanShape
  <2> HIDE DEF rec
  <2>3. /\ DOMAIN t = DOMAIN rec \cup {"pkt_total", "traffic_prediction"}
        /\ \A x \in DOMAIN rec : t[x] = rec[x]
    BY ClassifyKeeps
  <2> HIDE DEF t
  <2>4. t.ike = EspOnly(esp).ike
    BY <2>2, <2>3 DEF SessionKeys
  <2>5. s = Assess(t)
    BY <2>1 DEF t, rec
  <2> QED
    BY <2>2, <2>3, <2>4, <2>5
<1> QED
  BY <1>2, <1>3

\* In a report that is the analysis of its capture, a finding rests on fields that a
\* message of the SA told, or names those it took from elsewhere.
LEMMA AnalysedFindings == PipelineAssumption /\ QuickModeIsNumbered /\ Analysed => FindingsRest
<1> SUFFICES ASSUME PipelineAssumption, QuickModeIsNumbered, Analysed, NEW s \in Sessions,
                    NEW finding \in s.security_assessment.findings
             PROVE  \E rule \in RuleTable :
                      /\ rule.id = finding.rule_id
                      /\ \A c \in rule.when : c.field \in Suite =>
                           \/ c.field \in finding.inferred_from
                           \/ <<c.field, s.ike[c.field]>>
                                \in IF s.session_id[1] = "ike" THEN Told(s) ELSE {}
  BY DEF FindingsRest
<1>1. PICK t : /\ s = Assess(t)
               /\ DOMAIN t = SessionKeys \cup {"pkt_total", "traffic_prediction"}
               /\ s \notin IkeSessions => \E esp : t.ike = EspOnly(esp).ike
  BY SessionsAssessed
<1>2. PICK rule \in RuleTable : Matches(rule, t.ike) /\ finding = Finding(rule, t.ike)
  BY <1>1, FindingsOfReport
<1>3. s.ike = t.ike
  BY <1>1, FindingsOfReport
<1>4. /\ finding.rule_id = rule.id
      /\ finding.inferred_from = {c.field : c \in rule.when} \cap t.ike.inferred_fields
  BY <1>2 DEF Finding
<1>5. ASSUME NEW c \in rule.when, c.field \in Suite
      PROVE  \/ c.field \in finding.inferred_from
             \/ <<c.field, s.ike[c.field]>> \in IF s.session_id[1] = "ike" THEN Told(s) ELSE {}
  <2>1. Known(t.ike[c.field])
    BY <1>2, <1>5, ClauseKnows
  <2>2. s \in IkeSessions
    BY <1>1, <1>5, <2>1, OrphanUnknown
  <2>3. <<c.field, s.ike[c.field]>> \in Told(s) \/ c.field \in s.ike.inferred_fields
    BY <1>3, <1>5, <2>1, <2>2, AnalysedObserved DEF ObservedOnly
  <2>4. s.session_id[1] = "ike"
    BY <2>2 DEF IkeSessions
  <2> QED
    BY <1>3, <1>4, <2>3, <2>4
<1> QED
  BY <1>4, <1>5

\* A rule that fires about the suite of a session rests on a value that a message
\* of the session told, or says that it was inferred (evaluate_rules).
THEOREM FindingsAreFounded ==
    ASSUME QuickModeIsNumbered
    PROVE  StoredSpec => []FindingsRest
<1>1. Analysed => FindingsRest
  BY AnalysedFindings, PipelineAssumption
<1> QED
  BY <1>1, AnalysisFollows, PTL
-----------------------------------------------------------------------------
(* DowngradeWitness *)

\* What each other detector reports is of another kind.
LEMMA OtherKinds ==
    ASSUME NEW sessions, NEW event \in detect_anomalies(sessions),
           event.kind = "DOWNGRADE_SUSPECTED"
    PROVE  event \in detect_downgrade(sessions)
<1>1. \A kind, severity, id, evidence, says :
        Event(kind, severity, id, evidence, says).kind = kind
  BY DEF Event
<1>2. \A s, kind, severity, says : EventOf(s, kind, severity, says).kind = kind
  BY DEF EventOf, Event
<1>3. \A e \in detect_aggressive_mode_probe(sessions) :
        \E s, severity, says : e = EventOf(s, "AGGRESSIVE_MODE_PROBE", severity, says)
  <2> DEFINE Probes(s) == s.ike.version = "IKEv1" /\ s.ike.aggressive_mode
             groups == ToSet(GroupBy(Filter(sessions, Probes), Responder))
             Repeated(g) == Len(g) >= AGGRESSIVE_PROBE_THRESHOLD
             Grade(g) == IF Repeated(g) THEN "CRITICAL" ELSE "HIGH"
             Says(g, s) == <<IF Repeated(g) THEN Len(g) ELSE 1, <<s.responder_ip>>>>
  <2>1. detect_aggressive_mode_probe(sessions)
          = UNION {{EventOf(s, "AGGRESSIVE_MODE_PROBE", Grade(g), Says(g, s)) :
                      s \in ToSet(g)} : g \in groups}
    BY DEF detect_aggressive_mode_probe
  <2> HIDE DEF groups, Grade, Says
  <2> QED
    BY <2>1
<1>4. \A e \in detect_transform_bruteforce(sessions) :
        \E s, severity, says : e = EventOf(s, "TRANSFORM_BRUTEFORCE", severity, says)
  <2> DEFINE Suites(g) == {<<s.ike.encryption, s.ike.integrity, s.ike.dh_group>> : s \in ToSet(g)}
             groups == {g \in ToSet(GroupBy(Filter(sessions, observed), Pair)) :
                          Cardinality(Suites(g)) >= TRANSFORM_BRUTEFORCE_THRESHOLD}
             Says(g, s) == <<Cardinality(Suites(g)), Pair(s)>>
  <2>1. detect_transform_bruteforce(sessions)
          = UNION {{EventOf(s, "TRANSFORM_BRUTEFORCE", "HIGH", Says(g, s)) : s \in ToSet(g)} :
                     g \in groups}
    BY DEF detect_transform_bruteforce
  <2> HIDE DEF groups, Says
  <2> QED
    BY <2>1
<1>5. \A e \in detect_spi_collision(sessions) :
        \E severity, id, evidence, says : e = Event("SPI_COLLISION", severity, id, evidence, says)
  BY Zenon DEF detect_spi_collision
<1>6. \A e \in detect_nat_t_unexpected(sessions) :
        \E s, severity, says : e = EventOf(s, "NAT_T_UNEXPECTED", severity, says)
  BY Zenon DEF detect_nat_t_unexpected
<1>7. \A e \in detect_rekey_storm(sessions) :
        \E s, severity, says : e = EventOf(s, "REKEY_STORM", severity, says)
  <2> DEFINE Timed(s) == s.timestamp # None
             Times(g) == {s.timestamp : s \in ToSet(g)}
             Span(g) == Max(Times(g)) - Min(Times(g))
             groups == {g \in ToSet(GroupBy(Filter(sessions, Timed), Pair)) :
                          /\ Len(g) >= REKEY_STORM_THRESHOLD
                          /\ Span(g) <= REKEY_STORM_WINDOW_SEC}
             Says(g, s) == <<Len(g), Pair(s) \o <<ToString(Span(g))>>>>
  <2>1. detect_rekey_storm(sessions)
          = UNION {{EventOf(s, "REKEY_STORM", "MEDIUM", Says(g, s)) : s \in ToSet(g)} : g \in groups}
    BY DEF detect_rekey_storm
  <2> HIDE DEF groups, Says
  <2> QED
    BY <2>1
<1> QED
  BY <1>1, <1>2, <1>3, <1>4, <1>5, <1>6, <1>7 DEF detect_anomalies

\* s is suspected of a downgrade, and t of the same two peers is not weak.
Downgraded(event, s, t) ==
    /\ event.session_id = s.session_id /\ weak(s)
    /\ Pair(s) = Pair(t) /\ ~weak(t)
    /\ observed(s) /\ observed(t)

\* A downgrade event has two sessions of the report as its witnesses.
LEMMA DowngradeOf ==
    ASSUME NEW sessions, Len(sessions) \in Nat,
           \A t : t \in ToSet(sessions) <=> \E k \in 1..Len(sessions) : t = sessions[k],
           NEW event \in detect_downgrade(sessions)
    PROVE  \E s, t \in ToSet(sessions) : Downgraded(event, s, t)
<1> DEFINE I == {i \in 1..Len(sessions) : observed(sessions[i])}
           seen == Picked(sessions, I)
           keys == [i \in 1..Len(seen) |-> Pair(seen[i])]
           groups == Groups(seen, keys)
<1>1. /\ Len(seen) \in Nat
      /\ \A x : x \in ToSet(seen) <=> \E i \in I : x = sessions[i]
      /\ \A x : x \in ToSet(seen) <=> \E k \in 1..Len(seen) : x = seen[k]
  <2>1. I \in SUBSET (1..Len(sessions))
    OBVIOUS
  <2> HIDE DEF I
  <2>2. /\ Len(seen) = Cardinality(I) /\ Cardinality(I) \in Nat
        /\ seen \in Seq(ToSet(seen))
        /\ \A x : x \in ToSet(seen) <=> \E i \in I : x = sessions[i]
    BY <2>1, PickedMembers
  <2> HIDE DEF seen
  <2> QED
    BY <2>2 DEF ToSet
<1>2. \A x \in ToSet(seen) : x \in ToSet(sessions) /\ observed(x)
  <2> HIDE DEF seen
  <2> QED
    BY <1>1
<1>3. GroupBy(Filter(sessions, observed), Pair) = groups
  BY DEF GroupBy, Filter
<1>4. \E g \in ToSet(groups) : \E s \in ToSet(g) :
         /\ {weak(x) : x \in ToSet(g)} = BOOLEAN
         /\ weak(s) /\ event.session_id = s.session_id
  <2> DEFINE Mixed(g) == {weak(x) : x \in ToSet(g)} = BOOLEAN
             mixed == {g \in ToSet(GroupBy(Filter(sessions, observed), Pair)) : Mixed(g)}
             Says(s) == <<0, Pair(s) \o <<s.ike.encryption, s.ike.dh_group>>>>
             Weak(g) == {x \in ToSet(g) : weak(x)}
  <2>1. detect_downgrade(sessions)
          = UNION {{EventOf(s, "DOWNGRADE_SUSPECTED", "HIGH", Says(s)) : s \in Weak(g)} : g \in mixed}
    BY DEF detect_downgrade
  <2>2. \A g \in mixed : g \in ToSet(groups) /\ Mixed(g)
    BY <1>3
  <2>3. \A g : \A s \in Weak(g) : s \in ToSet(g) /\ weak(s)
    OBVIOUS
  <2>4. \A s, kind, severity, says : EventOf(s, kind, severity, says).session_id = s.session_id
    BY DEF EventOf, Event
  <2> HIDE DEF mixed, Says, Weak, groups, Mixed
  <2>5. PICK g \in mixed : \E s \in Weak(g) :
          event = EventOf(s, "DOWNGRADE_SUSPECTED", "HIGH", Says(s))
    BY <2>1
  <2>6. PICK s \in Weak(g) : event = EventOf(s, "DOWNGRADE_SUSPECTED", "HIGH", Says(s))
    BY <2>5
  <2>7. g \in ToSet(groups) /\ s \in ToSet(g) /\ Mixed(g) /\ weak(s)
        /\ event.session_id = s.session_id
    BY <2>2, <2>3, <2>4, <2>6
  <2> QED
    BY <2>7, Zenon DEF Mixed
<1>5. Len(keys) = Len(seen) /\ \A i \in 1..Len(seen) : keys[i] = Pair(seen[i])
  OBVIOUS
<1> HIDE DEF keys, seen
<1>6. OneForEach(groups, keys, Len(seen), Uniques(keys))
  BY <1>1, <1>5, GroupsOf
<1>7. ASSUME NEW k \in 1..Len(groups)
      PROVE  HasUnder(groups[k], seen, keys, Uniques(keys)[k])
  BY <1>1, <1>5, GroupMembers
<1>8. groups = [k \in 1..Len(Uniques(keys)) |->
                  Picked(seen, {i \in 1..Len(seen) : keys[i] = Uniques(keys)[k]})]
  BY DEF Groups
<1> HIDE DEF groups
<1>9. \A g \in ToSet(groups) : \E k \in 1..Len(groups) : g = groups[k]
  BY <1>6, <1>8 DEF ToSet, OneForEach
<1>10. PICK g \in ToSet(groups) : \E s \in ToSet(g) :
         /\ {weak(x) : x \in ToSet(g)} = BOOLEAN
         /\ weak(s) /\ event.session_id = s.session_id
  BY <1>4
<1>17. PICK s \in ToSet(g) : /\ {weak(x) : x \in ToSet(g)} = BOOLEAN
                             /\ weak(s) /\ event.session_id = s.session_id
  BY <1>10
<1>11. PICK k \in 1..Len(groups) : g = groups[k]
  BY <1>9
<1>12. HasUnder(g, seen, keys, Uniques(keys)[k])
  BY <1>7, <1>11
<1>13. \A x \in ToSet(g) : x \in ToSet(seen) /\ Pair(x) = Uniques(keys)[k]
  BY <1>1, <1>5, <1>12 DEF HasUnder
<1>14. FALSE \in {weak(x) : x \in ToSet(g)}
  BY <1>17
<1>15. PICK t \in ToSet(g) : ~weak(t)
  BY <1>14
<1>16. /\ s \in ToSet(sessions) /\ t \in ToSet(sessions)
       /\ observed(s) /\ observed(t) /\ Pair(s) = Pair(t)
  BY <1>2, <1>13, <1>15, <1>17
<1> QED
  BY <1>15, <1>16, <1>17 DEF Downgraded

\* A parser writes the whole suite, and what the later stages write over.
LEMMA SuiteRead ==
    ASSUME NEW raw
    PROVE  LET ike == Parse(raw).session.ike
           IN  Guessed \subseteq DOMAIN ike /\ Suite \subseteq DOMAIN ike
<1> DEFINE ike == Parse(raw).session.ike
           fields == FieldsIn(raw)
<1>1. DOMAIN fields = IkeFields
  BY FieldsShape DEF FieldsIn
<1> HIDE DEF fields
<1>2. PICK edge : RecordHas(ike, fields, edge)
  BY ParsedIke DEF fields
<1> HIDE DEF ike
<1> QED
  BY <1>1, <1>2, FreshFields DEF RecordHas, Guessed, Suite, IkeFields, ike

\* The suite of an observed session has names.
LEMMA ObservedIsKnown ==
    ASSUME GuessesAreNames, Analysed, NEW s \in Sessions, observed(s)
    PROVE  Known(s.ike.encryption) /\ Known(s.ike.dh_group)
<1>1. s.ike.encryption # "unknown" /\ s.ike.dh_group # "unknown"
  BY DEF observed
<1>2. s \in IkeSessions
  <2> SUFFICES ASSUME s \notin IkeSessions PROVE FALSE
    OBVIOUS
  <2>1. PICK t : /\ s = Assess(t)
                 /\ DOMAIN t = SessionKeys \cup {"pkt_total", "traffic_prediction"}
                 /\ \E esp : t.ike = EspOnly(esp).ike
    BY SessionsAssessed
  <2>2. s.ike = t.ike
    BY <2>1, FindingsOfReport
  <2> QED
    BY <1>1, <2>1, <2>2, OrphanUnknown
<1>3. PICK raw \in RawSas : IsOf(s, raw)
  BY <1>2, SessionsOfRaws
<1> DEFINE read == Parse(raw).session.ike
           guess == PredictIke([k \in 1..Len(raw.ike_frames) |-> raw.ike_frames[k].msg])
<1>4. Guessed \subseteq DOMAIN read /\ Suite \subseteq DOMAIN read
  BY SuiteRead
<1>5. \A f \in Suite : s.ike[f] = read[f] \/ (guess # None /\ s.ike[f] = guess[f]
                                              /\ f \in {"encryption", "dh_group"})
  BY <1>3, <1>4, SuiteMarked DEF IsOf
<1>6. read.encryption # None /\ read.dh_group # None
  BY <1>3 DEF IsOf, Representable, IkeParamsOK
<1>7. guess # None => guess.encryption # None /\ guess.dh_group # None
  BY DEF GuessesAreNames
<1> HIDE DEF read, guess
<1>8. s.ike["encryption"] # None /\ s.ike["dh_group"] # None
  BY <1>5, <1>6, <1>7 DEF Suite
<1> QED
  BY <1>1, <1>8 DEF Known

\* The detectors are given the sessions of the report, before they are assessed.
LEMMA DetectedIn ==
    ASSUME Analysed
    PROVE  LET sessions == SessionsIn(Ingested)
           IN  /\ report.anomalies = detect_anomalies(sessions)
               /\ Len(sessions) \in Nat
               /\ \A t : t \in ToSet(sessions) <=> \E k \in 1..Len(sessions) : t = sessions[k]
               /\ \A t \in ToSet(sessions) :
                    /\ Assess(t) \in Sessions
                    /\ DOMAIN t = SessionKeys \cup {"pkt_total", "traffic_prediction"}
<1> DEFINE read == read_capture(capture)
           out == bucket(read)
           sas == IkeSAs(read.ike)
           sessions == SessionsIn(out)
           groups == OrphanGroups(out.orphan_esp)
<1>1. Len(capture) \in Nat
  BY DEF Analysed
<1>2. Len(read.ike) \in Nat /\ Len(read.esp) \in Nat
  BY <1>1, FramesRead
<1>3. Len(out.sessions) \in Nat
  BY <1>1, RawsAre
<1>4. Len(out.orphan_esp) \in Nat
  <2>1. out.orphan_esp = Picked(read.esp, Owned(read, sas, {}))
    <3> HIDE DEF read
    <3> QED
      BY <1>2, BucketOf
  <2>2. Owned(read, sas, {}) \in SUBSET (1..Len(read.esp))
    BY DEF Owned
  <2> HIDE DEF read, out, sas
  <2> QED
    BY <1>2, <2>1, <2>2, PickedMembers
<1>5. report = AnalyseSAs(read, out) /\ Ingested = out
  BY DEF Analysed, analyze_capture, Ingested, Read
<1> HIDE DEF read, out
<1> DEFINE made == AnalyseSAs(read, out)
<1>10. /\ made.anomalies = detect_anomalies(sessions)
       /\ Len(sessions) \in Nat
       /\ \A t : t \in ToSet(sessions) <=> \E k \in 1..Len(sessions) : t = sessions[k]
  BY <1>3, <1>4, SessionsAre
<1>11. \A s : s \in ToSet(made.sessions) <=> \E t \in ToSet(sessions) : s = Assess(t)
  BY <1>3, <1>4, SessionsAre
<1>12. \A t : t \in ToSet(sessions) <=>
         \/ \E k \in 1..Len(out.sessions) : /\ Representable(Parse(out.sessions[k]))
                                            /\ t = Finish(Parse(out.sessions[k]))
         \/ \E k \in 1..Len(groups) :
              t = Classify(OrphanRecord(groups[k]), BusiestFlow(groups[k]))
  BY <1>3, <1>4, SessionsAre
<1> HIDE DEF made
<1>6. /\ report.anomalies = detect_anomalies(sessions)
      /\ Len(sessions) \in Nat
      /\ \A t : t \in ToSet(sessions) <=> \E k \in 1..Len(sessions) : t = sessions[k]
      /\ \A s : s \in ToSet(report.sessions) <=> \E t \in ToSet(sessions) : s = Assess(t)
  BY <1>5, <1>10, <1>11 DEF made
<1> HIDE DEF sessions, groups
<1>7. \A raw : DOMAIN Finish(Parse(raw)) = SessionKeys \cup {"pkt_total", "traffic_prediction"}
  <2> SUFFICES ASSUME NEW raw
               PROVE  DOMAIN Finish(Parse(raw)) = SessionKeys \cup {"pkt_total", "traffic_prediction"}
    OBVIOUS
  <2> DEFINE sa == Parse(raw)
  <2>1. DOMAIN sa.session = SessionKeys
    BY ParsedShape
  <2> HIDE DEF sa
  <2>2. DOMAIN Finish(sa) = DOMAIN sa.session \cup {"pkt_total", "traffic_prediction"}
    BY <2>1, FinishKeeps DEF SessionKeys
  <2> QED
    BY <2>1, <2>2 DEF sa
<1>8. \A esp : DOMAIN Classify(OrphanRecord(esp), BusiestFlow(esp))
                 = SessionKeys \cup {"pkt_total", "traffic_prediction"}
  <2> SUFFICES ASSUME NEW esp
               PROVE  DOMAIN Classify(OrphanRecord(esp), BusiestFlow(esp))
                        = SessionKeys \cup {"pkt_total", "traffic_prediction"}
    OBVIOUS
  <2> DEFINE rec == OrphanRecord(esp)
  <2>1. DOMAIN rec = SessionKeys
    BY OrphanShape
  <2> HIDE DEF rec
  <2>2. DOMAIN Classify(rec, BusiestFlow(esp))
          = DOMAIN rec \cup {"pkt_total", "traffic_prediction"}
    BY ClassifyKeeps
  <2> QED
    BY <2>1, <2>2 DEF rec
<1>9. \A t \in ToSet(sessions) : /\ Assess(t) \in Sessions
                                 /\ DOMAIN t = SessionKeys \cup {"pkt_total", "traffic_prediction"}
  BY <1>6, <1>7, <1>8, <1>12 DEF Sessions
<1> QED
  BY <1>5, <1>6, <1>9 DEF sessions

\* A downgrade is suspected of a session only beside another SA of the same two
\* peers whose whole suite is known and sound.
LEMMA AnalysedDowngrade == GuessesAreNames /\ Analysed => DowngradeWitness
<1> SUFFICES ASSUME GuessesAreNames, Analysed, NEW event \in report.anomalies,
                    event.kind = "DOWNGRADE_SUSPECTED"
             PROVE  \E s, t \in Sessions :
                      /\ s.session_id = event.session_id /\ weak(s)
                      /\ Pair(s) = Pair(t) /\ ~weak(t)
                      /\ \A x \in {s, t} : Known(x.ike.encryption) /\ Known(x.ike.dh_group)
  BY DEF DowngradeWitness
<1> DEFINE sessions == SessionsIn(Ingested)
<1>1. /\ report.anomalies = detect_anomalies(sessions)
      /\ Len(sessions) \in Nat
      /\ \A t : t \in ToSet(sessions) <=> \E k \in 1..Len(sessions) : t = sessions[k]
      /\ \A t \in ToSet(sessions) : Assess(t) \in Sessions
  BY DetectedIn
<1>2. \A t \in ToSet(sessions) :
        DOMAIN t = SessionKeys \cup {"pkt_total", "traffic_prediction"}
  BY DetectedIn
<1> HIDE DEF sessions
<1>3. event \in detect_downgrade(sessions)
  BY <1>1, OtherKinds
<1>4. PICK s, t \in ToSet(sessions) : Downgraded(event, s, t)
  BY <1>1, <1>3, DowngradeOf
<1>5. ASSUME NEW x \in ToSet(sessions)
      PROVE  /\ Assess(x).ike = x.ike /\ Assess(x).session_id = x.session_id
             /\ Assess(x).initiator_ip = x.initiator_ip
             /\ Assess(x).responder_ip = x.responder_ip
  <2>1. {"ike", "session_id", "initiator_ip", "responder_ip"} \subseteq DOMAIN x
    BY <1>2 DEF SessionKeys
  <2>2. \A f \in DOMAIN x : Assess(x)[f] = x[f]
    BY AssessKeeps
  <2> QED
    BY <2>1, <2>2
<1>6. ASSUME NEW x \in ToSet(sessions)
      PROVE  /\ weak(Assess(x)) <=> weak(x)
             /\ observed(Assess(x)) <=> observed(x)
             /\ Pair(Assess(x)) = Pair(x)
  BY <1>5 DEF weak, observed, Pair
<1>7. \A x \in {s, t} : Known(Assess(x).ike.encryption) /\ Known(Assess(x).ike.dh_group)
  BY <1>1, <1>4, <1>6, ObservedIsKnown DEF Downgraded
<1>8. /\ Assess(s) \in Sessions /\ Assess(t) \in Sessions
      /\ Assess(s).session_id = event.session_id /\ weak(Assess(s))
      /\ Pair(Assess(s)) = Pair(Assess(t)) /\ ~weak(Assess(t))
  BY <1>1, <1>4, <1>5, <1>6 DEF Downgraded
<1> QED
  BY <1>7, <1>8

\* A downgrade is suspected of a session only beside another SA of the same two
\* peers whose whole suite is known and sound (detect_downgrade).
THEOREM DowngradesAreWitnessed ==
    ASSUME GuessesAreNames
    PROVE  StoredSpec => []DowngradeWitness
<1>1. Analysed => DowngradeWitness
  BY AnalysedDowngrade
<1> QED
  BY <1>1, AnalysisFollows, PTL
-----------------------------------------------------------------------------
(* AcceptedWins *)

Answer(m) == m.is_response /\ OfferIn(m) # Unset

\* k is the last of the places.
IsLast(k, places) == k \in places /\ \A i \in places : i <= k

\* Nth finds the last of the places at the end.
LEMMA LastNth ==
    ASSUME NEW n \in Nat, NEW I \in SUBSET (1..n), NEW k, IsLast(k, I)
    PROVE  /\ Cardinality(I) \in Nat \ {0}
           /\ Nth(I, Cardinality(I)) = k
<1> DEFINE c == Cardinality(I)
<1>1. /\ c \in Nat
      /\ \A j \in 1..c : Nth(I, j) \in I
      /\ \A i \in I : \E j \in 1..c : Nth(I, j) = i
      /\ \A i, j \in 1..c : i < j => Nth(I, i) < Nth(I, j)
  BY NthOfSet
<1> HIDE DEF c
<1>2. PICK m \in 1..c : Nth(I, m) = k
  BY <1>1 DEF IsLast
<1>3. c \in 1..c /\ c # 0
  BY <1>1
<1>4. Nth(I, c) <= k /\ Nth(I, c) \in Nat /\ k \in Nat
  <2> DEFINE x == Nth(I, c)
  <2>1. x \in I
    BY <1>1, <1>3
  <2> HIDE DEF x
  <2>2. x <= k /\ x \in 1..n /\ k \in 1..n
    BY <2>1 DEF IsLast
  <2>3. x <= k /\ x \in Nat /\ k \in Nat
    BY <2>2
  <2> QED
    BY <2>3 DEF x
<1>5. ~(m < c)
  BY <1>1, <1>2, <1>3, <1>4
<1> QED
  BY <1>1, <1>2, <1>3, <1>5 DEF c

\* The last answer is the last proposal that is applied.
LEMMA LastApplied ==
    ASSUME NEW messages, Len(messages) \in Nat,
           NEW k \in 1..Len(messages), Answer(messages[k]),
           \A j \in 1..Len(messages) : Answer(messages[j]) => j <= k
    PROVE  LET applied == AppliedProposals(messages)
           IN  /\ Len(applied) \in Nat \ {0}
               /\ applied[Len(applied)] = OfferIn(messages[k])
<1> DEFINE n == Len(messages)
           Answers(i) == messages[i].is_response /\ OfferIn(messages[i]) # Unset
           Applied(i) == /\ OfferIn(messages[i]) # Unset
                         /\ Answers(i) \/ \A j \in 1..(i - 1) : ~Answers(j)
           places == [i \in 1..n |-> i]
           I == {i \in 1..n : Applied(places[i])}
           picked == Picked(places, I)
           c == Cardinality(I)
           applied == AppliedProposals(messages)
<1>1. Len(places) = n
  OBVIOUS
<1>2. applied = [i \in 1..Len(picked) |-> OfferIn(messages[picked[i]])]
  BY <1>1 DEF AppliedProposals, Filter
<1>3. /\ I \in SUBSET (1..n) /\ n \in Nat
      /\ \A i \in 1..n : places[i] = i
      /\ \A i : i \in I <=> i \in 1..n /\ Applied(i)
  OBVIOUS
<1>4. \A i \in 1..n : Answers(i) <=> Answer(messages[i])
  BY DEF Answer
<1> HIDE DEF Answers
<1>5. k \in I
  BY <1>3, <1>4 DEF Answer
<1>6. ASSUME NEW i \in I PROVE i <= k
  <2> SUFFICES ASSUME ~(i <= k) PROVE FALSE
    OBVIOUS
  <2>1. ~Answers(i)
    BY <1>3, <1>4
  <2>2. \A j \in 1..(i - 1) : ~Answers(j)
    BY <1>3, <2>1
  <2>3. k \in 1..(i - 1)
    BY <1>3
  <2> QED
    BY <1>4, <2>2, <2>3
<1> HIDE DEF places, I, n, applied
<1>7. c \in Nat \ {0} /\ Nth(I, c) = k
  <2>1. IsLast(k, I)
    BY <1>5, <1>6 DEF IsLast
  <2> QED
    BY <1>3, <2>1, LastNth
<1>8. Len(picked) = c /\ \A i \in 1..c : picked[i] = places[Nth(I, i)]
  BY <1>3, PickedMembers
<1> HIDE DEF picked, c
<1>9. Len(applied) = c /\ c \in 1..c
  BY <1>2, <1>7, <1>8
<1>10. picked[c] = k
  BY <1>3, <1>5, <1>7, <1>8, <1>9
<1>11. applied[c] = OfferIn(messages[k])
  <2>1. c \in 1..Len(picked)
    BY <1>8, <1>9
  <2>2. applied[c] = OfferIn(messages[picked[c]])
    BY <1>2, <2>1, ZenonT(60)
  <2> QED
    BY <1>10, <2>2, Zenon
<1> QED
  BY <1>7, <1>9, <1>11 DEF applied

\* A value that is set at the end is the last set.
LEMMA LastSetIs ==
    ASSUME NEW values, Len(values) \in Nat \ {0}, values[Len(values)] # Unset
    PROVE  LastSet(values) = values[Len(values)]
<1> DEFINE n == Len(values)
           set == {k \in 1..n : values[k] # Unset}
<1>1. set \in SUBSET (1..n) /\ n \in set
  OBVIOUS
<1>2. Max(set) \in set /\ \A k \in set : k <= Max(set)
  BY <1>1, ExtremesOf
<1>3. Max(set) = n
  BY <1>1, <1>2
<1>4. LastSet(values) = values[Max(set)]
  BY <1>1 DEF LastSet
<1> QED
  BY <1>3, <1>4

\* So the fields of an SA are what the last answer chose.
LEMMA ChosenFields ==
    ASSUME NEW messages, Len(messages) \in Nat, NEW ctx, NEW complete,
           NEW k \in 1..Len(messages), Answer(messages[k]),
           \A j \in 1..Len(messages) : Answer(messages[j]) => j <= k
    PROVE  LET fields == FieldsV2(messages, ctx, AppliedProposals(messages), complete)
               choice == OfferIn(messages[k])
           IN  /\ Encryption(choice) \in {Unset, fields["encryption"]}
               /\ Integrity(choice) \in {Unset, fields["integrity"]}
               /\ Prf(choice) \in {Unset, fields["prf"]}
               /\ DhGroup(choice) \in {Unset, fields["dh_group"]}
<1> DEFINE n == Len(messages)
           applied == AppliedProposals(messages)
           fields == FieldsV2(messages, ctx, applied, complete)
           choice == OfferIn(messages[k])
           c == Len(applied)
           ciphers == [i \in 1..c |-> Encryption(applied[i])]
           hashes == [i \in 1..c |-> Integrity(applied[i])]
           prfs == [i \in 1..c |-> Prf(applied[i])]
           dhs == [i \in 1..c |-> DhGroup(applied[i])]
           kes == [i \in 1..n |-> KeGroup(messages[i])]
<1>1. /\ fields["encryption"] = LastSet(ciphers)
      /\ fields["integrity"] = LastSet(hashes)
      /\ fields["prf"] = LastSet(prfs)
      /\ fields["dh_group"] = Default(LastSet(dhs), FirstSet(kes))
  BY DEF FieldsV2, LastOf, FirstOf
<1> HIDE DEF fields, applied, kes
<1>2. c \in Nat \ {0} /\ applied[c] = choice
  BY LastApplied DEF applied
<1>3. /\ Len(ciphers) = c /\ Len(hashes) = c /\ Len(prfs) = c /\ Len(dhs) = c
      /\ ciphers[c] = Encryption(choice) /\ hashes[c] = Integrity(choice)
      /\ prfs[c] = Prf(choice) /\ dhs[c] = DhGroup(choice)
  BY <1>2
<1> HIDE DEF c, ciphers, hashes, prfs, dhs, choice
<1>4. /\ ciphers[c] # Unset => LastSet(ciphers) = ciphers[c]
      /\ hashes[c] # Unset => LastSet(hashes) = hashes[c]
      /\ prfs[c] # Unset => LastSet(prfs) = prfs[c]
      /\ dhs[c] # Unset => LastSet(dhs) = dhs[c]
  BY <1>2, <1>3, LastSetIs
<1>5. dhs[c] # Unset => fields["dh_group"] = dhs[c]
  BY <1>1, <1>4 DEF Default
<1> QED
  BY <1>1, <1>3, <1>4, <1>5 DEF fields, applied, choice

\* The last answer among the frames of an SA is the last among its messages.
LEMMA LastAnswerOf ==
    ASSUME NEW frames, Len(frames) \in Nat, NEW k,
           IsLast(k, {i \in 1..Len(frames) : frames[i].msg.version = "IKEv2" /\ Answer(frames[i].msg)})
    PROVE  LET messages == MessagesOf(frames, "IKEv2")
           IN  /\ Len(messages) \in Nat
               /\ \E m \in 1..Len(messages) :
                    /\ messages[m] = frames[k].msg
                    /\ \A j \in 1..Len(messages) : Answer(messages[j]) => j <= m
<1> DEFINE n == Len(frames)
           all == [i \in 1..n |-> frames[i].msg]
           V == {i \in 1..n : all[i].version = "IKEv2"}
           c == Cardinality(V)
           messages == MessagesOf(frames, "IKEv2")
<1>1. Len(all) = n /\ \A i \in 1..n : all[i] = frames[i].msg
  OBVIOUS
<1>2. messages = Picked(all, V)
  BY <1>1 DEF MessagesOf, Filter
<1>3. /\ V \in SUBSET (1..n) /\ n \in Nat
      /\ \A i : i \in V <=> i \in 1..n /\ all[i].version = "IKEv2"
  OBVIOUS
<1>4. /\ k \in V /\ Answer(all[k])
      /\ \A i \in V : Answer(all[i]) => i <= k
  BY <1>1, <1>3 DEF IsLast
<1> HIDE DEF all, V, n, messages
<1>5. /\ c \in Nat
      /\ \A j \in 1..c : Nth(V, j) \in V
      /\ \A i \in V : \E j \in 1..c : Nth(V, j) = i
      /\ \A i, j \in 1..c : i < j => Nth(V, i) < Nth(V, j)
  BY <1>3, NthOfSet
<1>6. Len(messages) = c /\ \A j \in 1..c : messages[j] = all[Nth(V, j)]
  BY <1>2, <1>3, PickedMembers
<1> HIDE DEF c
<1>7. PICK m \in 1..c : Nth(V, m) = k
  BY <1>4, <1>5
<1>8. ASSUME NEW j \in 1..c, Answer(messages[j]) PROVE j <= m
  <2>1. Nth(V, j) <= k /\ Nth(V, j) \in Nat /\ k \in Nat
    <3>1. Nth(V, j) \in V /\ Answer(all[Nth(V, j)])
      BY <1>5, <1>6, <1>8
    <3> QED
      BY <1>3, <1>4, <3>1
  <2>2. ~(m < j)
    BY <1>5, <1>7, <2>1
  <2> QED
    BY <1>5, <2>2
<1>9. messages[m] = frames[k].msg
  BY <1>1, <1>3, <1>4, <1>6, <1>7
<1> QED
  BY <1>5, <1>6, <1>7, <1>8, <1>9 DEF messages

\* What is read of IKEv1 says so.
LEMMA VersionV1 ==
    ASSUME NEW messages, NEW ctx, NEW complete
    PROVE  FieldsV1(messages, ctx, complete)["version"] = "IKEv1"
<1> DEFINE suite == SuiteV1(Phase1Transform(messages), QuickMode(messages))
           left == [suite EXCEPT !.sa_lifetime_sec = Default(@, None)]
           NatD(m) == HasV1(m, "NAT_D")
           right == [version |-> "IKEv1", aggressive_mode |-> AggressiveMode(messages),
                     ip_version |-> ctx.ip_version,
                     nat_traversal |-> ctx.nat_traversal \/ Some(messages, NatD),
                     additional_key_exchanges |-> <<>>, capture_complete |-> complete]
<1>1. FieldsV1(messages, ctx, complete) = Joined(left, right)
  BY DEF FieldsV1
<1>2. DOMAIN left = {"encryption", "integrity", "prf", "auth_method", "dh_group",
                     "sa_lifetime_sec", "mode", "pfs_status"}
  <2>1. DOMAIN suite = {"encryption", "integrity", "prf", "auth_method", "dh_group",
                        "sa_lifetime_sec", "mode", "pfs_status"}
    BY SuiteV1Shape
  <2> HIDE DEF suite
  <2> QED
    BY <2>1
<1> HIDE DEF left
<1>3. "version" \in DOMAIN right /\ right["version"] = "IKEv1"
  OBVIOUS
<1> HIDE DEF right
<1>5. \A x \in DOMAIN right \ DOMAIN left : Joined(left, right)[x] = right[x]
  BY JoinedOf
<1>4. Joined(left, right)["version"] = right["version"]
  BY <1>2, <1>3, <1>5
<1> QED
  BY <1>1, <1>3, <1>4

\* A session of IKEv2 is of an SA of IKEv2.
LEMMA VersionRead ==
    ASSUME NEW raw, Parse(raw).session.ike["version"] = "IKEv2"
    PROVE  raw.ike_version # "IKEv1"
<1> SUFFICES ASSUME raw.ike_version = "IKEv1" PROVE FALSE
  OBVIOUS
<1> DEFINE fields == FieldsIn(raw)
           ike == Parse(raw).session.ike
<1>1. DOMAIN fields = IkeFields
  BY FieldsShape DEF FieldsIn
<1>2. fields["version"] = "IKEv1"
  <2> DEFINE messages == MessagesIn(raw)
             ctx == FramesCtx(raw.ike_frames, raw.esp_frames)
             complete == Phase1Initial(messages) # None
  <2>1. fields = FieldsV1(messages, ctx, complete)
    BY DEF FieldsIn
  <2> HIDE DEF fields, messages, ctx, complete
  <2>2. FieldsV1(messages, ctx, complete)["version"] = "IKEv1"
    BY VersionV1
  <2> QED
    BY <2>1, <2>2
<1> HIDE DEF fields
<1>3. PICK edge : RecordHas(ike, fields, edge)
  BY ParsedIke DEF fields
<1> HIDE DEF ike
<1>4. ike["version"] = mark_unobserved(fields)["version"]
  BY <1>3 DEF RecordHas, IkeFields
<1>5. mark_unobserved(fields)["version"] = fields["version"]
  BY <1>1, MarkedShape DEF IkeFields, Suite
<1> QED
  BY <1>2, <1>4, <1>5 DEF ike

\* The frames of a session are those of its SA.
LEMMA FramesAre ==
    ASSUME NEW s, NEW raw, IsOf(s, raw)
    PROVE  /\ FramesWith(Spi(s)) = raw.ike_frames
           /\ Len(raw.ike_frames) \in Nat
           /\ \A k \in 1..Len(raw.ike_frames) : \E j \in 1..Len(Read.ike) :
                raw.ike_frames[k] = Read.ike[j]
<1> DEFINE frames == raw.ike_frames
<1>1. FramesShape(frames, Read.ike, raw.spi) /\ Spi(s) = raw.spi
  BY DEF IsOf, RawIs, SaShape
<1>2. FramesWith(raw.spi) = Picked(Read.ike, OfSpi(Read.ike, raw.spi))
  BY DEF FramesWith, Filter, OfSpi
<1> HIDE DEF frames
<1>3. FramesWith(Spi(s)) = frames
  BY <1>1, <1>2 DEF FramesShape
<1>4. Len(frames) \in Nat /\ \A k \in 1..Len(frames) : frames[k] \in ToSet(frames)
  BY <1>1 DEF FramesShape
<1>5. \A k \in 1..Len(frames) : \E j \in 1..Len(Read.ike) : frames[k] = Read.ike[j]
  BY <1>1, <1>4 DEF FramesShape
<1> QED
  BY <1>3, <1>4, <1>5 DEF frames

\* The frames from which AcceptedWins takes the last.
ChosenAt(spi) ==
    {i \in 1..Len(FramesWith(spi)) : /\ FramesWith(spi)[i].msg.version = "IKEv2"
                                     /\ Answer(FramesWith(spi)[i].msg)}

\* The suite of s, where it says so, is that of the proposal.
Wins(choice, s) ==
    /\ Encryption(choice) \in {Unset, s.ike.encryption}
    /\ Integrity(choice) \in {Unset, s.ike.integrity}
    /\ Prf(choice) \in {Unset, s.ike.prf}
    /\ DhGroup(choice) \in {Unset, s.ike.dh_group}

\* The last proposal that a responder answered with is the suite of its session.
LEMMA ChoiceWins ==
    ASSUME PipelineAssumption, Analysed, NEW s \in IkeSessions, s.ike.version = "IKEv2",
           NEW k, IsLast(k, ChosenAt(Spi(s)))
    PROVE  Wins(OfferIn(FramesWith(Spi(s))[k].msg), s)
<1>1. PICK raw \in RawSas : IsOf(s, raw)
  BY SessionsOfRaws
<1> DEFINE frames == raw.ike_frames
           messages == MessagesIn(raw)
           ctx == FramesCtx(raw.ike_frames, raw.esp_frames)
           applied == AppliedProposals(messages)
           fields == FieldsIn(raw)
           read == Parse(raw).session.ike
           choice == OfferIn(frames[k].msg)
<1>2. /\ FramesWith(Spi(s)) = frames /\ Len(frames) \in Nat
      /\ \A i \in 1..Len(frames) : \E j \in 1..Len(Read.ike) : frames[i] = Read.ike[j]
  BY <1>1, FramesAre
<1>3. Guessed \subseteq DOMAIN read /\ Suite \subseteq DOMAIN read
  BY SuiteRead
<1>4. DOMAIN fields = IkeFields
  BY FieldsShape DEF FieldsIn
<1>5. PICK edge : RecordHas(read, fields, edge)
  BY ParsedIke
<1>6. s.ike["version"] = read["version"]
  <2>1. "version" \in DOMAIN read \ Guessed
    BY <1>5 DEF RecordHas, IkeFields, Guessed
  <2>2. \A f \in DOMAIN read \ Guessed : s.ike[f] = read[f]
    BY <1>1, SessionRecord DEF IsOf
  <2> QED
    BY <2>1, <2>2
<1>7. raw.ike_version # "IKEv1"
  BY <1>6, VersionRead
<1>8. /\ messages = MessagesOf(frames, "IKEv2")
      /\ fields = FieldsV2(messages, ctx, applied, CompleteV2(messages, applied))
  BY <1>7 DEF MessagesIn, FieldsIn
<1> HIDE DEF frames, messages, ctx, fields, read, choice
<1>9. IsLast(k, {i \in 1..Len(frames) : frames[i].msg.version = "IKEv2" /\ Answer(frames[i].msg)})
  BY <1>2 DEF ChosenAt
<1>10. /\ Len(messages) \in Nat
       /\ \E m \in 1..Len(messages) :
            /\ messages[m] = frames[k].msg
            /\ \A j \in 1..Len(messages) : Answer(messages[j]) => j <= m
  BY <1>2, <1>8, <1>9, LastAnswerOf
<1>11. PICK m \in 1..Len(messages) :
         /\ messages[m] = frames[k].msg
         /\ \A j \in 1..Len(messages) : Answer(messages[j]) => j <= m
  BY <1>10
<1>12. k \in 1..Len(frames) /\ frames[k].msg.version = "IKEv2" /\ Answer(frames[k].msg)
  BY <1>9 DEF IsLast
<1>13. Answer(messages[m]) /\ OfferIn(messages[m]) = choice
  BY <1>11, <1>12 DEF choice
<1>14. /\ Encryption(choice) \in {Unset, fields["encryption"]}
       /\ Integrity(choice) \in {Unset, fields["integrity"]}
       /\ Prf(choice) \in {Unset, fields["prf"]}
       /\ DhGroup(choice) \in {Unset, fields["dh_group"]}
  <2> DEFINE complete == CompleteV2(messages, applied)
  <2> HIDE DEF complete
  <2>1. fields = FieldsV2(messages, ctx, AppliedProposals(messages), complete)
    BY <1>8 DEF complete
  <2> HIDE DEF applied
  <2> QED
    BY <1>10, <1>11, <1>13, <2>1, ChosenFields
<1>15. "unknown" \notin {Encryption(choice), DhGroup(choice)}
  <2>1. PICK j \in 1..Len(Read.ike) : frames[k] = Read.ike[j]
    BY <1>2, <1>12
  <2>2. PICK p \in Alphabet : Read.ike[j].msg = p.msg /\ p.msg # Malformed
    BY MessagesSent
  <2>3. Spelled(OfferIn(p.msg))
    BY <1>12, <2>1, <2>2 DEF PipelineAssumption
  <2>4. p.msg = frames[k].msg
    BY <2>1, <2>2
  <2> QED
    BY <1>12, <2>3, <2>4 DEF Spelled, Answer, choice
<1>16. \A f \in {"encryption", "integrity", "prf", "dh_group"} :
         read[f] = Default(fields[f], "unknown")
  <2>1. \A f \in IkeFields : read[f] = mark_unobserved(fields)[f]
    BY <1>5 DEF RecordHas
  <2>2. \A f \in {"encryption", "integrity", "prf", "dh_group"} :
          mark_unobserved(fields)[f] = Default(fields[f], "unknown")
    BY <1>4, MarkedShape
  <2> QED
    BY <2>1, <2>2 DEF IkeFields
<1>17. \A f \in Suite :
         \/ s.ike[f] = read[f]
         \/ read[f] = "unknown" /\ f \in {"encryption", "dh_group"}
  BY <1>1, <1>3, SuiteMarked DEF IsOf, read
<1>18. /\ Encryption(choice) # Unset => s.ike["encryption"] = Encryption(choice)
       /\ DhGroup(choice) # Unset => s.ike["dh_group"] = DhGroup(choice)
  BY <1>14, <1>15, <1>16, <1>17 DEF Suite, Default
<1>19. /\ Integrity(choice) # Unset => s.ike["integrity"] = Integrity(choice)
       /\ Prf(choice) # Unset => s.ike["prf"] = Prf(choice)
  BY <1>14, <1>16, <1>17 DEF Suite, Default
<1>20. Wins(choice, s)
  BY <1>18, <1>19 DEF Wins
<1> QED
  BY <1>2, <1>20 DEF choice

\* In a report that is the analysis of its capture, what the responder chose wins
\* over what was offered.
LEMMA AnalysedAccepted == PipelineAssumption /\ Analysed => AcceptedWins
<1> SUFFICES ASSUME PipelineAssumption, Analysed, NEW s \in IkeSessions, s.ike.version = "IKEv2"
             PROVE  LET Chosen(f) == /\ f.msg.version = "IKEv2" /\ f.msg.is_response
                                     /\ OfferIn(f.msg) # Unset
                        k == SelectLastInSeq(FramesWith(Spi(s)), Chosen)
                    IN  k # 0 => Wins(OfferIn(FramesWith(Spi(s))[k].msg), s)
  BY DEF AcceptedWins, Wins
<1> DEFINE Chosen(f) == f.msg.version = "IKEv2" /\ f.msg.is_response /\ OfferIn(f.msg) # Unset
           frames == FramesWith(Spi(s))
           I == {i \in 1..Len(frames) : Chosen(frames[i])}
           k == SelectLastInSeq(frames, Chosen)
<1>1. I = ChosenAt(Spi(s))
  BY DEF ChosenAt, Answer
<1>2. k = IF I # {} THEN Max(I) ELSE 0
  BY DEF SelectLastInSeq
<1>3. PICK raw \in RawSas : IsOf(s, raw)
  BY SessionsOfRaws
<1>4. Len(frames) \in Nat
  BY <1>3, FramesAre
<1>5. I \in SUBSET (1..Len(frames))
  OBVIOUS
<1> HIDE DEF I, k, frames
<1>6. k # 0 => IsLast(k, I)
  BY <1>2, <1>4, <1>5, ExtremesOf DEF IsLast
<1>7. k # 0 => Wins(OfferIn(FramesWith(Spi(s))[k].msg), s)
  BY <1>1, <1>6, ChoiceWins
<1> QED
  BY <1>7 DEF k, frames

\* When the responder's choice is in the capture, it is the suite of the SA,
\* wherever in the capture the requests are (_apply_ike_proposal).
THEOREM TheAcceptedWins == StoredSpec => []AcceptedWins
<1>1. Analysed => AcceptedWins
  BY AnalysedAccepted, PipelineAssumption
<1> QED
  BY <1>1, AnalysisFollows, PTL
-----------------------------------------------------------------------------
(* SameUnlessMoved *)

\* Where the first frame of each SA has the peers of its opener, a parser that groups
\* the packets itself attributes them as Stage 1 does.
LEMMA GroupedAlike ==
    ASSUME NEW read, Len(read.ike) \in Nat, Len(read.esp) \in Nat,
           \A raw \in ToSet(bucket(read).sessions) : ~Moved(raw)
    PROVE  \A ctx : ctx \in ToSet(GroupsOfPath(read))
             <=> \E raw \in ToSet(bucket(read).sessions) :
                   ctx = FramesCtx(raw.ike_frames, raw.esp_frames)
<1> DEFINE keys == [i \in 1..Len(read.ike) |-> InitiatorSpi(read.ike[i])]
           groups == Groups(read.ike, keys)
           n == Len(groups)
           pairs == [k \in 1..n |-> [peers |-> PeersOf(groups[k][1])]]
           sas == IkeSAs(read.ike)
           raws == bucket(read).sessions
<1>1. Len(keys) = Len(read.ike) /\ \A i \in 1..Len(read.ike) : keys[i] = read.ike[i].msg.initiator_spi
  BY DEF InitiatorSpi
<1>2. GroupsOfPath(read)
        = [k \in 1..n |-> FramesCtx(groups[k], Picked(read.esp, Owned(read, pairs, pairs[k].peers)))]
  BY DEF GroupsOfPath, GroupBy, Filter, Owned
<1>3. sas = [k \in 1..n |->
               [spi |-> groups[k][1].msg.initiator_spi,
                ike_version |-> groups[k][1].msg.version,
                ip_version |-> groups[k][1].ip_version,
                ike_frames |-> groups[k],
                peers |-> PeersOf(Opener(groups[k]))]]
  BY DEF IkeSAs, GroupBy
<1> HIDE DEF keys
<1>4. OneForEach(groups, keys, Len(read.ike), Uniques(keys))
  BY <1>1, GroupsOf
<1> HIDE DEF groups
<1>5. n \in Nat
  BY <1>4 DEF OneForEach
<1> HIDE DEF n
<1>6. Len(pairs) = n /\ \A k \in 1..n : pairs[k].peers = PeersOf(groups[k][1])
  BY <1>5
<1> HIDE DEF pairs, sas, raws
<1>7. Len(sas) = n /\ \A k \in 1..n : /\ sas[k].ike_frames = groups[k]
                                      /\ sas[k].peers = PeersOf(Opener(groups[k]))
  BY <1>3, <1>5
<1>8. /\ \A raw : raw \in ToSet(raws) <=> \E k \in 1..n : raw = raws[k]
      /\ \A k \in 1..n :
           /\ raws[k].ike_frames = groups[k]
           /\ raws[k].peers = sas[k].peers
           /\ raws[k].esp_frames = Picked(read.esp, Owned(read, sas, sas[k].peers))
  <2>1. /\ \A raw : raw \in ToSet(raws) <=> \E k \in 1..Len(sas) : raw = raws[k]
        /\ \A k \in 1..Len(sas) :
             /\ raws[k].ike_frames = sas[k].ike_frames
             /\ raws[k].peers = sas[k].peers
             /\ raws[k].esp_frames = Picked(read.esp, Owned(read, sas, sas[k].peers))
    BY BucketOf DEF sas, raws
  <2> QED
    BY <1>7, <2>1
<1>9. \A k \in 1..n : pairs[k].peers = sas[k].peers
  <2>1. \A k \in 1..n : raws[k] \in ToSet(raws) /\ ~Moved(raws[k])
    BY <1>8 DEF raws
  <2> QED
    BY <1>6, <1>7, <1>8, <2>1 DEF Moved
<1>10. [k \in 1..Len(pairs) |-> pairs[k].peers] = [k \in 1..Len(sas) |-> sas[k].peers]
  BY <1>6, <1>7, <1>9
<1>11. \A e : OwnerPair(e, pairs) = OwnerPair(e, sas)
  BY <1>10 DEF OwnerPair
<1>12. ASSUME NEW p PROVE Owned(read, pairs, p) = Owned(read, sas, p)
  BY <1>11 DEF Owned
<1>13. \A k \in 1..n : Picked(read.esp, Owned(read, pairs, pairs[k].peers))
                         = Picked(read.esp, Owned(read, sas, sas[k].peers))
  BY <1>9, <1>12
<1>14. /\ DOMAIN GroupsOfPath(read) = 1..n
       /\ \A k \in 1..n : GroupsOfPath(read)[k] = FramesCtx(raws[k].ike_frames, raws[k].esp_frames)
  BY <1>2, <1>8, <1>13
<1>15. \A ctx : ctx \in ToSet(GroupsOfPath(read))
         <=> \E k \in 1..n : ctx = FramesCtx(raws[k].ike_frames, raws[k].esp_frames)
  BY <1>5, <1>14 DEF ToSet
<1> QED
  BY <1>8, <1>15 DEF raws

\* Nothing but an SA that moved can make a parser that is given the file, and groups
\* its packets itself (_groups), and Stage 1 differ in the addresses or in the ESP of
\* any SA.
THEOREM AttributionAgrees == StoredSpec => []SameUnlessMoved
<1>1. ASSUME Analysed, \A raw \in RawSas : ~Moved(raw) PROVE SameAttribution
  <2> DEFINE read == Read
  <2>1. Len(read.ike) \in Nat /\ Len(read.esp) \in Nat
    <3>1. Len(capture) \in Nat
      BY <1>1 DEF Analysed
    <3> QED
      BY <3>1, FramesRead DEF Read
  <2>2. RawSas = ToSet(bucket(read).sessions)
    BY DEF RawSas, Ingested
  <2> HIDE DEF read
  <2>3. \A ctx : ctx \in ToSet(GroupsOfPath(read))
          <=> \E raw \in RawSas : ctx = FramesCtx(raw.ike_frames, raw.esp_frames)
    BY <1>1, <2>1, <2>2, GroupedAlike
  <2> QED
    BY <2>3 DEF SameAttribution, read
<1>2. Analysed => SameUnlessMoved
  BY <1>1 DEF SameUnlessMoved
<1> QED
  BY <1>2, AnalysisFollows, PTL
=============================================================================
