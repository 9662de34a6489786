---------------------------- MODULE DatasetProofs ----------------------------
(***************************************************************************)
(* What holds of the dataset generator for any number of cells, slots and   *)
(* starts: the pool of slots is exact, a pair of containers belongs to the  *)
(* cell that started it, a cell reported ok stays whole, and a corpus the   *)
(* validator accepts is whole.  That a run ends (RunEnds) stays with TLC.   *)
(***************************************************************************)
EXTENDS DatasetRun, FiniteSetTheorems, TLAPS

Label ==
  {"queued", "done", "borrow", "clean", "run", "capture", "establish", "traffic", "stop",
   "copy", "copying", "down", "back", "check", "writing"}

TypeInv ==
  /\ fromLabels \in BOOLEAN
  /\ run \in Nat \ {0}
  /\ phase \in {"running", "killed", "over"}
  /\ pc \in [Cell -> Label]
  /\ result \in [Cell -> {"none", "skip", "ok", "FAIL", "raised"}]
  /\ slot \in [Cell -> Slot \cup {NoSlot}]
  /\ pair \in [Slot -> [run : Nat, cell : Nat]]
  /\ tape \in [Cell -> SUBSET {"on", "ike", "esp"}]
  /\ pcap \in [Cell -> {"none", "part", "few", "bad", "blind", "whole"}]
  /\ label \in [Cell -> {"none", "part", "full"}]
  /\ reported \subseteq Cell

\* The order of the steps inside the pair's context.
LEMMA StepOrder ==
  /\ Head(Steps) = "capture"
  /\ After("capture") = "establish"
  /\ After("establish") = "traffic"
  /\ After("traffic") = "stop"
  /\ After("stop") = "copy"
<1>1. /\ Steps[1] = "capture"
      /\ Steps[2] = "establish"
      /\ Steps[3] = "traffic"
      /\ Steps[4] = "stop"
      /\ Steps[5] = "copy"
  BY DEF Steps
<1>2. \A i \in 1..4 : i = 1 \/ i = 2 \/ i = 3 \/ i = 4
  OBVIOUS
<1>3. ASSUME NEW k \in 1..4 PROVE (CHOOSE i \in 1..4 : Steps[i] = Steps[k]) = k
  <2>1. \A i \in 1..4 : Steps[i] = Steps[k] => i = k
    BY <1>1, <1>2
  <2> QED
    BY <2>1
<1>4. \A k \in 1..4 : After(Steps[k]) = Steps[1 + k]
  BY <1>3 DEF After
<1>5. /\ After(Steps[1]) = Steps[2]
      /\ After(Steps[2]) = Steps[3]
      /\ After(Steps[3]) = Steps[4]
      /\ After(Steps[4]) = Steps[5]
  BY <1>4
<1> QED
  BY <1>1, <1>5 DEF Steps

\* No slot is the number that stands for none.
LEMMA SlotIsNumber == Slot \subseteq Nat /\ NoSlot \notin Slot
BY DatasetAssumption DEF Slot, NoSlot
-----------------------------------------------------------------------------
LEMMA TypeInit == Init => TypeInv
BY DEF Init, TypeInv, Label, NoPair

LEMMA TypeCell ==
    ASSUME TypeInv, free \subseteq Slot, NEW c \in Cell, CellStep(c) PROVE TypeInv'
<1> USE DEF TypeInv, Running, Goto, Ends, Label, disk
<1>1. CASE Take(c)
  BY <1>1 DEF Take
<1>2. CASE Borrow(c)
  BY <1>2 DEF Borrow
<1>3. CASE Clean(c)
  BY <1>3 DEF Clean, NoPair
<1>4. CASE RunPair(c)
  <2>1. [run |-> run, cell |-> c] \in [run : Nat, cell : Nat]
    BY DatasetAssumption DEF Cell
  <2> QED
    BY <1>4, <2>1, StepOrder DEF RunPair
<1>5. ASSUME NEW step \in {"capture", "establish", "traffic", "stop"},
             NEW taped \in SUBSET {"on", "ike", "esp"}, Record(c, step, taped)
      PROVE  TypeInv'
  <2>1. After(step) \in Label
    BY StepOrder
  <2> QED
    BY <1>5, <2>1 DEF Record
<1>6. CASE OpenCopy(c)
  BY <1>6 DEF OpenCopy
<1>7. CASE CloseCopy(c)
  BY <1>7 DEF CloseCopy, Copied
<1>8. CASE Raise(c)
  BY <1>8 DEF Raise
<1>9. CASE TearDown(c)
  BY <1>9 DEF TearDown, NoPair
<1>10. CASE GiveBack(c)
  BY <1>10 DEF GiveBack
<1>11. CASE CheckFails(c) \/ CheckRaises(c) \/ CheckPasses(c)
  BY <1>11 DEF CheckFails, CheckRaises, CheckPasses
<1>12. CASE WriteLabel(c)
  BY <1>12 DEF WriteLabel
<1>13. CASE StartCapture(c) \/ Establish(c) \/ RunTraffic(c) \/ StopCapture(c)
  <2>1. /\ tape[c] \cup {"on"} \in SUBSET {"on", "ike", "esp"}
        /\ Taped(c, "ike") \in SUBSET {"on", "ike", "esp"}
        /\ Taped(c, "esp") \in SUBSET {"on", "ike", "esp"}
        /\ tape[c] \ {"on"} \in SUBSET {"on", "ike", "esp"}
    BY DEF Taped
  <2> HIDE DEF TypeInv
  <2> QED
    BY <1>5, <1>13, <2>1 DEF StartCapture, Establish, RunTraffic, StopCapture
<1> QED
  BY <1>1, <1>2, <1>3, <1>4, <1>6, <1>7, <1>8, <1>9, <1>10, <1>11, <1>12, <1>13
  DEF CellStep

LEMMA TypeNext ==
    ASSUME TypeInv, free \subseteq Slot, [Next]_vars PROVE TypeInv'
<1>1. CASE UNCHANGED vars
  BY <1>1 DEF TypeInv, vars, local, disk
<1>2. CASE Finish
  BY <1>2 DEF TypeInv, Finish, local, disk
<1>3. CASE Kill
  BY <1>3 DEF TypeInv, Kill, Fresh, Label, disk
<1>4. CASE Restart
  BY <1>4 DEF TypeInv, Restart, Fresh, Label, disk
<1>5. CASE WriteManifest
  BY <1>5 DEF TypeInv, WriteManifest, local
<1> QED
  BY <1>1, <1>2, <1>3, <1>4, <1>5, TypeCell DEF Next
-----------------------------------------------------------------------------
(* The pool of slots *)

Active == {c \in Cell : pc[c] \notin Idle}

\* Slots are partitioned between the queue and the cells that hold one, which
\* are those inside capture_cell's try; the pool has a thread for each cell at
\* work, and none is at work while the script is not.
PoolInv ==
  /\ free = Slot \ {slot[c] : c \in Cell}
  /\ \A c, d \in Cell : slot[c] = slot[d] /\ slot[c] # NoSlot => c = d
  /\ \A c \in Cell : slot[c] # NoSlot <=> pc[c] \in HoldsSlot
  /\ Cardinality(Active) <= Parallel
  /\ phase # "running" => Active = {}

LEMMA CellIsFinite == IsFiniteSet(Cell) /\ Cardinality(Slot) = Parallel
<1>1. IsFiniteSet(Cell)
  BY DatasetAssumption, FS_Interval DEF Cell
<1>2. Cardinality(10..(9 + Parallel)) = (9 + Parallel) - 10 + 1
  BY DatasetAssumption, FS_Interval
<1> QED
  BY <1>1, <1>2, DatasetAssumption DEF Slot

\* What a step of a cell does to the pool: nothing, a loan or a return.
CellMove(c, l) ==
  /\ phase = "running" /\ phase' = phase /\ run' = run
  /\ pc' = [pc EXCEPT ![c] = l]
  /\ pc[c] \in Idle => Cardinality(Active) < Parallel
  /\ \/ /\ UNCHANGED <<slot, free>>
        /\ pc[c] \in HoldsSlot <=> l \in HoldsSlot
     \/ /\ pc[c] = "borrow"
        /\ l = "clean"
        /\ \E s \in free : /\ slot' = [slot EXCEPT ![c] = s]
                           /\ free' = free \ {s}
     \/ /\ pc[c] = "back"
        /\ l \notin HoldsSlot
        /\ slot' = [slot EXCEPT ![c] = NoSlot]
        /\ free' = free \cup {slot[c]}

LEMMA CellMoves ==
    ASSUME TypeInv, NEW c \in Cell, CellStep(c)
    PROVE  \E l \in Label : CellMove(c, l)
<1> USE DEF TypeInv, Running, Goto, Ends, Label, disk, CellMove, HoldsSlot, HasPair, MayRaise,
            Idle
<1>1. CASE Take(c)
  <2>1. {d \in Cell : pc[d] \notin Idle} = Active
    BY DEF Active
  <2>2. Cardinality(Active) < Parallel
    BY <1>1, <2>1 DEF Take
  <2> QED
    BY <1>1, <2>2 DEF Take
<1>2. CASE Borrow(c)
  BY <1>2 DEF Borrow
<1>3. CASE Clean(c)
  BY <1>3 DEF Clean
<1>4. CASE RunPair(c)
  BY <1>4, StepOrder DEF RunPair
<1>5. CASE StartCapture(c) \/ Establish(c) \/ RunTraffic(c) \/ StopCapture(c)
  BY <1>5, StepOrder DEF StartCapture, Establish, RunTraffic, StopCapture, Record
<1>6. CASE OpenCopy(c) \/ CloseCopy(c)
  BY <1>6 DEF OpenCopy, CloseCopy
<1>7. CASE Raise(c)
  BY <1>7 DEF Raise
<1>8. CASE TearDown(c)
  BY <1>8 DEF TearDown
<1>9. CASE GiveBack(c)
  BY <1>9 DEF GiveBack
<1>10. CASE CheckFails(c) \/ CheckRaises(c) \/ CheckPasses(c)
  BY <1>10 DEF CheckFails, CheckRaises, CheckPasses
<1>11. CASE WriteLabel(c)
  BY <1>11 DEF WriteLabel
<1> QED
  BY <1>1, <1>2, <1>3, <1>4, <1>5, <1>6, <1>7, <1>8, <1>9, <1>10, <1>11 DEF CellStep

LEMMA PoolInit == Init => PoolInv
<1> SUFFICES ASSUME Init PROVE PoolInv
  OBVIOUS
<1>1. Active = {}
  BY DEF Init, Active, Idle
<1>2. Cardinality(Active) <= Parallel
  BY <1>1, FS_EmptySet, DatasetAssumption
<1> QED
  BY <1>1, <1>2, SlotIsNumber DEF Init, PoolInv, HoldsSlot, HasPair, MayRaise

\* A cell joins those at work only when a thread is free to run it.
LEMMA ActiveBound ==
    ASSUME TypeInv, PoolInv, NEW c \in Cell, NEW l \in Label, CellMove(c, l)
    PROVE  Cardinality(Active') <= Parallel
<1>0. IsFiniteSet(Active) /\ Active \in SUBSET Cell
  BY CellIsFinite, FS_Subset DEF Active
<1>1. Cardinality(Active) \in Nat
  BY <1>0, FS_CardinalityType
<1>2. Active' \in SUBSET (Active \cup {c})
  BY DEF CellMove, TypeInv, Active
<1>3. IsFiniteSet(Active \cup {c})
      /\ Cardinality(Active \cup {c}) = IF c \in Active THEN Cardinality(Active)
                                        ELSE Cardinality(Active) + 1
  BY <1>0, FS_AddElement
<1>4. Cardinality(Active \cup {c}) <= Parallel
  BY <1>1, <1>3, DatasetAssumption DEF CellMove, PoolInv, Active
<1>5. Cardinality(Active') <= Cardinality(Active \cup {c}) /\ Cardinality(Active') \in Nat
  BY <1>2, <1>3, FS_Subset, FS_CardinalityType
<1> QED
  BY <1>1, <1>3, <1>4, <1>5, DatasetAssumption

LEMMA PoolCell ==
    ASSUME TypeInv, PoolInv, NEW c \in Cell, CellStep(c) PROVE PoolInv'
<1>1. PICK l \in Label : CellMove(c, l)
  BY CellMoves
<1>2. Cardinality(Active') <= Parallel /\ phase' = "running"
  BY <1>1, ActiveBound DEF CellMove
<1>3. \A d \in Cell : d # c => slot'[d] = slot[d] /\ pc'[d] = pc[d]
  BY <1>1 DEF CellMove, TypeInv
<1>4. pc'[c] = l /\ slot[c] \in Slot \cup {NoSlot}
  BY <1>1 DEF CellMove, TypeInv
<1>5. CASE UNCHANGED <<slot, free>> /\ (pc[c] \in HoldsSlot <=> l \in HoldsSlot)
  BY <1>2, <1>3, <1>4, <1>5 DEF PoolInv
<1>6. ASSUME pc[c] = "borrow", l = "clean",
             NEW s \in free, slot' = [slot EXCEPT ![c] = s], free' = free \ {s}
      PROVE  PoolInv'
  <2>1. s \in Slot /\ s # NoSlot /\ \A d \in Cell : slot[d] # s
    BY <1>6, SlotIsNumber DEF PoolInv
  <2>2. slot'[c] = s
    BY <1>6 DEF TypeInv
  <2>3. slot[c] = NoSlot
    BY <1>6 DEF PoolInv, HoldsSlot, HasPair, MayRaise
  <2> QED
    BY <1>2, <1>3, <1>4, <1>6, <2>1, <2>2, <2>3, SlotIsNumber
    DEF PoolInv, HoldsSlot
<1>7. CASE /\ pc[c] = "back" /\ l \notin HoldsSlot
           /\ slot' = [slot EXCEPT ![c] = NoSlot] /\ free' = free \cup {slot[c]}
  <2>1. slot[c] # NoSlot
    BY <1>7 DEF PoolInv, HoldsSlot
  <2>2. slot'[c] = NoSlot
    BY <1>7 DEF TypeInv
  <2>3. slot[c] \in Slot /\ \A d \in Cell : slot'[d] # slot[c]
    BY <1>3, <1>4, <2>1, <2>2 DEF PoolInv
  <2>4. free' = Slot \ {slot'[d] : d \in Cell}
    BY <1>3, <1>7, <2>2, <2>3, SlotIsNumber DEF PoolInv
  <2> QED
    BY <1>2, <1>3, <1>4, <1>7, <2>1, <2>2, <2>4 DEF PoolInv
<1> QED
  BY <1>1, <1>5, <1>6, <1>7 DEF CellMove

LEMMA PoolNext ==
    ASSUME TypeInv, PoolInv, [Next]_vars PROVE PoolInv'
<1>1. CASE UNCHANGED vars
  BY <1>1 DEF PoolInv, Active, vars, local
<1>2. CASE Finish
  <2>1. Active' = {} /\ Active = {}
    BY <1>2 DEF Finish, Active, Idle, local
  <2> QED
    BY <1>2, <2>1 DEF PoolInv, Finish, local
<1>3. CASE Fresh
  <2>1. Active' = {}
    BY <1>3 DEF Fresh, Active, Idle
  <2>2. Cardinality(Active') <= Parallel
    BY <2>1, FS_EmptySet, DatasetAssumption
  <2>3. \A c \in Cell : pc'[c] = "queued" /\ slot'[c] = NoSlot
    BY <1>3 DEF Fresh
  <2>4. free' = Slot \ {slot'[c] : c \in Cell}
    BY <1>3, <2>3, SlotIsNumber DEF Fresh
  <2> QED
    BY <2>1, <2>2, <2>3, <2>4 DEF PoolInv, HoldsSlot, HasPair, MayRaise
<1>4. CASE WriteManifest
  BY <1>4 DEF PoolInv, Active, WriteManifest, local
<1> QED
  BY <1>1, <1>2, <1>3, <1>4, PoolCell DEF Next, Kill, Restart

\* A cell that asks for a slot finds one: the cells at work are at most as many
\* as the slots, and this one holds none.
LEMMA NeverEmpty ==
    ASSUME TypeInv, PoolInv, NEW c \in Cell, pc[c] = "borrow" PROVE free # {}
<1> SUFFICES ASSUME free = {} PROVE FALSE
  OBVIOUS
<1> DEFINE Holders == {d \in Cell : slot[d] # NoSlot}
           lent == [d \in Holders |-> slot[d]]
<1>1. c \in Active /\ c \notin Holders
  BY DEF PoolInv, Active, Idle, HoldsSlot, HasPair, MayRaise
<1>2. Holders \in SUBSET (Active \ {c})
  BY <1>1 DEF PoolInv, Active, Idle, HoldsSlot, HasPair, MayRaise
<1>3. IsFiniteSet(Active) /\ IsFiniteSet(Active \ {c}) /\ IsFiniteSet(Holders)
  BY CellIsFinite, FS_Subset DEF Active
<1>4. Cardinality(Active \ {c}) = Cardinality(Active) - 1 /\ Cardinality(Active) \in Nat
  BY <1>1, <1>3, FS_RemoveElement, FS_CardinalityType
<1>5. Cardinality(Holders) <= Cardinality(Active \ {c})
  BY <1>2, <1>3, FS_Subset
<1>6. lent \in Surjection(Holders, Slot)
  <2>1. lent \in [Holders -> Slot]
    BY DEF TypeInv
  <2>2. \A s \in Slot : \E d \in Holders : lent[d] = s
    BY SlotIsNumber DEF PoolInv
  <2> QED
    BY <2>1, <2>2 DEF Surjection
<1>7. Cardinality(Slot) <= Cardinality(Holders)
  BY <1>3, <1>6, FS_Surjection
<1>8. Cardinality(Holders) \in Nat /\ Cardinality(Active \ {c}) \in Nat
  BY <1>3, FS_CardinalityType
<1> QED
  BY <1>4, <1>5, <1>7, <1>8, CellIsFinite, DatasetAssumption DEF PoolInv
-----------------------------------------------------------------------------
(* The containers *)

\* Containers of this start belong to the cell inside the pair's context that
\* holds their slot, or is about to remove them; none are of a later start.
PairInv ==
  /\ \A s \in Slot : pair[s].run <= run
  /\ phase # "killed" =>
       /\ \A s \in Slot : pair[s].run = run =>
            /\ pair[s].cell \in Cell
            /\ slot[pair[s].cell] = s
            /\ pc[pair[s].cell] \in HasPair \cup {"down"}
       /\ \A c \in Cell : pc[c] \in HasPair => pair[slot[c]] = [run |-> run, cell |-> c]

LEMMA PairInit == Init => PairInv
BY DEF Init, PairInv, NoPair, HasPair, MayRaise

\* What a step of a cell does to the pairs: it starts its own, removes what is
\* under its own names, or touches none.
PairMove(c, l) ==
  \/ /\ pc[c] \in {"clean", "down"} /\ l \notin HasPair \cup {"down"}
     /\ pair' = [pair EXCEPT ![slot[c]] = NoPair]
     /\ UNCHANGED slot
  \/ /\ pc[c] = "run" /\ l \in HasPair
     /\ pair' = [pair EXCEPT ![slot[c]] = [run |-> run, cell |-> c]]
     /\ UNCHANGED slot
  \/ /\ UNCHANGED <<pair, slot>>
     /\ l \in HasPair => pc[c] \in HasPair
     /\ pc[c] \in HasPair => l \in HasPair \cup {"down"}
     /\ pc[c] # "down"
  \/ /\ pc[c] \notin HasPair \cup {"down"} /\ l \notin HasPair \cup {"down"}
     /\ UNCHANGED pair

LEMMA PairMoves ==
    ASSUME TypeInv, NEW c \in Cell, CellStep(c)
    PROVE  \E l \in Label : CellMove(c, l) /\ PairMove(c, l)
<1>1. PICK l \in Label : CellMove(c, l)
  BY CellMoves
<1>2. pc'[c] = l
  BY <1>1 DEF CellMove, TypeInv
<1> SUFFICES PairMove(c, l)
  BY <1>1
<1> USE DEF TypeInv, Running, Goto, Ends, PairMove, HasPair, MayRaise, disk
<1>3. CASE Take(c)
  BY <1>2, <1>3 DEF Take
<1>4. CASE Borrow(c)
  BY <1>2, <1>4 DEF Borrow
<1>5. CASE Clean(c)
  BY <1>2, <1>5 DEF Clean
<1>6. CASE RunPair(c)
  BY <1>2, <1>6, StepOrder DEF RunPair
<1>7. CASE StartCapture(c) \/ Establish(c) \/ RunTraffic(c) \/ StopCapture(c)
  BY <1>2, <1>7, StepOrder DEF StartCapture, Establish, RunTraffic, StopCapture, Record
<1>8. CASE OpenCopy(c) \/ CloseCopy(c)
  BY <1>2, <1>8 DEF OpenCopy, CloseCopy
<1>9. CASE Raise(c)
  BY <1>2, <1>9 DEF Raise
<1>10. CASE TearDown(c)
  BY <1>2, <1>10 DEF TearDown
<1>11. CASE GiveBack(c)
  BY <1>2, <1>11 DEF GiveBack
<1>12. CASE CheckFails(c) \/ CheckRaises(c) \/ CheckPasses(c)
  BY <1>2, <1>12 DEF CheckFails, CheckRaises, CheckPasses
<1>13. CASE WriteLabel(c)
  BY <1>2, <1>13 DEF WriteLabel
<1> QED
  BY <1>3, <1>4, <1>5, <1>6, <1>7, <1>8, <1>9, <1>10, <1>11, <1>12, <1>13 DEF CellStep

LEMMA PairCell ==
    ASSUME TypeInv, PoolInv, PairInv, NEW c \in Cell, CellStep(c) PROVE PairInv'
<1>1. PICK l \in Label : CellMove(c, l) /\ PairMove(c, l)
  BY PairMoves
<1>2. phase = "running" /\ phase' = "running" /\ run' = run
  BY <1>1 DEF CellMove
<1>3. \A d \in Cell : d # c => slot'[d] = slot[d] /\ pc'[d] = pc[d]
  BY <1>1 DEF CellMove, TypeInv
<1>4. pc'[c] = l
  BY <1>1 DEF CellMove, TypeInv
<1>5. NoPair.run = 0 /\ run \in Nat /\ run # 0 /\ \A s \in Slot : pair[s].run \in Nat
  BY DEF NoPair, TypeInv
<1>6. CASE /\ pc[c] \in {"clean", "down"} /\ l \notin HasPair \cup {"down"}
           /\ pair' = [pair EXCEPT ![slot[c]] = NoPair]
           /\ UNCHANGED slot
  <2>1. slot[c] \in Slot
    BY <1>6 DEF PoolInv, TypeInv, HoldsSlot
  <2>2. pair'[slot[c]] = NoPair /\ \A s \in Slot : s # slot[c] => pair'[s] = pair[s]
    BY <1>6, <2>1 DEF TypeInv
  <2>3. \A d \in Cell : d # c /\ pc[d] \in HasPair => slot[d] \in Slot /\ slot[d] # slot[c]
    BY <2>1, SlotIsNumber DEF PoolInv, TypeInv, HoldsSlot
  <2> QED
    BY <1>2, <1>3, <1>4, <1>5, <1>6, <2>1, <2>2, <2>3 DEF PairInv
<1>7. CASE /\ pc[c] = "run" /\ l \in HasPair
           /\ pair' = [pair EXCEPT ![slot[c]] = [run |-> run, cell |-> c]]
           /\ UNCHANGED slot
  <2>1. slot[c] \in Slot
    BY <1>7 DEF PoolInv, TypeInv, HoldsSlot
  <2>2. /\ pair'[slot[c]] = [run |-> run, cell |-> c]
        /\ \A s \in Slot : s # slot[c] => pair'[s] = pair[s]
    BY <1>7, <2>1 DEF TypeInv
  <2>3. \A d \in Cell : d # c /\ pc[d] \in HasPair => slot[d] \in Slot /\ slot[d] # slot[c]
    BY <2>1, SlotIsNumber DEF PoolInv, TypeInv, HoldsSlot
  <2>4. \A s \in Slot : pair'[s].run = run' =>
          /\ pair'[s].cell \in Cell
          /\ slot'[pair'[s].cell] = s
          /\ pc'[pair'[s].cell] \in HasPair \cup {"down"}
    <3> SUFFICES ASSUME NEW s \in Slot, pair'[s].run = run
                 PROVE  /\ pair'[s].cell \in Cell
                        /\ slot[pair'[s].cell] = s
                        /\ pc'[pair'[s].cell] \in HasPair \cup {"down"}
      BY <1>2, <1>7
    <3>1. CASE s = slot[c]
      BY <1>4, <1>7, <2>2, <3>1
    <3>2. CASE s # slot[c]
      BY <1>2, <1>3, <2>2, <3>2 DEF PairInv
    <3> QED
      BY <3>1, <3>2
  <2>5. \A d \in Cell : pc'[d] \in HasPair => pair'[slot'[d]] = [run |-> run', cell |-> d]
    BY <1>2, <1>3, <1>7, <2>2, <2>3 DEF PairInv
  <2>6. \A s \in Slot : pair'[s].run <= run'
    BY <1>2, <1>5, <2>2 DEF PairInv
  <2> QED
    BY <2>4, <2>5, <2>6 DEF PairInv
<1>8. CASE /\ UNCHANGED <<pair, slot>>
           /\ l \in HasPair => pc[c] \in HasPair
           /\ pc[c] \in HasPair => l \in HasPair \cup {"down"}
           /\ pc[c] # "down"
  BY <1>2, <1>3, <1>4, <1>8 DEF PairInv
<1>9. CASE /\ pc[c] \notin HasPair \cup {"down"} /\ l \notin HasPair \cup {"down"}
           /\ UNCHANGED pair
  BY <1>2, <1>3, <1>4, <1>9 DEF PairInv
<1> QED
  BY <1>1, <1>6, <1>7, <1>8, <1>9 DEF PairMove

LEMMA PairNext ==
    ASSUME TypeInv, PoolInv, PairInv, [Next]_vars PROVE PairInv'
<1>1. CASE UNCHANGED vars
  BY <1>1 DEF PairInv, vars, local
<1>2. CASE Finish
  BY <1>2 DEF PairInv, Finish, local
<1>3. CASE Kill
  BY <1>3 DEF PairInv, Kill
<1>4. CASE Restart
  <2>1. \A s \in Slot : pair'[s].run < run'
    BY <1>4 DEF PairInv, Restart, TypeInv
  <2>2. \A c \in Cell : pc'[c] \notin HasPair
    BY <1>4 DEF Restart, Fresh, HasPair, MayRaise
  <2>3. \A s \in Slot : pair'[s].run <= run' /\ pair'[s].run # run'
    BY <1>4, <2>1 DEF Restart, TypeInv
  <2> QED
    BY <2>2, <2>3 DEF PairInv
<1>5. CASE WriteManifest
  BY <1>5 DEF PairInv, WriteManifest, local
<1> QED
  BY <1>1, <1>2, <1>3, <1>4, <1>5, PairCell DEF Next
-----------------------------------------------------------------------------
(* The files *)

\* What a cell has brought about at each step: tcpdump runs before the handshake,
\* so that a capture with enough in it is whole, and only a whole one is labelled.
CellData(c) ==
  /\ c \in reported => pcap[c] = "whole" /\ label[c] = "full" /\ pc[c] \in Idle
  /\ label[c] = "full" => fromLabels \/ c \in reported
  /\ pc[c] \in {"establish", "traffic", "stop"} => "on" \in tape[c]
  /\ pc[c] \in {"traffic", "stop", "copy", "copying"} => "ike" \in tape[c]
  /\ pc[c] \in {"stop", "copy", "copying"} => "esp" \in tape[c]
  /\ \/ pc[c] \in {"down", "back"} /\ result[c] # "FAIL"
     \/ pc[c] = "check"
     => pcap[c] \in {"few", "bad", "whole"}
  /\ pc[c] = "writing" => pcap[c] = "whole"

DataInv == \A c \in Cell : CellData(c)

LEMMA DataInit == Init => DataInv
BY DEF Init, DataInv, CellData, Idle

\* A cell's step leaves the files and the thread of every other cell alone.
LEMMA OthersKeep ==
    ASSUME TypeInv, NEW c \in Cell, CellStep(c), NEW d \in Cell, d # c, CellData(d)
    PROVE  CellData(d)'
<1> SUFFICES /\ pc'[d] = pc[d] /\ result'[d] = result[d] /\ tape'[d] = tape[d]
             /\ pcap'[d] = pcap[d] /\ label'[d] = label[d]
             /\ fromLabels' = fromLabels /\ (d \in reported' <=> d \in reported)
  BY DEF CellData
<1> QED
  BY DEF TypeInv, CellStep, Take, Borrow, Clean, RunPair, StartCapture, Establish, RunTraffic,
         StopCapture, Record, OpenCopy, CloseCopy, Raise, TearDown, GiveBack, CheckFails,
         CheckRaises, CheckPasses, WriteLabel, Goto, Ends, disk

LEMMA DataCell ==
    ASSUME TypeInv, NEW c \in Cell, CellStep(c), CellData(c) PROVE CellData(c)'
<1> USE DEF TypeInv, Running, Goto, Ends, CellData, disk, Idle
<1>1. CASE Take(c)
  BY <1>1 DEF Take, Finished
<1>2. CASE Borrow(c) \/ Clean(c)
  BY <1>2 DEF Borrow, Clean
<1>3. CASE RunPair(c)
  BY <1>3, StepOrder DEF RunPair
<1>4. CASE StartCapture(c)
  BY <1>4, StepOrder DEF StartCapture, Record
<1>5. CASE Establish(c)
  BY <1>5, StepOrder DEF Establish, Record, Taped
<1>6. CASE RunTraffic(c)
  BY <1>6, StepOrder DEF RunTraffic, Record, Taped
<1>7. CASE StopCapture(c)
  BY <1>7, StepOrder DEF StopCapture, Record
<1>8. CASE OpenCopy(c)
  BY <1>8 DEF OpenCopy
<1>9. CASE CloseCopy(c)
  BY <1>9 DEF CloseCopy, Copied
<1>10. CASE Raise(c)
  BY <1>10 DEF Raise, MayRaise
<1>11. CASE TearDown(c)
  BY <1>11 DEF TearDown
<1>12. CASE GiveBack(c)
  BY <1>12 DEF GiveBack
<1>13. CASE CheckFails(c) \/ CheckRaises(c) \/ CheckPasses(c)
  BY <1>13 DEF CheckFails, CheckRaises, CheckPasses
<1>14. CASE WriteLabel(c)
  BY <1>14 DEF WriteLabel
<1> QED
  BY <1>1, <1>2, <1>3, <1>4, <1>5, <1>6, <1>7, <1>8, <1>9, <1>10, <1>11, <1>12, <1>13, <1>14
  DEF CellStep

LEMMA DataNext ==
    ASSUME TypeInv, DataInv, [Next]_vars PROVE DataInv'
<1>1. CASE UNCHANGED vars
  BY <1>1 DEF DataInv, CellData, vars, local, disk
<1>2. CASE Finish
  BY <1>2 DEF DataInv, CellData, Finish, local, disk
<1>3. CASE Kill \/ Restart
  BY <1>3 DEF DataInv, CellData, Kill, Restart, Fresh, Idle, disk
<1>4. CASE WriteManifest
  BY <1>4 DEF DataInv, CellData, WriteManifest, local
<1>5. ASSUME NEW c \in Cell, CellStep(c) PROVE DataInv'
  BY <1>5, DataCell, OthersKeep DEF DataInv
<1> QED
  BY <1>1, <1>2, <1>3, <1>4, <1>5 DEF Next
-----------------------------------------------------------------------------
\* The invariant all four properties follow from.
Inv == TypeInv /\ PoolInv /\ PairInv /\ DataInv

LEMMA InvHolds == Spec => []Inv
<1>1. Init => Inv
  BY TypeInit, PoolInit, PairInit, DataInit DEF Inv
<1>2. Inv /\ [Next]_vars => Inv'
  <2> SUFFICES ASSUME Inv, [Next]_vars PROVE Inv'
    OBVIOUS
  <2>1. free \subseteq Slot
    BY DEF Inv, PoolInv
  <2> QED
    BY <2>1, TypeNext, PoolNext, PairNext, DataNext DEF Inv
<1> QED
  BY <1>1, <1>2, PTL DEF Spec

\* For any number of cells and threads no slot is lost or doubled while a run
\* lasts, and a cell that asks for one finds one.
THEOREM PoolStaysExact == Spec => []PoolIsExact
<1>1. Inv => PoolIsExact
  BY NeverEmpty DEF Inv, PoolInv, PoolIsExact
<1> QED
  BY <1>1, InvHolds, PTL

\* A cell's containers are its own from docker run to the end of its context.
THEOREM PairStaysOwn == Spec => []PairIsOwn
<1>1. Inv => PairIsOwn
  BY DEF Inv, PairInv, PairIsOwn, HoldsSlot
<1> QED
  BY <1>1, InvHolds, PTL

\* A cell reported ok keeps its capture and its label through any later runs.
THEOREM OkStaysKept == Spec => []OkIsKept
<1>1. Inv => OkIsKept
  BY DEF Inv, TypeInv, DataInv, CellData, OkIsKept
<1> QED
  BY <1>1, InvHolds, PTL

\* A sampled corpus that the validator accepts holds whole captures only.
THEOREM AcceptedIsWhole == Spec => []ValidatedIsWhole
<1>1. Inv => ValidatedIsWhole
  BY DEF Inv, TypeInv, DataInv, CellData, ValidatedIsWhole, Accepted
<1> QED
  BY <1>1, InvHolds, PTL
=============================================================================
