--------------------------- MODULE BeryHeapProofs ---------------------------
(***************************************************************************)
(* Proofs about BeryHeap for any number of cells, slots, types and words   *)
(* and any thresholds.  The invariant of the collector and the refinement  *)
(* of ManagedHeap are for programs whose destructors do not allocate       *)
(* (NoAllocDtors): without that hypothesis they are false, and             *)
(* BeryHeap_reentrant.cfg shows the counterexample.  The types, the        *)
(* thresholds, the unlinking of what is destroyed and the counters are     *)
(* proved for any destructors.                                             *)
(***************************************************************************)
EXTENDS BeryHeap, SequenceTheorems, FiniteSetTheorems,
        WellFoundedInduction, TLAPS

NoAllocDtors == DtorAllocs = {}

Distinct == \A i, j \in 1..Len(heap) : heap[i] = heap[j] => i = j

\* No mark bit outside a collection, on any cell.
NoMarks == phase \in {"mutator", "malloc"} => \A o \in Cell : ~marked[o]

SweepMarks ==
  phase = "sweep" => \A o \in Cell : marked[o] => o \in Reach

\* What a collection marks and what it sweeps past is on the list: it ends in
\* "uaf" when the program has left it a dangling pointer to follow.
OnList ==
  /\ phase \in {"roots", "trace"} => \A o \in Cell : marked[o] => o \in Live
  /\ phase = "sweep" => Reach \subseteq Live

\* The register is dropped on entry to bery_alloc.
FreshDropped == phase \notin {"mutator", "uaf"} => fresh = Null

\* A slot without a root holds null.
SlotsClean == \A s \in Slot : s \notin Rooted => slotVal[s] = Null

NoSuspension == susp = <<>> /\ phase # "resume"

IInv ==
  /\ TypeOK
  /\ NoSuspension
  /\ Distinct
  /\ Reach \subseteq Live \cup deleted
  /\ OnList
  /\ SlotsClean
  /\ FreshDropped
  /\ NoMarks
  /\ TriColour
  /\ SweepSplit
  /\ SweepMarks

-----------------------------------------------------------------------------
(***************************************************************************)
(* Lists.                                                                  *)
(***************************************************************************)

\* Unlinking position i of a list keeps the other elements in their order.
LEMMA WithoutProperties ==
  ASSUME NEW S, NEW s \in Seq(S), NEW i \in 1..Len(s)
  PROVE  /\ Without(s, i) \in Seq(S)
         /\ Len(Without(s, i)) = Len(s) - 1
         /\ \A j \in 1..(i - 1) : Without(s, i)[j] = s[j]
         /\ \A j \in i..(Len(s) - 1) : Without(s, i)[j] = s[j + 1]
<1> DEFINE a == SubSeq(s, 1, i - 1)
           b == SubSeq(s, i + 1, Len(s))
<1>1. a \in Seq(S) /\ Len(a) = i - 1 /\ \A j \in 1..(i - 1) : a[j] = s[j]
  BY SubSeqProperties
<1>2. /\ b \in Seq(S) /\ Len(b) = Len(s) - i
      /\ \A j \in 1..(Len(s) - i) : b[j] = s[i + j]
  <2>1. CASE i + 1 <= Len(s)
    BY <2>1, SubSeqProperties
  <2>2. CASE ~(i + 1 <= Len(s))
    BY <2>2, SubSeqProperties
  <2> QED BY <2>1, <2>2
<1>3. /\ a \o b \in Seq(S)
      /\ Len(a \o b) = Len(a) + Len(b)
      /\ \A j \in 1..(Len(a) + Len(b)) :
           (a \o b)[j] = IF j <= Len(a) THEN a[j] ELSE b[j - Len(a)]
  <2> HIDE DEF a, b
  <2> QED BY <1>1, <1>2, ConcatProperties
<1>4. Without(s, i) = a \o b
  BY DEF Without
<1> HIDE DEF a, b
<1>5. Len(s) \in Nat /\ i \in Nat
  BY LenProperties
<1>6. Len(a) + Len(b) = Len(s) - 1
  BY <1>1, <1>2, <1>5
<1>7. \A j \in 1..(i - 1) : Without(s, i)[j] = s[j]
  BY <1>1, <1>2, <1>3, <1>4, <1>5
<1>8. ASSUME NEW j \in i..(Len(s) - 1)
      PROVE  Without(s, i)[j] = s[j + 1]
  <2>1. (a \o b)[j] = b[j - (i - 1)]
    BY <1>1, <1>2, <1>3, <1>5
  <2>2. b[j - (i - 1)] = s[i + (j - (i - 1))]
    BY <1>2, <1>5
  <2>3. i + (j - (i - 1)) = j + 1
    BY <1>5
  <2> QED BY <1>4, <2>1, <2>2, <2>3
<1> QED BY <1>3, <1>4, <1>6, <1>7, <1>8

-----------------------------------------------------------------------------
(***************************************************************************)
(* Reachability.                                                           *)
(***************************************************************************)

\* Reach is a set of cells and is below every closed set, in this state and
\* in the next.
LEMMA ReachBelow ==
  /\ Reach \subseteq Cell
  /\ Reach' \subseteq Cell
  /\ \A S \in SUBSET Cell : Closed(S) => Reach \subseteq S
  /\ \A S \in SUBSET Cell : Closed(S)' => Reach' \subseteq S
BY DEF Reach

\* What the program holds and what objects point to are cells.
LEMMA PointersTyped ==
  ASSUME TypeOK
  PROVE  /\ Held \subseteq Cell
         /\ \A o \in Cell : Children(o) \subseteq Cell
<1>1. Held \subseteq Cell
  <2>1. \A s \in Rooted : slotVal[s] \in Pointer
    BY DEF TypeOK, Rooted
  <2> QED BY <2>1 DEF Held, Pointer, TypeOK
<1>2. ASSUME NEW o \in Cell PROVE Children(o) \subseteq Cell
  BY TypeAssumption DEF TypeOK, Children, Pointer
<1> QED BY <1>1, <1>2

\* Reach is itself closed.
LEMMA ReachClosed == TypeOK => Closed(Reach)
<1> SUFFICES ASSUME TypeOK PROVE Closed(Reach)
  OBVIOUS
<1>1. Held \subseteq Reach
  BY PointersTyped DEF Reach, Closed
<1>2. ASSUME NEW o \in Reach PROVE Children(o) \subseteq Reach
  <2>1. o \in Cell
    BY DEF Reach
  <2>2. Children(o) \subseteq Cell
    BY <2>1, PointersTyped
  <2>3. ASSUME NEW c \in Children(o), NEW S \in SUBSET Cell, Closed(S)
        PROVE  c \in S
    BY <2>3 DEF Reach, Closed
  <2> QED BY <2>2, <2>3 DEF Reach
<1> QED BY <1>1, <1>2 DEF Closed

LEMMA ReachClosedNext == TypeOK' => Closed(Reach)'
BY ReachClosed, PTL

\* A step after which every hand and every reachable object points only to
\* what was reachable makes nothing new reachable.
LEMMA ReachShrinks ==
  ASSUME Held' \subseteq Reach,
         \A o \in Reach : Children(o)' \subseteq Reach
  PROVE  Reach' \subseteq Reach
<1>1. Closed(Reach)'
      <=> Held' \subseteq Reach' /\ \A o \in Reach' : Children(o)' \subseteq Reach'
  BY DEF Closed
<1>2. ASSUME NEW x \in Reach' PROVE x \in Reach
  <2> DEFINE S == Reach
  <2>1. \A T \in SUBSET Cell :
          (Held' \subseteq T /\ \A o \in T : Children(o)' \subseteq T) => x \in T
    BY <1>2 DEF Reach, Closed
  <2>2. Reach \in SUBSET Cell
    BY ReachBelow
  <2> QED BY <2>1, <2>2
<1> QED BY <1>2

\* A step that changes neither what is held nor the traced words of reachable
\* objects leaves Reach as it is.
LEMMA ReachUnchanged ==
  ASSUME TypeOK, TypeOK',
         Held' = Held,
         \A o \in Reach : Children(o)' = Children(o)
  PROVE  Reach' = Reach
<1>1. Closed(Reach)
  BY ReachClosed
<1>2. Reach' \subseteq Reach
  BY <1>1, ReachShrinks DEF Closed
<1>3. Closed(Reach)'
  BY ReachClosedNext
<1>4. Held' \subseteq Reach' /\ \A o \in Reach' : Children(o)' \subseteq Reach'
  BY <1>3 DEF Closed
<1>5. Reach \subseteq Reach'
  <2>1. Held \subseteq Reach'
    BY <1>4
  <2>2. ASSUME NEW o \in Reach' PROVE Children(o) \subseteq Reach'
    BY <1>2, <1>4
  <2>3. \A T \in SUBSET Cell :
          (Held \subseteq T /\ \A o \in T : Children(o) \subseteq T)
            => Reach \subseteq T
    BY ReachBelow DEF Closed
  <2>4. Reach' \in SUBSET Cell
    BY ReachBelow
  <2> QED BY <2>1, <2>2, <2>3, <2>4
<1> QED BY <1>2, <1>5

-----------------------------------------------------------------------------
(***************************************************************************)
(* Types.                                                                  *)
(***************************************************************************)

\* A live object has a position on the list.
LEMMA PositionProperties ==
  ASSUME NEW c \in Live
  PROVE  PositionOf(c) \in 1..Len(heap) /\ heap[PositionOf(c)] = c
BY DEF Live, PositionOf

\* Releasing an object keeps the header fields and the count typed.
LEMMA ReleaseType ==
  ASSUME TypeOK, NEW o \in Cell, Release(o)
  PROVE  /\ marked' \in [Cell -> BOOLEAN]
         /\ typeId' \in [Cell -> TypeId]
         /\ ptr' \in [Cell -> [Word -> Pointer]]
         /\ allocationCount' \in Nat
<1>1. [w \in Word |-> Null] \in [Word -> Pointer]
  BY DEF Pointer
<1> QED BY <1>1, TypeAssumption DEF TypeOK, Release

LEMMA InitType == Init => TypeOK
BY TypeAssumption
DEF Init, Startup, TypeOK, Pointer, Phase

LEMMA NextType == TypeOK /\ [Next]_vars => TypeOK'
<1> SUFFICES ASSUME TypeOK, [Next]_vars PROVE TypeOK'
  OBVIOUS
<1> USE DEF TypeOK, Pointer
<1>1. ASSUME NEW c \in Cell, Malloc(c) PROVE TypeOK'
  BY <1>1, TypeAssumption DEF Malloc, collector, roots, Phase
<1>2. CASE MallocFails
  BY <1>2 DEF MallocFails, header, roots, collector, counters, Phase
<1>3. CASE MarkRoot
  <2> DEFINE obj == slotVal[rootStack[rootCur + 1]]
  <2>1. obj \in Pointer /\ rootCur' \in 0..Len(rootStack)
    BY <1>3 DEF MarkRoot
  <2>2. /\ UNCHANGED <<heap, typeId, ptr, roots, fresh, cur, want, susp,
                        deleted, gcEnabled, counters>>
        /\ phase = "roots" /\ cur = 0
    BY <1>3 DEF MarkRoot
  <2>3. CASE obj \in InUse \cup {Null}
    <3>1. phase' = phase /\ MarkObjects({obj} \ {Null})
      BY <1>3, <2>3 DEF MarkRoot
    <3>2. marked' \in [Cell -> BOOLEAN] /\ list' \in SUBSET Cell
      BY <2>1, <3>1 DEF MarkObjects
    <3> QED BY <2>1, <2>2, <3>1, <3>2 DEF roots, counters
  <2>4. CASE obj \notin InUse \cup {Null}
    BY <1>3, <2>1, <2>2, <2>4 DEF MarkRoot, UseAfterFree, roots, counters, Phase
  <2> QED BY <2>3, <2>4
<1>4. CASE EndRoots
  BY <1>4 DEF EndRoots, header, roots, counters, Phase
<1>5. ASSUME NEW o \in Cell, TraceObject(o) PROVE TypeOK'
  <2>1. Children(o) \subseteq Cell
    BY PointersTyped
  <2> QED BY <1>5, <2>1 DEF TraceObject, UseAfterFree, roots, counters, Phase
<1>6. CASE EndTrace
  BY <1>6 DEF EndTrace, header, roots, counters, Phase
<1>7. CASE SweepKeep
  BY <1>7 DEF SweepKeep, roots, counters, Phase
<1>8. CASE SweepFree
  <2>1. heap' \in Seq(Cell) /\ Len(heap') = Len(heap) - 1
    BY <1>8, WithoutProperties DEF SweepFree
  <2>2. heap[cur + 1] \in Cell /\ (cur # 0 => heap[cur] \in Cell)
    BY <1>8 DEF SweepFree
  <2>3. cur \in 0..Len(heap') /\ UNCHANGED <<roots, deleted, gcEnabled>>
    BY <1>8, <2>1 DEF SweepFree
  <2>4. CASE typeId[heap[cur + 1]] \in DtorAllocs
    <3> DEFINE f == [kind |-> "sweep", obj |-> heap[cur + 1],
                     pred |-> IF cur = 0 THEN Null ELSE heap[cur],
                     slot |-> Null, want |-> want]
    <3>1. susp' = Append(susp, f) /\ f \in Frame
      BY <1>8, <2>2, <2>4 DEF SweepFree, Frame
    <3>2. susp' \in Seq(Frame)
      <4> HIDE DEF f
      <4> QED BY <3>1, AppendProperties
    <3>3. EnterAlloc(DtorTemp) /\ UNCHANGED <<header, counters>>
      BY <1>8, <2>4 DEF SweepFree
    <3> QED BY <2>1, <2>3, <3>2, <3>3, TypeAssumption, SMTT(20)
        DEF EnterAlloc, header, roots, counters, Phase
  <2>5. CASE typeId[heap[cur + 1]] \notin DtorAllocs
    <3>1. /\ Release(heap[cur + 1])
          /\ UNCHANGED <<susp, want, fresh, phase, collector>>
      BY <1>8, <2>5 DEF SweepFree
    <3> QED BY <1>8, <2>1, <2>2, <2>3, <3>1, ReleaseType
        DEF SweepFree, roots, collector
  <2> QED BY <2>4, <2>5
<1>9. CASE EndSweep
  BY <1>9 DEF EndSweep, header, roots, Phase
<1>10. CASE Resume
  <2> DEFINE f == susp[Len(susp)]
  <2>1. f \in Frame /\ SubSeq(susp, 1, Len(susp) - 1) \in Seq(Frame)
    BY <1>10, SubSeqProperties DEF Resume
  <2>2. f.pred \in Live => PositionOf(f.pred) \in 1..Len(heap)
    BY PositionProperties
  <2>3. /\ marked' \in [Cell -> BOOLEAN] /\ typeId' \in [Cell -> TypeId]
        /\ ptr' \in [Cell -> [Word -> Pointer]] /\ allocationCount' \in Nat
    <3>1. Release(f.obj) /\ f.obj \in Cell
      BY <1>10, <2>1 DEF Resume, Frame
    <3> HIDE DEF f
    <3> QED BY <3>1, TypeAssumption DEF Release
  <2>4. /\ susp' = SubSeq(susp, 1, Len(susp) - 1) /\ want' = f.want
        /\ UNCHANGED <<heap, rootStack, fresh, rootCur, list, gcEnabled>>
    BY <1>10 DEF Resume
  <2>5. phase = "resume"
    BY <1>10 DEF Resume
  <2>6. CASE f.kind = "destroy"
    <3>1. /\ slotVal' = [slotVal EXCEPT ![f.slot] = Null]
          /\ deleted' = deleted \cup {f.obj}
          /\ phase' = "mutator" /\ UNCHANGED cur
      BY <1>10, <2>6 DEF Resume
    <3>2. f.slot \in Slot /\ f.want = Null /\ f.obj \in Cell
      BY <2>1, <2>6 DEF Frame
    <3> HIDE DEF f
    <3> QED BY <2>1, <2>3, <2>4, <2>5, <3>1, <3>2 DEF Phase
  <2>7. CASE f.kind # "destroy"
    <3>1. /\ UNCHANGED <<slotVal, deleted>>
          /\ \/ /\ phase' = "sweep"
                /\ cur' = 0 \/ (f.pred \in Live /\ cur' = PositionOf(f.pred))
             \/ phase' = "uaf" /\ UNCHANGED cur
      BY <1>10, <2>7 DEF Resume
    <3>2. f.want \in TypeId
      BY <2>1, <2>7 DEF Frame
    <3>3. cur' \in 0..Len(heap)
      BY <2>2, <3>1
    <3> HIDE DEF f
    <3> QED BY <2>1, <2>3, <2>4, <2>5, <3>1, <3>2, <3>3 DEF Phase
  <2> QED BY <2>6, <2>7
<1>11. ASSUME NEW t \in TypeId, BeryAlloc(t) PROVE TypeOK'
  BY <1>11
  DEF BeryAlloc, EnterAlloc, header, roots, counters, Phase
<1>12. ASSUME NEW s \in Slot, PushRoot(s) PROVE TypeOK'
  BY <1>12 DEF PushRoot, header, collector, counters, Phase
<1>13. ASSUME NEW s \in Slot, Delete(s) PROVE TypeOK'
  <2> DEFINE obj == slotVal[s]
             i == PositionOf(obj)
  <2>1. obj \in Cell /\ i \in 1..Len(heap)
    BY <1>13, PositionProperties DEF Delete, Live
  <2>2. heap' \in Seq(Cell) /\ Len(heap') = Len(heap) - 1
    BY <1>13, <2>1, WithoutProperties DEF Delete
  <2>3. /\ cur = 0 /\ rootCur = 0 /\ phase = "mutator"
        /\ UNCHANGED <<rootStack, gcEnabled>>
    BY <1>13 DEF Delete
  <2>4. CASE typeId[obj] \in DtorAllocs
    <3> DEFINE f == [kind |-> "destroy", obj |-> obj, pred |-> Null,
                     slot |-> s, want |-> Null]
    <3>1. susp' = Append(susp, f) /\ f \in Frame
      BY <1>13, <2>1, <2>4 DEF Delete, Frame
    <3>2. susp' \in Seq(Frame)
      <4> HIDE DEF f
      <4> QED BY <3>1, AppendProperties
    <3>3. /\ EnterAlloc(DtorTemp)
          /\ UNCHANGED <<header, slotVal, deleted, counters>>
      BY <1>13, <2>4 DEF Delete
    <3> QED BY <2>2, <2>3, <3>2, <3>3, TypeAssumption
        DEF EnterAlloc, header, counters, Phase
  <2>5. CASE typeId[obj] \notin DtorAllocs
    <3>1. /\ Release(obj) /\ fresh' = Null
          /\ slotVal' = [slotVal EXCEPT ![s] = Null]
          /\ deleted' = deleted \cup {obj}
          /\ UNCHANGED <<susp, want, phase, collector>>
      BY <1>13, <2>5 DEF Delete
    <3> HIDE DEF obj
    <3> QED BY <2>1, <2>2, <2>3, <3>1, ReleaseType DEF collector
  <2> QED BY <2>4, <2>5
<1>14. CASE PopRoot
  <2>1. Tail(rootStack) \in Seq(Slot) /\ Len(Tail(rootStack)) \in Nat
    BY <1>14, HeadTailProperties DEF PopRoot
  <2>2. slotVal' \in [Slot -> Pointer]
    BY <1>14 DEF PopRoot
  <2>3. rootCur = 0
    BY <1>14 DEF PopRoot
  <2> QED BY <1>14, <2>1, <2>2, <2>3 DEF PopRoot, header, collector, counters
<1>15. ASSUME NEW s \in Slot, NEW v \in Pointer, StoreSlot(s, v) PROVE TypeOK'
  BY <1>15 DEF StoreSlot, header, collector, counters
<1>16. ASSUME NEW o \in Cell, NEW w \in Word, NEW v \in Pointer,
              StoreWord(o, w, v)
       PROVE  TypeOK'
  BY <1>16 DEF StoreWord, roots, collector, counters
<1>17. CASE Shutdown
  <2>1. /\ cur = 0 /\ rootCur = 0
        /\ phase' \in {"uaf", "done"} /\ fresh' = Null
        /\ heap' = heap \/ heap' = <<>>
        /\ UNCHANGED <<header, roots, collector, want, susp, deleted,
                       gcEnabled, allocationCount>>
    BY <1>17 DEF Shutdown
  <2>2. heap' \in Seq(Cell) /\ cur \in 0..Len(heap')
    <3>1. CASE heap' = heap
      BY <2>1, <3>1
    <3>2. CASE heap' = <<>>
      BY <2>1, <3>2, EmptySeq
    <3> QED BY <2>1, <3>1, <3>2
  <2> QED BY <2>1, <2>2 DEF header, roots, collector, Phase
<1>18. CASE UNCHANGED vars
  BY <1>18 DEF vars, header, roots, collector, counters
<1>19. CASE UseDangling
  BY <1>19 DEF UseDangling, header, roots, collector, counters, Phase
<1>20. ASSUME NEW s \in Slot, DeleteAgain(s) PROVE TypeOK'
  <2>1. /\ phase = "mutator" /\ phase' = "uaf"
        /\ UNCHANGED allocationCount
        /\ UNCHANGED <<heap, header, roots, fresh, collector, want, susp,
                       deleted, gcEnabled>>
    BY <1>20 DEF DeleteAgain, counters
  <2> QED BY <2>1 DEF header, roots, collector, Phase
<1> QED
  BY <1>1, <1>2, <1>3, <1>4, <1>5, <1>6, <1>7, <1>8, <1>9, <1>10, <1>11,
     <1>12, <1>13, <1>14, <1>15, <1>16, <1>17, <1>18, <1>19, <1>20
  DEF Next, Collector, Program

\* Every variable keeps its type in every execution, re-entrant collections
\* included.
THEOREM TypeCorrect == Spec => []TypeOK
BY InitType, NextType, PTL DEF Spec

-----------------------------------------------------------------------------
(***************************************************************************)
(* The invariant of the collector.                                         *)
(***************************************************************************)

LEMMA InUseIsLive == susp = <<>> => InUse = Live
<1>1. Len(<<>>) = 0
  BY EmptySeq
<1> QED BY <1>1 DEF InUse, Suspended

\* A new object is put in front of the list.
LEMMA ConsLive ==
  ASSUME TypeOK, NEW c \in Cell, heap' = <<c>> \o heap
  PROVE  /\ Live' = Live \cup {c}
         /\ Distinct /\ c \notin Live => Distinct'
<1>1. heap \in Seq(Cell) /\ <<c>> \in Seq(Cell) /\ Len(<<c>>) = 1
  BY DEF TypeOK
<1>2. /\ Len(heap') = 1 + Len(heap)
      /\ \A i \in 1..(1 + Len(heap)) :
           heap'[i] = IF i <= 1 THEN c ELSE heap[i - 1]
  BY <1>1, ConcatProperties
<1>3. Len(heap) \in Nat
  BY <1>1
<1>4. Live' = Live \cup {c}
  <2>1. ASSUME NEW x \in Live PROVE x \in Live'
    <3>1. PICK i \in 1..Len(heap) : heap[i] = x
      BY <2>1 DEF Live
    <3>2. heap'[i + 1] = x /\ i + 1 \in 1..Len(heap')
      BY <1>2, <1>3, <3>1
    <3> QED BY <3>2 DEF Live
  <2>2. c \in Live'
    BY <1>2, <1>3 DEF Live
  <2>3. ASSUME NEW x \in Live' PROVE x \in Live \cup {c}
    BY <1>2, <1>3, <2>3 DEF Live
  <2> QED BY <2>1, <2>2, <2>3
<1>5. ASSUME Distinct, c \notin Live PROVE Distinct'
  <2>1. \A i \in 1..Len(heap) : heap[i] # c
    BY <1>5 DEF Live
  <2>2. ASSUME NEW i \in 1..Len(heap'), NEW j \in 1..Len(heap'),
               heap'[i] = heap'[j]
        PROVE  i = j
    <3>1. i > 1 => i - 1 \in 1..Len(heap) /\ heap'[i] = heap[i - 1]
      BY <1>2, <1>3
    <3>2. j > 1 => j - 1 \in 1..Len(heap) /\ heap'[j] = heap[j - 1]
      BY <1>2, <1>3
    <3>3. heap'[1] = c
      BY <1>2, <1>3
    <3> QED BY <1>2, <1>3, <1>5, <2>1, <2>2, <3>1, <3>2, <3>3, SMTT(20) DEF Distinct
  <2> QED BY <2>2 DEF Distinct
<1> QED BY <1>4, <1>5

\* Unlinking takes one object off the list.
LEMMA UnlinkLive ==
  ASSUME TypeOK, Distinct, NEW i \in 1..Len(heap), heap' = Without(heap, i)
  PROVE  /\ Live' = Live \ {heap[i]}
         /\ Distinct'
         /\ Len(heap') = Len(heap) - 1
         /\ \A j \in 1..Len(heap') :
              heap'[j] = IF j < i THEN heap[j] ELSE heap[j + 1]
<1>1. heap \in Seq(Cell) /\ Len(heap) \in Nat
  BY LenProperties DEF TypeOK
<1>2. /\ Len(heap') = Len(heap) - 1
      /\ \A j \in 1..(i - 1) : heap'[j] = heap[j]
      /\ \A j \in i..(Len(heap) - 1) : heap'[j] = heap[j + 1]
  BY <1>1, WithoutProperties
<1>3. \A j \in 1..Len(heap') :
        heap'[j] = IF j < i THEN heap[j] ELSE heap[j + 1]
  BY <1>1, <1>2
<1>4. Distinct'
  BY <1>1, <1>2, <1>3 DEF Distinct
<1>5. Live' = Live \ {heap[i]}
  <2>1. ASSUME NEW x \in Live, x # heap[i] PROVE x \in Live'
    <3>1. PICK j \in 1..Len(heap) : heap[j] = x
      BY <2>1 DEF Live
    <3>2. CASE j < i
      BY <1>1, <1>2, <1>3, <3>1, <3>2, SMTT(20) DEF Live
    <3>3. CASE j > i
      <4>1. j - 1 \in 1..Len(heap') /\ heap'[j - 1] = x
        BY <1>1, <1>2, <1>3, <3>1, <3>3
      <4> QED BY <4>1 DEF Live
    <3> QED BY <2>1, <3>1, <3>2, <3>3
  <2>2. ASSUME NEW x \in Live' PROVE x \in Live /\ x # heap[i]
    <3>1. PICK j \in 1..Len(heap') : heap'[j] = x
      BY <2>2 DEF Live
    <3> QED BY <1>1, <1>2, <1>3, <3>1 DEF Live, Distinct
  <2> QED BY <2>1, <2>2
<1> QED BY <1>2, <1>3, <1>4, <1>5

\* A step of the collector that touches only marks and cursors leaves the
\* graph, the list and so Reach as they are.
LEMMA SameGraph ==
  ASSUME TypeOK, TypeOK',
         UNCHANGED <<heap, typeId, ptr, rootStack, slotVal, fresh>>
  PROVE  /\ Reach' = Reach
         /\ Live' = Live
         /\ \A o : Children(o)' = Children(o)
         /\ Distinct => Distinct'
         /\ SlotsClean => SlotsClean'
<1>1. Held' = Held
  BY DEF Held, Rooted
<1>2. \A o : Children(o)' = Children(o)
  BY DEF Children
<1>3. Reach' = Reach
  BY <1>1, <1>2, ReachUnchanged
<1> QED BY <1>2, <1>3 DEF Live, Distinct, SlotsClean, Rooted

\* A set that contains what is held and is closed under the traced words of
\* the next state contains what is reachable then.
LEMMA ReachWithin ==
  ASSUME NEW S \in SUBSET Cell, Held' \subseteq S,
         \A o \in S : Children(o)' \subseteq S
  PROVE  Reach' \subseteq S
BY ReachBelow DEF Closed

\* What a root slot points to is reachable.
LEMMA RootsReach ==
  ASSUME TypeOK, NEW i \in 1..Len(rootStack), slotVal[rootStack[i]] # Null
  PROVE  slotVal[rootStack[i]] \in Reach
BY ReachClosed DEF Closed, Held, Rooted

LEMMA InitInv == Init => IInv
<1> SUFFICES ASSUME Init PROVE IInv
  OBVIOUS
<1>1. TypeOK
  BY InitType
<1>2. Held = {} /\ Live = {}
  BY DEF Init, Startup, Held, Rooted, Live
<1>3. Reach = {}
  BY <1>2, ReachBelow DEF Closed
<1> QED
  BY <1>1, <1>3
  DEF Init, Startup, IInv, NoSuspension, Distinct, SlotsClean, FreshDropped,
      NoMarks, OnList, TriColour, SweepSplit, SweepMarks

\* Nothing is claimed of the collector once freed memory has been read.
LEMMA UafInv ==
  ASSUME IInv, TypeOK', phase' = "uaf",
         UNCHANGED <<heap, typeId, ptr, rootStack, slotVal, fresh, susp,
                     deleted>>
  PROVE  IInv'
<1>1. /\ Reach' = Reach /\ Live' = Live /\ Distinct' /\ SlotsClean'
  BY SameGraph DEF IInv
<1> QED
  BY <1>1
  DEF IInv, NoSuspension, FreshDropped, NoMarks, OnList, TriColour, SweepSplit,
      SweepMarks

LEMMA MarkRootInv ==
  ASSUME IInv, TypeOK', MarkRoot, phase' # "uaf"
  PROVE  IInv'
<1> DEFINE obj == slotVal[rootStack[rootCur + 1]]
           new == {o \in {obj} \ {Null} : ~marked[o]}
<1>1. /\ TypeOK /\ susp = <<>> /\ fresh = Null /\ phase = "roots"
      /\ rootCur + 1 \in 1..Len(rootStack)
  BY DEF IInv, NoSuspension, FreshDropped, MarkRoot, TypeOK
<1>2. obj # Null => obj \in Reach
  BY <1>1, RootsReach
<1>3. obj \in InUse \cup {Null} /\ InUse = Live
  BY <1>1, InUseIsLive DEF MarkRoot, UseAfterFree
<1>4. /\ rootCur' = rootCur + 1 /\ phase' = phase
      /\ marked' = [o \in Cell |-> marked[o] \/ o \in new]
      /\ list' = list \cup new
      /\ UNCHANGED <<heap, typeId, ptr, rootStack, slotVal, fresh, susp,
                     deleted>>
  BY <1>3 DEF MarkRoot, MarkObjects, roots
<1>5. /\ Reach' = Reach /\ Live' = Live /\ Distinct' /\ SlotsClean'
      /\ \A o : Children(o)' = Children(o)
  BY <1>1, <1>4, SameGraph DEF IInv
<1>6. new \subseteq Reach /\ new \subseteq Cell /\ (obj # Null => obj \in Cell)
  BY <1>2, ReachBelow
<1>7. TriColour'
  <2> USE <1>1 DEF TriColour, IInv
  <2>1. \A o \in Cell : marked'[o] => o \in Reach
    BY <1>4, <1>6
  <2>2. list' \subseteq {o \in Cell : marked'[o]}
    BY <1>4, <1>6
  <2>3. \A o \in {c \in Cell : marked'[c]} \ list' :
          \A c \in Children(o) : marked'[c]
    <3> SUFFICES ASSUME NEW o \in Cell, marked'[o], o \notin list',
                        NEW c \in Children(o)
                 PROVE  marked'[c]
      OBVIOUS
    <3>1. marked[o] /\ o \notin list
      BY <1>4
    <3>2. marked[c] /\ c \in Cell
      BY <3>1, PointersTyped
    <3> QED BY <1>4, <3>2
  <2>4. \A i \in 1..Len(rootStack) :
          i <= rootCur' /\ slotVal[rootStack[i]] # Null
            => marked'[slotVal[rootStack[i]]]
    <3> SUFFICES ASSUME NEW i \in 1..Len(rootStack), i <= rootCur',
                        slotVal[rootStack[i]] # Null
                 PROVE  marked'[slotVal[rootStack[i]]]
      OBVIOUS
    <3>1. slotVal[rootStack[i]] \in Cell
      BY RootsReach, ReachBelow
    <3>2. CASE i <= rootCur
      BY <1>4, <3>1, <3>2
    <3>3. CASE i = rootCur + 1
      BY <1>4, <3>1, <3>3
    <3> QED BY <1>4, <3>2, <3>3 DEF TypeOK
  <2> QED BY <1>4, <1>5, <2>1, <2>2, <2>3, <2>4
<1>8. OnList'
  BY <1>1, <1>3, <1>4, <1>5 DEF IInv, OnList
<1> QED
  BY <1>1, <1>4, <1>5, <1>7, <1>8
  DEF IInv, NoSuspension, FreshDropped, NoMarks, SweepSplit, SweepMarks

LEMMA TraceObjectInv ==
  ASSUME IInv, TypeOK', NEW o \in Cell, TraceObject(o), phase' # "uaf"
  PROVE  IInv'
<1> DEFINE new == {c \in Children(o) : ~marked[c]}
<1>1. /\ TypeOK /\ susp = <<>> /\ fresh = Null /\ phase = "trace"
      /\ o \in list /\ marked[o] /\ o \in Reach
  BY DEF IInv, NoSuspension, FreshDropped, TraceObject, TriColour
<1>2. Children(o) \subseteq Reach
  BY <1>1, ReachClosed DEF Closed
<1>3. /\ phase' = phase /\ Children(o) \subseteq Live
      /\ marked' = [c \in Cell |-> marked[c] \/ c \in new]
      /\ list' = (list \ {o}) \cup new
      /\ UNCHANGED <<heap, typeId, ptr, rootStack, slotVal, fresh, susp,
                     deleted>>
  BY <1>1, InUseIsLive DEF TraceObject, UseAfterFree, roots
<1>4. /\ Reach' = Reach /\ Live' = Live /\ Distinct' /\ SlotsClean'
      /\ \A c : Children(c)' = Children(c)
  BY <1>1, <1>3, SameGraph DEF IInv
<1>5. new \subseteq Cell /\ Children(o) \subseteq Cell
  BY <1>2, ReachBelow
<1>6. TriColour'
  <2> USE <1>1 DEF TriColour, IInv
  <2>1. \A c \in Cell : marked'[c] => c \in Reach
    BY <1>2, <1>3
  <2>2. list' \subseteq {c \in Cell : marked'[c]}
    BY <1>3, <1>5
  <2>3. ASSUME NEW x \in Cell, marked'[x], x \notin list',
               NEW c \in Children(x)
        PROVE  marked'[c]
    <3>1. c \in Cell
      BY PointersTyped
    <3>2. CASE x = o
      BY <1>3, <3>1, <3>2
    <3>3. CASE x # o
      BY <1>3, <2>3, <3>1, <3>3
    <3> QED BY <3>2, <3>3
  <2>4. ASSUME NEW i \in 1..Len(rootStack), slotVal[rootStack[i]] # Null
        PROVE  marked'[slotVal[rootStack[i]]]
    BY <1>3, <2>4, RootsReach, ReachBelow
  <2> QED BY <1>3, <1>4, <2>1, <2>2, <2>3, <2>4
<1>7. OnList'
  BY <1>1, <1>3, <1>4 DEF IInv, OnList
<1> QED
  BY <1>1, <1>3, <1>4, <1>6, <1>7
  DEF IInv, NoSuspension, FreshDropped, NoMarks, SweepSplit, SweepMarks

LEMMA EndRootsInv ==
  ASSUME IInv, TypeOK', EndRoots
  PROVE  IInv'
<1>1. /\ TypeOK /\ phase = "roots" /\ phase' = "trace"
      /\ rootCur = Len(rootStack)
      /\ UNCHANGED <<heap, typeId, ptr, marked, list, rootStack, slotVal,
                     fresh, susp, deleted>>
  BY DEF IInv, EndRoots, header, roots
<1>2. /\ Reach' = Reach /\ Live' = Live /\ Distinct' /\ SlotsClean'
      /\ \A c : Children(c)' = Children(c)
  BY <1>1, SameGraph DEF IInv
<1>3. TriColour'
  BY <1>1, <1>2 DEF IInv, TriColour
<1> QED
  BY <1>1, <1>2, <1>3
  DEF IInv, NoSuspension, FreshDropped, NoMarks, OnList, SweepSplit, SweepMarks

\* With the worklist empty the marked objects are closed under tracing, so
\* everything reachable is marked.
LEMMA EndTraceInv ==
  ASSUME IInv, TypeOK', EndTrace
  PROVE  IInv'
<1> DEFINE M == {o \in Cell : marked[o]}
<1>1. /\ TypeOK /\ fresh = Null /\ phase = "trace" /\ phase' = "sweep"
      /\ list = {} /\ cur' = 0
      /\ UNCHANGED <<heap, typeId, ptr, marked, list, rootStack, slotVal,
                     fresh, susp, deleted>>
  BY DEF IInv, EndTrace, header, roots, FreshDropped
<1>2. /\ Reach' = Reach /\ Live' = Live /\ Distinct' /\ SlotsClean'
  BY <1>1, SameGraph DEF IInv
<1>3. Held \subseteq M
  <2>1. ASSUME NEW s \in Rooted, slotVal[s] # Null PROVE slotVal[s] \in M
    <3>1. PICK i \in 1..Len(rootStack) : rootStack[i] = s
      BY DEF Rooted
    <3> QED BY <1>1, <2>1, <3>1, RootsReach, ReachBelow DEF IInv, TriColour
  <2> QED BY <1>1, <2>1 DEF Held
<1>4. \A o \in M : Children(o) \subseteq M
  BY <1>1, PointersTyped DEF IInv, TriColour
<1>5. Reach \subseteq M
  BY <1>3, <1>4, ReachBelow DEF Closed
<1>6. \A o \in Cell : marked[o] <=> o \in Reach
  BY <1>1, <1>5 DEF IInv, TriColour
<1>7. SweepSplit'
  <2> SUFFICES ASSUME NEW i \in 1..Len(heap)
               PROVE  i > 0 /\ (marked[heap[i]] <=> heap[i] \in Reach)
    BY <1>1, <1>2 DEF SweepSplit
  <2> QED BY <1>1, <1>6 DEF TypeOK
<1>8. SweepMarks'
  BY <1>1, <1>2, <1>6 DEF SweepMarks
<1>9. OnList'
  BY <1>1, <1>2, <1>6, ReachBelow DEF IInv, OnList
<1> QED
  BY <1>1, <1>2, <1>7, <1>8, <1>9
  DEF IInv, NoSuspension, FreshDropped, NoMarks, TriColour

LEMMA SweepKeepInv ==
  ASSUME IInv, TypeOK', SweepKeep
  PROVE  IInv'
<1> DEFINE obj == heap[cur + 1]
<1>1. /\ TypeOK /\ phase = "sweep" /\ phase' = "sweep" /\ fresh = Null
      /\ cur + 1 \in 1..Len(heap) /\ cur' = cur + 1
      /\ obj \in Cell /\ marked[obj]
      /\ marked' = [marked EXCEPT ![obj] = FALSE]
      /\ UNCHANGED <<heap, typeId, ptr, list, rootStack, slotVal, fresh, susp,
                     deleted>>
  BY DEF IInv, SweepKeep, roots, FreshDropped, TypeOK
<1>2. /\ Reach' = Reach /\ Live' = Live /\ Distinct' /\ SlotsClean'
  BY <1>1, SameGraph DEF IInv
<1>3. \A o \in Cell : marked'[o] <=> marked[o] /\ o # obj
  BY <1>1 DEF TypeOK
<1>4. obj \in Reach
  BY <1>1 DEF IInv, SweepMarks
<1>5. SweepSplit'
  <2> SUFFICES ASSUME NEW i \in 1..Len(heap)
               PROVE  IF i <= cur + 1
                      THEN ~marked'[heap[i]] /\ heap[i] \in Reach
                      ELSE marked'[heap[i]] <=> heap[i] \in Reach
    BY <1>1, <1>2 DEF SweepSplit
  <2>1. heap[i] \in Cell
    BY <1>1 DEF TypeOK
  <2>2. i # cur + 1 => heap[i] # obj
    BY <1>1 DEF IInv, Distinct
  <2>3. CASE i = cur + 1
    BY <1>3, <1>4, <2>1, <2>3
  <2>4. CASE i # cur + 1
    BY <1>1, <1>3, <2>1, <2>2, <2>4 DEF IInv, SweepSplit, TypeOK
  <2> QED BY <2>3, <2>4
<1>6. SweepMarks'
  BY <1>1, <1>2, <1>3 DEF IInv, SweepMarks
<1> QED
  BY <1>1, <1>2, <1>5, <1>6
  DEF IInv, NoSuspension, FreshDropped, NoMarks, OnList, TriColour

\* The object the sweep frees was not marked, so it is not reachable.
LEMMA SweepFreeInv ==
  ASSUME NoAllocDtors, IInv, TypeOK', SweepFree
  PROVE  /\ IInv'
         /\ Live' = Live \ {heap[cur + 1]}
         /\ heap[cur + 1] \notin Reach
         /\ Reach' = Reach
<1> DEFINE obj == heap[cur + 1]
<1>1. /\ TypeOK /\ Distinct /\ phase = "sweep" /\ fresh = Null
      /\ cur + 1 \in 1..Len(heap) /\ heap' = Without(heap, cur + 1)
      /\ obj \in Cell /\ ~marked[obj]
      /\ UNCHANGED <<rootStack, slotVal, deleted>>
  BY SMTT(20) DEF IInv, SweepFree, roots, FreshDropped, TypeOK
<1>2. typeId[obj] \notin DtorAllocs
  BY DEF NoAllocDtors
<1>3. /\ Release(obj) /\ UNCHANGED <<susp, want, fresh, phase, cur>>
  BY <1>2 DEF SweepFree, collector
<1>4. /\ Live' = Live \ {obj} /\ Distinct' /\ Len(heap') = Len(heap) - 1
      /\ \A j \in 1..Len(heap') :
           heap'[j] = IF j < cur + 1 THEN heap[j] ELSE heap[j + 1]
  BY <1>1, UnlinkLive
<1>5. obj \notin Reach
  BY <1>1 DEF IInv, SweepSplit, TypeOK
<1>6. /\ \A o \in Cell : o # obj =>
           marked'[o] = marked[o] /\ typeId'[o] = typeId[o] /\ ptr'[o] = ptr[o]
      /\ ~marked'[obj]
  BY <1>1, <1>3 DEF Release, TypeOK
<1>7. Reach' = Reach
  <2>1. Held' = Held
    BY <1>1, <1>3 DEF Held, Rooted
  <2>2. \A o \in Reach : Children(o)' = Children(o)
    BY <1>5, <1>6, ReachBelow DEF Children
  <2> QED BY <1>1, <2>1, <2>2, ReachUnchanged
<1>8. Len(heap) \in Nat /\ cur \in Nat
  BY <1>1 DEF TypeOK
<1>9. SweepSplit'
  <2> SUFFICES ASSUME NEW i \in 1..Len(heap')
               PROVE  IF i <= cur
                      THEN ~marked'[heap'[i]] /\ heap'[i] \in Reach
                      ELSE marked'[heap'[i]] <=> heap'[i] \in Reach
    BY <1>3, <1>7 DEF SweepSplit
  <2>1. CASE i <= cur
    <3>1. heap'[i] = heap[i] /\ i \in 1..Len(heap)
      BY <1>4, <1>8, <2>1
    <3>2. ~marked[heap[i]] /\ heap[i] \in Reach
      BY <1>1, <2>1, <3>1 DEF IInv, SweepSplit
    <3> QED BY <1>5, <1>6, <2>1, <3>1, <3>2, ReachBelow
  <2>2. CASE ~(i <= cur)
    <3>1. heap'[i] = heap[i + 1] /\ i + 1 \in 1..Len(heap)
      BY <1>4, <1>8, <2>2
    <3>2. heap[i + 1] # obj /\ heap[i + 1] \in Cell
      BY <1>1, <1>8, <2>2, <3>1 DEF Distinct, TypeOK
    <3>3. marked[heap[i + 1]] <=> heap[i + 1] \in Reach
      BY <1>1, <1>8, <2>2, <3>1 DEF IInv, SweepSplit
    <3> QED BY <1>6, <2>2, <3>1, <3>2, <3>3
  <2> QED BY <2>1, <2>2
<1>10. SweepMarks'
  BY <1>1, <1>6, <1>7 DEF IInv, SweepMarks
<1>11. Reach' \subseteq Live'
  BY <1>1, <1>4, <1>5, <1>7 DEF IInv, OnList
<1>12. SlotsClean'
  BY <1>1 DEF IInv, SlotsClean, Rooted
<1> QED
  BY <1>1, <1>3, <1>4, <1>5, <1>7, <1>9, <1>10, <1>11, <1>12
  DEF IInv, NoSuspension, FreshDropped, NoMarks, OnList, TriColour

\* At the end of the list every survivor is unmarked and reachable.
LEMMA EndSweepInv ==
  ASSUME IInv, TypeOK', EndSweep
  PROVE  /\ IInv'
         /\ Live = Reach
         /\ Reach' = Reach
         /\ Live' = Live
<1>1. /\ TypeOK /\ phase = "sweep" /\ phase' = "malloc" /\ fresh = Null
      /\ cur = Len(heap)
      /\ UNCHANGED <<heap, typeId, ptr, marked, list, rootStack, slotVal,
                     fresh, susp, deleted>>
  BY DEF IInv, EndSweep, header, roots, FreshDropped
<1>2. /\ Reach' = Reach /\ Live' = Live /\ Distinct' /\ SlotsClean'
  BY <1>1, SameGraph DEF IInv
<1>3. \A i \in 1..Len(heap) : ~marked[heap[i]] /\ heap[i] \in Reach
  BY <1>1 DEF IInv, SweepSplit
<1>4. Live = Reach
  BY <1>1, <1>3 DEF IInv, OnList, Live
<1>5. \A o \in Cell : ~marked[o]
  BY <1>1, <1>3, <1>4 DEF IInv, SweepMarks, Live
<1> QED
  BY <1>1, <1>2, <1>4, <1>5
  DEF IInv, NoSuspension, FreshDropped, NoMarks, OnList, TriColour, SweepSplit,
      SweepMarks

LEMMA MallocInv ==
  ASSUME IInv, TypeOK', NEW c \in Cell, Malloc(c)
  PROVE  /\ IInv'
         /\ c \notin Live /\ Live' = Live \cup {c}
         /\ Reach' \subseteq Reach \cup {c} /\ c \in Reach'
<1>1. /\ TypeOK /\ Distinct /\ phase = "malloc" /\ fresh = Null
      /\ susp = <<>> /\ c \notin Live
      /\ heap' = <<c>> \o heap
      /\ phase' = "mutator" /\ fresh' = c /\ deleted' = deleted \ {c}
      /\ UNCHANGED <<rootStack, slotVal, susp>>
  BY InUseIsLive DEF IInv, Malloc, NoSuspension, FreshDropped, roots
<1>2. Live' = Live \cup {c} /\ Distinct'
  BY <1>1, ConsLive
<1>3. /\ \A o \in Cell : o # c => typeId'[o] = typeId[o] /\ ptr'[o] = ptr[o]
      /\ \A w \in Word : ptr'[c][w] = Null
      /\ \A o \in Cell : ~marked'[o]
  BY <1>1 DEF Malloc, TypeOK, IInv, NoMarks
<1>4. typeId'[c] \in TypeId
  BY DEF TypeOK
<1>5. Reach' \subseteq Reach \cup {c}
  <2>1. Held \subseteq Reach /\ \A o \in Reach : Children(o) \subseteq Reach
    BY <1>1, ReachClosed DEF Closed
  <2>2. Held' \subseteq Reach \cup {c}
    BY <1>1, <2>1 DEF Held, Rooted
  <2>3. Children(c)' = {}
    BY <1>3, <1>4, TypeAssumption DEF Children
  <2>4. ASSUME NEW o \in Reach, o # c PROVE Children(o)' \subseteq Reach
    BY <1>3, <2>1, <2>4, ReachBelow DEF Children
  <2>5. Reach \cup {c} \in SUBSET Cell
    BY ReachBelow
  <2>6. \A o \in Reach \cup {c} : Children(o)' \subseteq Reach \cup {c}
    BY <2>3, <2>4
  <2> HIDE DEF Closed
  <2> QED BY <2>2, <2>5, <2>6, ReachWithin
<1>6. c \in Reach'
  <2>1. c \in Held'
    BY <1>1, NullAssumption DEF Held
  <2> QED BY <2>1, ReachClosedNext DEF Closed
<1>7. SlotsClean'
  BY <1>1 DEF IInv, SlotsClean, Rooted
<1> QED
  BY <1>1, <1>2, <1>3, <1>5, <1>6, <1>7
  DEF IInv, NoSuspension, FreshDropped, NoMarks, OnList, TriColour, SweepSplit,
      SweepMarks

LEMMA MallocFailsInv ==
  ASSUME IInv, TypeOK', MallocFails
  PROVE  IInv' /\ Reach' = Reach /\ Live' = Live
<1>1. /\ TypeOK /\ phase = "malloc" /\ phase' = "oom"
      /\ UNCHANGED <<heap, typeId, ptr, rootStack, slotVal, fresh, susp,
                     deleted>>
  BY DEF IInv, MallocFails, header, roots
<1>2. /\ Reach' = Reach /\ Live' = Live /\ Distinct' /\ SlotsClean'
  BY <1>1, SameGraph DEF IInv
<1> QED
  BY <1>1, <1>2
  DEF IInv, NoSuspension, FreshDropped, NoMarks, OnList, TriColour, SweepSplit,
      SweepMarks

LEMMA BeryAllocInv ==
  ASSUME IInv, TypeOK', NEW t \in TypeId, BeryAlloc(t)
  PROVE  IInv' /\ Reach' \subseteq Reach /\ Live' = Live
<1>1. /\ TypeOK /\ phase = "mutator" /\ phase' \in {"roots", "malloc"}
      /\ fresh' = Null /\ rootCur' = 0 /\ list' = {}
      /\ UNCHANGED <<heap, marked, typeId, ptr, rootStack, slotVal, susp,
                     deleted>>
  BY DEF IInv, BeryAlloc, EnterAlloc, header, roots
<1>2. Reach' \subseteq Reach
  <2>1. Held \subseteq Reach /\ \A o \in Reach : Children(o) \subseteq Reach
    BY <1>1, ReachClosed DEF Closed
  <2>2. Held' \subseteq Reach
    BY <1>1, <2>1 DEF Held, Rooted
  <2>3. \A o \in Reach : Children(o)' \subseteq Reach
    BY <1>1, <2>1 DEF Children
  <2> QED BY <2>2, <2>3, ReachShrinks
<1>3. Live' = Live /\ Distinct' /\ SlotsClean'
  BY <1>1 DEF IInv, Live, Distinct, SlotsClean, Rooted
<1>4. \A o \in Cell : ~marked'[o]
  BY <1>1 DEF IInv, NoMarks
<1>5. TriColour'
  BY <1>1, <1>4 DEF TriColour, TypeOK
<1> QED
  BY <1>1, <1>2, <1>3, <1>4, <1>5
  DEF IInv, NoSuspension, FreshDropped, NoMarks, OnList, SweepSplit, SweepMarks

\* What a step of the program has to show.
LEMMA ProgramStep ==
  ASSUME IInv, TypeOK', phase = "mutator", phase' = "mutator",
         UNCHANGED <<heap, marked, susp, deleted>>,
         Reach' \subseteq Reach, SlotsClean'
  PROVE  IInv' /\ Live' = Live
BY DEF IInv, Live, Distinct, NoSuspension, FreshDropped, NoMarks, OnList,
       TriColour, SweepSplit, SweepMarks

LEMMA PushRootInv ==
  ASSUME IInv, TypeOK', NEW s \in Slot, PushRoot(s)
  PROVE  IInv' /\ Reach' \subseteq Reach /\ Live' = Live
<1>1. /\ TypeOK /\ phase = "mutator" /\ phase' = "mutator"
      /\ slotVal[s] = Null
      /\ rootStack' = <<s>> \o rootStack
      /\ UNCHANGED <<heap, marked, typeId, ptr, slotVal, fresh, susp,
                     deleted>>
  BY DEF IInv, PushRoot, SlotsClean, header
<1>2. Rooted' = Rooted \cup {s}
  <2>1. rootStack \in Seq(Slot) /\ <<s>> \in Seq(Slot) /\ Len(<<s>>) = 1
    BY <1>1 DEF TypeOK
  <2>2. /\ Len(rootStack') = 1 + Len(rootStack)
        /\ \A i \in 1..(1 + Len(rootStack)) :
             rootStack'[i] = IF i <= 1 THEN s ELSE rootStack[i - 1]
    BY <1>1, <2>1, ConcatProperties
  <2>3. Len(rootStack) \in Nat
    BY <2>1
  <2>4. ASSUME NEW r \in Rooted PROVE r \in Rooted'
    <3>1. PICK i \in 1..Len(rootStack) : rootStack[i] = r
      BY DEF Rooted
    <3>2. i + 1 \in 1..Len(rootStack') /\ rootStack'[i + 1] = r
      BY <2>2, <2>3, <3>1
    <3> QED BY <3>2 DEF Rooted
  <2>5. s \in Rooted'
    BY <2>2, <2>3 DEF Rooted
  <2>6. Rooted' \subseteq Rooted \cup {s}
    BY <2>2, <2>3 DEF Rooted
  <2> QED BY <2>4, <2>5, <2>6
<1>3. Held' = Held
  BY <1>1, <1>2 DEF Held
<1>4. Reach' = Reach
  BY <1>1, <1>3, ReachUnchanged DEF Children
<1>5. SlotsClean'
  BY <1>1, <1>2 DEF IInv, SlotsClean
<1> QED BY <1>1, <1>4, <1>5, ProgramStep

LEMMA PopRootInv ==
  ASSUME IInv, TypeOK', PopRoot
  PROVE  IInv' /\ Reach' \subseteq Reach /\ Live' = Live
<1>1. /\ TypeOK /\ phase = "mutator" /\ phase' = "mutator"
      /\ rootStack # <<>> /\ rootStack' = Tail(rootStack)
      /\ slotVal' = [slotVal EXCEPT ![Head(rootStack)] = Null]
      /\ UNCHANGED <<heap, marked, typeId, ptr, fresh, susp,
                     deleted>>
  BY DEF IInv, PopRoot, header
<1>2. /\ Rooted = Rooted' \cup {Head(rootStack)}
      /\ Head(rootStack) \in Slot
  <2>1. /\ Len(rootStack') = Len(rootStack) - 1
        /\ \A i \in 1..Len(rootStack') : rootStack'[i] = rootStack[i + 1]
        /\ Head(rootStack) = rootStack[1]
        /\ Len(rootStack) \in Nat \ {0}
        /\ rootStack[1] \in Slot
    BY <1>1, HeadTailProperties, EmptySeq DEF TypeOK
  <2>2. ASSUME NEW r \in Rooted PROVE r \in Rooted' \cup {rootStack[1]}
    <3>1. PICK i \in 1..Len(rootStack) : rootStack[i] = r
      BY DEF Rooted
    <3>2. i > 1 => i - 1 \in 1..Len(rootStack') /\ rootStack'[i - 1] = r
      BY <2>1, <3>1
    <3> QED BY <2>1, <3>1, <3>2 DEF Rooted
  <2>3. Rooted' \cup {rootStack[1]} \subseteq Rooted
    BY <2>1 DEF Rooted
  <2> QED BY <2>1, <2>2, <2>3
<1>3. \A r \in Slot : slotVal'[r] = IF r = Head(rootStack) THEN Null
                                                        ELSE slotVal[r]
  BY <1>1 DEF TypeOK
<1>4. Rooted \subseteq Slot
  BY <1>1 DEF TypeOK, Rooted
<1>5. Held' \subseteq Held
  BY <1>1, <1>2, <1>3, <1>4 DEF Held
<1>6. Reach' \subseteq Reach
  BY <1>1, <1>5, ReachClosed, ReachShrinks DEF Closed, Children
<1>7. SlotsClean'
  BY <1>2, <1>3 DEF IInv, SlotsClean
<1> QED BY <1>1, <1>6, <1>7, ProgramStep

LEMMA StoreSlotInv ==
  ASSUME IInv, TypeOK', NEW s \in Slot, NEW v \in Pointer, StoreSlot(s, v)
  PROVE  IInv' /\ Reach' \subseteq Reach /\ Live' = Live
<1>1. /\ TypeOK /\ phase = "mutator" /\ phase' = "mutator"
      /\ s \in Rooted /\ v \in Reach \cup {Null}
      /\ slotVal' = [slotVal EXCEPT ![s] = v]
      /\ UNCHANGED <<heap, marked, typeId, ptr, rootStack, fresh, susp,
                     deleted>>
  BY DEF IInv, StoreSlot, header
<1>2. /\ Held \subseteq Reach
      /\ \A o \in Reach : Children(o) \subseteq Reach
  BY <1>1, ReachClosed DEF Closed
<1>3. \A r \in Slot : slotVal'[r] = IF r = s THEN v ELSE slotVal[r]
  BY <1>1 DEF TypeOK
<1>4. Rooted' = Rooted /\ Rooted \subseteq Slot
  BY <1>1 DEF TypeOK, Rooted
<1>5. Held' \subseteq Reach
  BY <1>1, <1>2, <1>3, <1>4 DEF Held
<1>6. Reach' \subseteq Reach
  BY <1>1, <1>2, <1>5, ReachShrinks DEF Children
<1>7. SlotsClean'
  BY <1>1, <1>3, <1>4 DEF IInv, SlotsClean
<1> QED BY <1>1, <1>6, <1>7, ProgramStep

LEMMA StoreWordInv ==
  ASSUME IInv, TypeOK', NEW o \in Cell, NEW w \in Word, NEW v \in Pointer,
         StoreWord(o, w, v)
  PROVE  IInv' /\ Reach' \subseteq Reach /\ Live' = Live
<1>1. /\ TypeOK /\ phase = "mutator" /\ phase' = "mutator"
      /\ v \in Reach \cup {Null}
      /\ ptr' = [ptr EXCEPT ![o][w] = v]
      /\ UNCHANGED <<heap, marked, typeId, slotVal, rootStack, fresh, susp,
                     deleted>>
  BY DEF IInv, StoreWord, roots
<1>2. /\ Held \subseteq Reach
      /\ \A x \in Reach : Children(x) \subseteq Reach
  BY <1>1, ReachClosed DEF Closed
<1>3. Held' = Held
  BY <1>1 DEF Held, Rooted
<1>4. ASSUME NEW x \in Reach PROVE Children(x)' \subseteq Children(x) \cup Reach
  <2>1. x \in Cell /\ PtrFields[typeId[x]] \subseteq Word
    BY <1>1, ReachBelow, TypeAssumption DEF TypeOK
  <2>2. \A y \in Word : ptr'[x][y] = ptr[x][y] \/ ptr'[x][y] = v
    BY <1>1, <2>1 DEF TypeOK
  <2> QED BY <1>1, <2>1, <2>2 DEF Children
<1>5. Reach' \subseteq Reach
  BY <1>2, <1>3, <1>4, ReachShrinks
<1>6. SlotsClean'
  BY <1>1 DEF IInv, SlotsClean, Rooted
<1> QED BY <1>1, <1>5, <1>6, ProgramStep

\* The object is gone from the list; whatever else holds it now dangles.
LEMMA DeleteInv ==
  ASSUME NoAllocDtors, IInv, TypeOK', NEW s \in Slot, Delete(s)
  PROVE  /\ IInv'
         /\ slotVal[s] \in Reach \cap Live
         /\ Live' = Live \ {slotVal[s]}
         /\ Reach' \subseteq Reach
<1> DEFINE obj == slotVal[s]
           i == PositionOf(obj)
<1>1. /\ TypeOK /\ Distinct /\ phase = "mutator" /\ s \in Rooted
      /\ obj \in Live
      /\ heap' = Without(heap, i)
      /\ UNCHANGED rootStack
  BY DEF IInv, Delete
<1>2. i \in 1..Len(heap) /\ heap[i] = obj /\ obj \in Cell
  BY <1>1, PositionProperties DEF Live, TypeOK
<1>3. typeId[obj] \notin DtorAllocs
  BY DEF NoAllocDtors
<1>4. /\ Release(obj) /\ fresh' = Null
      /\ slotVal' = [slotVal EXCEPT ![s] = Null]
      /\ deleted' = deleted \cup {obj}
      /\ UNCHANGED <<susp, phase>>
  BY <1>3 DEF Delete
<1>5. /\ Held \subseteq Reach
      /\ \A o \in Reach : Children(o) \subseteq Reach
  BY <1>1, ReachClosed DEF Closed
<1>6. obj \in Reach
  BY <1>1, <1>2, <1>5, NullAssumption DEF Held
<1>7. Live' = Live \ {obj} /\ Distinct'
  BY <1>1, <1>2, UnlinkLive
<1>8. \A r \in Slot : slotVal'[r] = IF r = s THEN Null ELSE slotVal[r]
  BY <1>1, <1>4 DEF TypeOK
<1>9. Rooted' = Rooted /\ Rooted \subseteq Slot
  BY <1>1 DEF TypeOK, Rooted
<1>10. Held' \subseteq Reach
  BY <1>1, <1>4, <1>5, <1>8, <1>9 DEF Held
<1>11. \A o \in Cell : o # obj =>
          typeId'[o] = typeId[o] /\ ptr'[o] = ptr[o] /\ marked'[o] = marked[o]
  BY <1>1, <1>2, <1>4 DEF Release, TypeOK
<1>12. ASSUME NEW o \in Reach PROVE Children(o)' \subseteq Reach
  <2>1. CASE o # obj
    BY <1>5, <1>11, <2>1, ReachBelow DEF Children
  <2>2. CASE o = obj
    <3>1. typeId'[obj] = DtorTemp /\ ptr'[obj] = [w \in Word |-> Null]
      BY <1>1, <1>2, <1>4 DEF Release, TypeOK
    <3>2. PtrFields[DtorTemp] \subseteq Word
      BY TypeAssumption
    <3> QED BY <2>2, <3>1, <3>2 DEF Children
  <2> QED BY <2>1, <2>2
<1>13. Reach' \subseteq Reach
  BY <1>10, <1>12, ReachShrinks
<1>14. \A o \in Cell : ~marked'[o]
  <2>1. ~marked'[obj]
    BY <1>1, <1>2, <1>4 DEF Release, TypeOK
  <2> QED BY <1>1, <1>11, <2>1 DEF IInv, NoMarks
<1>15. SlotsClean'
  BY <1>8, <1>9 DEF IInv, SlotsClean
<1>16. Reach' \subseteq Live' \cup deleted'
  BY <1>4, <1>7, <1>13 DEF IInv
<1> QED
  BY <1>1, <1>4, <1>6, <1>7, <1>13, <1>14, <1>15, <1>16
  DEF IInv, NoSuspension, FreshDropped, NoMarks, OnList, TriColour, SweepSplit,
      SweepMarks

LEMMA ShutdownInv ==
  ASSUME NoAllocDtors, IInv, TypeOK', Shutdown
  PROVE  IInv' /\ Live' = {} /\ Reach' \subseteq Reach /\ phase' = "done"
<1>1. Cardinality({o \in Live : typeId[o] \in DtorAllocs}) = 0
  <2>1. {o \in Live : typeId[o] \in DtorAllocs} = {}
    BY DEF NoAllocDtors
  <2> QED BY <2>1, FS_EmptySet
<1>2. /\ phase = "mutator" /\ phase' = "done" /\ heap' = <<>> /\ fresh' = Null
      /\ rootStack = <<>>
      /\ UNCHANGED <<marked, typeId, ptr, rootStack, slotVal, susp>>
  BY <1>1 DEF Shutdown, header, roots
<1>3. Len(heap') = 0 /\ Len(rootStack) = 0
  BY <1>2, EmptySeq
<1>4. Live' = {} /\ Held' = {}
  BY <1>2, <1>3 DEF Live, Held, Rooted
<1>5. Reach' = {}
  BY <1>4, ReachBelow DEF Closed
<1>6. Distinct' /\ SlotsClean'
  BY <1>2, <1>3 DEF IInv, Distinct, SlotsClean, Rooted
<1> QED
  BY <1>2, <1>4, <1>5, <1>6
  DEF IInv, NoSuspension, FreshDropped, NoMarks, OnList, TriColour, SweepSplit,
      SweepMarks

\* The steps that read freed memory: of a mark phase or of the program.
LEMMA UafSteps ==
  ASSUME NoAllocDtors, IInv, [Next]_vars, phase' = "uaf"
  PROVE  /\ UNCHANGED <<heap, typeId, ptr, rootStack, slotVal, fresh, susp,
                        deleted>>
         /\ \/ phase \in {"roots", "trace", "mutator"}
            \/ UNCHANGED vars
<1>1. ~Resume /\ ~Shutdown
  BY ShutdownInv, NextType DEF Resume, IInv, NoSuspension
<1>2. ~EnterAlloc(DtorTemp) /\ \A t \in TypeId : ~EnterAlloc(t)
  BY DEF EnterAlloc
<1> QED
  BY <1>1, <1>2
  DEF Next, Collector, Program, Malloc, MallocFails, MarkRoot, MarkObjects,
      UseAfterFree, EndRoots, TraceObject, EndTrace, SweepKeep, SweepFree,
      EndSweep, BeryAlloc, PushRoot, Delete, DeleteAgain, UseDangling, PopRoot,
      StoreSlot, StoreWord, header, roots, vars, NoAllocDtors

\* Without allocating destructors nothing is ever suspended.
LEMMA NextInv ==
  ASSUME NoAllocDtors, IInv, [Next]_vars
  PROVE  IInv'
<1> USE DEF IInv
<1>1. TypeOK'
  BY NextType
<1>2. ~Resume
  BY DEF Resume, NoSuspension
<1>3. CASE phase' = "uaf"
  BY <1>1, <1>2, <1>3, UafSteps, UafInv
<1>4. CASE phase' # "uaf" /\ Collector
  BY <1>1, <1>2, <1>4, MallocInv, MallocFailsInv, MarkRootInv, EndRootsInv,
     TraceObjectInv, EndTraceInv, SweepKeepInv, SweepFreeInv, EndSweepInv
  DEF Collector
<1>5. CASE phase' # "uaf" /\ Program
  BY <1>1, <1>5, BeryAllocInv, PushRootInv, DeleteInv, PopRootInv,
     StoreSlotInv, StoreWordInv, ShutdownInv
  DEF Program, UseDangling, DeleteAgain
<1>6. CASE UNCHANGED vars
  <2>1. Reach' = Reach /\ Live' = Live /\ Distinct' /\ SlotsClean'
        /\ \A o : Children(o)' = Children(o)
    BY <1>1, <1>6, SameGraph DEF vars, header, roots
  <2> QED
    BY <1>1, <1>6, <2>1
    DEF vars, header, roots, collector, NoSuspension, FreshDropped, NoMarks,
        OnList, TriColour, SweepSplit, SweepMarks
<1> QED BY <1>3, <1>4, <1>5, <1>6 DEF Next

\* The collector of a runtime whose destructors do not allocate marks exactly
\* the reachable objects of its list and splits the list as it sweeps, what
\* the program deletes through one of several references included.
THEOREM HeapInvariant == NoAllocDtors => (Spec => []IInv)
<1> SUFFICES ASSUME NoAllocDtors PROVE Spec => []IInv
  OBVIOUS
<1>1. Init => IInv
  BY InitInv
<1>2. IInv /\ [Next]_vars => IInv'
  BY NextInv
<1> QED BY <1>1, <1>2, PTL DEF Spec

-----------------------------------------------------------------------------
(***************************************************************************)
(* What the invariant gives.                                               *)
(***************************************************************************)

\* What the program can reach is allocated or was deleted by the program
\* itself, in every state of every run: the collector and the allocator leave
\* no dangling pointer in reach.
THEOREM ReachableStaysAllocated ==
  NoAllocDtors => (Spec => []ReachableIsAllocated)
<1> SUFFICES ASSUME NoAllocDtors PROVE Spec => []ReachableIsAllocated
  OBVIOUS
<1>1. IInv => ReachableIsAllocated
  BY InUseIsLive DEF IInv, NoSuspension, ReachableIsAllocated
<1> QED BY <1>1, HeapInvariant, PTL

\* The tri-colour argument of markPhase, the split of the list in sweepPhase
\* and clean mark bits outside a collection.
THEOREM MarkSweepInvariants == NoAllocDtors => (Spec => []MarkSweep)
<1> SUFFICES ASSUME NoAllocDtors PROVE Spec => []MarkSweep
  OBVIOUS
<1>1. IInv => MarkSweep
  BY DEF IInv, MarkSweep, NoMarks, MarksClear, Live, TypeOK
<1> QED BY <1>1, HeapInvariant, PTL

\* A step out of the sweep phase is one of the sweep's own.
LEMMA SweepSteps ==
  ASSUME NoAllocDtors, IInv, [Next]_vars, phase = "sweep"
  PROVE  SweepKeep \/ SweepFree \/ EndSweep \/ UNCHANGED vars
BY DEF Next, Collector, Program, Malloc, MallocFails, MarkRoot, EndRoots,
       TraceObject, EndTrace, Resume, BeryAlloc, PushRoot, Delete, DeleteAgain,
       UseDangling, PopRoot, StoreSlot, StoreWord, Shutdown

\* No step of the sweep takes an object the program can reach off the list.
THEOREM SweepSafe == NoAllocDtors => (Spec => NeverFreesReachable)
<1> SUFFICES ASSUME NoAllocDtors PROVE Spec => NeverFreesReachable
  OBVIOUS
<1>1. IInv /\ [Next]_vars
        => [phase = "sweep" => (Live \ Live') \cap Reach = {}]_vars
  <2> SUFFICES ASSUME IInv, [Next]_vars, phase = "sweep"
               PROVE  (Live \ Live') \cap Reach = {}
    OBVIOUS
  <2>1. CASE SweepFree
    BY <2>1, SweepFreeInv, NextInv DEF IInv
  <2>2. CASE SweepKeep
    BY <2>2 DEF SweepKeep, Live
  <2>3. CASE EndSweep
    BY <2>3 DEF EndSweep, Live
  <2>4. CASE UNCHANGED vars
    BY <2>4 DEF vars, Live
  <2> QED BY <2>1, <2>2, <2>3, <2>4, SweepSteps
<1> QED BY <1>1, HeapInvariant, PTL DEF Spec, NeverFreesReachable

\* When the sweep is over exactly the reachable objects are left.
THEOREM SweepComplete == NoAllocDtors => (Spec => CollectionIsComplete)
<1> SUFFICES ASSUME NoAllocDtors PROVE Spec => CollectionIsComplete
  OBVIOUS
<1>1. IInv /\ [Next]_vars
        => [phase = "sweep" /\ phase' = "malloc" /\ susp = <<>>
              => Live = Reach]_vars
  <2> SUFFICES ASSUME IInv, [Next]_vars, phase = "sweep", phase' = "malloc"
               PROVE  Live = Reach
    OBVIOUS
  <2>1. CASE EndSweep
    BY <2>1, EndSweepInv, NextInv DEF IInv
  <2>2. ~SweepKeep /\ ~UNCHANGED vars
    BY DEF SweepKeep, vars
  <2>3. ~SweepFree
    BY DEF SweepFree, NoAllocDtors
  <2> QED BY <2>1, <2>2, <2>3, SweepSteps
<1> QED BY <1>1, HeapInvariant, PTL DEF Spec, CollectionIsComplete

\* The sweep frees exactly what the program cannot reach.
THEOREM SweepIsExact == NoAllocDtors => (Spec => SweepExact)
<1> SUFFICES ASSUME NoAllocDtors PROVE Spec => SweepExact
  OBVIOUS
<1> QED BY SweepSafe, SweepComplete, PTL DEF SweepExact

-----------------------------------------------------------------------------
(***************************************************************************)
(* Any destructors: what also holds when one allocates and so starts a     *)
(* collection inside the sweep that called it.                             *)
(***************************************************************************)

\* The count of allocations is below the threshold when bery_alloc decides
\* not to collect, and a sweep that is over resets it.
InTime ==
  gcEnabled =>
    /\ allocationCount <= AllocThreshold
    /\ phase = "malloc" => allocationCount < AllocThreshold

LEMMA InTimeInit == Init => InTime
BY BoundAssumption DEF Init, Startup, InTime

\* Entering bery_alloc with the threshold reached starts a collection.
LEMMA EnterAllocInTime ==
  ASSUME TypeOK, InTime, NEW t, EnterAlloc(t),
         UNCHANGED <<gcEnabled, allocationCount>>
  PROVE  InTime'
BY BoundAssumption DEF TypeOK, InTime, EnterAlloc, ShouldCollect

LEMMA InTimeStep ==
  ASSUME TypeOK, InTime, [Next]_vars
  PROVE  InTime'
<1>1. ASSUME NEW c \in Cell, Malloc(c) PROVE InTime'
  BY <1>1, BoundAssumption DEF Malloc, InTime, TypeOK
<1>2. CASE MallocFails
  BY <1>2 DEF MallocFails, counters, InTime
<1>3. CASE MarkRoot \/ EndRoots \/ EndTrace \/ SweepKeep
           \/ \E o \in Cell : TraceObject(o)
  BY <1>3 DEF MarkRoot, MarkObjects, UseAfterFree, EndRoots, EndTrace,
              SweepKeep, TraceObject, counters, InTime
<1>4. CASE SweepFree
  <2>1. CASE typeId[heap[cur + 1]] \in DtorAllocs
    <3>1. EnterAlloc(DtorTemp) /\ UNCHANGED <<gcEnabled, allocationCount>>
      BY <1>4, <2>1 DEF SweepFree, counters
    <3> QED BY <3>1, EnterAllocInTime
  <2>2. CASE typeId[heap[cur + 1]] \notin DtorAllocs
    BY <1>4, <2>2 DEF SweepFree, Release, InTime
  <2> QED BY <2>1, <2>2
<1>5. CASE EndSweep
  BY <1>5, BoundAssumption DEF EndSweep, InTime
<1>6. CASE Resume
  <2>1. /\ UNCHANGED <<gcEnabled, allocationCount>>
        /\ phase' \in {"mutator", "sweep", "uaf"}
    BY <1>6 DEF Resume, Release
  <2> QED BY <2>1 DEF InTime
<1>7. ASSUME NEW t \in TypeId, BeryAlloc(t) PROVE InTime'
  BY <1>7, EnterAllocInTime DEF BeryAlloc, counters
<1>8. ASSUME NEW s \in Slot, Delete(s) PROVE InTime'
  <2>1. CASE typeId[slotVal[s]] \in DtorAllocs
    <3>1. EnterAlloc(DtorTemp) /\ UNCHANGED <<gcEnabled, allocationCount>>
      BY <1>8, <2>1 DEF Delete, counters
    <3> QED BY <3>1, EnterAllocInTime
  <2>2. CASE typeId[slotVal[s]] \notin DtorAllocs
    BY <1>8, <2>2 DEF Delete, Release, InTime
  <2> QED BY <2>1, <2>2
<1>9. CASE PopRoot \/ UseDangling
           \/ (\E s \in Slot : PushRoot(s) \/ DeleteAgain(s))
           \/ (\E s \in Slot, v \in Pointer : StoreSlot(s, v))
           \/ (\E o \in Cell, w \in Word, v \in Pointer : StoreWord(o, w, v))
  BY <1>9 DEF PopRoot, PushRoot, StoreSlot, StoreWord, UseDangling,
              DeleteAgain, counters, InTime
<1>10. CASE Shutdown
  BY <1>10 DEF Shutdown, InTime
<1>11. CASE UNCHANGED vars
  BY <1>11 DEF vars, counters, InTime
<1> QED
  BY <1>1, <1>2, <1>3, <1>4, <1>5, <1>6, <1>7, <1>8, <1>9, <1>10, <1>11
  DEF Next, Collector, Program

\* With the collector on, at most AllocThreshold allocations are made between
\* two collections, those of destructors included.
THEOREM CollectionInTime == Spec => []CollectsInTime
<1>1. TypeOK /\ InTime /\ [Next]_vars => TypeOK' /\ InTime'
  BY NextType, InTimeStep
<1>2. InTime => CollectsInTime
  BY DEF InTime, CollectsInTime
<1> QED BY <1>1, <1>2, InitType, InTimeInit, PTL DEF Spec

-----------------------------------------------------------------------------
(***************************************************************************)
(* Sums over finite sets, as MapThenSumSet computes them.  The induction   *)
(* is by a least counterexample: the least size of a part for which the    *)
(* statement fails.                                                        *)
(***************************************************************************)

\* A set of numbers that is not empty has a least element.
LEMMA LeastNumber ==
  ASSUME NEW S \in SUBSET Nat, S # {}
  PROVE  \E n \in S : \A m \in S : n <= m
<1>1. PICK n \in S : \A m \in S : ~(<<m, n>> \in OpToRel(<, Nat))
  BY WFMin, NatLessThanWellFounded
<1>2. \A m \in S : ~(m < n)
  BY <1>1 DEF OpToRel
<1> QED BY <1>2

\* The sum of f over every part of T, as MapThenSumSet computes it.
Pick(s) == CHOOSE x \in s : TRUE
SumOver(f, T) ==
  CHOOSE g : g = [s \in SUBSET T |->
    IF s = {} THEN 0
    ELSE f[CHOOSE x \in s : TRUE] + g[s \ {CHOOSE x \in s : TRUE}]]

LEMMA SumSetIsSumOver ==
  ASSUME NEW f, NEW T
  PROVE  MapThenSumSet(LAMBDA t : f[t], T) = SumOver(f, T)[T]
BY DEF MapThenSumSet, MapThenFoldSet, SumOver

\* The recursion of the sum has a solution, by induction on the size of the
\* parts it is defined on.
Small(T, n) == {s \in SUBSET T : Cardinality(s) <= n}
Sums(f, T, n, g) ==
  /\ g \in [Small(T, n) -> Int]
  /\ \A s \in Small(T, n) :
       g[s] = IF s = {} THEN 0 ELSE f[Pick(s)] + g[s \ {Pick(s)}]

LEMMA PickSmaller ==
  ASSUME NEW T, IsFiniteSet(T), NEW s \in SUBSET T, s # {}
  PROVE  /\ Pick(s) \in s
         /\ s \ {Pick(s)} \in SUBSET T
         /\ Cardinality(s) \in Nat
         /\ Cardinality(s \ {Pick(s)}) = Cardinality(s) - 1
         /\ Cardinality(s \ {Pick(s)}) \in Nat
<1>1. Pick(s) \in s
  BY DEF Pick
<1>2. IsFiniteSet(s)
  BY FS_Subset
<1>3. Cardinality(s \ {Pick(s)}) = Cardinality(s) - 1 /\ IsFiniteSet(s \ {Pick(s)})
  BY <1>1, <1>2, FS_RemoveElement
<1> QED BY <1>1, <1>2, <1>3, FS_CardinalityType

LEMMA SumsExtend ==
  ASSUME NEW T, IsFiniteSet(T), NEW f \in [T -> Int], NEW n \in Nat, NEW g,
         Sums(f, T, n, g)
  PROVE  \E h : Sums(f, T, n + 1, h)
<1> DEFINE h == [s \in Small(T, n + 1) |->
                   IF s = {} THEN 0 ELSE f[Pick(s)] + g[s \ {Pick(s)}]]
<1>1. ASSUME NEW s \in Small(T, n + 1), s # {}
      PROVE  s \ {Pick(s)} \in Small(T, n) /\ Pick(s) \in T
  BY <1>1, PickSmaller DEF Small
<1>2. ASSUME NEW s \in Small(T, n + 1) PROVE h[s] \in Int
  BY <1>1, <1>2 DEF Sums
<1>3. ASSUME NEW s \in Small(T, n) PROVE s \in Small(T, n + 1) /\ h[s] = g[s]
  <2>1. s \in SUBSET T /\ Cardinality(s) \in Nat /\ Cardinality(s) <= n
    <3>1. IsFiniteSet(s)
      BY FS_Subset DEF Small
    <3> QED BY <3>1, FS_CardinalityType DEF Small
  <2>2. s \in Small(T, n + 1)
    BY <2>1 DEF Small
  <2> QED BY <2>2 DEF Sums
<1>4. ASSUME NEW s \in Small(T, n + 1)
      PROVE  h[s] = IF s = {} THEN 0 ELSE f[Pick(s)] + h[s \ {Pick(s)}]
  <2>1. CASE s = {}
    BY <2>1
  <2>2. CASE s # {}
    <3>1. h[s \ {Pick(s)}] = g[s \ {Pick(s)}]
      BY <1>1, <1>3, <2>2
    <3>2. h[s] = f[Pick(s)] + g[s \ {Pick(s)}]
      BY <2>2
    <3> HIDE DEF h
    <3> QED BY <2>2, <3>1, <3>2
  <2> QED BY <2>1, <2>2
<1>5. h \in [Small(T, n + 1) -> Int]
  BY <1>2
<1>6. Sums(f, T, n + 1, h)
  <2> HIDE DEF h
  <2> QED BY <1>4, <1>5 DEF Sums
<1> QED BY <1>6

LEMMA SumsExist ==
  ASSUME NEW T, IsFiniteSet(T), NEW f \in [T -> Int], NEW n \in Nat
  PROVE  \E g : Sums(f, T, n, g)
<1> DEFINE Bad == {m \in Nat : ~\E g : Sums(f, T, m, g)}
<1>1. 0 \notin Bad
  <2> DEFINE g == [s \in Small(T, 0) |-> 0]
  <2>1. ASSUME NEW s \in Small(T, 0) PROVE s = {}
    <3>1. IsFiniteSet(s)
      BY FS_Subset DEF Small
    <3>2. Cardinality(s) \in Nat /\ Cardinality(s) <= 0
      BY <3>1, FS_CardinalityType DEF Small
    <3>3. Cardinality(s) = 0
      BY <3>2
    <3> QED BY <3>1, <3>3, FS_EmptySet
  <2>2. Sums(f, T, 0, g)
    BY <2>1 DEF Sums
  <2> QED BY <2>2
<1>2. ASSUME Bad # {} PROVE FALSE
  <2>1. PICK m \in Bad : \A k \in Bad : m <= k
    BY <1>2, LeastNumber
  <2>2. m # 0 /\ m - 1 \in Nat
    BY <1>1, <2>1
  <2>3. m - 1 \notin Bad
    BY <2>1, <2>2
  <2>4. PICK g : Sums(f, T, m - 1, g)
    BY <2>2, <2>3
  <2>5. \E h : Sums(f, T, (m - 1) + 1, h)
    BY <2>2, <2>4, SumsExtend
  <2> QED BY <2>1, <2>2, <2>5
<1> QED BY <1>2

LEMMA SumOverDefined ==
  ASSUME NEW T, IsFiniteSet(T), NEW f \in [T -> Int]
  PROVE  /\ SumOver(f, T) \in [SUBSET T -> Int]
         /\ \A s \in SUBSET T :
              SumOver(f, T)[s] =
                IF s = {} THEN 0
                ELSE f[Pick(s)] + SumOver(f, T)[s \ {Pick(s)}]
<1>1. PICK g : Sums(f, T, Cardinality(T), g)
  BY SumsExist, FS_CardinalityType
<1>2. Small(T, Cardinality(T)) = SUBSET T
  BY FS_Subset DEF Small
<1>3. g = [s \in SUBSET T |->
             IF s = {} THEN 0
             ELSE f[CHOOSE x \in s : TRUE] + g[s \ {CHOOSE x \in s : TRUE}]]
  BY <1>1, <1>2 DEF Sums, Pick
<1> DEFINE so == SumOver(f, T)
<1>4. so = [s \in SUBSET T |->
             IF s = {} THEN 0
             ELSE f[CHOOSE x \in s : TRUE] + so[s \ {CHOOSE x \in s : TRUE}]]
  BY <1>3 DEF SumOver
<1>5. \A s \in SUBSET T :
        so[s] = IF s = {} THEN 0 ELSE f[Pick(s)] + so[s \ {Pick(s)}]
  <2> HIDE DEF so
  <2> QED BY <1>4 DEF Pick
<1> HIDE DEF so
<1>6. ASSUME NEW s \in SUBSET T PROVE so[s] = g[s]
  <2> DEFINE Bad == {Cardinality(u) : u \in {v \in SUBSET T : so[v] # g[v]}}
  <2>1. SUFFICES ASSUME Bad # {} PROVE FALSE
    OBVIOUS
  <2>2. Bad \in SUBSET Nat
    BY FS_Subset, FS_CardinalityType
  <2>3. PICK n \in Bad : \A m \in Bad : n <= m
    BY <2>1, <2>2, LeastNumber
  <2>4. PICK u \in SUBSET T : so[u] # g[u] /\ n = Cardinality(u)
    BY <2>3
  <2>5. CASE u = {}
    BY <1>1, <1>2, <1>5, <2>4, <2>5 DEF Sums
  <2>6. CASE u # {}
    <3>1. /\ u \ {Pick(u)} \in SUBSET T
          /\ n \in Nat /\ Cardinality(u \ {Pick(u)}) = n - 1
      BY <2>4, <2>6, PickSmaller
    <3>2. so[u \ {Pick(u)}] = g[u \ {Pick(u)}]
      BY <2>3, <3>1
    <3>3. so[u] = f[Pick(u)] + so[u \ {Pick(u)}]
      BY <1>5, <2>6
    <3>4. g[u] = f[Pick(u)] + g[u \ {Pick(u)}]
      BY <1>1, <1>2, <2>6 DEF Sums
    <3> QED BY <2>4, <3>2, <3>3, <3>4
  <2> QED BY <2>5, <2>6
<1>7. so \in [SUBSET T -> Int]
  <2>1. so = [s \in SUBSET T |-> so[s]]
    BY <1>4
  <2> QED BY <1>1, <1>2, <1>6, <2>1 DEF Sums
<1> QED BY <1>5, <1>7 DEF so

\* Changing one summand by d changes the sum by d.
LEMMA SumChange ==
  ASSUME NEW T, IsFiniteSet(T), NEW f \in [T -> Int], NEW h \in [T -> Int],
         NEW x \in T, \A t \in T : t # x => h[t] = f[t]
  PROVE  SumOver(h, T)[T] = SumOver(f, T)[T] + (h[x] - f[x])
<1> DEFINE a == SumOver(f, T)
           b == SumOver(h, T)
           Diff(s) == IF x \in s THEN h[x] - f[x] ELSE 0
           Bad == {Cardinality(u) : u \in {v \in SUBSET T : b[v] # a[v] + Diff(v)}}
<1>1. /\ a \in [SUBSET T -> Int]
      /\ \A s \in SUBSET T :
           a[s] = IF s = {} THEN 0 ELSE f[Pick(s)] + a[s \ {Pick(s)}]
  BY SumOverDefined
<1>2. /\ b \in [SUBSET T -> Int]
      /\ \A s \in SUBSET T :
           b[s] = IF s = {} THEN 0 ELSE h[Pick(s)] + b[s \ {Pick(s)}]
  BY SumOverDefined
<1> HIDE DEF a, b
<1>3. ASSUME Bad # {} PROVE FALSE
  <2>2. Bad \in SUBSET Nat
    BY FS_Subset, FS_CardinalityType
  <2>3. PICK n \in Bad : \A m \in Bad : n <= m
    BY <1>3, <2>2, LeastNumber
  <2>4. PICK u \in SUBSET T : b[u] # a[u] + Diff(u) /\ n = Cardinality(u)
    BY <2>3
  <2>5. CASE u = {}
    <3>1. b[u] = 0 /\ a[u] = 0
      BY <1>1, <1>2, <2>5
    <3>2. Diff(u) = 0
      BY <2>5
    <3> HIDE DEF Diff
    <3> QED BY <2>4, <3>1, <3>2
  <2>6. CASE u # {}
    <3> DEFINE y == Pick(u)
               r == u \ {y}
    <3>1. /\ y \in u /\ r \in SUBSET T
          /\ n \in Nat /\ Cardinality(r) = n - 1 /\ Cardinality(r) \in Nat
      BY <2>4, <2>6, PickSmaller
    <3>2. b[r] = a[r] + Diff(r)
      BY <2>3, <3>1
    <3>3. b[u] = h[y] + b[r] /\ a[u] = f[y] + a[r]
      BY <1>1, <1>2, <2>6
    <3>4. a[r] \in Int /\ h[y] \in Int /\ f[y] \in Int /\ h[x] \in Int /\ f[x] \in Int
      BY <1>1, <3>1
    <3>5. CASE y = x
      <4>1. Diff(r) = 0 /\ Diff(u) = h[x] - f[x]
        BY <3>1, <3>5
      <4> HIDE DEF r, y, Diff
      <4> QED BY <2>4, <3>2, <3>3, <3>4, <3>5, <4>1
    <3>6. CASE y # x
      <4>1. Diff(r) = Diff(u) /\ h[y] = f[y] /\ Diff(u) \in Int
        BY <3>1, <3>4, <3>6
      <4> HIDE DEF r, y, Diff
      <4> QED BY <2>4, <3>2, <3>3, <3>4, <4>1
    <3> QED BY <3>5, <3>6
  <2> QED BY <2>5, <2>6
<1>4. b[T] = a[T] + Diff(T)
  BY <1>3
<1> QED BY <1>4 DEF a, b

LEMMA SumZero ==
  ASSUME NEW T, IsFiniteSet(T), NEW f \in [T -> Int], \A t \in T : f[t] = 0
  PROVE  SumOver(f, T)[T] = 0
<1> DEFINE a == SumOver(f, T)
           Bad == {Cardinality(u) : u \in {v \in SUBSET T : a[v] # 0}}
<1>1. /\ a \in [SUBSET T -> Int]
      /\ \A s \in SUBSET T :
           a[s] = IF s = {} THEN 0 ELSE f[Pick(s)] + a[s \ {Pick(s)}]
  BY SumOverDefined
<1> HIDE DEF a
<1>3. ASSUME Bad # {} PROVE FALSE
  <2>2. Bad \in SUBSET Nat
    BY FS_Subset, FS_CardinalityType
  <2>3. PICK n \in Bad : \A m \in Bad : n <= m
    BY <1>3, <2>2, LeastNumber
  <2>4. PICK u \in SUBSET T : a[u] # 0 /\ n = Cardinality(u)
    BY <2>3
  <2>5. u # {}
    BY <1>1, <2>4
  <2>6. /\ Pick(u) \in u /\ u \ {Pick(u)} \in SUBSET T
        /\ n \in Nat /\ Cardinality(u \ {Pick(u)}) = n - 1
    BY <2>4, <2>5, PickSmaller
  <2>7. a[u \ {Pick(u)}] = 0
    BY <2>3, <2>6
  <2>8. a[u] = f[Pick(u)] + a[u \ {Pick(u)}] /\ f[Pick(u)] = 0
    BY <1>1, <2>5, <2>6
  <2> QED BY <2>4, <2>7, <2>8
<1> QED BY <1>3 DEF a

-----------------------------------------------------------------------------
(***************************************************************************)
(* Unlinked while destroyed, and counted: with any destructors.            *)
(***************************************************************************)

SuspDistinct ==
  \A i, j \in 1..Len(susp) : susp[i].obj = susp[j].obj => i = j

\* Only the outermost call can be a `delete`, and the program runs when no
\* call is suspended.
Nesting ==
  /\ phase = "mutator" => susp = <<>>
  /\ \A i \in 1..Len(susp) : susp[i].kind = "destroy" => i = 1

Counted ==
  /\ totalObjectsLive = Cardinality(InUse)
  /\ totalAllocated = SumOver(UsageByType, TypeId)[TypeId]

OnceInv ==
  /\ TypeOK
  /\ Distinct
  /\ SuspDistinct
  /\ Live \cap Suspended = {}
  /\ Nesting
  /\ phase # "uaf" => Counted

\* A list without repetitions has as many elements as positions.
LEMMA DistinctCount ==
  ASSUME NEW S, NEW s \in Seq(S),
         \A i, j \in 1..Len(s) : s[i] = s[j] => i = j
  PROVE  /\ IsFiniteSet({s[i] : i \in 1..Len(s)})
         /\ Cardinality({s[i] : i \in 1..Len(s)}) = Len(s)
<1> DEFINE R == {s[i] : i \in 1..Len(s)}
           f == [i \in 1..Len(s) |-> s[i]]
<1>1. Len(s) \in Nat
  BY LenProperties
<1>2. f \in Bijection(1..Len(s), R)
  BY DEF Bijection, Injection, IsInjective, Surjection
<1>3. ExistsBijection(1..Len(s), R)
  BY <1>2 DEF ExistsBijection
<1>4. IsFiniteSet(1..Len(s)) /\ Cardinality(1..Len(s)) = Len(s)
  <2>1. 1 \in Int /\ Len(s) \in Int
    BY <1>1
  <2>2. Cardinality(1..Len(s)) = IF 1 > Len(s) THEN 0 ELSE Len(s) - 1 + 1
    BY <2>1, FS_Interval
  <2> QED BY <1>1, <2>1, <2>2, FS_Interval, SMTT(20)
<1> HIDE DEF R
<1>5. IsFiniteSet(R) /\ Cardinality(R) = Len(s)
  BY <1>3, <1>4, FS_Bijection
<1> QED BY <1>5 DEF R

LEMMA LiveCount ==
  ASSUME TypeOK, Distinct
  PROVE  IsFiniteSet(Live) /\ Cardinality(Live) = Len(heap)
BY DistinctCount DEF TypeOK, Distinct, Live

LEMMA SuspendedCount ==
  ASSUME TypeOK, SuspDistinct
  PROVE  /\ IsFiniteSet(Suspended) /\ Cardinality(Suspended) = Len(susp)
         /\ Suspended \subseteq Cell
<1> DEFINE s == [i \in 1..Len(susp) |-> susp[i].obj]
<1>1. susp \in Seq(Frame) /\ Len(susp) \in Nat
  BY DEF TypeOK
<1>2. \A i \in 1..Len(susp) : susp[i].obj \in Cell
  BY <1>1 DEF Frame
<1>3. s \in Seq(Cell) /\ Len(s) = Len(susp)
  BY <1>1, <1>2
<1>4. \A i \in 1..Len(susp) : s[i] = susp[i].obj
  OBVIOUS
<1>5. Suspended = {s[i] : i \in 1..Len(s)}
  BY <1>3, <1>4 DEF Suspended
<1> HIDE DEF s
<1>6. \A i, j \in 1..Len(s) : s[i] = s[j] => i = j
  BY <1>3, <1>4 DEF SuspDistinct
<1>7. Suspended \subseteq Cell
  BY <1>2 DEF Suspended
<1> QED BY <1>3, <1>5, <1>6, <1>7, DistinctCount

LEMMA InUseFinite ==
  ASSUME TypeOK, Distinct, SuspDistinct
  PROVE  IsFiniteSet(InUse) /\ InUse \subseteq Cell
<1>1. Live \subseteq Cell
  BY DEF Live, TypeOK
<1> QED BY <1>1, LiveCount, SuspendedCount, FS_Union DEF InUse

\* Suspending a call puts its object aside.
LEMMA AppendSuspended ==
  ASSUME TypeOK, SuspDistinct, NEW f \in Frame, susp' = Append(susp, f),
         f.obj \notin Suspended
  PROVE  Suspended' = Suspended \cup {f.obj} /\ SuspDistinct'
<1>1. /\ susp \in Seq(Frame) /\ Len(susp) \in Nat /\ Len(susp') = Len(susp) + 1
      /\ \A i \in 1..Len(susp) : susp'[i] = susp[i]
      /\ susp'[Len(susp) + 1] = f
  BY AppendProperties, LenProperties DEF TypeOK
<1>2. \A i \in 1..Len(susp) : susp[i].obj # f.obj
  BY DEF Suspended
<1>3. SuspDistinct'
  BY <1>1, <1>2 DEF SuspDistinct
<1>4. Suspended' = {susp'[i].obj : i \in 1..Len(susp')}
  BY DEF Suspended
<1>5. ASSUME NEW x \in Suspended' PROVE x \in Suspended \cup {f.obj}
  BY <1>1, <1>4, <1>5 DEF Suspended
<1>6. ASSUME NEW x \in Suspended PROVE x \in Suspended'
  BY <1>1, <1>4, <1>6 DEF Suspended
<1>7. f.obj \in Suspended'
  BY <1>1, <1>4
<1> QED BY <1>3, <1>5, <1>6, <1>7

\* The call that returns is the last one suspended.
LEMMA DropSuspended ==
  ASSUME TypeOK, SuspDistinct, susp # <<>>,
         susp' = SubSeq(susp, 1, Len(susp) - 1)
  PROVE  /\ Suspended' = Suspended \ {susp[Len(susp)].obj}
         /\ susp[Len(susp)].obj \in Suspended
         /\ SuspDistinct'
         /\ Len(susp') = Len(susp) - 1
         /\ \A i \in 1..Len(susp') : susp'[i] = susp[i]
<1>1. susp \in Seq(Frame) /\ Len(susp) \in Nat \ {0}
  BY EmptySeq, LenProperties DEF TypeOK
<1>2. /\ Len(susp') = Len(susp) - 1
      /\ \A i \in 1..(Len(susp) - 1) : susp'[i] = susp[i]
  <2> DEFINE m == Len(susp) - 1
  <2>1. m \in 0..Len(susp) /\ 1 \in 1..(m + 1)
    BY <1>1
  <2>2. susp' = SubSeq(susp, 1, m)
    OBVIOUS
  <2> HIDE DEF m
  <2>3. Len(susp') = m /\ \A i \in 1..m : susp'[i] = susp[i]
    BY <1>1, <2>1, <2>2, SubSeqProperties
  <2> QED BY <2>3 DEF m
<1>3. SuspDistinct'
  BY <1>1, <1>2 DEF SuspDistinct
<1>4. susp[Len(susp)].obj \in Suspended
  BY <1>1 DEF Suspended
<1>5. ASSUME NEW x \in Suspended'
      PROVE  x \in Suspended /\ x # susp[Len(susp)].obj
  BY <1>1, <1>2, <1>5 DEF Suspended, SuspDistinct
<1>6. ASSUME NEW x \in Suspended, x # susp[Len(susp)].obj
      PROVE  x \in Suspended'
  <2>1. PICK i \in 1..Len(susp) : susp[i].obj = x
    BY <1>6 DEF Suspended
  <2>2. i \in 1..(Len(susp) - 1)
    BY <1>1, <1>6, <2>1
  <2> QED BY <1>2, <2>1, <2>2 DEF Suspended
<1> QED BY <1>1, <1>2, <1>3, <1>4, <1>5, <1>6

LEMMA UsageType ==
  ASSUME TypeOK, IsFiniteSet(InUse)
  PROVE  /\ UsageByType \in [TypeId -> Int]
         /\ \A t \in TypeId :
              /\ IsFiniteSet({o \in InUse : typeId[o] = t})
              /\ Cardinality({o \in InUse : typeId[o] = t}) \in Nat
<1>1. ASSUME NEW t \in TypeId
      PROVE  /\ IsFiniteSet({o \in InUse : typeId[o] = t})
             /\ Cardinality({o \in InUse : typeId[o] = t}) \in Nat
  BY FS_Subset, FS_CardinalityType
<1>2. ASSUME NEW t \in TypeId
      PROVE  Cardinality({o \in InUse : typeId[o] = t}) * SizeOf[t] \in Int
  <2>1. SizeOf[t] \in Nat
    BY TypeAssumption
  <2> QED BY <1>1, <2>1
<1> QED BY <1>1, <1>2 DEF UsageByType

LEMMA Distributes ==
  \A a, b \in Nat : (a + 1) * b = a * b + b /\ (a - 1) * b = a * b - b
OBVIOUS

\* One object more of type t.
LEMMA CountGrows ==
  ASSUME TypeOK, TypeOK', IsFiniteSet(InUse), Counted,
         NEW c \in Cell, c \notin InUse, InUse' = InUse \cup {c},
         NEW t \in TypeId, typeId' = [typeId EXCEPT ![c] = t],
         InUse \subseteq Cell,
         totalObjectsLive' = totalObjectsLive + 1,
         totalAllocated' = totalAllocated + SizeOf[t]
  PROVE  Counted'
<1> DEFINE Of(u) == {o \in InUse : typeId[o] = u}
           OfN(u) == {o \in InUse' : typeId'[o] = u}
<1>1. IsFiniteSet(InUse') /\ Cardinality(InUse') = Cardinality(InUse) + 1
  BY FS_AddElement
<1>2. /\ UsageByType \in [TypeId -> Int] /\ UsageByType' \in [TypeId -> Int]
      /\ \A u \in TypeId : IsFiniteSet(Of(u)) /\ Cardinality(Of(u)) \in Nat
  <2>1. (IsFiniteSet(InUse))'
    BY <1>1
  <2>2. (UsageByType \in [TypeId -> Int])'
    BY <2>1, UsageType, PTL
  <2> QED BY <2>2, UsageType
<1>3. \A o \in Cell : typeId'[o] = IF o = c THEN t ELSE typeId[o]
  BY DEF TypeOK
<1>4. \A u \in TypeId : u # t => OfN(u) = Of(u)
  BY <1>3
<1>5. OfN(t) = Of(t) \cup {c} /\ c \notin Of(t)
  BY <1>3
<1>6. Cardinality(OfN(t)) = Cardinality(Of(t)) + 1
  BY <1>2, <1>5, FS_AddElement
<1>7. \A u \in TypeId : /\ UsageByType[u] = Cardinality(Of(u)) * SizeOf[u]
                        /\ UsageByType'[u] = Cardinality(OfN(u)) * SizeOf[u]
  BY DEF UsageByType
<1> HIDE DEF Of, OfN
<1>8. \A u \in TypeId : u # t => UsageByType'[u] = UsageByType[u]
  BY <1>4, <1>7
<1>9. UsageByType'[t] - UsageByType[t] = SizeOf[t]
  <2>1. Cardinality(Of(t)) \in Nat /\ SizeOf[t] \in Nat
    BY <1>2, TypeAssumption
  <2>2. (Cardinality(Of(t)) + 1) * SizeOf[t]
          = Cardinality(Of(t)) * SizeOf[t] + SizeOf[t]
    BY <2>1, Distributes
  <2>3. Cardinality(Of(t)) * SizeOf[t] \in Nat
    BY <2>1
  <2> QED BY <1>6, <1>7, <2>1, <2>2, <2>3
<1>10. SumOver(UsageByType', TypeId)[TypeId]
         = SumOver(UsageByType, TypeId)[TypeId]
             + (UsageByType'[t] - UsageByType[t])
  BY <1>2, <1>8, TypeAssumption, SumChange
<1> QED BY <1>1, <1>9, <1>10 DEF Counted

\* One object less, with the counters' update that precedes its free.
LEMMA CountShrinks ==
  ASSUME TypeOK, TypeOK', IsFiniteSet(InUse), Counted,
         NEW c \in InUse, InUse \subseteq Cell, InUse' = InUse \ {c},
         Release(c)
  PROVE  Counted'
<1> DEFINE t == typeId[c]
           Of(u) == {o \in InUse : typeId[o] = u}
           OfN(u) == {o \in InUse' : typeId'[o] = u}
<1>0. t \in TypeId
  BY DEF TypeOK
<1>1. IsFiniteSet(InUse') /\ Cardinality(InUse') = Cardinality(InUse) - 1
  BY FS_RemoveElement
<1>2. /\ UsageByType \in [TypeId -> Int] /\ UsageByType' \in [TypeId -> Int]
      /\ \A u \in TypeId : IsFiniteSet(Of(u)) /\ Cardinality(Of(u)) \in Nat
  <2>1. (IsFiniteSet(InUse))'
    BY <1>1
  <2>2. (UsageByType \in [TypeId -> Int])'
    BY <2>1, UsageType, PTL
  <2> QED BY <2>2, UsageType
<1>3. \A o \in Cell : o # c => typeId'[o] = typeId[o]
  BY DEF TypeOK, Release
<1>4. \A u \in TypeId : u # t => OfN(u) = Of(u)
  BY <1>3
<1>5. OfN(t) = Of(t) \ {c} /\ c \in Of(t)
  BY <1>3
<1>6. Cardinality(OfN(t)) = Cardinality(Of(t)) - 1
  BY <1>0, <1>2, <1>5, FS_RemoveElement, ZenonT(40)
<1>7. \A u \in TypeId : /\ UsageByType[u] = Cardinality(Of(u)) * SizeOf[u]
                        /\ UsageByType'[u] = Cardinality(OfN(u)) * SizeOf[u]
  BY DEF UsageByType
<1>d. /\ totalAllocated' = totalAllocated - SizeOf[t]
      /\ totalObjectsLive' = totalObjectsLive - 1
  BY DEF Release
<1> HIDE DEF Of, OfN, t
<1>8. \A u \in TypeId : u # t => UsageByType'[u] = UsageByType[u]
  BY <1>4, <1>7
<1>9. UsageByType'[t] - UsageByType[t] = 0 - SizeOf[t]
  <2>1. Cardinality(Of(t)) \in Nat /\ SizeOf[t] \in Nat
    BY <1>0, <1>2, TypeAssumption
  <2>2. (Cardinality(Of(t)) - 1) * SizeOf[t]
          = Cardinality(Of(t)) * SizeOf[t] - SizeOf[t]
    BY <2>1, Distributes
  <2>3. Cardinality(Of(t)) * SizeOf[t] \in Nat
    BY <2>1
  <2> QED BY <1>0, <1>6, <1>7, <2>1, <2>2, <2>3
<1>10. SumOver(UsageByType', TypeId)[TypeId]
         = SumOver(UsageByType, TypeId)[TypeId]
             + (UsageByType'[t] - UsageByType[t])
  BY <1>0, <1>2, <1>8, TypeAssumption, SumChange
<1>11. SumOver(UsageByType, TypeId)[TypeId] \in Int /\ SizeOf[t] \in Nat
  <2>1. IsFiniteSet(TypeId) /\ SizeOf[t] \in Nat
    BY <1>0, TypeAssumption
  <2>2. SumOver(UsageByType, TypeId) \in [SUBSET TypeId -> Int]
    BY <1>2, <2>1, SumOverDefined
  <2> QED BY <2>1, <2>2
<1> QED BY <1>1, <1>9, <1>10, <1>11, <1>d DEF Counted

LEMMA OnceInit == Init => OnceInv
<1> SUFFICES ASSUME Init PROVE OnceInv
  OBVIOUS
<1>1. heap = <<>> /\ susp = <<>> /\ Len(heap) = 0 /\ Len(susp) = 0
  BY EmptySeq DEF Init, Startup
<1>2. Live = {} /\ Suspended = {} /\ InUse = {}
  BY <1>1 DEF Live, Suspended, InUse
<1>3. Cardinality(InUse) = 0
  BY <1>2, FS_EmptySet
<1>4. \A t \in TypeId : {o \in InUse : typeId[o] = t} = {}
  BY <1>2
<1>5. \A t \in TypeId : UsageByType[t] = 0 * SizeOf[t]
  BY <1>4, FS_EmptySet DEF UsageByType
<1>6. \A t \in TypeId : SizeOf[t] \in Nat
  BY TypeAssumption
<1>7. \A t \in TypeId : UsageByType[t] = 0
  BY <1>5, <1>6
<1>8. UsageByType \in [TypeId -> Int]
  BY <1>7 DEF UsageByType
<1>9. SumOver(UsageByType, TypeId)[TypeId] = 0
  BY <1>7, <1>8, SumZero, TypeAssumption
<1>10. Distinct /\ SuspDistinct /\ Nesting
  BY <1>1 DEF Distinct, SuspDistinct, Nesting
<1> QED BY <1>2, <1>3, <1>9, <1>10, InitType DEF OnceInv, Counted, Init, Startup

\* A step that moves no object on or off the list.
LEMMA OnceSame ==
  ASSUME OnceInv, TypeOK', Nesting', phase = "uaf" => phase' = "uaf",
         UNCHANGED <<heap, susp, typeId, totalAllocated, totalObjectsLive>>
  PROVE  OnceInv'
<1>1. Live' = Live /\ Suspended' = Suspended /\ InUse' = InUse
  BY DEF Live, Suspended, InUse
<1>2. UsageByType' = UsageByType
  BY <1>1 DEF UsageByType
<1> QED BY <1>1, <1>2 DEF OnceInv, Distinct, SuspDistinct, Counted

LEMMA OnceMalloc ==
  ASSUME OnceInv, TypeOK', NEW c \in Cell, Malloc(c)
  PROVE  OnceInv'
<1>1. TypeOK /\ Distinct /\ c \notin Live /\ c \notin Suspended /\ Counted
  BY DEF OnceInv, Malloc, InUse
<1>2. Live' = Live \cup {c} /\ Distinct'
  BY <1>1, ConsLive DEF Malloc
<1>3. Suspended' = Suspended /\ SuspDistinct'
  BY DEF OnceInv, Malloc, Suspended, SuspDistinct
<1>4. InUse' = InUse \cup {c}
  BY <1>2, <1>3 DEF InUse
<1>5. Nesting'
  BY DEF OnceInv, Nesting, Malloc
<1>6. want \in TypeId
  BY <1>1 DEF Malloc, TypeOK
<1>7. Counted'
  BY <1>1, <1>4, <1>6, InUseFinite, CountGrows DEF OnceInv, Malloc
<1> QED BY <1>1, <1>2, <1>3, <1>5, <1>7 DEF OnceInv

\* An object is unlinked and its destructor, which allocates, called.
LEMMA OnceSuspend ==
  ASSUME OnceInv, TypeOK', NEW i \in 1..Len(heap), NEW f \in Frame,
         heap' = Without(heap, i), f.obj = heap[i],
         susp' = Append(susp, f), f.kind = "destroy" => susp = <<>>,
         UNCHANGED <<typeId, totalAllocated, totalObjectsLive>>,
         phase # "uaf", phase' # "mutator"
  PROVE  OnceInv'
<1>1. TypeOK /\ Distinct /\ SuspDistinct /\ Live \cap Suspended = {}
  BY DEF OnceInv
<1>2. f.obj \in Live /\ f.obj \notin Suspended
  BY <1>1 DEF Live
<1>3. Live' = Live \ {f.obj} /\ Distinct'
  BY <1>1, UnlinkLive
<1>4. Suspended' = Suspended \cup {f.obj} /\ SuspDistinct'
  BY <1>1, <1>2, AppendSuspended
<1>5. InUse' = InUse
  BY <1>2, <1>3, <1>4 DEF InUse
<1>6. UsageByType' = UsageByType
  BY <1>5 DEF UsageByType
<1>7. Nesting'
  <2>1. /\ susp \in Seq(Frame) /\ Len(susp) \in Nat
        /\ Len(susp') = Len(susp) + 1
        /\ \A j \in 1..Len(susp) : susp'[j] = susp[j]
        /\ susp'[Len(susp) + 1] = f
    BY <1>1, AppendProperties, LenProperties DEF TypeOK
  <2>2. f.kind = "destroy" => Len(susp) = 0
    BY EmptySeq
  <2>3. ASSUME NEW j \in 1..Len(susp'), susp'[j].kind = "destroy" PROVE j = 1
    <3>1. CASE j \in 1..Len(susp)
      BY <2>1, <2>3, <3>1 DEF OnceInv, Nesting
    <3>2. CASE j = Len(susp) + 1
      BY <2>1, <2>2, <2>3, <3>2
    <3> QED BY <2>1, <3>1, <3>2
  <2> QED BY <2>3 DEF Nesting
<1> QED
  BY <1>1, <1>2, <1>3, <1>4, <1>5, <1>6, <1>7 DEF OnceInv, Counted

\* An object is unlinked and freed at once.
LEMMA OnceFree ==
  ASSUME OnceInv, TypeOK', NEW i \in 1..Len(heap),
         heap' = Without(heap, i), Release(heap[i]), UNCHANGED susp, Nesting',
         phase # "uaf"
  PROVE  OnceInv'
<1>1. TypeOK /\ Distinct /\ SuspDistinct /\ Live \cap Suspended = {}
  BY DEF OnceInv
<1>2. heap[i] \in Live /\ heap[i] \notin Suspended
  BY <1>1 DEF Live
<1>3. Live' = Live \ {heap[i]} /\ Distinct'
  BY <1>1, UnlinkLive
<1>4. Suspended' = Suspended /\ SuspDistinct'
  BY <1>1 DEF Suspended, SuspDistinct
<1>5. InUse' = InUse \ {heap[i]} /\ heap[i] \in InUse
  BY <1>2, <1>3, <1>4 DEF InUse
<1>6. Counted'
  BY <1>1, <1>5, InUseFinite, CountShrinks DEF OnceInv
<1> QED BY <1>1, <1>3, <1>4, <1>6 DEF OnceInv

LEMMA OnceResume ==
  ASSUME OnceInv, TypeOK', Resume
  PROVE  OnceInv'
<1> DEFINE f == susp[Len(susp)]
<1>1. TypeOK /\ Distinct /\ SuspDistinct /\ Live \cap Suspended = {}
  BY DEF OnceInv
<1>2. /\ phase # "uaf" /\ susp # <<>> /\ susp' = SubSeq(susp, 1, Len(susp) - 1)
      /\ Release(f.obj) /\ UNCHANGED heap
      /\ phase' = "mutator" => f.kind = "destroy"
  BY <1>1 DEF Resume, TypeOK
<1>3. /\ Suspended' = Suspended \ {f.obj} /\ f.obj \in Suspended
      /\ SuspDistinct' /\ Len(susp') = Len(susp) - 1
      /\ \A i \in 1..Len(susp') : susp'[i] = susp[i]
  BY <1>1, <1>2, DropSuspended
<1>4. Live' = Live /\ Distinct'
  BY <1>1, <1>2 DEF Live, Distinct
<1>5. f.obj \in InUse /\ InUse' = InUse \ {f.obj}
  BY <1>1, <1>3, <1>4 DEF InUse
<1>6. Counted'
  <2> HIDE DEF f
  <2> QED BY <1>1, <1>2, <1>5, InUseFinite, CountShrinks DEF OnceInv
<1>7. Nesting'
  <2>1. Len(susp) \in Nat /\ Len(susp) # 0
    BY <1>1, <1>2, EmptySeq, LenProperties DEF TypeOK
  <2>2. ASSUME phase' = "mutator" PROVE susp' = <<>>
    <3>1. Len(susp) = 1
      <4>1. Len(susp) \in 1..Len(susp) /\ susp[Len(susp)].kind = "destroy"
        BY <1>2, <2>1, <2>2
      <4> QED BY <4>1 DEF OnceInv, Nesting
    <3>2. susp' \in Seq(Frame) /\ Len(susp') = 0
      BY <1>3, <3>1 DEF TypeOK
    <3> QED BY <3>2, EmptySeq
  <2>3. \A i \in 1..Len(susp') : susp'[i].kind = "destroy" => i = 1
    BY <1>3, <2>1 DEF OnceInv, Nesting
  <2> QED BY <2>2, <2>3 DEF Nesting
<1> QED BY <1>1, <1>3, <1>4, <1>6, <1>7 DEF OnceInv

LEMMA OnceShutdown ==
  ASSUME OnceInv, TypeOK', Shutdown
  PROVE  OnceInv'
<1>1. /\ susp = <<>> /\ susp' = <<>> /\ phase = "mutator"
      /\ phase' # "mutator" /\ typeId' = typeId
  BY DEF OnceInv, Nesting, Shutdown, header
<1>2. Nesting' /\ Suspended' = {} /\ SuspDistinct'
  BY <1>1, EmptySeq DEF Nesting, Suspended, SuspDistinct
<1>3. CASE UNCHANGED <<heap, totalAllocated, totalObjectsLive>>
  BY <1>1, <1>2, <1>3, OnceSame
<1>4. CASE heap' = <<>> /\ totalAllocated' = 0 /\ totalObjectsLive' = 0
  <2>1. Live' = {} /\ Distinct'
    BY <1>4, EmptySeq DEF Live, Distinct
  <2>2. InUse' = {}
    BY <1>2, <2>1 DEF InUse
  <2>3. Cardinality(InUse') = 0
    BY <2>2, FS_EmptySet
  <2>4. \A t \in TypeId : {o \in InUse' : typeId'[o] = t} = {}
    BY <2>2
  <2>5. \A t \in TypeId : UsageByType'[t] = 0 * SizeOf[t]
    BY <2>4, FS_EmptySet DEF UsageByType
  <2>6. \A t \in TypeId : SizeOf[t] \in Nat
    BY TypeAssumption
  <2>7. \A t \in TypeId : UsageByType'[t] = 0
    BY <2>5, <2>6
  <2>8. UsageByType' \in [TypeId -> Int]
    BY <2>7 DEF UsageByType
  <2>9. SumOver(UsageByType', TypeId)[TypeId] = 0
    BY <2>7, <2>8, SumZero, TypeAssumption
  <2> QED BY <1>2, <1>4, <2>1, <2>3, <2>9 DEF OnceInv, Counted
<1> QED BY <1>3, <1>4 DEF Shutdown

LEMMA OnceStep ==
  ASSUME OnceInv, [Next]_vars
  PROVE  OnceInv'
<1>0. TypeOK /\ TypeOK'
  BY NextType DEF OnceInv
<1>1. ASSUME NEW c \in Cell, Malloc(c) PROVE OnceInv'
  BY <1>0, <1>1, OnceMalloc
<1>2. CASE MallocFails \/ MarkRoot \/ EndRoots \/ EndTrace \/ SweepKeep
           \/ EndSweep \/ \E o \in Cell : TraceObject(o)
  <2>1. /\ UNCHANGED <<heap, susp, typeId, totalAllocated, totalObjectsLive>>
        /\ phase' # "mutator" /\ phase # "uaf"
    BY <1>2
    DEF MallocFails, MarkRoot, MarkObjects, UseAfterFree, EndRoots, EndTrace,
        SweepKeep, EndSweep, TraceObject, header, counters
  <2>2. Nesting'
    BY <2>1 DEF OnceInv, Nesting
  <2> QED BY <1>0, <2>1, <2>2, OnceSame
<1>3. CASE SweepFree
  <2> DEFINE i == cur + 1
             obj == heap[i]
             f == [kind |-> "sweep", obj |-> obj,
                   pred |-> IF cur = 0 THEN Null ELSE heap[cur],
                   slot |-> Null, want |-> want]
  <2>1. i \in 1..Len(heap) /\ heap' = Without(heap, i) /\ phase = "sweep"
    BY <1>0, <1>3 DEF SweepFree, TypeOK
  <2>2. CASE typeId[obj] \in DtorAllocs
    <3>1. f \in Frame
      BY <1>0, <2>1 DEF TypeOK, Frame, Pointer
    <3>2. /\ susp' = Append(susp, f)
          /\ UNCHANGED <<typeId, totalAllocated, totalObjectsLive>>
          /\ phase' # "mutator"
      BY <1>3, <2>2 DEF SweepFree, EnterAlloc, header, counters
    <3>3. f.obj = heap[i] /\ f.kind # "destroy"
      OBVIOUS
    <3> HIDE DEF f, i
    <3> QED BY <1>0, <2>1, <3>1, <3>2, <3>3, OnceSuspend
  <2>3. CASE typeId[obj] \notin DtorAllocs
    <3>1. Release(obj) /\ UNCHANGED <<susp, phase>>
      BY <1>3, <2>3 DEF SweepFree
    <3>2. Nesting'
      BY <2>1, <3>1 DEF OnceInv, Nesting
    <3> QED BY <1>0, <2>1, <3>1, <3>2, OnceFree
  <2> QED BY <2>2, <2>3
<1>4. CASE Resume
  BY <1>0, <1>4, OnceResume
<1>5. ASSUME NEW t \in TypeId, BeryAlloc(t) PROVE OnceInv'
  <2>1. Nesting'
    BY <1>5 DEF BeryAlloc, EnterAlloc, OnceInv, Nesting
  <2>2. /\ UNCHANGED <<heap, susp, typeId, totalAllocated, totalObjectsLive>>
        /\ phase # "uaf"
    BY <1>5 DEF BeryAlloc, header, counters
  <2> QED BY <1>0, <2>1, <2>2, OnceSame
<1>6. ASSUME NEW s \in Slot, Delete(s) PROVE OnceInv'
  <2> DEFINE obj == slotVal[s]
             i == PositionOf(obj)
             f == [kind |-> "destroy", obj |-> obj, pred |-> Null,
                   slot |-> s, want |-> Null]
  <2>1. /\ i \in 1..Len(heap) /\ heap[i] = obj /\ heap' = Without(heap, i)
        /\ phase = "mutator" /\ susp = <<>> /\ obj \in Cell
    BY <1>0, <1>6, PositionProperties
    DEF Delete, OnceInv, Nesting, Live, TypeOK
  <2>2. CASE typeId[obj] \in DtorAllocs
    <3>1. f \in Frame
      BY <2>1 DEF Frame
    <3>2. /\ susp' = Append(susp, f)
          /\ UNCHANGED <<typeId, totalAllocated, totalObjectsLive>>
          /\ phase' # "mutator"
      BY <1>6, <2>2 DEF Delete, EnterAlloc, header, counters
    <3>3. f.obj = heap[i]
      BY <2>1
    <3> HIDE DEF f, i
    <3> QED BY <1>0, <2>1, <3>1, <3>2, <3>3, OnceSuspend
  <2>3. CASE typeId[obj] \notin DtorAllocs
    <3>1. Release(obj) /\ UNCHANGED <<susp, phase>>
      BY <1>6, <2>3 DEF Delete
    <3>2. Nesting'
      BY <2>1, <3>1 DEF OnceInv, Nesting
    <3> HIDE DEF i
    <3> QED BY <1>0, <2>1, <3>1, <3>2, OnceFree
  <2> QED BY <2>2, <2>3
<1>7. CASE PopRoot \/ (\E s \in Slot : PushRoot(s))
           \/ (\E s \in Slot, v \in Pointer : StoreSlot(s, v))
           \/ (\E o \in Cell, w \in Word, v \in Pointer : StoreWord(o, w, v))
  <2>1. UNCHANGED <<heap, susp, typeId, totalAllocated, totalObjectsLive,
                    phase>>
    BY <1>7 DEF PopRoot, PushRoot, StoreSlot, StoreWord, header, counters
  <2>2. Nesting'
    BY <2>1 DEF OnceInv, Nesting
  <2> QED BY <1>0, <2>1, <2>2, OnceSame
<1>8. CASE Shutdown
  BY <1>0, <1>8, OnceShutdown
<1>9. CASE UNCHANGED vars
  <2>1. Nesting'
    BY <1>9 DEF vars, OnceInv, Nesting
  <2>2. UNCHANGED <<heap, susp, typeId, totalAllocated, totalObjectsLive,
                    phase>>
    BY <1>9 DEF vars, header, counters
  <2> QED BY <1>0, <2>1, <2>2, OnceSame
<1>10. CASE UseDangling \/ \E s \in Slot : DeleteAgain(s)
  <2>1. UNCHANGED <<heap, susp>> /\ phase' = "uaf"
    BY <1>10 DEF UseDangling, DeleteAgain
  <2>2. Live' = Live /\ Suspended' = Suspended
    BY <2>1 DEF Live, Suspended
  <2> QED BY <1>0, <2>1, <2>2 DEF OnceInv, Distinct, SuspDistinct, Nesting
<1> QED
  BY <1>1, <1>2, <1>3, <1>4, <1>5, <1>6, <1>7, <1>8, <1>9, <1>10
  DEF Next, Collector, Program

LEMMA OnceAlways == Spec => []OnceInv
BY OnceInit, OnceStep, PTL DEF Spec

\* Whatever the destructors do, the list holds each object once, and none
\* whose destructor is running, so that a collection this destructor starts
\* does not destroy it again.  (A program that deletes an object through a
\* second reference does: that is a read of freed memory, and ends in "uaf".)
THEOREM UnlinkedWhileDestroyed == Spec => []DestroyedUnlinked
<1>1. OnceInv => DestroyedUnlinked
  BY LiveCount, SuspendedCount DEF OnceInv, DestroyedUnlinked
<1> QED BY <1>1, OnceAlways, PTL

\* The counters agree with what is allocated after every step, of the
\* collector, of its nested calls and of the program, until freed memory is
\* read.
THEOREM CountersAgree == Spec => []Accounting
<1>1. OnceInv => Accounting
  BY SumSetIsSumOver DEF OnceInv, Counted, Accounting
<1> QED BY <1>1, OnceAlways, PTL

-----------------------------------------------------------------------------
(***************************************************************************)
(* BeryHeap implements ManagedHeap: the mark and sweep collector, taken    *)
(* step by step, does what a collection in one step would do, and the      *)
(* program cannot tell the difference.  The collection takes effect in the *)
(* abstract heap when bery_alloc decides to collect.                       *)
(***************************************************************************)

live  == IF Ended THEN {} ELSE IF Collecting THEN Reach \cap Live ELSE Live
reach == IF Ended THEN {} ELSE Reach
since == IF Ended \/ Collecting THEN 0 ELSE allocationCount

LEMMA InitMapped == Init => Managed!Init
<1> SUFFICES ASSUME Init PROVE Managed!Init
  OBVIOUS
<1>1. Held = {} /\ Live = {}
  BY EmptySeq DEF Init, Startup, Held, Rooted, Live
<1>2. Reach = {}
  BY <1>1, ReachBelow DEF Closed
<1> QED BY <1>1, <1>2 DEF Init, Startup, Managed!Init, Collecting, Ended

\* The steps of a collection do not show in the abstract heap.
LEMMA CollectionHidden ==
  ASSUME NoAllocDtors, IInv, IInv',
         \/ MarkRoot \/ EndRoots \/ EndTrace \/ SweepKeep \/ SweepFree
         \/ EndSweep \/ \E o \in Cell : TraceObject(o),
         phase' # "uaf"
  PROVE  UNCHANGED <<live, reach, since, gcEnabled, Ended>>
<1>1. CASE SweepFree
  <2>1. Reach' = Reach /\ phase = "sweep" /\ phase' = "sweep"
    BY <1>1, SweepFreeInv DEF IInv, SweepFree, NoAllocDtors
  <2>2. heap[cur + 1] \notin Reach /\ Live' = Live \ {heap[cur + 1]}
    BY <1>1, SweepFreeInv DEF IInv
  <2> QED BY <1>1, <2>1, <2>2 DEF live, reach, since, Collecting, Ended, SweepFree
<1>2. CASE EndSweep
  <2>1. Reach' = Reach /\ Live' = Live /\ Live = Reach
    BY <1>2, EndSweepInv DEF IInv
  <2> QED BY <1>2, <2>1 DEF live, reach, since, Collecting, Ended, EndSweep
<1>3. CASE MarkRoot \/ EndRoots \/ EndTrace \/ SweepKeep
           \/ \E o \in Cell : TraceObject(o)
  <2>1. /\ UNCHANGED <<heap, typeId, ptr, rootStack, slotVal, fresh, gcEnabled>>
        /\ Collecting
        /\ phase' \in {"roots", "trace", "sweep", "uaf"}
    BY <1>3
    DEF MarkRoot, MarkObjects, UseAfterFree, EndRoots, EndTrace, SweepKeep,
        TraceObject, header, roots, Collecting
  <2>2. Collecting'
    BY <2>1 DEF Collecting
  <2>3. Reach' = Reach /\ Live' = Live
    BY <2>1, SameGraph DEF IInv
  <2> QED BY <2>1, <2>2, <2>3 DEF live, reach, since, Collecting, Ended
<1> QED BY <1>1, <1>2, <1>3

LEMMA StepMapped ==
  ASSUME NoAllocDtors, IInv, InTime, [Next]_vars
  PROVE  [Managed!Next]_(Managed!mvars)
<1>1. IInv' /\ TypeOK /\ TypeOK'
  BY NextInv DEF IInv
<1> USE DEF Managed!mvars, live, reach, since, Ended
<1>2. ASSUME NEW c \in Cell, Malloc(c) PROVE Managed!New(c)
  <2>1. /\ c \notin Live /\ Live' = Live \cup {c}
        /\ Reach' \subseteq Reach \cup {c} /\ c \in Reach'
    BY <1>1, <1>2, MallocInv
  <2>2. phase = "malloc" /\ phase' = "mutator"
        /\ allocationCount' = allocationCount + 1 /\ gcEnabled' = gcEnabled
    BY <1>2 DEF Malloc, IInv, NoSuspension
  <2> QED BY <2>1, <2>2 DEF Managed!New, Collecting, InTime
<1>3. ASSUME phase' \in {"uaf", "oom", "done"}, gcEnabled' = gcEnabled,
             phase \notin {"uaf", "oom", "done"}
      PROVE  Managed!Next
  BY <1>3 DEF Managed!Next, Managed!Exit
<1>4. ASSUME \/ MarkRoot \/ EndRoots \/ EndTrace \/ SweepKeep \/ SweepFree
             \/ EndSweep \/ \E o \in Cell : TraceObject(o)
      PROVE  UNCHANGED Managed!mvars \/ Managed!Next
  <2>1. CASE phase' = "uaf"
    <3>1. /\ gcEnabled' = gcEnabled
          /\ phase \notin {"uaf", "oom", "done"}
      BY <1>4
      DEF MarkRoot, EndRoots, EndTrace, SweepKeep, SweepFree, EndSweep,
          TraceObject
    <3> QED BY <1>3, <2>1, <3>1
  <2>2. CASE phase' # "uaf"
    BY <1>1, <1>4, <2>2, CollectionHidden
  <2> QED BY <2>1, <2>2
<1>5. ASSUME NEW t \in TypeId, BeryAlloc(t) PROVE Managed!Next
  <2>1. Reach' \subseteq Reach /\ Live' = Live /\ gcEnabled' = gcEnabled
        /\ allocationCount' = allocationCount /\ phase = "mutator"
    BY <1>1, <1>5, BeryAllocInv DEF BeryAlloc, counters
  <2>2. CASE ShouldCollect
    <3>1. phase' = "roots" /\ gcEnabled
      BY <1>5, <2>2 DEF BeryAlloc, EnterAlloc, ShouldCollect
    <3> QED BY <2>1, <3>1 DEF Managed!Next, Managed!Collect, Collecting
  <2>3. CASE ~ShouldCollect
    <3>1. phase' = "malloc"
      BY <1>5, <2>3 DEF BeryAlloc, EnterAlloc
    <3> QED BY <2>1, <3>1 DEF Managed!Next, Managed!Mutate, Collecting
  <2> QED BY <2>2, <2>3
<1>6. ASSUME PopRoot \/ (\E s \in Slot : PushRoot(s))
             \/ (\E s \in Slot, v \in Pointer : StoreSlot(s, v))
             \/ (\E o \in Cell, w \in Word, v \in Pointer : StoreWord(o, w, v))
      PROVE  Managed!Next
  <2>1. Reach' \subseteq Reach /\ Live' = Live
    BY <1>1, <1>6, PopRootInv, PushRootInv, StoreSlotInv, StoreWordInv
  <2>2. phase = "mutator" /\ phase' = "mutator" /\ gcEnabled' = gcEnabled
        /\ allocationCount' = allocationCount
    BY <1>6 DEF PopRoot, PushRoot, StoreSlot, StoreWord, counters
  <2> QED BY <2>1, <2>2 DEF Managed!Next, Managed!Mutate, Collecting
<1>7. ASSUME NEW s \in Slot, Delete(s) PROVE Managed!Delete(slotVal[s])
                                              /\ slotVal[s] \in Cell
  <2>1. /\ slotVal[s] \in Reach /\ Live' = Live \ {slotVal[s]}
        /\ slotVal[s] \in Live /\ Reach' \subseteq Reach
    BY <1>1, <1>7, DeleteInv
  <2>2. phase = "mutator" /\ phase' = "mutator" /\ gcEnabled' = gcEnabled
        /\ allocationCount' = allocationCount
    BY <1>7 DEF Delete, Release, NoAllocDtors
  <2> QED BY <2>1, <2>2, ReachBelow DEF Managed!Delete, Collecting
<1>8. CASE Shutdown \/ MallocFails \/ UseDangling
           \/ \E s \in Slot : DeleteAgain(s)
  <2>1. /\ phase' \in {"uaf", "oom", "done"} /\ gcEnabled' = gcEnabled
        /\ phase \in {"mutator", "malloc"}
    BY <1>8 DEF Shutdown, MallocFails, UseDangling, DeleteAgain
  <2> QED BY <1>3, <2>1
<1>9. CASE UNCHANGED vars
  BY <1>1, <1>9, SameGraph
  DEF vars, header, roots, counters, Collecting, IInv
<1>10. ~Resume
  BY DEF Resume, IInv, NoSuspension
<1> QED
  BY <1>2, <1>4, <1>5, <1>6, <1>7, <1>8, <1>9, <1>10
  DEF Next, Collector, Program, Managed!Next

\* Every execution of the runtime is, for the program, an execution of the
\* abstract memory manager, up to the program's use of what it deleted.
THEOREM Refinement == NoAllocDtors => (Spec => ManagedSpec)
<1> SUFFICES ASSUME NoAllocDtors PROVE Spec => ManagedSpec
  OBVIOUS
<1>1. Init => IInv /\ InTime
  BY InitInv, InTimeInit
<1>2. IInv /\ InTime /\ [Next]_vars => IInv' /\ InTime'
  BY NextInv, InTimeStep DEF IInv
<1>3. IInv /\ InTime /\ [Next]_vars => [Managed!Next]_(Managed!mvars)
  BY StepMapped
<1>4. Init => Managed!Init
  BY InitMapped
<1> QED BY <1>1, <1>2, <1>3, <1>4, PTL DEF Spec, ManagedSpec, Managed!Spec
=============================================================================
