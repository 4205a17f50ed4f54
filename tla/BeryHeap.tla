------------------------------ MODULE BeryHeap ------------------------------
(***************************************************************************)
(* The managed heap of the Bery runtime (src/bre): bery_alloc, the mark    *)
(* and sweep collector it triggers, the root stack, explicit destruction   *)
(* and shutdown.  The runtime is single threaded; a collection is broken   *)
(* into the steps of its loops because a destructor called from the sweep  *)
(* may allocate and so start a second collection inside the first one.     *)
(*                                                                         *)
(* The running program (the code the compiler emits) is the environment.   *)
(* The result of an allocation is stored into a root or into a reachable   *)
(* object before the next allocation; whether the emitted code does so is  *)
(* the subject of other modules.  `ref` lets two variables hold one object *)
(* and `delete` asks no question, so the program may leave itself dangling *)
(* pointers, use them, and destroy an object again.                        *)
(***************************************************************************)
EXTENDS Naturals, Sequences, FiniteSets, FiniteSetsExt

CONSTANTS
  Cell,            \* addresses malloc can return for an object
  Null,            \* the null pointer
  Slot,            \* stack slots (allocas) the program roots
  TypeId,          \* registered types
  Word,            \* pointer-sized words of an object's payload
  PtrFields,       \* type -> words listed in BeryTypeInfo.pointerFields
  SizeOf,          \* type -> payload size
  DtorAllocs,      \* types whose destructor allocates (string building)
  DtorTemp,        \* the type such a destructor allocates
  AllocThreshold,  \* BERY_GC_ALLOC_THRESHHOLD
  HeapThreshold,   \* BERY_GC_HEAP_SIZE_THRESHHOLD
  SizeMax,         \* SIZE_MAX
  CountBound       \* bound on allocationCount while the collector is off

ASSUME NullAssumption == Null \notin Cell \cup Slot \cup TypeId
ASSUME TypeAssumption ==
  /\ IsFiniteSet(TypeId)
  /\ PtrFields \in [TypeId -> SUBSET Word]
  /\ SizeOf \in [TypeId -> Nat]
  /\ DtorAllocs \subseteq TypeId
  /\ DtorTemp \in TypeId \ DtorAllocs
ASSUME BoundAssumption ==
  /\ AllocThreshold \in Nat \ {0}
  /\ HeapThreshold \in Nat /\ CountBound \in Nat /\ SizeMax \in Nat

VARIABLES
  heap,              \* the object list from heapHead, newest first
  marked,            \* BeryObjectHeader.marked
  typeId,            \* BeryObjectHeader.typeId
  ptr,               \* the payload's words, as pointers
  rootStack,         \* the list of Root nodes from rootStackHead
  slotVal,           \* what each slot holds
  fresh,             \* the register holding the last bery_alloc result
  phase,             \* where the single thread is
  rootCur,           \* markPhase: roots already visited
  list,              \* markPhase: the worklist
  cur,               \* sweepPhase: objects `current` has passed
  want,              \* the type the pending bery_alloc was asked for
  susp,              \* sweeps and destroys suspended inside a destructor
  deleted,           \* history: what `delete` freed and malloc did not reuse
  gcEnabled, allocationCount, totalAllocated, totalObjectsLive

header    == <<marked, typeId, ptr>>
roots     == <<rootStack, slotVal>>
collector == <<rootCur, list, cur>>
counters  == <<allocationCount, totalAllocated, totalObjectsLive>>
vars == <<heap, header, roots, fresh, phase, collector, want, susp, deleted,
          gcEnabled, counters>>

Pointer == Cell \cup {Null}
Phase == {"mutator", "roots", "trace", "sweep", "malloc", "resume",
          "done", "oom", "uaf"}
Frame ==
  [kind : {"sweep"}, obj : Cell, pred : Pointer, slot : {Null}, want : TypeId]
  \cup
  [kind : {"destroy"}, obj : Cell, pred : {Null}, slot : Slot, want : {Null}]

Live   == {heap[i] : i \in 1..Len(heap)}
Rooted == {rootStack[i] : i \in 1..Len(rootStack)}
Suspended == {susp[i].obj : i \in 1..Len(susp)}
InUse  == Live \cup Suspended
\* Mutant: the unlink forgets to write `*current`.
BugNoUnlink(s, i) == s

Without(s, i) == SubSeq(s, 1, i - 1) \o SubSeq(s, i + 1, Len(s))
PositionOf(c) == CHOOSE i \in 1..Len(heap) : heap[i] = c

(***************************************************************************)
(* Reachability as the collector defines it: from the program's hands (the *)
(* root slots and the register) through the traced words of each object.   *)
(***************************************************************************)
Children(o) == {ptr[o][w] : w \in PtrFields[typeId[o]]} \ {Null}
Held == ({slotVal[s] : s \in Rooted} \cup {fresh}) \ {Null}
Closed(S) == Held \subseteq S /\ \A o \in S : Children(o) \subseteq S
Reach == {o \in Cell : \A S \in SUBSET Cell : Closed(S) => o \in S}

\* Mutant: one allocation too late.
BugCollectLate ==
  gcEnabled /\ (allocationCount > AllocThreshold
                  \/ totalAllocated >= HeapThreshold)

ShouldCollect ==
  /\ gcEnabled
  /\ allocationCount >= AllocThreshold \/ totalAllocated >= HeapThreshold

Startup ==
  /\ heap = <<>> /\ rootStack = <<>>
  /\ allocationCount = 0 /\ totalAllocated = 0 /\ totalObjectsLive = 0
  /\ gcEnabled \in BOOLEAN

Init ==
  /\ Startup
  /\ marked = [c \in Cell |-> FALSE]
  /\ typeId = [c \in Cell |-> DtorTemp]
  /\ ptr = [c \in Cell |-> [w \in Word |-> Null]]
  /\ slotVal = [s \in Slot |-> Null]
  /\ fresh = Null /\ phase = "mutator"
  /\ rootCur = 0 /\ list = {} /\ cur = 0
  /\ want = Null /\ susp = <<>> /\ deleted = {}

-----------------------------------------------------------------------------
(***************************************************************************)
(* bery_alloc: the collection it may begin with, then the malloc.          *)
(***************************************************************************)
EnterAlloc(t) ==
  /\ want' = t
  /\ fresh' = Null
  /\ phase' = IF ShouldCollect THEN "roots" ELSE "malloc"
  /\ rootCur' = 0 /\ list' = {} /\ cur' = 0

BeryAlloc(t) ==
  /\ phase = "mutator"
  /\ gcEnabled \/ allocationCount < CountBound
  /\ EnterAlloc(t)
  /\ UNCHANGED <<heap, header, roots, susp, deleted, gcEnabled, counters>>

\* bery_alloc leaves the payload as malloc returned it.  The objects with
\* traced words have theirs written before a root reaches them
\* (allocateDataBuffer's memset, bery_array_new): here they start as null.
Malloc(c) ==
  /\ phase = "malloc"
  /\ c \in Cell \ InUse
  /\ heap' = <<c>> \o heap
  /\ marked' = [marked EXCEPT ![c] = FALSE]
  /\ typeId' = [typeId EXCEPT ![c] = want]
  /\ ptr' = [ptr EXCEPT ![c] = [w \in Word |-> Null]]
  /\ totalAllocated' = totalAllocated + SizeOf[want]
  /\ allocationCount' = allocationCount + 1
  /\ totalObjectsLive' = totalObjectsLive + 1
  /\ deleted' = deleted \ {c}
  /\ want' = Null
  /\ IF susp = <<>> THEN phase' = "mutator" /\ fresh' = c
                    ELSE phase' = "resume"  /\ fresh' = Null
  /\ UNCHANGED <<roots, collector, susp, gcEnabled>>

\* malloc's result is used unchecked: with no memory left the header store
\* faults and the process ends.
MallocFails ==
  /\ phase = "malloc"
  /\ InUse = Cell
  /\ phase' = "oom"
  /\ UNCHANGED <<heap, header, roots, fresh, collector, want, susp, deleted,
                 gcEnabled, counters>>

-----------------------------------------------------------------------------
(***************************************************************************)
(* bery_gc_collect: markPhase, then sweepPhase, then allocationCount = 0.  *)
(***************************************************************************)
\* Mutant: markObject forgets the push_back.
BugMarkNoPush(S) ==
  marked' = [o \in Cell |-> marked[o] \/ o \in S] /\ UNCHANGED list

MarkObjects(S) ==
  LET new == {o \in S : ~marked[o]}
  IN  /\ marked' = [o \in Cell |-> marked[o] \/ o \in new]
      /\ list' = list \cup new

UseAfterFree == phase' = "uaf" /\ UNCHANGED <<marked, list>>

MarkRoot ==
  /\ phase = "roots"
  /\ rootCur < Len(rootStack)
  /\ rootCur' = rootCur + 1
  /\ LET obj == slotVal[rootStack[rootCur + 1]]
     IN  IF obj \in InUse \cup {Null}
         THEN MarkObjects({obj} \ {Null}) /\ UNCHANGED phase
         ELSE UseAfterFree
  /\ UNCHANGED <<heap, typeId, ptr, roots, fresh, cur, want, susp, deleted,
                 gcEnabled, counters>>

\* Mutant: the walk over the root list stops one node early.
BugRootSkipped ==
  /\ phase = "roots"
  /\ rootCur + 1 >= Len(rootStack)
  /\ phase' = "trace" /\ rootCur' = 0
  /\ UNCHANGED <<heap, header, roots, fresh, list, cur, want, susp, deleted,
                 gcEnabled, counters>>

EndRoots ==
  /\ phase = "roots"
  /\ rootCur = Len(rootStack)
  /\ phase' = "trace" /\ rootCur' = 0
  /\ UNCHANGED <<heap, header, roots, fresh, list, cur, want, susp, deleted,
                 gcEnabled, counters>>

\* Mutant: markObject without its `if (header->marked) return`.
BugTraceAgain(o) ==
  /\ phase = "trace" /\ o \in list
  /\ marked' = [c \in Cell |-> marked[c] \/ c \in Children(o)]
  /\ list' = (list \ {o}) \cup Children(o)
  /\ UNCHANGED <<heap, typeId, ptr, roots, fresh, phase, rootCur, cur, want,
                 susp, deleted, gcEnabled, counters>>

\* The worklist is a stack in the code; any order of taking from it marks
\* the same objects, so it is a set here.
TraceObject(o) ==
  /\ phase = "trace"
  /\ o \in list
  /\ IF Children(o) \subseteq InUse
     THEN LET new == {c \in Children(o) : ~marked[c]}
          IN  /\ marked' = [c \in Cell |-> marked[c] \/ c \in new]
              /\ list' = (list \ {o}) \cup new
              /\ UNCHANGED phase
     ELSE UseAfterFree
  /\ UNCHANGED <<heap, typeId, ptr, roots, fresh, rootCur, cur, want, susp,
                 deleted, gcEnabled, counters>>

EndTrace ==
  /\ phase = "trace"
  /\ list = {}
  /\ phase' = "sweep" /\ cur' = 0
  /\ UNCHANGED <<heap, header, roots, fresh, rootCur, list, want, susp,
                 deleted, gcEnabled, counters>>

\* Mutant: the survivor keeps its mark.
BugMarkKept ==
  /\ phase = "sweep"
  /\ cur < Len(heap)
  /\ marked[heap[cur + 1]]
  /\ cur' = cur + 1
  /\ UNCHANGED <<heap, header, roots, fresh, phase, rootCur, list, want, susp,
                 deleted, gcEnabled, counters>>

SweepKeep ==
  /\ phase = "sweep"
  /\ cur < Len(heap)
  /\ marked[heap[cur + 1]]
  /\ marked' = [marked EXCEPT ![heap[cur + 1]] = FALSE]
  /\ cur' = cur + 1
  /\ UNCHANGED <<heap, typeId, ptr, roots, fresh, phase, rootCur, list, want,
                 susp, deleted, gcEnabled, counters>>

\* Mutant: totalAllocated is not given back.
BugSizeLeaked(o) ==
  /\ totalObjectsLive' = totalObjectsLive - 1
  /\ marked' = [marked EXCEPT ![o] = FALSE]
  /\ typeId' = [typeId EXCEPT ![o] = DtorTemp]
  /\ ptr' = [ptr EXCEPT ![o] = [w \in Word |-> Null]]
  /\ UNCHANGED <<totalAllocated, allocationCount>>

\* Mutant: freeing takes back an allocation from the count.
BugCountTakenBack(o) ==
  /\ totalObjectsLive' = totalObjectsLive - 1
  /\ totalAllocated' = totalAllocated - SizeOf[typeId[o]]
  /\ allocationCount' = allocationCount - 1
  /\ marked' = [marked EXCEPT ![o] = FALSE]
  /\ typeId' = [typeId EXCEPT ![o] = DtorTemp]
  /\ ptr' = [ptr EXCEPT ![o] = [w \in Word |-> Null]]

\* The counters' update and the free that follow the destructor.  A step that
\* reads freed memory leads to "uaf" whatever it finds there: it is blanked.
Release(o) ==
  /\ totalAllocated' = totalAllocated - SizeOf[typeId[o]]
  /\ totalObjectsLive' = totalObjectsLive - 1
  /\ marked' = [marked EXCEPT ![o] = FALSE]
  /\ typeId' = [typeId EXCEPT ![o] = DtorTemp]
  /\ ptr' = [ptr EXCEPT ![o] = [w \in Word |-> Null]]
  /\ UNCHANGED allocationCount

\* The object is unlinked before its destructor runs; a destructor that
\* allocates leaves the sweep suspended.
SweepFree ==
  /\ phase = "sweep"
  /\ cur < Len(heap)
  /\ ~marked[heap[cur + 1]]
  /\ heap' = Without(heap, cur + 1)
  /\ LET obj == heap[cur + 1]
     IN  IF typeId[obj] \in DtorAllocs
         THEN /\ susp' = Append(susp,
                   [kind |-> "sweep", obj |-> obj,
                    pred |-> IF cur = 0 THEN Null ELSE heap[cur],
                    slot |-> Null, want |-> want])
              /\ EnterAlloc(DtorTemp)
              /\ UNCHANGED <<header, counters>>
         ELSE /\ Release(obj)
              /\ UNCHANGED <<susp, want, fresh, phase, collector>>
  /\ UNCHANGED <<roots, deleted, gcEnabled>>

\* Mutant: the allocation count is not reset.
BugCountKept ==
  /\ phase = "sweep" /\ cur = Len(heap)
  /\ phase' = "malloc" /\ cur' = 0
  /\ UNCHANGED <<heap, header, roots, fresh, rootCur, list, want, susp,
                 deleted, gcEnabled, counters>>

EndSweep ==
  /\ phase = "sweep"
  /\ cur = Len(heap)
  /\ allocationCount' = 0
  /\ phase' = "malloc" /\ cur' = 0
  /\ UNCHANGED <<heap, header, roots, fresh, rootCur, list, want, susp,
                 deleted, gcEnabled, totalAllocated, totalObjectsLive>>

\* The allocating destructor returns to the sweep or destroy that called it.
\* The sweep goes on from the `next` field its cursor points to.
Resume ==
  /\ phase = "resume"
  /\ LET f == susp[Len(susp)]
     IN  /\ Release(f.obj)
         /\ IF f.kind = "destroy"
            THEN /\ slotVal' = [slotVal EXCEPT ![f.slot] = Null]
                 /\ deleted' = deleted \cup {f.obj}
                 /\ phase' = "mutator"
                 /\ UNCHANGED cur
            ELSE /\ IF f.pred \in Live \cup {Null}
                    THEN /\ phase' = "sweep"
                         /\ cur' = IF f.pred = Null THEN 0
                                   ELSE PositionOf(f.pred)
                    ELSE phase' = "uaf" /\ UNCHANGED cur
                 /\ UNCHANGED <<slotVal, deleted>>
         /\ want' = f.want
  /\ susp' = SubSeq(susp, 1, Len(susp) - 1)
  /\ UNCHANGED <<heap, rootStack, fresh, rootCur, list, gcEnabled>>

-----------------------------------------------------------------------------
(***************************************************************************)
(* The calls the emitted code makes: bery_gc_push_root, bery_gc_pop_root,  *)
(* plain stores, bery_object_destroy (`delete x`), bery_runtime_shutdown.  *)
(***************************************************************************)
PushRoot(s) ==
  /\ phase = "mutator"
  /\ s \notin Rooted
  /\ rootStack' = <<s>> \o rootStack
  /\ UNCHANGED <<heap, header, slotVal, fresh, phase, collector, want, susp,
                 deleted, gcEnabled, counters>>

\* The slot goes out of scope with its root.
PopRoot ==
  /\ phase = "mutator"
  /\ rootStack # <<>>
  /\ rootStack' = Tail(rootStack)
  /\ slotVal' = [slotVal EXCEPT ![Head(rootStack)] = Null]
  /\ UNCHANGED <<heap, header, fresh, phase, collector, want, susp, deleted,
                 gcEnabled, counters>>

\* The value may be what another variable holds (`ref x`), dangling or not.
StoreSlot(s, v) ==
  /\ phase = "mutator"
  /\ s \in Rooted
  /\ v \in Reach \cup {Null}
  /\ slotVal' = [slotVal EXCEPT ![s] = v]
  /\ UNCHANGED <<heap, header, rootStack, fresh, phase, collector, want, susp,
                 deleted, gcEnabled, counters>>

StoreWord(o, w, v) ==
  /\ phase = "mutator"
  /\ o \in Reach \cap Live
  /\ v \in Reach \cup {Null}
  /\ ptr' = [ptr EXCEPT ![o][w] = v]
  /\ UNCHANGED <<heap, marked, typeId, roots, fresh, phase, collector, want,
                 susp, deleted, gcEnabled, counters>>

\* A load, store or call through a pointer to an object that was freed.
UseDangling ==
  /\ phase = "mutator"
  /\ ~(Reach \subseteq Live)
  /\ phase' = "uaf"
  /\ UNCHANGED <<heap, header, roots, fresh, collector, want, susp, deleted,
                 gcEnabled, counters>>

\* genDelete destroys what the slot holds and then clears the slot; another
\* slot or word that holds the object keeps its address.
Delete(s) ==
  /\ phase = "mutator"
  /\ s \in Rooted
  /\ slotVal[s] \in Live
  /\ LET obj == slotVal[s]
     IN  /\ heap' = Without(heap, PositionOf(obj))
         /\ IF typeId[obj] \in DtorAllocs
            THEN /\ susp' = Append(susp,
                      [kind |-> "destroy", obj |-> obj, pred |-> Null,
                       slot |-> s, want |-> Null])
                 /\ EnterAlloc(DtorTemp)
                 /\ UNCHANGED <<header, slotVal, deleted, counters>>
            ELSE /\ Release(obj)
                 /\ slotVal' = [slotVal EXCEPT ![s] = Null]
                 /\ deleted' = deleted \cup {obj}
                 /\ fresh' = Null
                 /\ UNCHANGED <<susp, want, phase, collector>>
  /\ UNCHANGED <<rootStack, gcEnabled>>

\* The same call for an object that is no longer on the list: the search falls
\* through, the counters are taken down (by a size read from freed memory) and
\* the memory is freed again.  For null the read of the header faults.
DeleteAgain(s) ==
  LET Minus(n, m) == IF m <= n THEN n - m ELSE n + SizeMax + 1 - m
  IN  /\ phase = "mutator"
      /\ s \in Rooted
      /\ slotVal[s] \notin Live
      /\ phase' = "uaf"
      /\ IF slotVal[s] = Null
         THEN UNCHANGED counters
         ELSE \E t \in TypeId :
                /\ totalAllocated' = Minus(totalAllocated, SizeOf[t])
                /\ totalObjectsLive' = Minus(totalObjectsLive, 1)
                /\ UNCHANGED allocationCount
      /\ UNCHANGED <<heap, header, roots, fresh, collector, want, susp,
                     deleted, gcEnabled>>

\* main pops its roots before it calls bery_runtime_shutdown.  The walk runs
\* every destructor with the freed objects still on the list, so a collection
\* one of them starts sweeps freed memory.
Shutdown ==
  LET last == Cardinality({o \in Live : typeId[o] \in DtorAllocs})
  IN  /\ phase = "mutator"
      /\ rootStack = <<>>
      /\ IF /\ gcEnabled /\ last > 0
            /\ \/ allocationCount + last > AllocThreshold
               \/ totalAllocated + (last - 1) * SizeOf[DtorTemp]
                    >= HeapThreshold
         THEN /\ phase' = "uaf"
              /\ UNCHANGED <<heap, totalAllocated, totalObjectsLive>>
         ELSE /\ phase' = "done"
              /\ heap' = <<>>
              /\ totalAllocated' = 0 /\ totalObjectsLive' = 0
      /\ fresh' = Null
      /\ UNCHANGED <<header, roots, collector, want, susp, deleted, gcEnabled,
                     allocationCount>>

-----------------------------------------------------------------------------
Collector ==
  \/ \E c \in Cell : Malloc(c)
  \/ MallocFails
  \/ MarkRoot \/ EndRoots
  \/ \E o \in Cell : TraceObject(o)
  \/ EndTrace
  \/ SweepKeep \/ SweepFree \/ EndSweep
  \/ Resume

Program ==
  \/ \E t \in TypeId : BeryAlloc(t)
  \/ \E s \in Slot : PushRoot(s) \/ Delete(s) \/ DeleteAgain(s)
  \/ PopRoot \/ UseDangling
  \/ \E s \in Slot, v \in Pointer : StoreSlot(s, v)
  \/ \E o \in Cell, w \in Word, v \in Pointer : StoreWord(o, w, v)
  \/ Shutdown

Next == Collector \/ Program

Spec == Init /\ [][Next]_vars

\* A call into the runtime is ordinary sequential code: once entered it runs.
FairSpec == Spec /\ WF_vars(Collector)

-----------------------------------------------------------------------------
(***************************************************************************)
(* Properties                                                              *)
(***************************************************************************)

\* Every variable stays in its range: the header fields, the root list, the
\* cursors (never past their list, at rest outside their loop), the request a
\* collection is made for, the suspended calls and the allocation count.
TypeOK ==
  /\ heap \in Seq(Cell)
  /\ marked \in [Cell -> BOOLEAN]
  /\ typeId \in [Cell -> TypeId]
  /\ ptr \in [Cell -> [Word -> Pointer]]
  /\ rootStack \in Seq(Slot)
  /\ slotVal \in [Slot -> Pointer]
  /\ fresh \in Pointer
  /\ phase \in Phase
  /\ rootCur \in 0..Len(rootStack)
  /\ rootCur = 0 \/ phase \in {"roots", "uaf"}
  /\ list \in SUBSET Cell
  /\ cur \in 0..Len(heap)
  /\ cur = 0 \/ phase = "sweep"
  /\ want \in TypeId \cup {Null}
  /\ phase \in {"roots", "trace", "sweep", "malloc"} => want \in TypeId
  /\ susp \in Seq(Frame)
  /\ phase = "resume" => susp # <<>>
  /\ deleted \in SUBSET Cell
  /\ gcEnabled \in BOOLEAN
  /\ allocationCount \in Nat

\* What the program can reach is allocated, unless the program deleted it and
\* kept another reference: no sequence of allocations, collections, stores,
\* pops and deletes gives it any other dangling pointer (bery_alloc,
\* bery_gc_collect and bery_object_destroy taken together).
ReachableIsAllocated == Reach \subseteq InUse \cup deleted

\* What the program can get to through every pointer it stored, traced by the
\* collector or not: fields of class instances, array elements beyond the one
\* word of the buffer that is listed.  An automatic collector (RELEASE_NOTES.md
\* line 8) may free none of it.
ProgramDataIsAllocated ==
  LET Points(o) == {ptr[o][w] : w \in Word} \ {Null}
      ClosedAll(S) == Held \subseteq S /\ \A o \in S : Points(o) \subseteq S
  IN  {o \in Cell : \A S \in SUBSET Cell : ClosedAll(S) => o \in S}
        \subseteq InUse

\* An object is unlinked before its destructor runs, so no collection that the
\* destructor starts, however deep, finds the object again, sweeps it or gives
\* its memory to another (sweepPhase, bery_object_destroy).
DestroyedUnlinked ==
  /\ Cardinality(Live) = Len(heap)
  /\ Cardinality(Suspended) = Len(susp)
  /\ Live \cap Suspended = {}

\* The sweep (bery_gc.cpp sweepPhase) frees no object the program can reach,
\* whatever the program did since the last collection.
NeverFreesReachable ==
  [][phase = "sweep" => (Live \ Live') \cap Reach = {}]_vars

\* A finished collection has freed every object the program could not reach:
\* nothing unreachable survives because of a stale mark bit.
CollectionIsComplete ==
  [][phase = "sweep" /\ phase' = "malloc" /\ susp = <<>> => Live = Reach]_vars

\* The sweep frees exactly the objects the program cannot reach.
SweepExact == NeverFreesReachable /\ CollectionIsComplete

\* The tri-colour argument of markPhase: a marked object is reachable, and an
\* object that is marked and no longer on the worklist has only marked
\* children; visited roots point to marked objects.
TriColour ==
  phase \in {"roots", "trace"} =>
    /\ \A o \in Cell : marked[o] => o \in Reach
    /\ list \subseteq {o \in Cell : marked[o]}
    /\ \A o \in {c \in Cell : marked[c]} \ list :
         \A c \in Children(o) : marked[c]
    /\ \A i \in 1..Len(rootStack) :
         /\ i <= rootCur \/ phase = "trace"
         /\ slotVal[rootStack[i]] # Null
         => marked[slotVal[rootStack[i]]]

\* During the sweep the list splits at the cursor: the objects before it are
\* reachable and unmarked again, those after it are marked exactly when they
\* are reachable.
SweepSplit ==
  phase = "sweep" =>
    \A i \in 1..Len(heap) :
      IF i <= cur THEN ~marked[heap[i]] /\ heap[i] \in Reach
                  ELSE marked[heap[i]] <=> heap[i] \in Reach

\* No mark bit survives a collection: the next one starts from a clean list,
\* which markObject's early return relies on.
MarksClear ==
  phase \in {"mutator", "malloc"} => \A o \in Live : ~marked[o]

\* What marking and sweeping rely on, from one end of a collection to the next.
MarkSweep == TriColour /\ SweepSplit /\ MarksClear

UsageByType ==
  [t \in TypeId |-> Cardinality({o \in InUse : typeId[o] = t}) * SizeOf[t]]

\* The runtime's counters agree with the list: totalObjectsLive counts it and
\* totalAllocated is the sum of its sizes, through every path that links or
\* unlinks an object (bery_alloc, sweepPhase, bery_object_destroy, shutdown),
\* until freed memory is read, which a second delete of an object does.
Accounting ==
  phase # "uaf" =>
    /\ totalObjectsLive = Cardinality(InUse)
    /\ totalAllocated = MapThenSumSet(LAMBDA t : UsageByType[t], TypeId)

\* With the collector on, at most AllocThreshold allocations are made between
\* two collections (bery_gc_should_collect is asked before each of them).
CollectsInTime == gcEnabled => allocationCount <= AllocThreshold


\* Every collection ends, cyclic data and collections nested in a sweep
\* included: the call into bery_alloc returns to the program, or the process
\* is out of memory or reads what it has freed.
CollectionTerminates ==
  phase \in {"roots", "trace", "sweep", "malloc", "resume"}
    ~> phase \in {"mutator", "oom", "uaf"}

(***************************************************************************)
(* The abstract memory manager this module implements.  While a collection *)
(* runs the abstract heap already holds what the collection will leave.    *)
(***************************************************************************)
Collecting == phase \in {"roots", "trace", "sweep"}
Ended == phase \in {"done", "oom", "uaf"}
Managed == INSTANCE ManagedHeap WITH
  live  <- IF Ended THEN {} ELSE IF Collecting THEN Reach \cap Live ELSE Live,
  reach <- IF Ended THEN {} ELSE Reach,
  since <- IF Ended \/ Collecting THEN 0 ELSE allocationCount,
  on    <- gcEnabled,
  over  <- Ended
ManagedSpec == Managed!Spec
=============================================================================
