----------------------------- MODULE BeryArray -----------------------------
(***************************************************************************)
(* A dynamic array of the runtime (bery_array.cpp): a length, a capacity   *)
(* and a buffer that doubles when it is full.  The loops that move and     *)
(* fill elements are taken one iteration at a time.  Indices come from the *)
(* emitted code, which extends the sign of an int to 64 bits and passes it *)
(* as a size_t: a negative one arrives as a huge one.                      *)
(***************************************************************************)
EXTENDS Integers

CONSTANTS
  Elem,          \* boxed elements
  Null,          \* the null pointer
  Request,       \* capacities bery_array_new is asked for
  Index,         \* indices the program writes
  SizeModulus,   \* 2^64, the values of a size_t
  MaxCapacity    \* the largest buffer memory has room for

ASSUME NullAssumption == Null \notin Elem
ASSUME SizeAssumption ==
  /\ SizeModulus \in Nat \ {0}
  /\ MaxCapacity \in Nat /\ 2 * MaxCapacity < SizeModulus
  /\ Request \subseteq Nat /\ Index \subseteq Int

VARIABLES
  length, capacity, data,  \* the fields of BeryArray
  pc,                      \* the loop the call in progress is in
  index, element, i,       \* its arguments and its loop variable
  result                   \* what the last call that returns returned

array == <<length, capacity, data>>
call  == <<index, element, i>>
vars  == <<array, pc, call, result>>

Value == Elem \cup {Null}
AsSize(n) == n % SizeModulus

Init ==
  /\ length = 0 /\ capacity = 0 /\ data = [k \in {} |-> Null]
  /\ pc = "none"
  /\ index = 0 /\ element = Null /\ i = 0
  /\ result = Null

\* bery_array_new
New(request) ==
  /\ pc = "none"
  /\ LET initialCapacity == IF request = 0 THEN 4 ELSE request
     IN  IF initialCapacity > MaxCapacity
         THEN pc' = "oom" /\ UNCHANGED array
         ELSE /\ pc' = "idle"
              /\ length' = 0
              /\ capacity' = initialCapacity
              /\ data' = [k \in 0..(initialCapacity - 1) |-> Null]
  /\ UNCHANGED <<call, result>>

\* Mutant: the buffer grows one element too late.
BugGrowLate == length > capacity

\* growIfNeeded: whether it allocates, whether it can, and what it leaves.
Full == length >= capacity
Exhausted == Full /\ capacity * 2 > MaxCapacity
GrownCapacity == IF Full THEN capacity * 2 ELSE capacity
Grown ==
  [k \in 0..(GrownCapacity - 1) |-> IF Full /\ k >= length THEN Null
                                                           ELSE data[k]]

\* A call returns or ends the process: its arguments are gone.
Leave(to) == pc' = to /\ index' = 0 /\ element' = Null /\ i' = 0
OutOfMemory == Leave("oom") /\ UNCHANGED <<array, result>>

\* Growing, then storing e behind the last element.
AppendElement(e) ==
  /\ capacity' = GrownCapacity
  /\ data' = [Grown EXCEPT ![length] = e]
  /\ length' = length + 1

Push(e) ==
  /\ pc = "idle"
  /\ IF Exhausted
     THEN OutOfMemory
     ELSE AppendElement(e) /\ UNCHANGED <<pc, call, result>>

Pop ==
  /\ pc = "idle"
  /\ IF length = 0
     THEN result' = Null /\ UNCHANGED length
     ELSE result' = data[length - 1] /\ length' = length - 1
  /\ UNCHANGED <<capacity, data, pc, call>>

Get(n) ==
  /\ pc = "idle"
  /\ result' = IF AsSize(n) < length THEN data[AsSize(n)] ELSE Null
  /\ UNCHANGED <<array, pc, call>>

Length ==
  /\ pc = "idle"
  /\ result' = length
  /\ UNCHANGED <<array, pc, call>>

-----------------------------------------------------------------------------
(***************************************************************************)
(* bery_array_insert                                                       *)
(***************************************************************************)
Insert(n, e) ==
  /\ pc = "idle"
  /\ IF Exhausted
     THEN OutOfMemory
     ELSE /\ capacity' = GrownCapacity /\ data' = Grown
          /\ pc' = "shift_up"
          /\ index' = AsSize(n) /\ element' = e /\ i' = length
          /\ UNCHANGED <<length, result>>

\* Mutant: the loop goes upwards and copies one element over the others.
BugShiftUpward ==
  /\ pc = "shift_up" /\ i > index
  /\ data' = [data EXCEPT ![index + length - i + 1] = data[index + length - i]]
  /\ i' = i - 1
  /\ UNCHANGED <<length, capacity, pc, index, element, result>>

ShiftUp ==
  /\ pc = "shift_up" /\ i > index
  /\ data' = [data EXCEPT ![i] = data[i - 1]]
  /\ i' = i - 1
  /\ UNCHANGED <<length, capacity, pc, index, element, result>>

\* The index is not compared with the length: the store may hit a word past
\* the elements, or memory past the buffer.
InsertStore ==
  /\ pc = "shift_up" /\ i <= index
  /\ IF index < capacity
     THEN /\ data' = [data EXCEPT ![index] = element]
          /\ length' = length + 1
          /\ Leave("idle")
     ELSE Leave("corrupt") /\ UNCHANGED <<data, length>>
  /\ UNCHANGED <<capacity, result>>

-----------------------------------------------------------------------------
(***************************************************************************)
(* bery_array_remove                                                       *)
(***************************************************************************)
Remove(n) ==
  /\ pc = "idle"
  /\ AsSize(n) < length
  /\ pc' = "shift_down"
  /\ index' = AsSize(n) /\ i' = AsSize(n)
  /\ UNCHANGED <<array, element, result>>

\* Mutant: the loop forgets to advance.
BugShiftStuck ==
  /\ pc = "shift_down" /\ i < length - 1
  /\ data' = [data EXCEPT ![i] = data[i + 1]]
  /\ UNCHANGED <<length, capacity, pc, call, result>>

ShiftDown ==
  /\ pc = "shift_down" /\ i < length - 1
  /\ data' = [data EXCEPT ![i] = data[i + 1]]
  /\ i' = i + 1
  /\ UNCHANGED <<length, capacity, pc, index, element, result>>

RemoveEnd ==
  /\ pc = "shift_down" /\ i >= length - 1
  /\ length' = length - 1
  /\ Leave("idle")
  /\ UNCHANGED <<capacity, data, result>>

-----------------------------------------------------------------------------
(***************************************************************************)
(* bery_array_set                                                          *)
(***************************************************************************)
Set(n, e) ==
  /\ pc = "idle"
  /\ pc' = "fill"
  /\ index' = AsSize(n) /\ element' = e
  /\ UNCHANGED <<array, i, result>>

Fill ==
  /\ pc = "fill" /\ length <= index
  /\ IF Exhausted
     THEN OutOfMemory
     ELSE AppendElement(Null) /\ UNCHANGED <<pc, call, result>>

SetStore ==
  /\ pc = "fill" /\ length > index
  /\ data' = [data EXCEPT ![index] = element]
  /\ Leave("idle")
  /\ UNCHANGED <<length, capacity, result>>

-----------------------------------------------------------------------------
InCall == ShiftUp \/ InsertStore \/ ShiftDown \/ RemoveEnd \/ Fill \/ SetStore

Next ==
  \/ \E n \in Request : New(n)
  \/ \E e \in Elem : Push(e)
  \/ Pop \/ Length
  \/ \E n \in Index : Get(n) \/ Remove(n)
  \/ \E n \in Index, e \in Elem : Insert(n, e) \/ Set(n, e)
  \/ InCall

Spec == Init /\ [][Next]_vars

\* A call that has begun goes on.
FairSpec == Spec /\ WF_vars(InCall)

-----------------------------------------------------------------------------
(***************************************************************************)
(* Properties                                                              *)
(***************************************************************************)

\* The fields of the array and of the call in progress stay in their ranges:
\* the length never passes the capacity, and inside a loop the loop variable
\* stays between the index and the length.
TypeOK ==
  /\ capacity \in Nat /\ length \in 0..capacity
  /\ data \in [0..(capacity - 1) -> Value]
  /\ pc \in {"none", "idle", "shift_up", "shift_down", "fill", "oom",
             "corrupt"}
  /\ pc = "none" => length = 0
  /\ pc = "idle" => capacity > 0
  /\ index \in 0..(SizeModulus - 1) /\ element \in Value
  /\ i \in Nat
  /\ result \in Value \cup Nat
  /\ pc = "shift_up" => /\ length < capacity
                        /\ i <= length
                        /\ i = length \/ index <= i
  /\ pc = "shift_down" => index <= i /\ i < length
  /\ pc = "fill" => capacity > 0
  /\ pc \in {"shift_up", "fill"} => element \in Elem

\* Every call of the array operations returns, or ends the process for want
\* of memory (a negative index given to bery_array_set) or by a store outside
\* the buffer.
CallsEnd ==
  pc \in {"shift_up", "shift_down", "fill"} ~> pc \in {"idle", "oom", "corrupt"}

(***************************************************************************)
(* The list the array stands for.  An insertion takes effect at its end, a *)
(* removal and a set at their beginning; while elements are moved the list *)
(* has a hole at i.                                                        *)
(***************************************************************************)
ListSize ==
  CASE pc \in {"oom", "corrupt"} -> 0
    [] pc = "shift_down" -> length - 1
    [] pc = "fill" /\ length <= index -> index + 1
    [] OTHER -> length
ElementAt(k) ==
  CASE pc \in {"shift_up", "shift_down"} /\ k >= i -> data[k + 1]
    [] pc = "fill" /\ k = index -> element
    [] pc = "fill" /\ k # index /\ k >= length -> Null
    [] OTHER -> data[k]
ListAt == [k \in 0..(ListSize - 1) |-> ElementAt(k)]
Status == IF pc \in {"oom", "corrupt"} THEN pc ELSE "running"
List == INSTANCE ElementList WITH
  size   <- ListSize,
  at     <- ListAt,
  SizeT  <- 0..(SizeModulus - 1),
  status <- Status

\* An array behaves as a list: whatever the buffer holds past the length,
\* and however often it has grown, an operation has the effect of the list's
\* operation and nothing but an insertion past the end corrupts memory.
ListSpec == List!Spec
=============================================================================
