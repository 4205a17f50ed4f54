-------------------------- MODULE BeryArrayProofs --------------------------
(***************************************************************************)
(* Proofs about BeryArray for any elements, indices and memory: the fields *)
(* of the array keep their bounds, and the array behaves as a list.        *)
(***************************************************************************)
EXTENDS BeryArray, TLAPS

-----------------------------------------------------------------------------
(***************************************************************************)
(* Bounds.                                                                 *)
(***************************************************************************)

\* An index of the program arrives as a value of size_t.
LEMMA AsSizeType == \A n \in Index : AsSize(n) \in 0..(SizeModulus - 1)
BY SizeAssumption DEF AsSize

\* What growIfNeeded leaves, when memory suffices: room for one more element.
LEMMA GrownType ==
  ASSUME TypeOK, capacity > 0
  PROVE  /\ GrownCapacity \in Nat /\ length < GrownCapacity
         /\ Grown \in [0..(GrownCapacity - 1) -> Value]
         /\ \A k \in 0..(length - 1) : Grown[k] = data[k]
<1>1. GrownCapacity \in Nat /\ length < GrownCapacity
  BY DEF TypeOK, GrownCapacity, Full
<1>2. ASSUME NEW k \in 0..(GrownCapacity - 1)
      PROVE  (IF Full /\ k >= length THEN Null ELSE data[k]) \in Value
  <2>1. CASE Full /\ k >= length
    BY <2>1 DEF Value
  <2>2. CASE ~(Full /\ k >= length)
    <3>1. k \in 0..(capacity - 1)
      BY <2>2, <1>1 DEF TypeOK, GrownCapacity, Full
    <3> QED BY <2>2, <3>1 DEF TypeOK
  <2> QED BY <2>1, <2>2
<1>3. Grown \in [0..(GrownCapacity - 1) -> Value]
  BY <1>2 DEF Grown
<1>4. ASSUME NEW k \in 0..(length - 1) PROVE Grown[k] = data[k]
  <2>1. k \in 0..(GrownCapacity - 1)
    BY <1>1 DEF TypeOK
  <2> QED BY <2>1 DEF Grown, TypeOK
<1> QED BY <1>1, <1>3, <1>4

\* Growing and storing behind the last element.
LEMMA AppendType ==
  ASSUME TypeOK, capacity > 0, NEW e \in Value, AppendElement(e)
  PROVE  /\ capacity' \in Nat \ {0} /\ length' \in 0..capacity'
         /\ data' \in [0..(capacity' - 1) -> Value]
         /\ length' = length + 1 /\ data'[length] = e
         /\ \A k \in 0..(length - 1) : data'[k] = data[k]
<1>1. /\ capacity' = GrownCapacity /\ length' = length + 1
      /\ data' = [Grown EXCEPT ![length] = e]
  BY DEF AppendElement
<1> HIDE DEF Grown, GrownCapacity, AppendElement
<1>2. /\ GrownCapacity \in Nat /\ length < GrownCapacity
      /\ Grown \in [0..(GrownCapacity - 1) -> Value]
      /\ \A k \in 0..(length - 1) : Grown[k] = data[k]
  BY GrownType
<1>3. length \in Nat /\ length \in 0..(GrownCapacity - 1)
  BY <1>2 DEF TypeOK
<1> QED BY <1>1, <1>2, <1>3

LEMMA InitType == Init => TypeOK
BY SizeAssumption DEF Init, TypeOK, Value

LEMMA NextType == TypeOK /\ [Next]_vars => TypeOK'
<1> SUFFICES ASSUME TypeOK, [Next]_vars PROVE TypeOK'
  OBVIOUS
<1>1. ASSUME NEW n \in Request, New(n) PROVE TypeOK'
  BY <1>1, SizeAssumption DEF New, TypeOK, array, call, Value
<1>2. ASSUME OutOfMemory PROVE TypeOK'
  BY <1>2, SizeAssumption DEF OutOfMemory, Leave, TypeOK, array, Value
<1>3. ASSUME NEW e \in Elem, Push(e) PROVE TypeOK'
  <2>1. CASE Exhausted
    BY <1>2, <1>3, <2>1 DEF Push
  <2>2. CASE ~Exhausted
    <3>1. capacity > 0 /\ e \in Value /\ AppendElement(e)
      BY <1>3, <2>2 DEF Push, TypeOK, Value
    <3>2. /\ capacity' \in Nat \ {0} /\ length' \in 0..capacity'
          /\ data' \in [0..(capacity' - 1) -> Value]
      BY <3>1, AppendType
    <3>3. /\ pc = "idle" /\ pc' = pc /\ index' = index /\ element' = element
          /\ i' = i /\ result' = result
      BY <1>3, <2>2 DEF Push, call
    <3>4. data' \in [0..(capacity' - 1) -> Value]
      BY <3>2
    <3>5. /\ capacity' \in Nat /\ capacity' > 0 /\ length' \in 0..capacity'
      BY <3>2
    <3>6. TypeOK
      OBVIOUS
    <3> QED BY <3>3, <3>4, <3>5, <3>6 DEF TypeOK
  <2> QED BY <2>1, <2>2
<1>4. CASE Pop
  BY <1>4 DEF Pop, TypeOK, call, Value
<1>5. CASE Length
  BY <1>5 DEF Length, TypeOK, array, call
<1>6. ASSUME NEW n \in Index, Get(n) PROVE TypeOK'
  BY <1>6, AsSizeType DEF Get, TypeOK, array, call, Value
<1>7. ASSUME NEW n \in Index, Remove(n) PROVE TypeOK'
  BY <1>7, AsSizeType DEF Remove, TypeOK, array
<1>8. ASSUME NEW n \in Index, NEW e \in Elem, Insert(n, e) PROVE TypeOK'
  <2>1. CASE Exhausted
    BY <1>2, <1>8, <2>1 DEF Insert
  <2>2. CASE ~Exhausted
    <3>1. capacity > 0
      BY <1>8 DEF Insert, TypeOK
    <3>2. /\ GrownCapacity \in Nat /\ length < GrownCapacity
          /\ Grown \in [0..(GrownCapacity - 1) -> Value]
      BY <3>1, GrownType
    <3> QED BY <1>8, <2>2, <3>2, AsSizeType DEF Insert, TypeOK, Value
  <2> QED BY <2>1, <2>2
<1>9. ASSUME NEW n \in Index, NEW e \in Elem, Set(n, e) PROVE TypeOK'
  BY <1>9, AsSizeType DEF Set, TypeOK, array, Value
<1>10. CASE ShiftUp
  BY <1>10 DEF ShiftUp, TypeOK
<1>11. CASE InsertStore
  BY <1>11, SizeAssumption DEF InsertStore, Leave, TypeOK, Value
<1>12. CASE ShiftDown
  BY <1>12 DEF ShiftDown, TypeOK
<1>13. CASE RemoveEnd
  BY <1>13, SizeAssumption DEF RemoveEnd, Leave, TypeOK, Value
<1>14. CASE Fill
  <2>1. CASE Exhausted
    BY <1>2, <1>14, <2>1 DEF Fill
  <2>2. CASE ~Exhausted
    <3>1. capacity > 0 /\ Null \in Value /\ AppendElement(Null)
      BY <1>14, <2>2 DEF Fill, TypeOK, Value
    <3>2. /\ capacity' \in Nat \ {0} /\ length' \in 0..capacity'
          /\ data' \in [0..(capacity' - 1) -> Value]
      BY <3>1, AppendType
    <3>3. /\ pc = "fill" /\ pc' = pc /\ index' = index /\ element' = element
          /\ i' = i /\ result' = result
      BY <1>14, <2>2 DEF Fill, call
    <3>4. data' \in [0..(capacity' - 1) -> Value]
      BY <3>2
    <3>5. /\ capacity' \in Nat /\ capacity' > 0 /\ length' \in 0..capacity'
      BY <3>2
    <3>6. TypeOK
      OBVIOUS
    <3> QED BY <3>3, <3>4, <3>5, <3>6 DEF TypeOK
  <2> QED BY <2>1, <2>2
<1>15. CASE SetStore
  BY <1>15, SizeAssumption DEF SetStore, Leave, TypeOK, Value
<1>16. CASE UNCHANGED vars
  BY <1>16 DEF vars, array, call, TypeOK
<1> QED
  BY <1>1, <1>3, <1>4, <1>5, <1>6, <1>7, <1>8, <1>9, <1>10, <1>11, <1>12,
     <1>13, <1>14, <1>15, <1>16 DEF Next, InCall

\* The length never passes the capacity and every loop keeps its variable
\* between its index and the length, for any sequence of calls.
THEOREM ArrayTypeCorrect == Spec => []TypeOK
BY InitType, NextType, PTL DEF Spec

-----------------------------------------------------------------------------
(***************************************************************************)
(* The list an array stands for, one view for each place a call can be.    *)
(***************************************************************************)

AtRest ==
  pc \in {"none", "idle"} =>
    /\ ListSize = length /\ Status = "running"
    /\ ListAt = [k \in 0..(length - 1) |-> data[k]]

Inserting ==
  pc = "shift_up" =>
    /\ ListSize = length /\ Status = "running"
    /\ ListAt = [k \in 0..(length - 1) |-> IF k >= i THEN data[k + 1]
                                                    ELSE data[k]]

Removing ==
  pc = "shift_down" =>
    /\ ListSize = length - 1 /\ Status = "running"
    /\ ListAt = [k \in 0..(length - 2) |-> IF k >= i THEN data[k + 1]
                                                    ELSE data[k]]

FillSize == IF length <= index THEN index + 1 ELSE length
Filling ==
  pc = "fill" =>
    /\ ListSize = FillSize /\ Status = "running"
    /\ ListAt = [k \in 0..(FillSize - 1) |->
                   IF k = index THEN element ELSE
                   IF k >= length THEN Null ELSE data[k]]

Ended ==
  pc \in {"oom", "corrupt"} =>
    /\ ListSize = 0 /\ Status = pc
    /\ ListAt = [k \in {} |-> Null]

LEMMA Views == TypeOK => AtRest /\ Inserting /\ Removing /\ Filling /\ Ended
<1> SUFFICES ASSUME TypeOK
             PROVE  AtRest /\ Inserting /\ Removing /\ Filling /\ Ended
  OBVIOUS
<1> DEFINE F == [k \in 0..(ListSize - 1) |-> ElementAt(k)]
<1>1. AtRest
  <2> SUFFICES ASSUME pc \in {"none", "idle"} PROVE AtRest
    BY DEF AtRest
  <2>1. ListSize = length /\ \A k : ElementAt(k) = data[k]
    BY DEF ListSize, ElementAt
  <2> QED BY <2>1 DEF AtRest, ListAt, Status
<1>2. Inserting
  <2> SUFFICES ASSUME pc = "shift_up" PROVE Inserting
    BY DEF Inserting
  <2>1. ListSize = length
    BY DEF ListSize
  <2>2. \A k : ElementAt(k) = IF k >= i THEN data[k + 1] ELSE data[k]
    BY DEF ElementAt
  <2> QED BY <2>1, <2>2 DEF Inserting, ListAt, Status
<1>3. Removing
  <2> SUFFICES ASSUME pc = "shift_down" PROVE Removing
    BY DEF Removing
  <2>1. ListSize = length - 1 /\ length - 1 - 1 = length - 2
    BY DEF ListSize, TypeOK
  <2>2. \A k : ElementAt(k) = IF k >= i THEN data[k + 1] ELSE data[k]
    BY DEF ElementAt
  <2> QED BY <2>1, <2>2 DEF Removing, ListAt, Status
<1>4. Filling
  <2> SUFFICES ASSUME pc = "fill" PROVE Filling
    BY DEF Filling
  <2>1. ListSize = FillSize
    BY DEF ListSize, FillSize
  <2>2. \A k : ElementAt(k) = IF k = index THEN element ELSE
                              IF k >= length THEN Null ELSE data[k]
    BY DEF ElementAt
  <2> QED BY <2>1, <2>2 DEF Filling, ListAt, Status
<1>5. Ended
  <2> SUFFICES ASSUME pc \in {"oom", "corrupt"} PROVE Ended
    BY DEF Ended
  <2>1. ListSize = 0
    BY DEF ListSize
  <2>2. 0..(ListSize - 1) = {}
    BY <2>1
  <2>3. ListAt = [k \in {} |-> ElementAt(k)]
    BY <2>2 DEF ListAt
  <2> QED BY <2>1, <2>3 DEF Ended, Status
<1> QED BY <1>1, <1>2, <1>3, <1>4, <1>5

LEMMA ViewsNext ==
  TypeOK' => AtRest' /\ Inserting' /\ Removing' /\ Filling' /\ Ended'
BY Views, PTL

-----------------------------------------------------------------------------
(***************************************************************************)
(* Each step is a step of the list, or none.                               *)
(***************************************************************************)

\* Memory runs out, or is corrupted: the list ends.
LEMMA EndMapped ==
  ASSUME TypeOK, TypeOK', NEW how \in {"oom", "corrupt"},
         pc' = how, result' = result
  PROVE  List!Ends(how)
<1>1. ListSize' = 0 /\ Status' = how /\ ListAt' = [k \in {} |-> Null]
  BY ViewsNext DEF Ended
<1> QED BY <1>1 DEF List!Ends

LEMMA PushMapped ==
  ASSUME TypeOK, TypeOK', NEW e \in Elem, Push(e)
  PROVE  List!Ends("oom") \/ List!Push(e)
<1>1. CASE Exhausted
  BY <1>1, EndMapped DEF Push, OutOfMemory, Leave
<1>2. CASE ~Exhausted
  <2>1. /\ capacity > 0 /\ e \in Value /\ AppendElement(e)
        /\ pc = "idle" /\ pc' = "idle" /\ result' = result
    BY <1>2 DEF Push, TypeOK, Value
  <2>2. /\ length' = length + 1 /\ data'[length] = e
        /\ \A k \in 0..(length - 1) : data'[k] = data[k]
    BY <2>1, AppendType
  <2>3. /\ ListSize = length /\ ListSize' = length + 1
        /\ Status = "running" /\ Status' = "running"
        /\ ListAt = [k \in 0..(length - 1) |-> data[k]]
        /\ ListAt' = [k \in 0..(length' - 1) |-> data'[k]]
    BY <2>1, <2>2, Views, ViewsNext DEF AtRest
  <2>4. length \in Nat /\ 0..(length' - 1) = 0..length
    BY <2>2 DEF TypeOK
  <2>5. ListAt' = [k \in 0..length |-> IF k < length THEN ListAt[k] ELSE e]
    <3>1. \A k \in 0..length :
            data'[k] = IF k < length THEN ListAt[k] ELSE e
      BY <2>2, <2>3, <2>4
    <3> QED BY <2>3, <2>4, <3>1
  <2> QED BY <2>1, <2>3, <2>5 DEF List!Push, List!Becomes
<1> QED BY <1>1, <1>2

LEMMA PopMapped == ASSUME TypeOK, TypeOK', Pop PROVE List!Pop
<1>1. pc = "idle" /\ pc' = "idle" /\ data' = data
  BY DEF Pop
<1>2. /\ ListSize = length /\ ListSize' = length'
      /\ Status = "running" /\ Status' = "running"
      /\ ListAt = [k \in 0..(length - 1) |-> data[k]]
      /\ ListAt' = [k \in 0..(length' - 1) |-> data[k]]
  BY <1>1, Views, ViewsNext DEF AtRest
<1>3. CASE length = 0
  BY <1>2, <1>3 DEF Pop, List!Pop
<1>4. CASE length # 0
  <2>1. length \in Nat /\ length' = length - 1 /\ result' = data[length - 1]
    BY <1>4 DEF Pop, TypeOK
  <2>2. result' = ListAt[length - 1]
    BY <1>2, <1>4, <2>1
  <2>3. length' - 1 = length - 2 /\ \A k \in 0..(length - 2) : ListAt[k] = data[k]
    BY <1>2, <2>1
  <2>4. ListAt' = [k \in 0..(length - 2) |-> ListAt[k]]
    BY <1>2, <2>3
  <2> QED BY <1>2, <1>4, <2>1, <2>2, <2>4 DEF List!Pop
<1> QED BY <1>3, <1>4

LEMMA ReadMapped ==
  ASSUME TypeOK, TypeOK'
  PROVE  /\ Length => List!Length
         /\ \A n \in Index : Get(n) => List!Get(AsSize(n))
<1>1. ASSUME pc = "idle", UNCHANGED <<array, pc>>
      PROVE  /\ ListSize = length /\ Status = "running"
             /\ ListAt = [k \in 0..(length - 1) |-> data[k]]
             /\ UNCHANGED <<ListSize, ListAt, Status>>
  <2>1. pc' = "idle" /\ length' = length /\ data' = data
    BY <1>1 DEF array
  <2> QED BY <1>1, <2>1, Views, ViewsNext DEF AtRest
<1>2. Length => List!Length
  BY <1>1 DEF Length, List!Length
<1>3. ASSUME NEW n \in Index, Get(n) PROVE List!Get(AsSize(n))
  <2>1. pc = "idle" /\ UNCHANGED <<array, pc>> /\ AsSize(n) \in Nat
    BY <1>3, AsSizeType, SizeAssumption DEF Get
  <2>2. /\ ListSize = length /\ ListAt = [k \in 0..(length - 1) |-> data[k]]
        /\ UNCHANGED <<ListSize, ListAt, Status>>
    BY <1>1, <2>1
  <2>3. AsSize(n) < length => ListAt[AsSize(n)] = data[AsSize(n)]
    BY <2>1, <2>2 DEF TypeOK
  <2> QED BY <1>3, <2>2, <2>3 DEF Get, List!Get
<1> QED BY <1>2, <1>3

\* Growing leaves the elements where they are.
LEMMA InsertMapped ==
  ASSUME TypeOK, TypeOK', NEW n \in Index, NEW e \in Elem, Insert(n, e)
  PROVE  List!Ends("oom") \/ UNCHANGED List!lvars
<1>1. CASE Exhausted
  BY <1>1, EndMapped DEF Insert, OutOfMemory, Leave
<1>2. CASE ~Exhausted
  <2>1. /\ capacity > 0 /\ pc = "idle" /\ pc' = "shift_up"
        /\ data' = Grown /\ i' = length
        /\ length' = length /\ result' = result
    BY <1>2 DEF Insert, TypeOK
  <2>2. length \in Nat /\ \A k \in 0..(length - 1) : data'[k] = data[k]
    BY <2>1, GrownType DEF TypeOK
  <2>3. /\ ListSize = length /\ ListSize' = length
        /\ Status = "running" /\ Status' = "running"
        /\ ListAt = [k \in 0..(length - 1) |-> data[k]]
        /\ ListAt' = [k \in 0..(length - 1) |->
                        IF k >= length THEN data'[k + 1] ELSE data'[k]]
    BY <2>1, Views, ViewsNext DEF AtRest, Inserting
  <2>4. \A k \in 0..(length - 1) :
          (IF k >= length THEN data'[k + 1] ELSE data'[k]) = data[k]
    BY <2>2
  <2>5. ListAt' = ListAt
    BY <2>3, <2>4
  <2> QED BY <2>1, <2>3, <2>5 DEF List!lvars
<1> QED BY <1>1, <1>2

\* Moving an element across the hole moves the hole.
LEMMA ShiftUpMapped ==
  ASSUME TypeOK, TypeOK', ShiftUp PROVE UNCHANGED List!lvars
<1>1. /\ pc = "shift_up" /\ pc' = "shift_up" /\ i' = i - 1
      /\ data' = [data EXCEPT ![i] = data[i - 1]]
      /\ length' = length /\ result' = result
  BY DEF ShiftUp
<1>2. /\ ListSize' = ListSize /\ Status' = Status
      /\ ListAt = [k \in 0..(length - 1) |-> IF k >= i THEN data[k + 1]
                                                      ELSE data[k]]
      /\ ListAt' = [k \in 0..(length - 1) |-> IF k >= i - 1 THEN data'[k + 1]
                                                       ELSE data'[k]]
  BY <1>1, Views, ViewsNext DEF Inserting
<1>3. /\ i \in 1..length /\ length \in Nat /\ capacity \in Nat
      /\ length < capacity /\ data \in [0..(capacity - 1) -> Value]
  BY DEF TypeOK, ShiftUp
<1>4. \A k \in 0..(capacity - 1) :
        data'[k] = IF k = i THEN data[i - 1] ELSE data[k]
  BY <1>1, <1>3
<1>5. ASSUME NEW k \in 0..(length - 1)
      PROVE  (IF k >= i - 1 THEN data'[k + 1] ELSE data'[k])
               = IF k >= i THEN data[k + 1] ELSE data[k]
  <2>1. k \in 0..(capacity - 1) /\ k + 1 \in 0..(capacity - 1)
    BY <1>3
  <2>2. CASE k >= i
    BY <1>3, <1>4, <2>1, <2>2
  <2>3. CASE k = i - 1
    BY <1>3, <1>4, <2>1, <2>3
  <2>4. CASE k < i - 1
    BY <1>3, <1>4, <2>1, <2>4
  <2> QED BY <1>3, <2>2, <2>3, <2>4
<1>6. ListAt' = ListAt
  BY <1>2, <1>5
<1> QED BY <1>1, <1>2, <1>6 DEF List!lvars

LEMMA InsertStoreMapped ==
  ASSUME TypeOK, TypeOK', InsertStore
  PROVE  \/ List!InsertPast(index)
         \/ List!Insert(index, element)
<1>1. /\ pc = "shift_up" /\ i <= index /\ result' = result
      /\ ListSize = length /\ Status = "running"
      /\ ListAt = [k \in 0..(length - 1) |-> IF k >= i THEN data[k + 1]
                                                      ELSE data[k]]
  BY Views DEF InsertStore, Inserting
<1>2. /\ length \in Nat /\ capacity \in Nat /\ length < capacity
      /\ data \in [0..(capacity - 1) -> Value] /\ index \in Nat /\ i \in Nat
      /\ i <= length
      /\ i = length \/ index = i
  BY <1>1, SizeAssumption DEF TypeOK
<1>3. CASE index >= capacity
  <2>1. pc' = "corrupt"
    BY <1>2, <1>3 DEF InsertStore, Leave
  <2>2. List!Ends("corrupt")
    BY <1>1, <2>1, EndMapped
  <2> QED BY <1>1, <1>2, <1>3, <2>2 DEF List!InsertPast
<1>4. CASE index < capacity
  <2>1. /\ pc' = "idle" /\ length' = length + 1
        /\ data' = [data EXCEPT ![index] = element]
    BY <1>4 DEF InsertStore, Leave
  <2>2. /\ ListSize' = length + 1 /\ Status' = "running"
        /\ ListAt' = [k \in 0..(length' - 1) |-> data'[k]]
    BY <2>1, ViewsNext DEF AtRest
  <2>3. \A k \in 0..(capacity - 1) :
          data'[k] = IF k = index THEN element ELSE data[k]
    BY <1>2, <1>4, <2>1
  <2>4. /\ 0..(length' - 1) = 0..length
        /\ \A k \in 0..length : k \in 0..(capacity - 1)
    BY <1>2, <2>1
  <2>5. CASE index > length
    <3>1. i = length /\ data[length] \in Value
      <4>1. i = length
        BY <1>2, <2>5
      <4>2. length \in 0..(capacity - 1)
        BY <1>2
      <4> QED BY <1>2, <4>1, <4>2
    <3>2. \A k \in 0..(length - 1) : ListAt[k] = data[k]
      BY <1>1, <1>2, <3>1
    <3>3. \A k \in 0..length :
            data'[k] = IF k < length THEN ListAt[k] ELSE data[length]
      BY <1>2, <2>3, <2>4, <2>5, <3>2
    <3>4. ListAt' = [k \in 0..length |-> IF k < length THEN ListAt[k]
                                                       ELSE data[length]]
      BY <2>2, <2>4, <3>3
    <3>5. List!Push(data[length])
      BY <1>1, <2>2, <3>4 DEF List!Push, List!Becomes
    <3> QED BY <1>1, <2>5, <3>1, <3>5 DEF List!InsertPast, List!Value, Value
  <2>6. CASE index <= length
    <3>1. i = index
      BY <1>1, <1>2, <2>6
    <3>2. \A k \in 0..(length - 1) :
            ListAt[k] = IF k >= index THEN data[k + 1] ELSE data[k]
      BY <1>1, <3>1
    <3>3. ASSUME NEW k \in 0..length
          PROVE  data'[k] = IF k < index THEN ListAt[k] ELSE
                            IF k = index THEN element ELSE ListAt[k - 1]
      <4>1. CASE k < index
        BY <1>2, <2>3, <2>4, <2>6, <3>2, <4>1
      <4>2. CASE k = index
        BY <1>2, <2>3, <2>4, <4>2
      <4>3. CASE k > index
        <5>1. k - 1 \in 0..(length - 1) /\ k - 1 >= index /\ (k - 1) + 1 = k
          BY <1>2, <4>3
        <5> QED BY <1>2, <2>3, <2>4, <3>2, <4>3, <5>1
      <4> QED BY <1>2, <4>1, <4>2, <4>3
    <3>4. ListAt' = [k \in 0..length |->
                      IF k < index THEN ListAt[k] ELSE
                      IF k = index THEN element ELSE ListAt[k - 1]]
      BY <2>2, <2>4, <3>3
    <3> QED BY <1>1, <2>2, <2>6, <3>4 DEF List!Insert, List!Becomes
  <2> QED BY <1>2, <2>5, <2>6
<1> QED BY <1>2, <1>3, <1>4

\* A removal takes effect when its loop begins.
LEMMA RemoveMapped ==
  ASSUME TypeOK, TypeOK', NEW n \in Index, Remove(n)
  PROVE  List!Remove(AsSize(n))
<1>1. /\ pc = "idle" /\ pc' = "shift_down" /\ AsSize(n) < length
      /\ i' = AsSize(n) /\ length' = length /\ data' = data
      /\ result' = result /\ length \in Nat /\ AsSize(n) \in Nat
  BY AsSizeType, SizeAssumption DEF Remove, TypeOK, array
<1>2. /\ ListSize = length /\ ListSize' = length - 1
      /\ Status = "running" /\ Status' = "running"
      /\ ListAt = [k \in 0..(length - 1) |-> data[k]]
      /\ ListAt' = [k \in 0..(length - 2) |-> IF k >= AsSize(n) THEN data[k + 1]
                                                          ELSE data[k]]
  BY <1>1, Views, ViewsNext DEF AtRest, Removing
<1>3. ASSUME NEW k \in 0..(length - 2)
      PROVE  (IF k >= AsSize(n) THEN data[k + 1] ELSE data[k])
               = IF k < AsSize(n) THEN ListAt[k] ELSE ListAt[k + 1]
  <2>1. k \in 0..(length - 1) /\ k + 1 \in 0..(length - 1)
    BY <1>1
  <2>2. ListAt[k] = data[k] /\ ListAt[k + 1] = data[k + 1]
    BY <1>2, <2>1
  <2> QED BY <1>1, <2>2
<1>4. ListAt' = [k \in 0..(length - 2) |-> IF k < AsSize(n) THEN ListAt[k]
                                                       ELSE ListAt[k + 1]]
  BY <1>2, <1>3
<1> QED BY <1>1, <1>2, <1>4 DEF List!Remove, List!Becomes

LEMMA ShiftDownMapped ==
  ASSUME TypeOK, TypeOK', ShiftDown PROVE UNCHANGED List!lvars
<1>1. /\ pc = "shift_down" /\ pc' = "shift_down" /\ i' = i + 1
      /\ data' = [data EXCEPT ![i] = data[i + 1]]
      /\ length' = length /\ result' = result
  BY DEF ShiftDown
<1>2. /\ ListSize' = ListSize /\ Status' = Status
      /\ ListAt = [k \in 0..(length - 2) |-> IF k >= i THEN data[k + 1]
                                                      ELSE data[k]]
      /\ ListAt' = [k \in 0..(length - 2) |-> IF k >= i + 1 THEN data'[k + 1]
                                                       ELSE data'[k]]
  BY <1>1, Views, ViewsNext DEF Removing
<1>3. /\ i \in Nat /\ i < length - 1 /\ length \in Nat /\ capacity \in Nat
      /\ length <= capacity /\ data \in [0..(capacity - 1) -> Value]
  BY DEF TypeOK, ShiftDown
<1>4. \A k \in 0..(capacity - 1) :
        data'[k] = IF k = i THEN data[i + 1] ELSE data[k]
  BY <1>1, <1>3
<1>5. ASSUME NEW k \in 0..(length - 2)
      PROVE  (IF k >= i + 1 THEN data'[k + 1] ELSE data'[k])
               = IF k >= i THEN data[k + 1] ELSE data[k]
  <2>1. k \in 0..(capacity - 1) /\ k + 1 \in 0..(capacity - 1)
    BY <1>3
  <2>2. CASE k >= i + 1
    BY <1>3, <1>4, <2>1, <2>2
  <2>3. CASE k = i
    BY <1>3, <1>4, <2>1, <2>3
  <2>4. CASE k < i
    BY <1>3, <1>4, <2>1, <2>4
  <2> QED BY <1>3, <2>2, <2>3, <2>4
<1>6. ListAt' = ListAt
  BY <1>2, <1>5
<1> QED BY <1>1, <1>2, <1>6 DEF List!lvars

\* The hole is behind the last element when the length is taken down.
LEMMA RemoveEndMapped ==
  ASSUME TypeOK, TypeOK', RemoveEnd PROVE UNCHANGED List!lvars
<1>1. /\ pc = "shift_down" /\ pc' = "idle" /\ data' = data
      /\ length' = length - 1 /\ result' = result
      /\ i \in Nat /\ length \in Nat /\ i >= length - 1
  BY DEF RemoveEnd, Leave, TypeOK
<1>2. /\ ListSize' = ListSize /\ Status' = Status
      /\ ListAt = [k \in 0..(length - 2) |-> IF k >= i THEN data[k + 1]
                                                      ELSE data[k]]
      /\ ListAt' = [k \in 0..(length' - 1) |-> data[k]]
  BY <1>1, Views, ViewsNext DEF AtRest, Removing
<1>3. length' - 1 = length - 2 /\ \A k \in 0..(length - 2) : ~(k >= i)
  BY <1>1
<1>4. ListAt' = ListAt
  BY <1>2, <1>3
<1> QED BY <1>1, <1>2, <1>4 DEF List!lvars

\* A set takes effect when its loop begins.
LEMMA SetMapped ==
  ASSUME TypeOK, TypeOK', NEW n \in Index, NEW e \in Elem, Set(n, e)
  PROVE  List!Set(AsSize(n), e)
<1> DEFINE m == AsSize(n)
           top == IF m < length THEN length ELSE m + 1
<1>1. /\ pc = "idle" /\ pc' = "fill" /\ index' = m /\ element' = e
      /\ length' = length /\ data' = data /\ result' = result
      /\ length \in Nat /\ m \in Nat
  BY AsSizeType, SizeAssumption DEF Set, TypeOK, array
<1> HIDE DEF m
<1>2. FillSize' = top
  BY <1>1 DEF FillSize
<1>3. /\ ListSize = length /\ ListSize' = top
      /\ Status = "running" /\ Status' = "running"
      /\ ListAt = [k \in 0..(length - 1) |-> data[k]]
      /\ ListAt' = [k \in 0..(top - 1) |-> IF k = m THEN e ELSE
                                           IF k >= length THEN Null
                                                          ELSE data[k]]
  BY <1>1, <1>2, Views, ViewsNext DEF AtRest, Filling
<1>4. ASSUME NEW k \in 0..(top - 1)
      PROVE  (IF k >= length THEN Null ELSE data[k])
               = IF k < length THEN ListAt[k] ELSE Null
  <2>1. k \in Nat
    BY <1>1
  <2> QED BY <1>1, <1>3, <2>1
<1>5. ListAt' = [k \in 0..(top - 1) |-> IF k = m THEN e ELSE
                                       IF k < length THEN ListAt[k] ELSE Null]
  BY <1>3, <1>4
<1> QED BY <1>1, <1>3, <1>5 DEF List!Set, List!Becomes, m

\* The nulls a set fills in are those the list has had since it began.
LEMMA FillMapped ==
  ASSUME TypeOK, TypeOK', Fill
  PROVE  List!Ends("oom") \/ UNCHANGED List!lvars
<1>1. CASE Exhausted
  BY <1>1, EndMapped DEF Fill, OutOfMemory, Leave
<1>2. CASE ~Exhausted
  <2>1. /\ pc = "fill" /\ pc' = "fill" /\ index' = index /\ result' = result
        /\ element' = element /\ AppendElement(Null)
        /\ capacity > 0 /\ Null \in Value
        /\ length \in Nat /\ index \in Nat /\ length <= index
    BY <1>2, SizeAssumption DEF Fill, call, TypeOK, Value
  <2>2. /\ length' = length + 1 /\ data'[length] = Null
        /\ \A k \in 0..(length - 1) : data'[k] = data[k]
    BY <2>1, AppendType
  <2>3. FillSize = index + 1 /\ FillSize' = index + 1
    BY <2>1, <2>2 DEF FillSize
  <2>4. /\ ListSize' = ListSize /\ Status' = Status
        /\ ListAt = [k \in 0..(index + 1 - 1) |->
                       IF k = index THEN element ELSE
                       IF k >= length THEN Null ELSE data[k]]
        /\ ListAt' = [k \in 0..(index + 1 - 1) |->
                        IF k = index THEN element ELSE
                        IF k >= length + 1 THEN Null ELSE data'[k]]
    BY <2>1, <2>2, <2>3, Views, ViewsNext DEF Filling
  <2>5. ASSUME NEW k \in 0..(index + 1 - 1)
        PROVE  (IF k >= length + 1 THEN Null ELSE data'[k])
                 = IF k >= length THEN Null ELSE data[k]
    <3>1. k \in Nat
      BY <2>1
    <3>2. CASE k >= length + 1
      BY <2>1, <3>1, <3>2
    <3>3. CASE k = length
      BY <2>1, <2>2, <3>3
    <3>4. CASE k < length
      BY <2>1, <2>2, <3>1, <3>4
    <3> QED BY <2>1, <3>1, <3>2, <3>3, <3>4
  <2>6. ListAt' = ListAt
    BY <2>4, <2>5
  <2> QED BY <2>1, <2>4, <2>6 DEF List!lvars
<1> QED BY <1>1, <1>2

LEMMA SetStoreMapped ==
  ASSUME TypeOK, TypeOK', SetStore PROVE UNCHANGED List!lvars
<1>1. /\ pc = "fill" /\ pc' = "idle" /\ length' = length /\ result' = result
      /\ data' = [data EXCEPT ![index] = element] /\ index < length
      /\ length \in Nat /\ index \in Nat /\ capacity \in Nat
      /\ length <= capacity /\ data \in [0..(capacity - 1) -> Value]
  BY SizeAssumption DEF SetStore, Leave, TypeOK
<1>2. FillSize = length
  BY <1>1 DEF FillSize
<1>3. /\ ListSize' = ListSize /\ Status' = Status
      /\ ListAt = [k \in 0..(length - 1) |-> IF k = index THEN element ELSE
                                             IF k >= length THEN Null
                                                            ELSE data[k]]
      /\ ListAt' = [k \in 0..(length - 1) |-> data'[k]]
  BY <1>1, <1>2, Views, ViewsNext DEF AtRest, Filling
<1>4. ASSUME NEW k \in 0..(length - 1)
      PROVE  data'[k] = IF k = index THEN element ELSE
                        IF k >= length THEN Null ELSE data[k]
  <2>1. k \in 0..(capacity - 1) /\ ~(k >= length)
    BY <1>1
  <2> QED BY <1>1, <2>1
<1>5. ListAt' = ListAt
  BY <1>3, <1>4
<1> QED BY <1>1, <1>3, <1>5 DEF List!lvars

LEMMA NewMapped ==
  ASSUME TypeOK, TypeOK', NEW n \in Request, New(n)
  PROVE  List!Ends("oom") \/ UNCHANGED List!lvars
<1>1. pc = "none" /\ length = 0 /\ result' = result
  BY DEF New, TypeOK
<1>2. pc' = "oom" \/ (pc' = "idle" /\ length' = 0)
  BY DEF New
<1>3. CASE pc' = "oom"
  BY <1>1, <1>3, EndMapped
<1>4. CASE pc' = "idle" /\ length' = 0
  <2>1. /\ ListSize' = ListSize /\ Status' = Status
        /\ ListAt = [k \in 0..(0 - 1) |-> data[k]]
        /\ ListAt' = [k \in 0..(0 - 1) |-> data'[k]]
    BY <1>1, <1>4, Views, ViewsNext DEF AtRest
  <2>2. 0..(0 - 1) = {}
    OBVIOUS
  <2>3. ListAt' = ListAt
    BY <2>1, <2>2
  <2> QED BY <1>1, <2>1, <2>3 DEF List!lvars
<1> QED BY <1>2, <1>3, <1>4

LEMMA InitMapped == Init => List!Init
<1> SUFFICES ASSUME Init PROVE List!Init
  OBVIOUS
<1>1. pc = "none" /\ length = 0 /\ result = Null
  BY DEF Init
<1>2. /\ ListSize = 0 /\ Status = "running"
      /\ ListAt = [k \in 0..(0 - 1) |-> data[k]]
  BY <1>1, InitType, Views DEF AtRest
<1>3. ListAt = [k \in {} |-> Null]
  <2>1. 0..(0 - 1) = {}
    OBVIOUS
  <2> QED BY <1>2, <2>1
<1> QED BY <1>1, <1>2, <1>3 DEF List!Init

\* An operation of the list takes place while it is running.
LEMMA Running ==
  TypeOK => (Status = "running" <=> pc \notin {"oom", "corrupt"})
BY DEF TypeOK, Status

LEMMA StepMapped ==
  ASSUME TypeOK, TypeOK', [Next]_vars
  PROVE  [List!Next]_(List!lvars)
<1> USE DEF List!Next
<1>1. ASSUME List!Ends("oom"), pc \notin {"oom", "corrupt"} PROVE List!Next
  BY <1>1, Running
<1>2. ASSUME NEW n \in Request, New(n) PROVE [List!Next]_(List!lvars)
  <2>1. pc \notin {"oom", "corrupt"}
    BY <1>2 DEF New
  <2> QED BY <1>1, <1>2, <2>1, NewMapped
<1>3. ASSUME NEW e \in Elem, Push(e) PROVE List!Next
  <2>1. pc \notin {"oom", "corrupt"}
    BY <1>3 DEF Push
  <2> QED BY <1>1, <1>3, <2>1, PushMapped, Running
<1>4. ASSUME Pop \/ Length PROVE List!Next
  <2>1. pc \notin {"oom", "corrupt"}
    BY <1>4 DEF Pop, Length
  <2> QED BY <1>4, <2>1, PopMapped, ReadMapped, Running
<1>5. ASSUME NEW n \in Index, Get(n) \/ Remove(n) PROVE List!Next
  <2>1. pc \notin {"oom", "corrupt"} /\ AsSize(n) \in 0..(SizeModulus - 1)
    BY <1>5, AsSizeType DEF Get, Remove
  <2> QED BY <1>5, <2>1, ReadMapped, RemoveMapped, Running
<1>6. ASSUME NEW n \in Index, NEW e \in Elem, Insert(n, e)
      PROVE  [List!Next]_(List!lvars)
  <2>1. pc \notin {"oom", "corrupt"}
    BY <1>6 DEF Insert
  <2> QED BY <1>1, <1>6, <2>1, InsertMapped
<1>7. ASSUME NEW n \in Index, NEW e \in Elem, Set(n, e) PROVE List!Next
  <2>1. pc \notin {"oom", "corrupt"} /\ AsSize(n) \in 0..(SizeModulus - 1)
    BY <1>7, AsSizeType DEF Set
  <2> QED BY <1>7, <2>1, SetMapped, Running
<1>8. CASE InsertStore
  <2>1. /\ pc \notin {"oom", "corrupt"} /\ element \in Elem
        /\ index \in 0..(SizeModulus - 1)
    BY <1>8 DEF InsertStore, TypeOK
  <2> QED BY <1>8, <2>1, InsertStoreMapped, Running
<1>9. CASE Fill
  <2>1. pc \notin {"oom", "corrupt"}
    BY <1>9 DEF Fill
  <2> QED BY <1>1, <1>9, <2>1, FillMapped
<1>10. CASE ShiftUp \/ ShiftDown \/ RemoveEnd \/ SetStore
  BY <1>10, ShiftUpMapped, ShiftDownMapped, RemoveEndMapped, SetStoreMapped
<1>11. CASE UNCHANGED vars
  BY <1>11 DEF vars, array, call, List!lvars, ListSize, ListAt, ElementAt,
               Status
<1> QED
  BY <1>2, <1>3, <1>4, <1>5, <1>6, <1>7, <1>8, <1>9, <1>10, <1>11
  DEF Next, InCall

\* Every execution of the array operations is an execution of a list, for any
\* elements, indices, capacities and memory.
THEOREM ArrayIsList == Spec => ListSpec
BY InitType, NextType, InitMapped, StepMapped, PTL DEF Spec, ListSpec, List!Spec
=============================================================================
