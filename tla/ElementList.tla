---------------------------- MODULE ElementList ----------------------------
(***************************************************************************)
(* What a Bery program expects of a dynamic array: a list of elements,     *)
(* numbered from 0, changed by one operation at a time.  Only an insertion *)
(* past the end is left open: the elements there were stay where they are, *)
(* and what follows them is anything; or memory is corrupted.              *)
(***************************************************************************)
EXTENDS Naturals

CONSTANTS
  Elem, Null,
  SizeT     \* the indices an operation can be given

VARIABLES
  size, at,  \* the list: at[0], ..., at[size - 1]
  result,    \* what the last operation that returns something returned
  status     \* "running", or how the process ended

lvars == <<size, at, result, status>>

Value == Elem \cup {Null}

Init ==
  /\ size = 0 /\ at = [k \in {} |-> Null]
  /\ result = Null
  /\ status = "running"

\* The list becomes f[0], ..., f[n - 1].
Becomes(n, f) == size' = n /\ at' = f /\ UNCHANGED <<result, status>>

\* The process ends, and its list with it.
Ends(how) ==
  /\ status' = how
  /\ size' = 0 /\ at' = [k \in {} |-> Null]
  /\ UNCHANGED result

Push(e) ==
  Becomes(size + 1, [k \in 0..size |-> IF k < size THEN at[k] ELSE e])

Pop ==
  /\ UNCHANGED status
  /\ IF size = 0
     THEN result' = Null /\ UNCHANGED <<size, at>>
     ELSE /\ result' = at[size - 1]
          /\ size' = size - 1
          /\ at' = [k \in 0..(size - 2) |-> at[k]]

Insert(n, e) ==
  /\ n <= size
  /\ Becomes(size + 1,
       [k \in 0..size |-> IF k < n THEN at[k] ELSE
                          IF k = n THEN e ELSE at[k - 1]])

InsertPast(n) ==
  /\ n > size
  /\ \/ \E v \in Value : Push(v)
     \/ Ends("corrupt")

Remove(n) ==
  /\ n < size
  /\ Becomes(size - 1,
       [k \in 0..(size - 2) |-> IF k < n THEN at[k] ELSE at[k + 1]])

Get(n) ==
  /\ result' = IF n < size THEN at[n] ELSE Null
  /\ UNCHANGED <<size, at, status>>

\* Setting past the end fills the gap with nulls.
Set(n, e) ==
  LET top == IF n < size THEN size ELSE n + 1
  IN  Becomes(top, [k \in 0..(top - 1) |-> IF k = n THEN e ELSE
                                           IF k < size THEN at[k] ELSE Null])

Length == result' = size /\ UNCHANGED <<size, at, status>>

Next ==
  /\ status = "running"
  /\ \/ \E e \in Elem : Push(e)
     \/ Pop \/ Length \/ Ends("oom")
     \/ \E n \in SizeT : Remove(n) \/ Get(n) \/ InsertPast(n)
     \/ \E n \in SizeT, e \in Elem : Insert(n, e) \/ Set(n, e)

Spec == Init /\ [][Next]_lvars
=============================================================================
