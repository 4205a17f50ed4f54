----------------------------- MODULE MCBeryHeap -----------------------------
(***************************************************************************)
(* TLC instances of BeryHeap.  Three types: an array-like one whose first  *)
(* word the collector traces, a plain one without traced words (strings,   *)
(* boxes, class instances) and a plain one whose destructor allocates.     *)
(***************************************************************************)
EXTENDS BeryHeap, TLC

CONSTANTS c1, c2, c3, s1, s2, arr, cls, own, w1, w2

MCPtrFields ==
  [t \in TypeId |-> IF t = arr THEN {w1} ELSE {}]
MCSizeOf == [t \in TypeId |-> IF t = arr THEN 2 ELSE 1]
Symmetry == Permutations(Cell) \cup Permutations(Slot)
=============================================================================
