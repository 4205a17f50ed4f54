---------------------------- MODULE ManagedHeap ----------------------------
(***************************************************************************)
(* What the Bery runtime promises a program about memory, without marks,   *)
(* lists or cursors: a set of live objects, the part of it the program can *)
(* reach, and collections that happen in one step.  A collection leaves    *)
(* exactly what is reachable; nothing else takes an object away but the    *)
(* program's own delete, and the end of the program.  A delete leaves the  *)
(* program's other references to the object as they are.                   *)
(***************************************************************************)
EXTENDS Naturals

CONSTANTS Cell, AllocThreshold

VARIABLES
  live,    \* the objects that exist
  reach,   \* what the program holds a reference to, deleted objects included
  since,   \* allocations since the last collection
  on,      \* whether the collector is enabled
  over     \* the program has returned, died or used what it deleted

mvars == <<live, reach, since, on, over>>

Init ==
  /\ live = {} /\ reach = {} /\ since = 0
  /\ on \in BOOLEAN
  /\ over = FALSE

\* The program stores, overwrites, opens and closes scopes: it can lose
\* objects, never regain one.
Mutate ==
  /\ ~over
  /\ reach' \subseteq reach
  /\ UNCHANGED <<live, since, on, over>>

\* A new object is one that did not exist, and the program holds it.
New(c) ==
  /\ ~over
  /\ c \notin live
  /\ on => since < AllocThreshold
  /\ live' = live \cup {c}
  /\ reach' \subseteq reach \cup {c}
  /\ c \in reach'
  /\ since' = since + 1
  /\ UNCHANGED <<on, over>>

Collect ==
  /\ ~over
  /\ on
  /\ reach' \subseteq reach
  /\ live' = reach' \cap live
  /\ since' = 0
  /\ UNCHANGED <<on, over>>

Delete(c) ==
  /\ ~over
  /\ c \in live \cap reach
  /\ live' = live \ {c}
  /\ reach' \subseteq reach
  /\ UNCHANGED <<since, on, over>>

Exit ==
  /\ ~over
  /\ over'
  /\ live' = {} /\ reach' = {} /\ since' = 0
  /\ UNCHANGED on

Next ==
  \/ Mutate \/ Collect \/ Exit
  \/ \E c \in Cell : New(c) \/ Delete(c)

Spec == Init /\ [][Next]_mvars
=============================================================================
