---------------------------- MODULE ShadowStack ----------------------------
(***************************************************************************)
(* The root discipline of the code the compiler emits (codegen/irgen).     *)
(* While it generates a function the code generator keeps gcRootScopeStack,*)
(* the number of roots declared in each open lexical scope; the emitted    *)
(* code pushes a root per tracked variable (emitGCPush), and pops as many  *)
(* as the generator counted when a scope closes (emitGCPops).  Break and   *)
(* continue are bare branches.                                             *)
(*                                                                         *)
(* The module runs the emitted code: a statement of the program is a step, *)
(* the open scopes are those of the point the thread has reached, with the *)
(* counts the generator had there.  A declaration is always executed when  *)
(* a later point of its scope is, so the two agree.                        *)
(***************************************************************************)
EXTENDS Naturals, Sequences, FiniteSets

CONSTANTS
  Slot,       \* stack slots (allocas) that hold tracked values
  MaxScopes,  \* bound: open scopes of all activations together
  MaxRoots    \* bound: length of the root list

ASSUME BoundAssumption == MaxScopes \in Nat /\ MaxRoots \in Nat

VARIABLES
  scopes,     \* the open scopes, outermost first
  rootStack,  \* the list from rootStackHead, newest last
  alloc,      \* the activation a slot belongs to, 0 when it has none
  written,    \* the slots that hold a value
  over,       \* main has returned
  leaked      \* history: a branch has left roots of the scopes it left

vars == <<scopes, rootStack, alloc, written, over, leaked>>

\* for_init and for_loop: the outer scope of a for or for-in, before and after
\* its loop is entered.
Kind == {"main", "func", "block", "body", "for_init", "for_loop", "case"}

\* roots is the generator's count for the scope, sum the total of the counts
\* of its activation up to it, act the index of the activation's own scope.
\* vars and base are history: the slots declared in the scope and the length
\* of the root list when it was entered.
Scope == [kind : Kind, roots : Nat, sum : Nat, act : Nat, vars : SUBSET Slot,
          base : Nat]

Top == scopes[Len(scopes)]
Rooted == {rootStack[i] : i \in 1..Len(rootStack)}
Open(kind, act, sum) ==
  [kind |-> kind, roots |-> 0, sum |-> sum, act |-> act, vars |-> {},
   base |-> Len(rootStack)]
AtStatement == ~over /\ Top.kind \notin {"for_init", "for_loop"}

\* Mutant: one pop too many is emitted.
BugPopsOneMore(n) ==
  rootStack' = SubSeq(rootStack, 1,
                 IF n + 1 < Len(rootStack) THEN Len(rootStack) - n - 1 ELSE 0)

\* n calls of bery_gc_pop_root; a call on an empty list does nothing.
EmitGCPops(n) ==
  rootStack' = SubSeq(rootStack, 1,
                 IF n < Len(rootStack) THEN Len(rootStack) - n ELSE 0)

EmitGCPush(s) ==
  /\ rootStack' = Append(rootStack, s)
  /\ scopes' = [scopes EXCEPT ![Len(scopes)] =
                  [Top EXCEPT !.roots = Top.roots + 1, !.sum = Top.sum + 1,
                              !.vars = Top.vars \cup {s}]]

\* main opens its scope once the runtime is up and the types are registered.
Init ==
  /\ rootStack = <<>>
  /\ scopes = <<[kind |-> "main", roots |-> 0, sum |-> 0, act |-> 1,
                 vars |-> {}, base |-> 0]>>
  /\ alloc = [s \in Slot |-> 0]
  /\ written = {}
  /\ over = FALSE
  /\ leaked = FALSE

-----------------------------------------------------------------------------
(***************************************************************************)
(* Declarations.                                                           *)
(***************************************************************************)
Alloca(s) ==
  /\ Len(rootStack) < MaxRoots
  /\ alloc[s] = 0
  /\ alloc' = [alloc EXCEPT ![s] = Top.act]

\* A string or class variable is rooted before its initializer is evaluated.
VarDecl(s) ==
  /\ ~over /\ Top.kind # "for_loop"
  /\ Alloca(s)
  /\ EmitGCPush(s)
  /\ UNCHANGED <<written, over, leaked>>

\* The store of an initializer, or a later assignment.
Store(s) ==
  /\ ~over
  /\ alloc[s] = Top.act
  /\ s \notin written
  /\ written' = written \cup {s}
  /\ UNCHANGED <<scopes, rootStack, alloc, over, leaked>>

\* A parameter, a dynamic array or the container a for-in holds: stored first.
StoredDecl(s) ==
  /\ ~over /\ Top.kind # "for_loop"
  /\ Alloca(s)
  /\ written' = written \cup {s}
  /\ EmitGCPush(s)
  /\ UNCHANGED <<over, leaked>>

-----------------------------------------------------------------------------
(***************************************************************************)
(* Scopes.                                                                 *)
(***************************************************************************)
PushGCScope(kind) ==
  /\ Len(scopes) < MaxScopes
  /\ scopes' = Append(scopes, Open(kind, Top.act, Top.sum))
  /\ UNCHANGED <<rootStack, alloc, written, over, leaked>>

\* A nested block, a branch of an if, a case of a switch, or the outer scope
\* of a for loop.
EnterBlock == AtStatement /\ PushGCScope("block")
EnterCase  == AtStatement /\ PushGCScope("case")
EnterFor   == AtStatement /\ PushGCScope("for_init")

\* The condition held: the body of a while or do-while, or of the for loop
\* whose scope is on top, is entered once more.
EnterBody ==
  /\ ~over
  /\ Len(scopes) < MaxScopes
  /\ scopes' =
       Append([scopes EXCEPT ![Len(scopes)] =
                 [Top EXCEPT !.kind = IF Top.kind = "for_init"
                                      THEN "for_loop" ELSE Top.kind]],
              Open("body", Top.act, Top.sum))
  /\ UNCHANGED <<rootStack, alloc, written, over, leaked>>

\* Control falls off the end of a scope of the current activation.
PopGCScope ==
  /\ ~over
  /\ Top.kind \notin {"main", "func"}
  /\ EmitGCPops(Top.roots)
  /\ scopes' = SubSeq(scopes, 1, Len(scopes) - 1)
  /\ UNCHANGED <<alloc, written, over, leaked>>

-----------------------------------------------------------------------------
(***************************************************************************)
(* Jumps: breakTracker.back() is the innermost loop or switch of the       *)
(* function, continueTracker.back() its innermost loop.  The branch leaves *)
(* every scope from that one up.                                           *)
(***************************************************************************)
Innermost(i, kinds) ==
  /\ i \in (Top.act + 1)..Len(scopes)
  /\ scopes[i].kind \in kinds
  /\ \A j \in (i + 1)..Len(scopes) : scopes[j].kind \notin kinds

\* Mutant: break and continue emit the pops of a return.
BugBranchPopsTooMuch(kinds) ==
  \E i \in 1..Len(scopes) :
    /\ Innermost(i, kinds)
    /\ scopes' = SubSeq(scopes, 1, i - 1)
    /\ EmitGCPops(Top.sum)
    /\ UNCHANGED <<alloc, written, over, leaked>>

BranchOut(kinds) ==
  \E i \in 1..Len(scopes) :
    /\ Innermost(i, kinds)
    /\ scopes' = SubSeq(scopes, 1, i - 1)
    /\ leaked' = (leaked \/ scopes[i].base < Len(rootStack))
    /\ UNCHANGED <<rootStack, alloc, written, over>>

Break    == AtStatement /\ BranchOut({"body", "case"})
Continue == AtStatement /\ BranchOut({"body"})

-----------------------------------------------------------------------------
(***************************************************************************)
(* Activations.                                                            *)
(***************************************************************************)
\* A function or a method is called from any expression.  A method declares no
\* root for self or its parameters; a function's follow as StoredDecl steps.
Call ==
  /\ ~over
  /\ Len(scopes) < MaxScopes
  /\ scopes' = Append(scopes, Open("func", Len(scopes) + 1, 0))
  /\ UNCHANGED <<rootStack, alloc, written, over, leaked>>

Leave(act) ==
  /\ alloc' = [s \in Slot |-> IF alloc[s] = act THEN 0 ELSE alloc[s]]
  /\ written' = {s \in written : alloc[s] # act}

\* Mutant: return pops the roots of its own block only.
BugReturnPopsTop ==
  /\ ~over
  /\ Top.act > 1
  /\ EmitGCPops(Top.roots)
  /\ scopes' = SubSeq(scopes, 1, Top.act - 1)
  /\ Leave(Top.act)
  /\ UNCHANGED <<over, leaked>>

\* Mutant: return leaves the caller's innermost scope with its own.
BugReturnLeavesCaller ==
  /\ ~over
  /\ Top.act > 1
  /\ EmitGCPops(Top.sum)
  /\ scopes' = SubSeq(scopes, 1, Top.act - 2)
  /\ Leave(Top.act)
  /\ UNCHANGED <<over, leaked>>

\* A return statement, at any depth, pops the roots of all the function's open
\* scopes; at the end of its body a function pops those of its own scope, the
\* only one open.  The frame's slots are gone.
Return ==
  /\ ~over
  /\ Top.act > 1
  /\ EmitGCPops(Top.sum)
  /\ scopes' = SubSeq(scopes, 1, Top.act - 1)
  /\ Leave(Top.act)
  /\ UNCHANGED <<over, leaked>>

\* The end of the run block: main pops its roots, then shuts the runtime down.
MainEnds ==
  /\ ~over
  /\ Top.kind = "main"
  /\ EmitGCPops(Top.roots)
  /\ over' = TRUE
  /\ Leave(1)
  /\ UNCHANGED <<scopes, leaked>>

Next ==
  \/ \E s \in Slot : VarDecl(s) \/ Store(s) \/ StoredDecl(s)
  \/ EnterBlock \/ EnterCase \/ EnterFor \/ EnterBody \/ PopGCScope
  \/ Break \/ Continue
  \/ Call \/ Return \/ MainEnds

Spec == Init /\ [][Next]_vars

-----------------------------------------------------------------------------
(***************************************************************************)
(* Properties                                                              *)
(***************************************************************************)

\* The scopes, the root list and the slots stay in their ranges.
TypeOK ==
  /\ scopes \in Seq(Scope) /\ scopes # <<>>
  /\ rootStack \in Seq(Slot)
  /\ alloc \in [Slot -> Nat]
  /\ written \in SUBSET Slot
  /\ over \in BOOLEAN /\ leaked \in BOOLEAN
  /\ \A i \in 1..Len(scopes) : scopes[i].act \in 1..i

\* Every variable of every open scope is on the root list, through any nesting
\* of calls, returns and jumps out of scopes: what the jumps leave behind is
\* on top of the live roots, and the pops that follow never reach these.
LiveVarsRooted ==
  ~over => \A i \in 1..Len(scopes) : scopes[i].vars \subseteq Rooted

\* A scope never pops below the list it was entered with: what its caller or
\* its enclosing scopes rooted is untouched when it closes, returns or is
\* branched out of, and bery_gc_pop_root never meets an empty list.
OuterRootsKept ==
  ~over => /\ \A i \in 1..Len(scopes) :
                scopes[i].base + scopes[i].roots <= Len(rootStack)
           /\ Top.sum <= Len(rootStack)

\* Until a break or continue leaves roots of scopes behind, the list holds the
\* variables of the open scopes, each once, and nothing else: no slot is
\* collected that went out of scope, and main hands an empty list to
\* bery_runtime_shutdown.
RootsMatchScopes ==
  ~leaked =>
    IF over THEN rootStack = <<>>
    ELSE /\ Rooted = UNION {scopes[i].vars : i \in 1..Len(scopes)}
         /\ Cardinality(Rooted) = Len(rootStack)

\* The root list is the shadow of the call stack (bery_gc_roots.h line 3): no
\* root names a slot of a function that has returned, which the next
\* collection would read and treat as an object.
NoDeadSlot ==
  ~over => \A s \in Rooted : alloc[s] # 0

\* A slot is only rooted once it holds a value: a collection may start in any
\* expression, and it reads every slot on the list.
NoUnwrittenSlot ==
  ~over => Rooted \subseteq written
=============================================================================
