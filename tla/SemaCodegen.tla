---------------------------- MODULE SemaCodegen ----------------------------
(***************************************************************************)
(* The two passes over a program: the semantic analyser with its type      *)
(* checker (src/sema), and the code generator (src/codegen).  Both walk    *)
(* the same tree with the same symbol table, the generator in an order of  *)
(* its own, and each resolves every name and call for itself.              *)
(*                                                                         *)
(* The definitions of the program are chosen at the start, the statements  *)
(* of its bodies as the analyser comes to them.  A statement is an item of *)
(* a flat sequence: one that opens a construct is closed by a later one.   *)
(* Conditions, indices and operands are uses in front of the statement.    *)
(* Here the analyser stops at an error; what it does behind one is that of *)
(* AfterErrors in CompileDriver.  All variables are ints, every array is   *)
(* fresh, and the fields of objects are ints or arrays.                    *)
(***************************************************************************)
EXTENDS Integers, SequencesExt

\* The programs: their definitions `defs', and what their statements are made
\* of, the `names' of variables, the `calls' <<to, name, argument types>>, the
\* `fields' <<class, name>> of objects, the arguments `args' to the methods of
\* arrays and strings, and the bound `items' on their number.
CONSTANT Programs

None == "-"
NoBody == <<None, 0, 0>>
Ctor == "constructor"
Name == STRING \ {None}

Params == Seq([type : STRING, name : Name])
FieldDef == [name : Name, init : STRING, access : STRING, array : BOOLEAN]
MethodDef == [name : Name, params : Params, ret : STRING, access : STRING]
Definition ==
  [kind : {"var"}, name : Name, init : STRING]
    \cup [kind : {"enum"}, name : Name]
    \cup [kind : {"func"}, name : Name, params : Params, ret : STRING,
          access : STRING]
    \cup [kind : {"class"}, name : Name \ {"super", "unqualified"},
          parent : STRING, fields : Seq(FieldDef), methods : Seq(MethodDef)]

\* What the parser can hand over: the receiver of a call is an object of a
\* class of the program, super, or none; that of a constructor, which stands
\* for `new', is the class; that of a field is an object.
ASSUME SemaCodegenAssumption ==
  \A p \in Programs :
    /\ p.defs \in Seq(Definition)
    /\ p.items \in Nat
    /\ p.names \subseteq Name
    /\ \A call \in p.calls :
         /\ \/ call[1] \in {"super", "unqualified"} /\ call[2] # Ctor
            \/ \E d \in 1..Len(p.defs) :
                 p.defs[d].kind = "class" /\ p.defs[d].name = call[1]
         /\ call[2] \in Name
         /\ call[3] \in Seq(STRING)
    /\ \A field \in p.fields :
         \E d \in 1..Len(p.defs) :
           p.defs[d].kind = "class" /\ p.defs[d].name = field[1]

VARIABLES
  program,     \* the definitions
  words,       \* the names, calls, fields and arguments for its statements
  bodies,      \* body -> its statements, with what the analyser made of them
  left,        \* statements the bodies may still get
  pass,        \* "sema", "codegen", or how it ended
  work,        \* what is left for this pass to visit, the next first
  at,          \* the statement to visit next; 0 outside bodies
  open,        \* the constructs open, the innermost last
  scopes,      \* SymbolTable::scopes
  loopDepth, loopOrSwitchDepth,
  breakTracker, continueTracker,
  functions,   \* CodeGen::functions: emitted name -> body
  layouts,     \* the classes in classLayouts
  made         \* history: how the last step resolved names, calls and jumps

jumps == <<loopDepth, loopOrSwitchDepth, breakTracker, continueTracker>>
emitted == <<functions, layouts>>
vars == <<program, words, bodies, left, pass, work, at, open, scopes, jumps,
          emitted, made>>

-----------------------------------------------------------------------------
(* Classes, methods and overloads *)

Defs(kind) == {d \in 1..Len(program) : program[d].kind = kind}
Classes == {program[d].name : d \in Defs("class")}
ClassDef(c) == CHOOSE d \in Defs("class") : program[d].name = c
Parent(c) == program[ClassDef(c)].parent
Methods(c) ==
  {<<"method", ClassDef(c), j>> : j \in 1..Len(program[ClassDef(c)].methods)}

\* A class and its ancestors, the nearest first.
Lineage(c) ==
  LET line[n \in 0..Len(program)] ==
        IF n = 0 THEN <<c>>
        ELSE IF Parent(Last(line[n-1])) \in Classes
             THEN Append(line[n-1], Parent(Last(line[n-1])))
             ELSE line[n-1]
  IN  line[Len(program)]
\* The place of the nearest with P; 0 if there is none.
Nearest(c, P(_)) == SelectInSeq(Lineage(c), P)

Signature(b) ==
  IF b[1] = "method" THEN program[b[2]].methods[b[3]] ELSE program[b[2]]
Types(b) == [i \in 1..Len(Signature(b).params) |-> Signature(b).params[i].type]
ClassOf(b) == IF b[1] = "method" THEN program[b[2]].name ELSE None

\* findConstructors: those of the nearest class that has one.
Constructors(c) ==
  LET own(k) == {b \in Methods(k) : Signature(b).name = Ctor}
      i == Nearest(c, LAMBDA k : own(k) # {})
  IN  IF i = 0 THEN {} ELSE own(Lineage(c)[i])

\* getInheritedMethods: an inherited method is hidden by one of the same
\* signature in a class nearer by.
InheritedMethods(c, m) ==
  LET own(k) == {b \in Methods(k) : Signature(b).name = m}
      line == Lineage(c)
  IN  UNION {{b \in own(line[i]) : \A j \in 1..(i-1) :
                \A h \in own(line[j]) : Types(h) # Types(b)} :
             i \in 1..Len(line)}

Promotable(from, to) ==
  \/ from = to
  \/ from = "int" /\ to \in {"float", "double", "bigint"}
  \/ from = "float" /\ to = "double"

\* resolveMethodOverload and resolveFunctionOverload: the exact match, or else
\* the only one by promotion; {} is an error.
ResolveOverload(candidates, args) ==
  LET exact == {b \in candidates : Types(b) = args}
      fits == {b \in candidates :
                 /\ Len(Types(b)) = Len(args)
                 /\ \A i \in 1..Len(args) : Promotable(args[i], Types(b)[i])}
  IN  IF exact # {} THEN exact ELSE IF Cardinality(fits) = 1 THEN fits ELSE {}

\* checkMemberAccess, for a member of class c used from the methods of `from'.
MemberAccess(access, c, from) ==
  \/ access = "public"
  \/ from = c
  \/ access = "protected" /\ from # None /\ c \in Range(Lineage(from))

\* What the analyser resolves super.m(args) to; {} is an error.
CheckSuper(m, args, from) ==
  LET super == IF from = None THEN None ELSE Parent(from)
  IN  IF super \notin Classes THEN {}
      ELSE {b \in ResolveOverload(InheritedMethods(super, m), args) :
              Signature(b).access # "private"}

\* The same for a call with a receiver of class to, or "unqualified".
CheckCall(to, m, args, from) ==
  LET accessible(S) == {b \in S : MemberAccess(Signature(b).access, to, from)}
      own == IF from = None THEN {} ELSE InheritedMethods(from, m)
      free == {<<"func", d, 0>> : d \in {e \in Defs("func") :
                                           program[e].name = m}}
  IN  IF to = "unqualified"
      THEN ResolveOverload(IF own # {} THEN own ELSE free, args)
      ELSE accessible(ResolveOverload(InheritedMethods(to, m), args))

\* The same for `new c(args)'; a class without constructors stands for itself.
CheckNew(c, args) ==
  IF Constructors(c) # {} THEN ResolveOverload(Constructors(c), args)
  ELSE IF args = <<>> THEN {<<"class", ClassDef(c), 0>>} ELSE {}

-----------------------------------------------------------------------------
(* Emitted names *)

\* __mangleOverload: all arrays are one type to it.
MangleOverload(c, m, types) ==
  <<c, m, [i \in 1..Len(types) |->
             IF types[i] \in {"array<int>", "array<string>"} THEN "arr"
             ELSE types[i]]>>
Mangled(b) == MangleOverload(ClassOf(b), Signature(b).name, Types(b))

\* The function of that name as far as one has been emitted.
Emitted(c, m, types) ==
  LET name == MangleOverload(c, m, types)
  IN  IF name \in DOMAIN functions THEN functions[name] ELSE NoBody

\* Class c has its layout, and the function is emitted for it.
Has(c, m, types) == c \in layouts /\ Emitted(c, m, types) # NoBody

\* Mutant: the ancestors are searched from the root.
BugFromRoot(c, m, types) ==
  LET i == SelectLastInSeq(Lineage(c), LAMBDA k : Has(k, m, types))
  IN  IF c \notin layouts \/ i = 0 THEN NoBody
      ELSE Emitted(Lineage(c)[i], m, types)

\* findMethodOwner, and the loops that look for a constructor.
FindMethod(c, m, types) ==
  LET i == Nearest(c, LAMBDA k : Has(k, m, types))
  IN  IF c \notin layouts \/ i = 0 THEN NoBody
      ELSE Emitted(Lineage(c)[i], m, types)

\* genCallExpr; types are those the analyser left at the call.
GenSuper(m, types, from) == FindMethod(Parent(from), m, types)
GenCall(to, m, types, from) ==
  LET owned == IF from = None THEN NoBody ELSE FindMethod(from, m, types)
  IN  IF to # "unqualified" THEN FindMethod(to, m, types)
      ELSE IF owned # NoBody THEN owned
      ELSE Emitted(None, m, types)

\* genNewExpr
GenNew(c, target) ==
  IF c \notin layouts THEN NoBody
  ELSE IF target[1] = "class" THEN target
  ELSE FindMethod(c, Ctor, Types(target))

\* emitClassInOrder: in the source's order, but each behind those of its
\* ancestors that no class before it has brought in.
ClassOrder ==
  LET ancestors(d) == Reverse(Lineage(program[d].name))
      emittedBefore(d) ==
        UNION {Range(ancestors(e)) : e \in Defs("class") \cap 1..(d - 1)}
      only(c, S) == IF c \in S THEN <<c>> ELSE <<>>
      emit(d) ==
        FlattenSeq([k \in 1..Len(ancestors(d)) |->
                      only(ancestors(d)[k], Classes \ emittedBefore(d))])
  IN  FlattenSeq([d \in 1..Len(program) |->
                    IF d \in Defs("class") THEN emit(d) ELSE <<>>])

MethodsOf(d) ==
  [j \in 1..Len(program[d].methods) |-> <<"method", d, j>>]
Run == <<"run", 0, 0>>
Visit(d) ==
  <<<<program[d].kind, d, 0>>>>
    \o IF program[d].kind = "class" THEN MethodsOf(d) ELSE <<>>
\* The definitions of these kinds, in the source's order.
VisitOnly(kinds) ==
  FlattenSeq([d \in 1..Len(program) |->
                IF program[d].kind \in kinds THEN Visit(d) ELSE <<>>])

\* Pass 2 of analyze, without the enums.
SemaWork == VisitOnly({"var", "func", "class"}) \o <<Run>>

\* generate: classes, functions, global variables, the run block.
CodegenWork ==
  FlattenSeq([k \in 1..Len(ClassOrder) |-> Visit(ClassDef(ClassOrder[k]))])
    \o VisitOnly({"func"}) \o VisitOnly({"var", "enum"}) \o <<Run>>

-----------------------------------------------------------------------------
(* The symbol table *)

\* f with the value v at x, which it need not have had.
With(f, x, v) == [y \in DOMAIN f \cup {x} |-> IF y = x THEN v ELSE f[y]]

Exists(s, n) == \E k \in 1..Len(s) : n \in DOMAIN s[k]
Get(s, n) == s[SelectLastInSeq(s, LAMBDA scope : n \in DOMAIN scope)][n]

\* add, to the innermost of the scopes s
Add(s, n, decl, reg) ==
  [s EXCEPT ![Len(s)] = With(@, n, [decl |-> decl, reg |-> reg])]
PushScope(s) == Append(s, <<>>)
PopScope(s) == Front(s)

Current == Head(work)
InBody == work # <<>> /\ at > 0
Local == <<"local", at, 0>>
FieldDefs(c) == Range(program[ClassDef(c)].fields)
Fields(c) == {program[ClassDef(c)].fields[i].name :
                i \in 1..Len(program[ClassDef(c)].fields)}
Dotted == {program[d].name : d \in Defs("enum")}
AllFields(c) == UNION {Fields(k) : k \in Range(Lineage(c))}
FieldOwner(c, n) == Lineage(c)[Nearest(c, LAMBDA k : n \in Fields(k))]

\* resolveFieldChainFrom: the field n of an object of class c, used from the
\* methods of `from'.
CheckField(c, n, from) ==
  /\ n \in AllFields(c)
  /\ \A f \in FieldDefs(FieldOwner(c, n)) :
       f.name = n => MemberAccess(f.access, c, from)

\* What a method finds beside its parameters: in the analyser the fields of
\* its class, in the generator those of its layout.
SemaFields(b) == IF ClassOf(b) = None THEN {} ELSE Fields(ClassOf(b))
\* Mutant: the layout of a class holds what it inherits only.
BugInheritedOnly(b) ==
  IF ClassOf(b) = None THEN {}
  ELSE AllFields(ClassOf(b)) \ Fields(ClassOf(b))

GenFields(b) == IF ClassOf(b) = None THEN {} ELSE AllFields(ClassOf(b))

\* The first scope of a body: parameters before fields.
BodyScope(b, fields, reg) ==
  LET params == IF b = Run THEN {}
                ELSE {p.name : p \in Range(Signature(b).params)}
  IN  [n \in params \cup fields |->
         [decl |-> IF n \in params THEN <<"param", n, 0>>
                   ELSE <<"field", n, FieldOwner(ClassOf(b), n)>>,
          reg |-> reg]]

-----------------------------------------------------------------------------
(* The semantic analyser *)

Init ==
  /\ \E p \in Programs :
       /\ program = p.defs
       /\ words = [names |-> p.names, calls |-> p.calls,
                   fields |-> p.fields, args |-> p.args]
       /\ left = p.items
  /\ bodies = << >>
  /\ pass = "collect"
  /\ work = <<>> /\ at = 0 /\ open = <<>>
  /\ scopes = << <<>> >>
  /\ loopDepth = 0 /\ loopOrSwitchDepth = 0
  /\ breakTracker = <<>> /\ continueTracker = <<>>
  /\ functions = << >> /\ layouts = {}
  /\ made = {}

\* An error: the driver stops behind the analyser.
Reject ==
  /\ pass' = "rejected"
  /\ bodies' = << >> /\ left' = 0 /\ work' = <<>> /\ at' = 0
  /\ open' = <<>> /\ scopes' = << <<>> >>
  /\ loopDepth' = 0 /\ loopOrSwitchDepth' = 0
  /\ UNCHANGED <<program, words, breakTracker, continueTracker, emitted, made>>

\* analyze, pass 1: functions and classes are known before any body.
CollectGlobals ==
  /\ pass = "collect"
  /\ LET same(d, e) ==
           /\ d # e /\ program[d].kind = program[e].kind
           /\ program[d].name = program[e].name
           /\ program[d].kind = "func" =>
                Types(<<"func", d, 0>>) = Types(<<"func", e, 0>>)
         globals == Defs("func") \cup Defs("class") \cup Defs("enum")
     IN  IF \E d, e \in globals : same(d, e) THEN Reject
         ELSE /\ pass' = "sema"
              /\ work' = SemaWork
              /\ scopes' = <<[n \in Dotted |->
                               [decl |-> <<"global", n, 0>>, reg |-> FALSE]]>>
              /\ UNCHANGED <<program, words, bodies, left, at, open, jumps,
                             emitted,
                             made>>

Known(n) == n = None \/ Exists(scopes, n)

\* analyzeVarDecl of a global
SemaVar ==
  /\ pass = "sema" /\ Current[1] = "var"
  /\ LET def == program[Current[2]]
     IN  IF def.name \in DOMAIN Last(scopes) \/ ~Known(def.init) THEN Reject
         ELSE /\ scopes' = Add(scopes, def.name, <<"global", def.name, 0>>,
                               FALSE)
              /\ work' = Tail(work)
              /\ UNCHANGED <<program, words, bodies, left, pass, at, open,
                             jumps,
                             emitted, made>>

\* analyzeClassDecl up to the bodies of its methods.  The initialisers of
\* arrays are not looked at.  A method that overrides one of the parent's is
\* compared with it if the parent came first.
SemaClass ==
  /\ pass = "sema" /\ Current[1] = "class"
  /\ LET def == program[Current[2]]
         own == {b \in Methods(def.name) : Signature(b).name # Ctor}
         overrides(b, p) == /\ Signature(b).name = Signature(p).name
                            /\ Types(b) = Types(p)
         badParent ==
           /\ def.parent # None
           /\ \/ def.parent \notin Classes
              \/ \E k \in 2..Len(Lineage(def.name)) :
                   Lineage(def.name)[k] = def.name
         badFields == \/ \E i \in 1..Len(def.fields) :
                           ~def.fields[i].array /\ ~Known(def.fields[i].init)
                      \/ Cardinality(Fields(def.name)) < Len(def.fields)
         badMethods ==
           \/ \E b, p \in Methods(def.name) : b # p /\ overrides(b, p)
           \/ /\ def.parent \in Classes /\ ClassDef(def.parent) < Current[2]
              /\ \E b \in own, p \in Methods(def.parent) :
                   overrides(b, p) /\ Signature(b).ret # Signature(p).ret
     IN  IF badParent \/ badFields \/ badMethods THEN Reject
         ELSE /\ work' = Tail(work)
              /\ UNCHANGED <<program, words, bodies, left, pass, at, open,
                             scopes,
                             jumps, emitted, made>>

IsBody(w) == w[1] \in {"func", "method", "run"}

SemaEnter ==
  /\ pass = "sema" /\ at = 0 /\ IsBody(Current)
  /\ at' = 1
  /\ bodies' = With(bodies, Current, <<>>)
  /\ scopes' = Append(scopes, BodyScope(Current, SemaFields(Current), FALSE))
  /\ UNCHANGED <<program, words, left, pass, work, open, jumps, emitted, made>>

SemaLeave ==
  /\ pass = "sema" /\ InBody /\ open = <<>>
  /\ at' = 0
  /\ scopes' = PopScope(scopes)
  /\ work' = Tail(work)
  /\ UNCHANGED <<program, words, bodies, left, pass, open, jumps, emitted,
                 made>>

\* A block that is a statement of its own (the parser makes one of a stray
\* else) is not analysed.
Unseen == \E k \in 1..Len(open) : open[k].kind = "stray"

Analysing == pass = "sema" /\ InBody /\ left > 0
Bound(n) == IF n = None \/ Unseen THEN None ELSE Get(scopes, n).decl

Write(item, cost) ==
  /\ bodies' = [bodies EXCEPT ![Current] = Append(@, item)]
  /\ at' = at + 1
  /\ left' = left - cost
  /\ UNCHANGED <<program, words, pass, work, breakTracker, continueTracker,
                 emitted,
                 made>>

\* checkIdentifier, in an expression or as the target of an assignment
SemaUse(n) ==
  /\ Analysing
  /\ IF Unseen \/ Known(n)
     THEN /\ Write([op |-> "use", use |-> n, bound |-> Bound(n)], 1)
          /\ UNCHANGED <<open, scopes, loopDepth, loopOrSwitchDepth>>
     ELSE Reject

\* analyzeVarDecl, analyzeArrayDecl: the initialiser u before the name.
SemaDecl(n, u) ==
  /\ Analysing
  /\ IF Unseen \/ (n \notin DOMAIN Last(scopes) /\ Known(u))
     THEN /\ Write([op |-> "decl", name |-> n, use |-> u,
                    bound |-> Bound(u)], 1)
          /\ scopes' = IF Unseen THEN scopes ELSE Add(scopes, n, Local, FALSE)
          /\ UNCHANGED <<open, loopDepth, loopOrSwitchDepth>>
     ELSE Reject

Loops == {"while", "for", "forin"}

Opened(kind) == Append(open, [kind |-> kind, pos |-> at])

\* A construct with one scope; loop and either are what it adds to the depths.
SemaOpen(kind, loop, either) ==
  /\ Analysing
  /\ Write([op |-> kind], 1)
  /\ open' = Opened(kind)
  /\ IF Unseen THEN UNCHANGED <<scopes, loopDepth, loopOrSwitchDepth>>
     ELSE /\ scopes' = IF kind = "stray" THEN scopes ELSE PushScope(scopes)
          /\ loopDepth' = loopDepth + loop
          /\ loopOrSwitchDepth' = loopOrSwitchDepth + either

\* analyzeIfStmt (each branch), analyzeWhileStmt and analyzeDoWhileStmt, and
\* analyzeSwitchStmt up to the first case
SemaIf == SemaOpen("if", 0, 0)
SemaStray == SemaOpen("stray", 0, 0)
SemaWhile == SemaOpen("while", 1, 1)
SemaSwitch == SemaOpen("switch", 0, 1)

\* A loop with a variable n of its own, and u, a name in its initialiser or in
\* what it runs over.
SemaLoop(kind, n, u) ==
  /\ Analysing
  /\ IF Unseen \/ Known(u)
     THEN /\ Write([op |-> kind, name |-> n, use |-> u, bound |-> Bound(u)], 1)
          /\ open' = Opened(kind)
          /\ IF Unseen THEN UNCHANGED <<scopes, loopDepth, loopOrSwitchDepth>>
             ELSE /\ scopes' =
                       PushScope(Add(PushScope(scopes), n, Local, FALSE))
                  /\ loopDepth' = loopDepth + 1
                  /\ loopOrSwitchDepth' = loopOrSwitchDepth + 1
     ELSE Reject

\* analyzeForStmt and analyzeForInStmt
SemaFor(n, u) == SemaLoop("for", n, u)
SemaForIn(n, u) == SemaLoop("forin", n, u)

\* The next case of a switch, or its default.
SemaCase ==
  /\ Analysing
  /\ open # <<>> /\ Last(open).kind = "switch"
  /\ Write([op |-> "case"], 1)
  /\ scopes' = IF Unseen THEN scopes ELSE PushScope(PopScope(scopes))
  /\ UNCHANGED <<open, loopDepth, loopOrSwitchDepth>>

Scopes(kind) == IF kind \in {"for", "forin"} THEN 2 ELSE 1
Drop(s, k) == SubSeq(s, 1, Len(s) - k)

\* Mutant: loopDepth is not taken back.
BugDepthKept ==
  /\ pass = "sema" /\ InBody /\ open # <<>>
  /\ LET kind == Last(open).kind
     IN  /\ Write([op |-> "close"], 0)
         /\ open' = Front(open)
         /\ IF Unseen THEN UNCHANGED <<scopes, loopOrSwitchDepth>>
            ELSE /\ scopes' = Drop(scopes, Scopes(kind))
                 /\ loopOrSwitchDepth' = loopOrSwitchDepth -
                      IF kind \in Loops \cup {"switch"} THEN 1 ELSE 0
         /\ UNCHANGED loopDepth

SemaClose ==
  /\ pass = "sema" /\ InBody /\ open # <<>>
  /\ LET kind == Last(open).kind
     IN  /\ Write([op |-> "close"], 0)
         /\ open' = Front(open)
         /\ IF Unseen THEN UNCHANGED <<scopes, loopDepth, loopOrSwitchDepth>>
            ELSE /\ scopes' = Drop(scopes, Scopes(kind))
                 /\ loopDepth' = loopDepth - IF kind \in Loops THEN 1 ELSE 0
                 /\ loopOrSwitchDepth' = loopOrSwitchDepth -
                      IF kind \in Loops \cup {"switch"} THEN 1 ELSE 0

\* analyzeBreakStmt and analyzeContinueStmt
SemaJump(kind) ==
  /\ Analysing
  /\ IF \/ Unseen
        \/ IF kind = "break" THEN loopOrSwitchDepth > 0 ELSE loopDepth > 0
     THEN /\ Write([op |-> "jump", kind |-> kind], 1)
          /\ UNCHANGED <<open, scopes, loopDepth, loopOrSwitchDepth>>
     ELSE Reject

\* analyzeReturnStmt
SemaReturn(u) ==
  /\ Analysing
  /\ IF \/ Unseen
        \/ /\ Current # Run
           /\ (u = None) = (Signature(Current).ret = "void")
           /\ Known(u)
     THEN /\ Write([op |-> "use", use |-> u, bound |-> Bound(u)], 1)
          /\ UNCHANGED <<open, scopes, loopDepth, loopOrSwitchDepth>>
     ELSE Reject

\* checkCallExpr, checkSuperCall and checkNewExpr; no calls are written where
\* the analyser does not look.
SemaCall(to, m, args) ==
  /\ Analysing /\ ~Unseen
  /\ LET from == ClassOf(Current)
         target == CASE m = Ctor -> CheckNew(to, args)
                     [] to = "super" -> CheckSuper(m, args, from)
                     [] OTHER -> CheckCall(to, m, args, from)
     IN  IF target = {} THEN Reject
         ELSE /\ Write([op |-> "call", to |-> to, name |-> m,
                        bound |-> CHOOSE b \in target : TRUE], 1)
              /\ UNCHANGED <<open, scopes, loopDepth, loopOrSwitchDepth>>

\* checkCallExpr of a method of an array or string, behind its receiver: n,
\* the argument, is not looked at, or whether there is one (None).
SemaBuiltin(n) ==
  /\ Analysing
  /\ Write([op |-> "builtin", use |-> n], 1)
  /\ UNCHANGED <<open, scopes, loopDepth, loopOrSwitchDepth>>

\* checkIdentifier of a field of an object of class c
SemaField(c, n) ==
  /\ Analysing /\ ~Unseen
  /\ IF CheckField(c, n, ClassOf(Current))
     THEN /\ Write([op |-> "field", of |-> c], 1)
          /\ UNCHANGED <<open, scopes, loopDepth, loopOrSwitchDepth>>
     ELSE Reject

SemaEnd ==
  /\ pass = "sema" /\ work = <<>>
  /\ pass' = "codegen"
  /\ work' = CodegenWork
  /\ functions' =
       LET key(d) == Mangled(<<"func", d, 0>>)
           named(name) == {d \in Defs("func") : key(d) = name}
       IN  [name \in {key(d) : d \in Defs("func")} |->
              <<"func", Max(named(name)), 0>>]
  /\ UNCHANGED <<program, words, bodies, left, at, open, scopes, jumps,
                 layouts, made>>

-----------------------------------------------------------------------------
(* The code generator *)

Abort ==
  /\ pass' = "abort"
  /\ made' = {}
  /\ UNCHANGED <<program, words, bodies, left, work, at, open, scopes, jumps,
                 emitted>>

\* genIdentExpr: a dotted name is taken for a field of a variable, and
\* SymbolTable::get aborts on a name it does not have.
Missing(s, n) == n # None /\ (n \in Dotted \/ ~Exists(s, n))

\* How the name n, which the analyser bound to `want', is resolved in s.
Resolved(s, n, want, how) ==
  IF None \in {n, want} THEN {}
  ELSE {[is |-> "use", want |-> want, got |-> Get(s, n).decl,
         reg |-> Get(s, n).reg, how |-> how]}

\* genClassDecl up to the methods: the layout
GenClass ==
  /\ pass = "codegen" /\ Current[1] = "class"
  /\ layouts' = layouts \cup {program[Current[2]].name}
  /\ work' = Tail(work)
  /\ made' = {}
  /\ UNCHANGED <<program, words, bodies, left, pass, at, open, scopes, jumps,
                 functions>>

\* A global variable or enum gets its register.
GenGlobal ==
  /\ pass = "codegen" /\ Current[1] \in {"var", "enum"}
  /\ scopes' = [scopes EXCEPT ![1][program[Current[2]].name].reg = TRUE]
  /\ work' = Tail(work)
  /\ made' = {}
  /\ UNCHANGED <<program, words, bodies, left, pass, at, open, jumps, emitted>>

\* genFuncDef, and the loop over a class's methods: a method is registered
\* just before its body is generated.
GenEnter ==
  /\ pass = "codegen" /\ at = 0 /\ IsBody(Current)
  /\ at' = 1
  /\ functions' = IF Current[1] = "method"
                  THEN With(functions, Mangled(Current), Current)
                  ELSE functions
  /\ scopes' = Append(scopes, BodyScope(Current, GenFields(Current), TRUE))
  /\ made' = {}
  /\ UNCHANGED <<program, words, bodies, left, pass, work, open, jumps,
                 layouts>>

GenLeave ==
  /\ pass = "codegen" /\ InBody /\ at > Len(bodies[Current])
  /\ at' = 0
  /\ scopes' = PopScope(scopes)
  /\ work' = Tail(work)
  /\ made' = {}
  /\ UNCHANGED <<program, words, bodies, left, pass, open, jumps, emitted>>

\* The next statement, when it is an op.
Item == bodies[Current][at]
Generating(op) ==
  /\ pass = "codegen" /\ InBody /\ at <= Len(bodies[Current])
  /\ Item.op = op
Done == /\ at' = at + 1
        /\ UNCHANGED <<program, words, bodies, left, pass, work, emitted>>

GenUse ==
  /\ Generating("use")
  /\ IF Missing(scopes, Item.use) THEN Abort
     ELSE /\ Done
          /\ made' = Resolved(scopes, Item.use, Item.bound, "plain")
          /\ UNCHANGED <<open, scopes, jumps>>

\* genVarDecl, genArrayDecl: the name before its initialiser.
GenDecl ==
  /\ Generating("decl")
  /\ LET s == Add(scopes, Item.name, Local, TRUE)
     IN  IF Missing(s, Item.use) THEN Abort
         ELSE /\ Done
              /\ scopes' = s
              /\ made' = Resolved(s, Item.use, Item.bound, "initialiser")
              /\ UNCHANGED <<open, jumps>>

\* A construct with one scope: genBlock, with the labels put in front of it.
GenOpen(kind, breaks, continues) ==
  /\ Generating(kind) /\ Done
  /\ open' = Opened(kind)
  /\ scopes' = PushScope(scopes)
  /\ breakTracker' = breakTracker \o breaks
  /\ continueTracker' = continueTracker \o continues
  /\ made' = {}
  /\ UNCHANGED <<loopDepth, loopOrSwitchDepth>>

\* genIfStmt, genBlock as a statement, genWhileStmt and genDoWhileStmt, and
\* genSwitchStmt up to the first case
GenIf == GenOpen("if", <<>>, <<>>)
GenStray == GenOpen("stray", <<>>, <<>>)
GenWhile == GenOpen("while", <<at>>, <<at>>)
GenSwitch == GenOpen("switch", <<at>>, <<>>)

\* A loop with a variable: the variable comes first.
GenLoop(kind) ==
  /\ Generating(kind)
  /\ LET s == Add(PushScope(scopes), Item.name, Local, TRUE)
     IN  IF Missing(s, Item.use) THEN Abort
         ELSE /\ Done
              /\ open' = Opened(kind)
              /\ scopes' = PushScope(s)
              /\ breakTracker' = Append(breakTracker, at)
              /\ continueTracker' = Append(continueTracker, at)
              /\ made' = Resolved(s, Item.use, Item.bound, "initialiser")
              /\ UNCHANGED <<loopDepth, loopOrSwitchDepth>>

\* genForStmt and genForInStmt
GenFor == GenLoop("for")
GenForIn == GenLoop("forin")

GenCase ==
  /\ Generating("case") /\ Done
  /\ scopes' = PushScope(PopScope(scopes))
  /\ made' = {}
  /\ UNCHANGED <<open, jumps>>

\* Mutant: what a for updates is generated in the scope of its body.
BugUpdateInBody ==
  /\ Generating("close") /\ Done
  /\ LET last == Last(open)
     IN  /\ open' = Front(open)
         /\ scopes' = Drop(scopes, Scopes(last.kind))
         /\ breakTracker' = IF last.kind \in Loops \cup {"switch"}
                            THEN Front(breakTracker) ELSE breakTracker
         /\ continueTracker' = IF last.kind \in Loops
                               THEN Front(continueTracker) ELSE continueTracker
         /\ made' = IF last.kind # "for" \/ Unseen THEN {}
                    ELSE LET n == bodies[Current][last.pos].name
                         IN  Resolved(scopes, n, <<"local", last.pos, 0>>,
                                      "update")
  /\ UNCHANGED <<loopDepth, loopOrSwitchDepth>>

\* Mutant: a switch leaves its label on the tracker.
BugTrackerKept ==
  /\ Generating("close") /\ Done
  /\ LET last == Last(open)
     IN  /\ open' = Front(open)
         /\ scopes' = Drop(scopes, Scopes(last.kind))
         /\ breakTracker' = IF last.kind \in Loops
                            THEN Front(breakTracker) ELSE breakTracker
         /\ continueTracker' = IF last.kind \in Loops
                               THEN Front(continueTracker) ELSE continueTracker
         /\ made' = {}
  /\ UNCHANGED <<loopDepth, loopOrSwitchDepth>>

\* Mutant: the scope that holds a loop's variable stays.
BugForScopeKept ==
  /\ Generating("close") /\ Done
  /\ LET last == Last(open)
     IN  /\ open' = Front(open)
         /\ scopes' = PopScope(scopes)
         /\ breakTracker' = IF last.kind \in Loops \cup {"switch"}
                            THEN Front(breakTracker) ELSE breakTracker
         /\ continueTracker' = IF last.kind \in Loops
                               THEN Front(continueTracker) ELSE continueTracker
         /\ made' = {}
  /\ UNCHANGED <<loopDepth, loopOrSwitchDepth>>

\* The end of a construct; a for updates its variable behind its body.
GenClose ==
  /\ Generating("close") /\ Done
  /\ LET last == Last(open)
         outer == Drop(scopes, Scopes(last.kind) - 1)
     IN  /\ open' = Front(open)
         /\ scopes' = Drop(scopes, Scopes(last.kind))
         /\ breakTracker' = IF last.kind \in Loops \cup {"switch"}
                            THEN Front(breakTracker) ELSE breakTracker
         /\ continueTracker' = IF last.kind \in Loops
                               THEN Front(continueTracker) ELSE continueTracker
         /\ made' = IF last.kind # "for" \/ Unseen THEN {}
                    ELSE LET n == bodies[Current][last.pos].name
                         IN  Resolved(outer, n, <<"local", last.pos, 0>>,
                                      "update")
  /\ UNCHANGED <<loopDepth, loopOrSwitchDepth>>

\* genBreakStmt and genContinueStmt: nothing is emitted outside a loop.
GenJump ==
  /\ Generating("jump") /\ Done
  /\ LET tracker == IF Item.kind = "break" THEN breakTracker
                    ELSE continueTracker
         kinds == IF Item.kind = "break" THEN Loops \cup {"switch"} ELSE Loops
         k == SelectLastInSeq(open, LAMBDA o : o.kind \in kinds)
     IN  made' = {[is |-> "jump",
                   want |-> IF k = 0 THEN 0 ELSE open[k].pos,
                   got |-> IF tracker = <<>> THEN 0 ELSE Last(tracker)]}
  /\ UNCHANGED <<open, scopes, jumps>>

\* genCallExpr of push, insert, remove and substr: their arguments, in front
\* of an access beyond the last one that there is.
GenBuiltin ==
  /\ Generating("builtin")
  /\ \/ /\ Item.use = None \/ Missing(scopes, Item.use)
        /\ Abort
     \/ /\ ~Missing(scopes, Item.use)
        /\ Done
        /\ made' = {}
        /\ UNCHANGED <<open, scopes, jumps>>

\* genFieldChainFromAddress: classLayouts.at throws.
GenField ==
  /\ Generating("field")
  /\ IF Item.of \notin layouts THEN Abort
     ELSE /\ Done
          /\ made' = {}
          /\ UNCHANGED <<open, scopes, jumps>>

\* The fields of class c that have initialisers, each generated where the
\* `new' stands.
Initialised(c) ==
  {f \in UNION {FieldDefs(k) : k \in Range(Lineage(c))} : f.init # None}

GenCallOrNew ==
  /\ Generating("call")
  /\ LET new == Item.name = Ctor
         from == ClassOf(Current)
         inits == IF new /\ Item.to \in layouts THEN Initialised(Item.to)
                  ELSE {}
         types == Types(Item.bound)
         got == CASE new -> GenNew(Item.to, Item.bound)
                  [] Item.to = "super" -> GenSuper(Item.name, types, from)
                  [] OTHER -> GenCall(Item.to, Item.name, types, from)
     IN  IF \E f \in inits : Missing(scopes, f.init) THEN Abort
         ELSE /\ Done
              /\ made' =
                   {[is |-> "call", to |-> Item.to, want |-> Item.bound,
                     got |-> got]}
                   \cup UNION {Resolved(scopes, f.init,
                                         scopes[1][f.init].decl, "field") :
                                 f \in {g \in inits : ~g.array}}
              /\ UNCHANGED <<open, scopes, jumps>>

GenEnd ==
  /\ pass = "codegen" /\ work = <<>>
  /\ pass' = "done"
  /\ made' = {}
  /\ UNCHANGED <<program, words, bodies, left, work, at, open, scopes, jumps,
                 emitted>>

Uses == words.names \cup Dotted
Operand(n) == {None, n} \cup Dotted
Next ==
  \/ CollectGlobals
  \/ /\ work # <<>>
     /\ \/ SemaVar \/ SemaClass \/ SemaEnter \/ SemaLeave
        \/ \E n \in Uses : SemaUse(n)
        \/ \E n \in words.names : \E u \in Operand(n) : SemaDecl(n, u)
        \/ SemaIf \/ SemaStray \/ SemaWhile \/ SemaSwitch
        \/ \E n \in words.names : \E u \in Operand(n) : SemaFor(n, u)
        \/ \E n, u \in words.names : SemaForIn(n, u)
        \/ SemaCase \/ SemaClose
        \/ \E kind \in {"break", "continue"} : SemaJump(kind)
        \/ \E u \in {None} \cup Uses : SemaReturn(u)
        \/ \E call \in words.calls : SemaCall(call[1], call[2], call[3])
        \/ \E n \in words.args : SemaBuiltin(n)
        \/ \E field \in words.fields : SemaField(field[1], field[2])
        \/ GenClass \/ GenGlobal \/ GenEnter \/ GenLeave
        \/ GenUse \/ GenDecl \/ GenIf \/ GenStray \/ GenWhile \/ GenSwitch
        \/ GenFor \/ GenForIn \/ GenCase \/ GenClose \/ GenJump
        \/ GenCallOrNew \/ GenBuiltin \/ GenField
  \/ SemaEnd
  \/ GenEnd

Spec == Init /\ [][Next]_vars

-----------------------------------------------------------------------------
(***************************************************************************)
(* Properties                                                              *)
(***************************************************************************)
Decl == {"global", "param", "field", "local"}
TypeOK ==
  /\ \E p \in Programs : program = p.defs /\ left \in 0..p.items
  /\ pass \in {"collect", "sema", "codegen", "done", "rejected", "abort"}
  /\ at > 0 => pass = "abort" \/ at <= Len(bodies[Current]) + 1
  /\ \A k \in 1..Len(scopes) : \A n \in DOMAIN scopes[k] :
       scopes[k][n].decl[1] \in Decl /\ scopes[k][n].reg \in BOOLEAN
  /\ loopDepth \in 0..loopOrSwitchDepth /\ loopOrSwitchDepth <= Len(open)
  /\ Len(continueTracker) <= Len(breakTracker)
  /\ \A name \in DOMAIN functions : Mangled(functions[name]) = name
  /\ layouts \subseteq Classes

\* The generator reads the declaration the analyser checked, except in the
\* three places where it has another idea of the scopes: the initialiser of a
\* declaration and the head of a loop that name the variable itself, a method
\* that finds an inherited field, and a field's initialiser, which is
\* generated in the scopes of each `new' of the class.  And that declaration
\* has a register by then, but for global variables in functions and methods:
\* those are generated before the globals.
NamesAgree ==
  \A use \in {m \in made : m.is = "use"} :
    /\ \/ use.got = use.want
       \/ use.how = "initialiser" /\ use.got = <<"local", at - 1, 0>>
       \/ use.got[1] = "field" /\ use.got[3] # ClassOf(Current)
       \/ use.how = "field"
    /\ ~use.reg => use.got[1] = "global" /\ Current # Run

\* A call reaches the function or constructor the analyser chose, by
\* promotion, overriding and inheritance, unless that one is a method still to
\* be generated, or there is an overload that differs only in what its arrays
\* hold: that one is emitted under the same name, or for a class nearer by.
CallsMeetTarget ==
  \A call \in {m \in made : m.is = "call"} :
    \/ call.got = call.want
    \/ call.want \in Range(Tail(work)) \/ call.to \in Classes \ layouts
    \/ /\ call.got # NoBody /\ Types(call.got) # Types(call.want)
       /\ \A i \in {2, 3} : Mangled(call.got)[i] = Mangled(call.want)[i]

\* A break or continue goes to the innermost loop or switch around it, and has
\* one to go to wherever the analyser looked.
JumpsMeetTarget ==
  \A jump \in {m \in made : m.is = "jump"} :
    /\ jump.got = jump.want
    /\ jump.got = 0 => Unseen

\* The constructs open as far as the pass has scopes for them: the analyser has
\* none for a block it does not see and what is in it.
Seen ==
  IF pass = "sema"
  THEN {k \in 1..Len(open) : \A j \in 1..k : open[j].kind # "stray"}
  ELSE 1..Len(open)

\* In both passes the scopes and the loops' bookkeeping follow the constructs
\* that are open, and nothing of a body is left behind it.
ScopesMatch ==
  /\ Len(scopes) = (IF at > 0 THEN 2 ELSE 1) + Cardinality(Seen)
                     + Cardinality({k \in Seen : Scopes(open[k].kind) = 2})
  /\ at = 0 => /\ open = <<>> /\ loopOrSwitchDepth = 0
               /\ breakTracker = <<>> /\ continueTracker = <<>>

\* The compiler aborts on an accepted program only at an enum member, at a name
\* or a lack of one that the analyser did not look at (in a block it does not
\* see, in a call of a method of an array or string, in the initialiser of an
\* array that is a field), and at a field of an object whose class is still to
\* be generated.
AbortsUnseen ==
  pass = "abort" =>
    \/ Unseen
    \/ Item.op \in {"use", "decl", "for", "forin"} /\ Item.use \in Dotted
    \/ /\ Item.op = "builtin"
       /\ Item.use = None \/ Missing(scopes, Item.use)
    \/ /\ Item.op = "call"
       /\ \E f \in Initialised(Item.to) :
            Missing(scopes, f.init) /\ (f.array \/ f.init \in Dotted)
    \/ /\ Item.op = "field"
       /\ \E d \in Defs("class") :
            program[d].name = Item.of /\ <<"class", d, 0>> \in Range(work)
=============================================================================
