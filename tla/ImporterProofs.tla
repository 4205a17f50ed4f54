--------------------------- MODULE ImporterProofs ---------------------------
(***************************************************************************)
(* Proofs about Importer for any modules, prelude and imports, cyclic ones *)
(* included: no file is loaded twice and no file that was reached is lost; *)
(* the globals of two files get two names, the standard files' apart; and  *)
(* references find what they mean while no module has two importers.       *)
(***************************************************************************)
EXTENDS Importer, FiniteSetTheorems, SequenceTheorems, TLAPS

Refs == UNION {[S -> Name] : S \in SUBSET Module}
Global == [file : File, name : Name, self : Name, refs : Refs]
Call ==
  [file : File \cup {Main}, mod : Module \cup {"main"}, open : BOOLEAN,
   todo : SUBSET Module, globals : SUBSET Global]

Depth == 1..Len(stack)

\* The calls in progress: main's at the bottom, above it one for each module
\* that has been entered and not finished.
Calls ==
  /\ stack \in Seq(Call) /\ stack # <<>>
  /\ stack[1].file = Main
  /\ \A k \in Depth : k > 1 => /\ stack[k].file \in importedFiles
                               /\ stack[k].mod \in Module
  /\ \A k \in Depth : stack[k].todo \subseteq imports[stack[k].file]

Inputs ==
  /\ imports \in [File \cup {Main} -> SUBSET Module]
  /\ malformed \subseteq File
  /\ importedFiles \subseteq File
  /\ prelude \in Seq(Module)
  /\ status \in {"loading", "done", "ERROR501", "syntax"}

\* A file in importedFiles is in one place: a call in progress, or a global
\* that one call holds.
OnePlace ==
  /\ \A j, k \in Depth : stack[j].file = stack[k].file => j = k
  /\ \A j, k \in Depth : \A g \in stack[j].globals : g.file # stack[k].file
  /\ \A j, k \in Depth : \A g \in stack[j].globals, h \in stack[k].globals :
       g.file = h.file => g = h /\ j = k
  /\ \A k \in Depth : \A g \in stack[k].globals : g.file \in importedFiles

SomePlace ==
  \A f \in importedFiles :
    \/ \E k \in Depth : k > 1 /\ stack[k].file = f
    \/ \E k \in Depth : \E g \in stack[k].globals : g.file = f

AllDone ==
  status = "done" => Len(stack) = 1

IInv == Inputs /\ Calls /\ OnePlace /\ SomePlace /\ AllDone

-----------------------------------------------------------------------------
(***************************************************************************)
(* The operators.                                                          *)
(***************************************************************************)

\* No module of the program's or of the library is the program itself, and
\* none is the file that was not found.
LEMMA FilesDiffer == Main \notin File /\ NoFile \notin File
BY DEF Main, NoFile, File, UserFile, StdFile

LEMMA ResolvedFile == \A m \in Module : ResolvePath(m) \in File \cup {NoFile}
BY DEF ResolvePath, File, UserFile, StdFile

\* Renaming keeps the file of every global and makes none of two or two of one.
LEMMA MangleKeepsFiles ==
  ASSUME NEW mod \in Module, NEW globals \in SUBSET Global
  PROVE  /\ Mangle(mod, globals) \in SUBSET Global
         /\ \A h \in Mangle(mod, globals) : \E g \in globals : g.file = h.file
         /\ \A g \in globals : \E h \in Mangle(mod, globals) : g.file = h.file
         /\ (\A g, h \in globals : g.file = h.file => g = h) =>
              \A g, h \in Mangle(mod, globals) : g.file = h.file => g = h
<1> DEFINE names == {g.name : g \in globals}
           mangled(n) == IF n \in names THEN <<mod>> \o n ELSE n
           new(g) == [g EXCEPT !.name = mangled(@), !.self = mangled(@),
                               !.refs = [m \in DOMAIN @ |-> mangled(@[m])]]
<1>1. Mangle(mod, globals) = {new(g) : g \in globals}
  BY DEF Mangle
<1>2. ASSUME NEW n \in Name PROVE mangled(n) \in Name
  <2>1. <<mod>> \o n \in Name
    BY <1>2 DEF Name
  <2> QED BY <2>1, <1>2
<1>3. ASSUME NEW g \in globals PROVE new(g) \in Global /\ new(g).file = g.file
  <2>1. g \in Global
    BY <1>3
  <2>2. PICK S \in SUBSET Module : g.refs \in [S -> Name]
    BY <2>1 DEF Global, Refs
  <2>3. [m \in DOMAIN g.refs |-> mangled(g.refs[m])] \in [S -> Name]
    <3>1. \A m \in S : mangled(g.refs[m]) \in Name
      BY <2>2, <1>2
    <3> HIDE DEF mangled
    <3> QED BY <3>1, <2>2
  <2>4. [m \in DOMAIN g.refs |-> mangled(g.refs[m])] \in Refs
    BY <2>3 DEF Refs
  <2>5. mangled(g.name) \in Name /\ mangled(g.self) \in Name
    BY <2>1, <1>2 DEF Global
  <2> HIDE DEF mangled
  <2> QED BY <2>1, <2>4, <2>5 DEF Global
<1> HIDE DEF new
<1> QED BY <1>1, <1>3

\* A module's globals as it hands them on.
LEMMA ParsedGlobal ==
  ASSUME Inputs, NEW file \in File
  PROVE  Parsed(file) \in Global /\ Parsed(file).file = file
<1>1. <<>> \in Name /\ \A m \in Module : <<m>> \in Name
  BY DEF Name
<1>2. imports[file] \in SUBSET Module
  BY DEF Inputs
<1>3. [m \in imports[file] |-> <<m>>] \in [imports[file] -> Name]
  BY <1>1, <1>2
<1>4. [m \in imports[file] |-> <<m>>] \in Refs
  BY <1>2, <1>3 DEF Refs
<1> QED BY <1>1, <1>4 DEF Parsed, Global

-----------------------------------------------------------------------------
(***************************************************************************)
(* The invariant.                                                          *)
(***************************************************************************)

LEMMA InitInvariant == Init => IInv
<1> SUFFICES ASSUME Init PROVE IInv
  OBVIOUS
<1>1. Inputs
  <2>1. imports \in [File \cup {Main} -> SUBSET Module]
    BY DEF Init
  <2>2. malformed \subseteq File
    BY DEF Init, File
  <2> QED BY <2>1, <2>2, ModuleAssumption DEF Init, Inputs
<1>2. /\ stack \in Seq(Call) /\ Len(stack) = 1 /\ stack[1].file = Main
      /\ stack[1].globals = {} /\ stack[1].todo = imports[Main]
  BY <1>1 DEF Init, Inputs, Frame, Call
<1>3. Calls
  <2>1. Depth = {1} /\ stack # <<>>
    <3>1. Depth = 1..1
      BY <1>2 DEF Depth
    <3>2. Depth = {1}
      BY <3>1
    <3>3. stack = <<Frame(Main, "main", TRUE, imports[Main])>>
      BY DEF Init
    <3>4. stack # <<>>
      BY <3>3
    <3> QED BY <3>2, <3>4
  <2>2. stack[1].file = Main /\ stack[1].todo \subseteq imports[stack[1].file]
    BY <1>2
  <2> QED BY <2>1, <2>2, <1>2 DEF Calls
<1>4. OnePlace
  BY <1>2 DEF OnePlace, Depth
<1>5. SomePlace
  BY DEF Init, SomePlace
<1> QED BY <1>1, <1>3, <1>4, <1>5 DEF IInv, AllDone, Init

\* The call of loadModule: a file that is not in importedFiles is in no place
\* yet, and gets its own call.
LEMMA LoadInvariant ==
  ASSUME IInv, status = "loading",
         NEW m \in Module, NEW file \in File \cup {NoFile},
         NEW open \in BOOLEAN, NEW todo \in SUBSET Top.todo,
         LoadModule(m, file, open, [Top EXCEPT !.todo = todo]),
         UNCHANGED <<imports, malformed>>, prelude' \in Seq(Module)
  PROVE  IInv'
<1> DEFINE n == Len(stack)
           caller == [Top EXCEPT !.todo = todo]
           back == [stack EXCEPT ![n] = caller]
           entered == Frame(file, m, open, imports[file])
<1>1. /\ n \in Nat \ {0} /\ n \in Depth /\ stack \in Seq(Call)
      /\ \A k \in Depth : stack[k] \in Call
  BY DEF IInv, Calls, Depth
<1>2. /\ caller \in Call /\ caller.file = stack[n].file
      /\ caller.mod = stack[n].mod /\ caller.globals = stack[n].globals
      /\ caller.todo = todo /\ todo \subseteq stack[n].todo
  BY <1>1 DEF Top, Call
<1> HIDE DEF caller
<1>3. /\ back \in Seq(Call) /\ Len(back) = n
      /\ \A k \in Depth : /\ back[k].file = stack[k].file
                          /\ back[k].mod = stack[k].mod
                          /\ back[k].globals = stack[k].globals
                          /\ back[k].todo \subseteq stack[k].todo
  BY <1>1, <1>2 DEF Depth
<1> HIDE DEF back
<1>4. CASE UNCHANGED <<importedFiles, stack>> /\ status' \in {"ERROR501", "syntax"}
  BY <1>4 DEF IInv, Inputs, Calls, OnePlace, SomePlace, AllDone, Depth
<1>5. CASE stack' = back /\ UNCHANGED <<importedFiles, status>>
  <2>1. Depth' = Depth
    BY <1>3, <1>5 DEF Depth
  <2>2. Inputs'
    BY <1>5 DEF IInv, Inputs
  <2>3. Calls'
    <3>1. stack' # <<>> /\ 1 \in Depth
      BY <1>1, <1>3, <1>5 DEF Depth
    <3> QED BY <2>1, <3>1, <1>3, <1>5 DEF IInv, Calls
  <2>4. OnePlace'
    BY <2>1, <1>3, <1>5, SMTT(20) DEF IInv, OnePlace
  <2>5. SomePlace'
    BY <2>1, <1>3, <1>5 DEF IInv, SomePlace
  <2>6. AllDone'
    BY <1>3, <1>5 DEF IInv, AllDone
  <2> QED BY <2>2, <2>3, <2>4, <2>5, <2>6 DEF IInv
<1>6. CASE /\ file \in File /\ file \notin importedFiles
           /\ importedFiles' = importedFiles \cup {file}
           /\ stack' = Append(back, entered)
           /\ UNCHANGED status
  <2>1. /\ entered \in Call /\ entered.file = file /\ entered.mod = m
        /\ entered.globals = {} /\ entered.todo = imports[file]
    BY <1>6 DEF IInv, Inputs, Frame, Call
  <2> HIDE DEF entered
  <2>2. /\ stack' \in Seq(Call) /\ Len(stack') = n + 1
        /\ \A k \in Depth : stack'[k] = back[k]
        /\ stack'[n + 1] = entered
    BY <2>1, <1>1, <1>3, <1>6 DEF Depth
  <2>3. /\ Depth' = Depth \cup {n + 1} /\ n + 1 \notin Depth
        /\ 1 \in Depth /\ n + 1 > 1
    BY <2>2, <1>1 DEF Depth
  <2>3a. \A k \in Depth : /\ stack'[k].file = stack[k].file
                          /\ stack'[k].mod = stack[k].mod
                          /\ stack'[k].globals = stack[k].globals
                          /\ stack'[k].todo \subseteq stack[k].todo
    BY <2>2, <1>3
  <2>4. file # Main
    BY FilesDiffer, <1>6
  <2>5. Inputs'
    BY <1>6 DEF IInv, Inputs
  <2>6. Calls'
    <3>1. stack' # <<>> /\ stack'[1].file = Main
      BY <2>2, <2>3, <1>1, <1>3 DEF IInv, Calls
    <3>2. ASSUME NEW k \in Depth', k > 1
          PROVE  stack'[k].file \in importedFiles' /\ stack'[k].mod \in Module
      <4>1. CASE k \in Depth
        BY <4>1, <3>2, <2>3a, <1>6 DEF IInv, Calls
      <4>2. CASE k = n + 1
        BY <4>2, <2>1, <2>2, <1>6
      <4> QED BY <4>1, <4>2, <2>3
    <3>3. ASSUME NEW k \in Depth'
          PROVE  stack'[k].todo \subseteq imports'[stack'[k].file]
      <4>1. CASE k \in Depth
        BY <4>1, <2>3a DEF IInv, Calls
      <4>2. CASE k = n + 1
        BY <4>2, <2>1, <2>2
      <4> QED BY <4>1, <4>2, <2>3
    <3> QED BY <3>1, <3>2, <3>3, <2>2 DEF Calls
  <2>7. \A k \in Depth : stack[k].file # file
    BY <1>6, <2>4, <1>1 DEF IInv, Calls, Depth
  <2>8. OnePlace'
    <3>1. /\ stack'[n + 1].file = file /\ stack'[n + 1].globals = {}
          /\ \A k \in Depth : \A g \in stack'[k].globals : g.file # file
      BY <2>1, <2>2, <2>3a, <1>6, ZenonT(40) DEF IInv, OnePlace
    <3>2. \A j, k \in Depth' : stack'[j].file = stack'[k].file => j = k
      BY <3>1, <2>3, <2>7, <2>3a DEF IInv, OnePlace
    <3>3. \A j, k \in Depth' : \A g \in stack'[j].globals :
            g.file # stack'[k].file
      BY <3>1, <2>3, <2>3a DEF IInv, OnePlace
    <3>4. \A j, k \in Depth' :
            \A g \in stack'[j].globals, h \in stack'[k].globals :
              g.file = h.file => g = h /\ j = k
      BY <3>1, <2>3, <2>3a DEF IInv, OnePlace
    <3>5. \A k \in Depth' : \A g \in stack'[k].globals :
            g.file \in importedFiles'
      BY <3>1, <2>3, <2>3a, <1>6 DEF IInv, OnePlace
    <3> QED BY <3>2, <3>3, <3>4, <3>5 DEF OnePlace
  <2>9. SomePlace'
    <3>1. ASSUME NEW f \in importedFiles'
          PROVE  \/ \E k \in Depth' : k > 1 /\ stack'[k].file = f
                 \/ \E k \in Depth' : \E g \in stack'[k].globals : g.file = f
      <4>1. CASE f = file
        BY <4>1, <2>1, <2>2, <2>3
      <4>2. CASE f \in importedFiles
        <5>1. \/ \E k \in Depth : k > 1 /\ stack[k].file = f
              \/ \E k \in Depth : \E g \in stack[k].globals : g.file = f
          BY <4>2 DEF IInv, SomePlace
        <5>2. CASE \E k \in Depth : k > 1 /\ stack[k].file = f
          BY <5>2, <2>3, <2>3a
        <5>3. CASE \E k \in Depth : \E g \in stack[k].globals : g.file = f
          BY <5>3, <2>3, <2>3a
        <5> QED BY <5>1, <5>2, <5>3
      <4> QED BY <4>1, <4>2, <1>6
    <3> QED BY <3>1 DEF SomePlace
  <2>10. AllDone'
    BY <1>6 DEF AllDone
  <2> QED BY <2>5, <2>6, <2>8, <2>9, <2>10 DEF IInv
<1>7. LoadModule(m, file, open, caller)
  BY DEF caller
<1> QED BY <1>4, <1>5, <1>6, <1>7 DEF LoadModule, Exit, back

\* The return from loadModule: a module's own globals and those it holds move
\* to the call below, and the place of its file moves with them.
LEMMA LoadedInvariant == IInv /\ ModuleLoaded => IInv'
<1> SUFFICES ASSUME IInv, ModuleLoaded PROVE IInv'
  OBVIOUS
<1> DEFINE n == Len(stack)
           globals == Top.globals \cup {Parsed(Top.file)}
           processed == IF Top.open THEN globals ELSE Mangle(Top.mod, globals)
<1>1. /\ n \in Nat /\ n > 1 /\ n - 1 \in Depth /\ n \in Depth
      /\ \A k \in Depth : stack[k] \in Call
      /\ UNCHANGED <<imports, malformed, importedFiles, prelude, status>>
  BY DEF IInv, Calls, Depth, ModuleLoaded
<1>2. /\ Top = stack[n] /\ Top.file \in importedFiles /\ Top.file \in File
      /\ Top.mod \in Module /\ Top.globals \in SUBSET Global
  BY <1>1 DEF Top, IInv, Calls, Inputs, Call
<1>3. Parsed(Top.file) \in Global /\ Parsed(Top.file).file = Top.file
  BY <1>2, ParsedGlobal DEF IInv
<1>4. /\ globals \in SUBSET Global
      /\ \A g, h \in globals : g.file = h.file => g = h
  BY <1>1, <1>2, <1>3 DEF IInv, OnePlace
<1>5. /\ processed \in SUBSET Global
      /\ \A h \in processed : \E g \in globals : g.file = h.file
      /\ \A g \in globals : \E h \in processed : g.file = h.file
      /\ \A g, h \in processed : g.file = h.file => g = h
  <2> HIDE DEF globals
  <2>1. CASE Top.open
    <3>1. processed = globals
      BY <2>1
    <3> HIDE DEF processed
    <3> QED BY <3>1, <1>4
  <2>2. CASE ~Top.open
    <3> DEFINE mangled == Mangle(Top.mod, globals)
    <3>1. processed = mangled
      BY <2>2
    <3>2. /\ mangled \in SUBSET Global
          /\ \A h \in mangled : \E g \in globals : g.file = h.file
          /\ \A g \in globals : \E h \in mangled : g.file = h.file
          /\ (\A g, h \in globals : g.file = h.file => g = h) =>
               \A g, h \in mangled : g.file = h.file => g = h
      BY <1>2, <1>4, MangleKeepsFiles
    <3> HIDE DEF processed, mangled
    <3> QED BY <3>1, <3>2, <1>4
  <2> QED BY <2>1, <2>2
<1>6. stack' = [k \in 1..(n - 1) |->
                 IF k = n - 1
                 THEN [stack[k] EXCEPT !.globals = @ \cup processed]
                 ELSE stack[k]]
  BY DEF ModuleLoaded
<1>7. /\ \A h \in processed : \/ h.file = stack[n].file
                              \/ \E g \in stack[n].globals : g.file = h.file
      /\ \E h \in processed : h.file = stack[n].file
      /\ \A g \in stack[n].globals : \E h \in processed : h.file = g.file
  <2>1. /\ \A g \in globals : g.file = stack[n].file \/ g \in stack[n].globals
        /\ \E g \in globals : g.file = stack[n].file
        /\ stack[n].globals \subseteq globals
    BY <1>2, <1>3
  <2> HIDE DEF globals, processed
  <2> QED BY <2>1, <1>5
<1> HIDE DEF processed, globals
<1>8. /\ stack' \in Seq(Call) /\ Len(stack') = n - 1 /\ stack' # <<>>
      /\ Depth' = 1..(n - 1) /\ Depth' \subseteq Depth
      /\ Depth = Depth' \cup {n} /\ n \notin Depth' /\ n - 1 \in Depth'
  <2>1. \A k \in 1..(n - 1) :
          (IF k = n - 1
           THEN [stack[k] EXCEPT !.globals = @ \cup processed]
           ELSE stack[k]) \in Call
    BY <1>1, <1>5 DEF Call, Depth
  <2>2. stack' \in [1..(n - 1) -> Call]
    BY <2>1, <1>6
  <2>3. n - 1 \in Nat \ {0}
    BY <1>1
  <2>4. stack' \in Seq(Call) /\ Len(stack') = n - 1
    BY <2>2, <2>3
  <2>5. stack' # <<>>
    BY <2>3, <2>4
  <2> QED BY <2>4, <2>5, <1>1 DEF Depth
<1>9. \A k \in Depth' :
        /\ stack'[k].file = stack[k].file /\ stack'[k].mod = stack[k].mod
        /\ stack'[k].todo = stack[k].todo
        /\ stack[k].globals \subseteq stack'[k].globals
        /\ \A g \in stack'[k].globals :
             g \in stack[k].globals \/ (k = n - 1 /\ g \in processed)
  BY <1>1, <1>6, <1>8 DEF Call
<1>10. processed \subseteq stack'[n - 1].globals
  BY <1>1, <1>6, <1>8 DEF Call
<1>11. Inputs'
  BY <1>1 DEF IInv, Inputs
<1>12. Calls'
  BY <1>1, <1>8, <1>9, SMTT(20) DEF IInv, Calls
<1>13. OnePlace'
  <2>1. \A j, k \in Depth' : stack'[j].file = stack'[k].file => j = k
    BY <1>8, <1>9 DEF IInv, OnePlace
  <2>2. ASSUME NEW h \in processed, NEW k \in Depth'
        PROVE  /\ h.file # stack[k].file
               /\ \A g \in stack[k].globals : g.file # h.file
    <3>1. k # n /\ k \in Depth
      BY <1>8
    <3>2. CASE h.file = stack[n].file
      BY <3>1, <3>2, <1>1 DEF IInv, OnePlace
    <3>3. CASE \E g \in stack[n].globals : g.file = h.file
      BY <3>1, <3>3, <1>1 DEF IInv, OnePlace
    <3> QED BY <3>2, <3>3, <1>7
  <2>3. \A j, k \in Depth' : \A g \in stack'[j].globals :
          g.file # stack'[k].file
    BY <2>2, <1>8, <1>9 DEF IInv, OnePlace
  <2>4. ASSUME NEW j \in Depth', NEW k \in Depth',
               NEW g \in stack'[j].globals, NEW h \in stack'[k].globals,
               g.file = h.file
        PROVE  g = h /\ j = k
    <3>1. CASE g \in stack[j].globals /\ h \in stack[k].globals
      BY <3>1, <2>4, <1>8 DEF IInv, OnePlace
    <3>2. CASE j = n - 1 /\ k = n - 1 /\ g \in processed /\ h \in processed
      BY <3>2, <2>4, <1>5
    <3>3. CASE g \in stack[j].globals /\ h \in processed
      BY <3>3, <2>2, <2>4
    <3>4. CASE g \in processed /\ h \in stack[k].globals
      BY <3>4, <2>2, <2>4
    <3> QED BY <3>1, <3>2, <3>3, <3>4, <1>9
  <2>5. ASSUME NEW k \in Depth', NEW g \in stack'[k].globals
        PROVE  g.file \in importedFiles'
    <3>1. CASE g \in stack[k].globals
      BY <3>1, <1>1, <1>8 DEF IInv, OnePlace
    <3>2. CASE g \in processed
      BY <3>2, <1>1, <1>2, <1>7 DEF IInv, OnePlace
    <3> QED BY <3>1, <3>2, <1>9
  <2> QED BY <2>1, <2>3, <2>4, <2>5 DEF OnePlace
<1>14. SomePlace'
  <2>1. ASSUME NEW f \in importedFiles
        PROVE  \/ \E k \in Depth' : k > 1 /\ stack'[k].file = f
               \/ \E k \in Depth' : \E g \in stack'[k].globals : g.file = f
    <3>1. CASE f = stack[n].file \/ \E g \in stack[n].globals : g.file = f
      <4>1. PICK h \in processed : h.file = f
        BY <3>1, <1>7
      <4> QED BY <4>1, <1>8, <1>10
    <3>2. CASE \E k \in Depth' : k > 1 /\ stack[k].file = f
      BY <3>2, <1>9
    <3>3. CASE \E k \in Depth' : \E g \in stack[k].globals : g.file = f
      BY <3>3, <1>9
    <3> QED BY <3>1, <3>2, <3>3, <1>8 DEF IInv, SomePlace
  <2> QED BY <2>1, <1>1 DEF SomePlace
<1>15. AllDone'
  BY <1>1 DEF ModuleLoaded, AllDone
<1> QED BY <1>11, <1>12, <1>13, <1>14, <1>15 DEF IInv

LEMMA NextInvariant == IInv /\ [Next]_vars => IInv'
<1> SUFFICES ASSUME IInv, [Next]_vars PROVE IInv'
  OBVIOUS
<1>1. Len(stack) \in Depth /\ stack[Len(stack)] \in Call
  BY DEF IInv, Calls, Depth
<1>2. CASE LoadPrelude
  <2> DEFINE m == Head(prelude)
             file == IF m \in StdModule THEN <<"std", m>> ELSE NoFile
  <2>1. m \in Module /\ prelude' \in Seq(Module)
    BY <1>2 DEF LoadPrelude, IInv, Inputs
  <2>2. file \in File \cup {NoFile}
    BY DEF File, StdFile
  <2>3. [Top EXCEPT !.todo = Top.todo] = Top
    BY <1>1 DEF Top, Call
  <2>4. /\ status = "loading" /\ UNCHANGED <<imports, malformed>>
        /\ LoadModule(m, file, TRUE, Top)
    BY <1>2 DEF LoadPrelude
  <2> HIDE DEF m, file
  <2>5. LoadModule(m, file, TRUE, [Top EXCEPT !.todo = Top.todo])
    BY <2>3, <2>4
  <2>6. Top.todo \in SUBSET Top.todo
    OBVIOUS
  <2> QED BY <2>1, <2>2, <2>4, <2>5, <2>6, LoadInvariant
<1>3. ASSUME NEW m \in Module, ImportStmt(m) PROVE IInv'
  <2> DEFINE todo == Top.todo \ {m}
  <2>1. /\ status = "loading" /\ UNCHANGED <<imports, malformed, prelude>>
        /\ LoadModule(m, ResolvePath(m), FALSE,
                      [Top EXCEPT !.todo = Top.todo \ {m}])
    BY <1>3, <1>1 DEF ImportStmt, Top, Call
  <2>2. todo \in SUBSET Top.todo /\ prelude' \in Seq(Module)
    BY <2>1 DEF IInv, Inputs
  <2>3. LoadModule(m, ResolvePath(m), FALSE, [Top EXCEPT !.todo = todo])
    BY <2>1
  <2> HIDE DEF todo
  <2> QED BY <2>1, <2>2, <2>3, ResolvedFile, LoadInvariant
<1>4. CASE ModuleLoaded
  BY <1>4, LoadedInvariant
<1>5. CASE ImportsResolved
  <2>1. /\ Len(stack) = 1 /\ status' = "done"
        /\ UNCHANGED <<imports, malformed, importedFiles, prelude, stack>>
    BY <1>5 DEF ImportsResolved
  <2>2. Depth' = Depth
    BY <2>1 DEF Depth
  <2>3. Inputs' /\ AllDone'
    BY <2>1 DEF IInv, Inputs, AllDone
  <2>4. Calls' /\ OnePlace'
    BY <2>1, <2>2 DEF IInv, Calls, OnePlace
  <2>5. SomePlace'
    BY <2>1, <2>2 DEF IInv, SomePlace
  <2> QED BY <2>3, <2>4, <2>5 DEF IInv
<1>6. CASE UNCHANGED vars
  BY <1>6 DEF vars, IInv, Inputs, Calls, OnePlace, SomePlace, AllDone, Depth
<1> QED BY <1>2, <1>3, <1>4, <1>5, <1>6 DEF Next

-----------------------------------------------------------------------------
(***************************************************************************)
(* The theorems.                                                           *)
(***************************************************************************)

\* The inductive invariant of the importer: every file in importedFiles is in
\* exactly one place, a call in progress or the globals one call holds.
THEOREM ImporterInvariant == Spec => []IInv
BY InitInvariant, NextInvariant, PTL DEF Spec

\* Every variable of the importer keeps its type.
THEOREM ImporterTypeCorrect == Spec => []TypeOK
<1>1. IInv => TypeOK
  BY DEF IInv, Inputs, Calls, TypeOK, Depth
<1> QED BY <1>1, ImporterInvariant, PTL

\* No file is loaded a second time, whatever cycles the imports form.
THEOREM FilesLoadedOnce == Spec => []LoadedOnce
<1>1. IInv => LoadedOnce
  BY DEF IInv, OnePlace, LoadedOnce, Collected, Depth
<1> QED BY <1>1, ImporterInvariant, PTL

\* When the imports are resolved, the globals of every file in importedFiles
\* are in the program, and no others.
THEOREM NoFileLost == Spec => []NothingLost
<1>1. IInv => NothingLost
  <2> SUFFICES ASSUME IInv, status = "done"
               PROVE  {g.file : g \in Collected} = importedFiles
    BY DEF NothingLost
  <2>1. Len(stack) = 1
    BY DEF IInv, AllDone
  <2>2. \A k \in Depth : k = 1
    BY <2>1 DEF Depth
  <2>3. \A f \in importedFiles :
          \E k \in Depth : \E g \in stack[k].globals : g.file = f
    BY <2>2 DEF IInv, SomePlace
  <2>4. \A k \in Depth : \A g \in stack[k].globals : g.file \in importedFiles
    BY DEF IInv, OnePlace
  <2> QED BY <2>3, <2>4 DEF Collected, Depth
<1> QED BY <1>1, ImporterInvariant, PTL

-----------------------------------------------------------------------------
(***************************************************************************)
(* Names: what renaming gives, and where a name can come from.             *)
(***************************************************************************)

\* A qualified name is its first module and the rest.
LEMMA PrefixedName ==
  ASSUME NEW m \in Module
  PROVE  /\ \A s \in Name : /\ <<m>> \o s \in Name
                            /\ <<m>> \o s # <<>>
                            /\ Head(<<m>> \o s) = m
         /\ \A s, t \in Name : <<m>> \o s = <<m>> \o t => s = t
         /\ <<m>> \o <<>> = <<m>>
<1>1. <<m>> \in Seq(Module) /\ Len(<<m>>) = 1 /\ <<m>>[1] = m
  OBVIOUS
<1>2. ASSUME NEW s \in Name
      PROVE  /\ <<m>> \o s \in Name
             /\ Len(<<m>> \o s) = 1 + Len(s)
             /\ (<<m>> \o s)[1] = m
             /\ \A i \in 1..Len(s) : (<<m>> \o s)[i + 1] = s[i]
  <2>1. s \in Seq(Module) /\ Len(s) \in Nat
    BY <1>2, LenProperties DEF Name
  <2>2. /\ <<m>> \o s \in Seq(Module)
        /\ Len(<<m>> \o s) = Len(<<m>>) + Len(s)
        /\ \A i \in 1..(Len(<<m>>) + Len(s)) :
             (<<m>> \o s)[i] = IF i <= Len(<<m>>) THEN <<m>>[i]
                               ELSE s[i - Len(<<m>>)]
    BY <1>1, <2>1, ConcatProperties
  <2> DEFINE w == <<m>> \o s
  <2>3. w \in Name /\ Len(w) = 1 + Len(s)
        /\ \A i \in 1..(1 + Len(s)) : w[i] = IF i <= 1 THEN m ELSE s[i - 1]
    BY <1>1, <2>2 DEF Name
  <2> HIDE DEF w
  <2>4. w[1] = m /\ \A i \in 1..Len(s) : w[i + 1] = s[i]
    BY <2>1, <2>3
  <2> QED BY <2>3, <2>4 DEF w
<1>3. ASSUME NEW s \in Name
      PROVE  <<m>> \o s # <<>> /\ Head(<<m>> \o s) = m
  <2> DEFINE w == <<m>> \o s
  <2>1. w \in Seq(Module) /\ Len(w) = 1 + Len(s) /\ w[1] = m /\ Len(s) \in Nat
    BY <1>2, <1>3, LenProperties DEF Name
  <2> HIDE DEF w
  <2>2. w # <<>> /\ Head(w) = m
    BY <2>1
  <2> QED BY <2>2 DEF w
<1>4. ASSUME NEW s \in Name, NEW t \in Name, <<m>> \o s = <<m>> \o t
      PROVE  s = t
  <2>1. Len(s) \in Nat /\ Len(t) \in Nat /\ s \in Seq(Module) /\ t \in Seq(Module)
    BY LenProperties DEF Name
  <2>2. Len(s) = Len(t)
    BY <1>2, <1>4, <2>1
  <2>3. \A i \in 1..Len(s) : s[i] = t[i]
    BY <1>2, <1>4, <2>2
  <2> QED BY <2>1, <2>2, <2>3, SeqEqual
<1>5. <<m>> \o <<>> = <<m>>
  BY <1>1, ConcatEmptySeq
<1> QED BY <1>2, <1>3, <1>4, <1>5

\* Every name of a global is among those collected, so all are prefixed; a
\* reference is, when it names a global that was collected.
LEMMA MangledGlobals ==
  ASSUME NEW mod \in Module, NEW globals \in SUBSET Global
  PROVE  /\ \A h \in Mangle(mod, globals) : \E g \in globals :
              /\ h.file = g.file /\ h.name = <<mod>> \o g.name
              /\ g.self = g.name => h.self = h.name
              /\ DOMAIN h.refs = DOMAIN g.refs
              /\ \A m \in DOMAIN g.refs :
                   (\E x \in globals : x.name = g.refs[m]) =>
                     h.refs[m] = <<mod>> \o g.refs[m]
         /\ \A g \in globals : \E h \in Mangle(mod, globals) :
              h.file = g.file /\ h.name = <<mod>> \o g.name
<1> DEFINE names == {g.name : g \in globals}
           mangled(n) == IF n \in names THEN <<mod>> \o n ELSE n
           new(g) == [g EXCEPT !.name = mangled(@), !.self = mangled(@),
                               !.refs = [m \in DOMAIN @ |-> mangled(@[m])]]
<1>1. Mangle(mod, globals) = {new(g) : g \in globals}
  BY DEF Mangle
<1>2. ASSUME NEW g \in globals
      PROVE  /\ new(g).file = g.file
             /\ new(g).name = mangled(g.name) /\ new(g).self = mangled(g.self)
             /\ new(g).refs = [m \in DOMAIN g.refs |-> mangled(g.refs[m])]
  <2> HIDE DEF mangled
  <2>1. g \in Global
    OBVIOUS
  <2> QED BY <2>1 DEF Global
<1>3. \A g \in globals : mangled(g.name) = <<mod>> \o g.name
  OBVIOUS
<1>4. \A x \in globals : mangled(x.name) = <<mod>> \o x.name
  OBVIOUS
<1> HIDE DEF new, mangled
<1>5. ASSUME NEW g \in globals
      PROVE  /\ new(g).file = g.file /\ new(g).name = <<mod>> \o g.name
             /\ g.self = g.name => new(g).self = new(g).name
             /\ DOMAIN new(g).refs = DOMAIN g.refs
             /\ \A m \in DOMAIN g.refs :
                  (\E x \in globals : x.name = g.refs[m]) =>
                    new(g).refs[m] = <<mod>> \o g.refs[m]
  <2>1. /\ new(g).name = <<mod>> \o g.name
        /\ g.self = g.name => new(g).self = new(g).name
    BY <1>2, <1>3
  <2>2. DOMAIN new(g).refs = DOMAIN g.refs
    BY <1>2
  <2>3. ASSUME NEW m \in DOMAIN g.refs, NEW x \in globals,
               x.name = g.refs[m]
        PROVE  new(g).refs[m] = <<mod>> \o g.refs[m]
    <3>1. new(g).refs[m] = mangled(g.refs[m])
      BY <1>2
    <3>2. mangled(x.name) = <<mod>> \o x.name
      BY <1>4
    <3> QED BY <3>1, <3>2, <2>3
  <2> QED BY <1>2, <2>1, <2>2, <2>3
<1> QED BY <1>1, <1>5

\* The standard library imports nothing.
StdLeaves == \A f \in StdFile : imports[f] = {}

\* The call below is where a module was imported: the modules of the prelude,
\* which are open, by the program; every other one by an import taken off.
OpenCalls ==
  \A k \in Depth : k > 1 =>
    IF stack[k].open
    THEN k = 2 /\ stack[k].file \in StdFile
    ELSE /\ stack[k].mod \in imports[stack[k - 1].file] \ stack[k - 1].todo
         /\ stack[k].file = ResolvePath(stack[k].mod)

\* The call k is waiting for its import of m.
Loading(k, m) == k + 1 \in Depth /\ ~stack[k + 1].open /\ stack[k + 1].mod = m

\* The first module in a name is the import it came by, and one import brings
\* no name twice.
HeldNames ==
  /\ \A k \in Depth : \A g \in stack[k].globals :
       /\ g.name = <<>> => k = 1 /\ g.file \in StdFile
       /\ g.name # <<>> =>
            /\ Head(g.name) \in imports[stack[k].file] \ stack[k].todo
            /\ ~Loading(k, Head(g.name))
  /\ \A k \in Depth : \A g, h \in stack[k].globals :
       g.name = h.name /\ g.name # <<>> => g.file = h.file

\* A file was imported by the prelude or by an import that has been taken off.
Accounted ==
  \A f \in importedFiles :
    \/ f[2] \in PreludeModule
    \/ \E h \in {Main} \cup importedFiles :
         /\ f[2] \in imports[h]
         /\ \A k \in Depth : stack[k].file = h => f[2] \notin stack[k].todo

\* No module is imported from two places (the hypothesis of RefsResolve).
OneImporter ==
  /\ \A f, h \in {Main} \cup importedFiles :
       imports[f] \cap imports[h] # {} => f = h
  /\ \A f \in {Main} \cup importedFiles : imports[f] \cap PreludeModule = {}

Names(k, n, file) == \E g \in stack[k].globals : g.name = n /\ g.file = file

\* The import of a module brings its global under the module's name, and what
\* a global refers to is where the global is.
RefsKept ==
  /\ \A k \in Depth : \A g \in stack[k].globals :
       g.self = g.name /\ DOMAIN g.refs = imports[g.file]
  /\ OneImporter =>
       /\ \A k \in Depth : \A m \in imports[stack[k].file] \ stack[k].todo :
            Loading(k, m) \/ Names(k, <<m>>, ResolvePath(m))
       /\ \A k \in Depth : \A g \in stack[k].globals : \A m \in imports[g.file] :
            Names(k, g.refs[m], ResolvePath(m))

NInv ==
  /\ IInv
  /\ IsFiniteSet(importedFiles)
  /\ StdLeaves /\ OpenCalls /\ HeldNames /\ Accounted /\ RefsKept

LEMMA NamesInit == Init => NInv
<1> SUFFICES ASSUME Init PROVE NInv
  OBVIOUS
<1>1. /\ Len(stack) = 1 /\ stack[1].file = Main /\ stack[1].globals = {}
      /\ stack[1].todo = imports[Main]
  BY DEF Init, Frame
<1>2. \A k \in Depth : k = 1
  BY <1>1 DEF Depth
<1>3. IsFiniteSet(importedFiles)
  BY FS_EmptySet DEF Init
<1>4. StdLeaves /\ OpenCalls /\ Accounted
  BY <1>2 DEF Init, StdLeaves, OpenCalls, Accounted
<1>5. HeldNames /\ RefsKept
  BY <1>1, <1>2 DEF HeldNames, RefsKept
<1> QED BY <1>3, <1>4, <1>5, InitInvariant DEF NInv

\* What a call of loadModule that does not end the compiler does to the stack.
LEMMA LoadOutcome ==
  ASSUME IInv,
         NEW m \in Module, NEW file \in File \cup {NoFile},
         NEW open \in BOOLEAN, NEW todo \in SUBSET Top.todo,
         LoadModule(m, file, open, [Top EXCEPT !.todo = todo])
  PROVE  \/ UNCHANGED <<importedFiles, stack>> /\ status' # "done"
         \/ /\ UNCHANGED <<importedFiles, status>>
            /\ file \in importedFiles
            /\ Depth' = Depth
            /\ \A k \in Depth :
                 /\ stack'[k].file = stack[k].file
                 /\ stack'[k].mod = stack[k].mod
                 /\ stack'[k].open = stack[k].open
                 /\ stack'[k].globals = stack[k].globals
                 /\ stack'[k].todo = IF k = Len(stack) THEN todo
                                     ELSE stack[k].todo
         \/ /\ UNCHANGED status
            /\ file \in File /\ file \notin importedFiles
            /\ importedFiles' = importedFiles \cup {file}
            /\ Depth' = Depth \cup {Len(stack) + 1}
            /\ \A k \in Depth :
                 /\ stack'[k].file = stack[k].file
                 /\ stack'[k].mod = stack[k].mod
                 /\ stack'[k].open = stack[k].open
                 /\ stack'[k].globals = stack[k].globals
                 /\ stack'[k].todo = IF k = Len(stack) THEN todo
                                     ELSE stack[k].todo
            /\ stack'[Len(stack) + 1] = Frame(file, m, open, imports[file])
<1> DEFINE n == Len(stack)
           caller == [Top EXCEPT !.todo = todo]
           back == [stack EXCEPT ![n] = caller]
           entered == Frame(file, m, open, imports[file])
<1>1. /\ n \in Nat \ {0} /\ n \in Depth /\ stack \in Seq(Call)
      /\ \A k \in Depth : stack[k] \in Call
  BY DEF IInv, Calls, Depth
<1>2. /\ caller \in Call /\ caller.file = stack[n].file
      /\ caller.mod = stack[n].mod /\ caller.globals = stack[n].globals
      /\ caller.open = stack[n].open /\ caller.todo = todo
  BY <1>1 DEF Top, Call
<1> HIDE DEF caller
<1>3. /\ back \in Seq(Call) /\ Len(back) = n
      /\ \A k \in Depth : /\ back[k].file = stack[k].file
                          /\ back[k].mod = stack[k].mod
                          /\ back[k].open = stack[k].open
                          /\ back[k].globals = stack[k].globals
                          /\ back[k].todo = IF k = n THEN todo
                                            ELSE stack[k].todo
  BY <1>1, <1>2 DEF Depth
<1> HIDE DEF back
<1>4. LoadModule(m, file, open, caller)
  BY DEF caller
<1>5. CASE file = NoFile \/ (file \notin importedFiles /\ file \in malformed)
  <2>1. file # NoFile => file \in File
    OBVIOUS
  <2>2. file = NoFile => file \notin File
    BY FilesDiffer
  <2> QED BY <1>4, <1>5 DEF LoadModule, Exit
<1>6. CASE file # NoFile /\ file \in importedFiles
  <2>1. stack' = back /\ UNCHANGED <<importedFiles, status>>
    BY <1>4, <1>6 DEF LoadModule, back
  <2>2. Depth' = Depth
    BY <2>1, <1>3 DEF Depth
  <2> QED BY <1>3, <1>6, <2>1, <2>2
<1>7. CASE /\ file # NoFile /\ file \notin importedFiles
           /\ file \notin malformed
  <2>1. /\ importedFiles' = importedFiles \cup {file} /\ UNCHANGED status
        /\ stack' = Append(back, entered) /\ file \in File
    BY <1>4, <1>7 DEF LoadModule, back
  <2>2. entered \in Call
    BY <2>1 DEF IInv, Inputs, Frame, Call
  <2>3. /\ Len(stack') = n + 1 /\ stack'[n + 1] = entered
        /\ \A k \in Depth : stack'[k] = back[k]
    <3> HIDE DEF entered
    <3> QED BY <1>1, <1>3, <2>1, <2>2 DEF Depth
  <2>4. Depth' = Depth \cup {n + 1}
    BY <1>1, <2>3 DEF Depth
  <2> QED BY <1>3, <1>7, <2>1, <2>3, <2>4, ZenonT(40)
<1> QED BY <1>5, <1>6, <1>7

\* A step that leaves the stack and importedFiles alone.
LEMMA NamesSame ==
  ASSUME NInv, IInv', UNCHANGED <<imports, importedFiles, stack>>
  PROVE  NInv'
<1>1. Depth' = Depth
  BY DEF Depth
<1>2. \A k, x : Loading(k, x)' <=> Loading(k, x)
  BY <1>1 DEF Loading
<1>3. OneImporter' <=> OneImporter
  BY DEF OneImporter
<1>4. \A k, s, f : Names(k, s, f)' <=> Names(k, s, f)
  BY DEF Names
<1>5. StdLeaves' /\ OpenCalls' /\ Accounted'
  BY <1>1 DEF NInv, StdLeaves, OpenCalls, Accounted
<1>6. HeldNames'
  BY <1>1, <1>2 DEF NInv, HeldNames
<1>7. RefsKept'
  BY <1>1, <1>2, <1>3, <1>4 DEF NInv, RefsKept
<1> QED BY <1>5, <1>6, <1>7 DEF NInv

\* An import whose file was loaded before is only taken off.  When no module
\* is imported from two places there is no such import.
LEMMA NamesLoadedBefore ==
  ASSUME NInv, IInv', UNCHANGED <<imports, importedFiles>>,
         NEW todo, todo \subseteq stack[Len(stack)].todo,
         Depth' = Depth,
         \A k \in Depth :
           /\ stack'[k].file = stack[k].file
           /\ stack'[k].mod = stack[k].mod
           /\ stack'[k].open = stack[k].open
           /\ stack'[k].globals = stack[k].globals
           /\ stack'[k].todo = IF k = Len(stack) THEN todo ELSE stack[k].todo,
         \A x \in stack[Len(stack)].todo \ todo :
           \E f \in importedFiles : f[2] = x
  PROVE  NInv'
<1>1. \A k \in Depth : stack'[k].todo \subseteq stack[k].todo
  OBVIOUS
<1>2. \A k \in Depth : k > 1 => k - 1 \in Depth
  BY DEF NInv, IInv, Calls, Depth
<1>3. \A k \in Depth : \A x : Loading(k, x)' <=> Loading(k, x)
  BY DEF Loading
<1>4. StdLeaves'
  BY DEF NInv, StdLeaves
<1>5. OpenCalls'
  BY <1>1, <1>2 DEF NInv, OpenCalls
<1>6. Accounted'
  BY <1>1 DEF NInv, Accounted
<1>7. HeldNames'
  BY <1>1, <1>3 DEF NInv, HeldNames
<1>8. OneImporter' <=> OneImporter
  BY DEF OneImporter
<1>9. \A k \in Depth : \A s, f : Names(k, s, f)' <=> Names(k, s, f)
  BY DEF Names
<1>10. ASSUME OneImporter PROVE stack[Len(stack)].todo = todo
  <2> DEFINE n == Len(stack)
  <2>1. n \in Depth /\ stack[n].todo \subseteq imports[stack[n].file]
        /\ stack[n].file \in {Main} \cup importedFiles
    BY DEF NInv, IInv, Calls, Depth
  <2>2. ASSUME NEW x \in stack[n].todo \ todo PROVE FALSE
    <3>1. PICK f \in importedFiles : f[2] = x
      BY <2>2
    <3>2. x \in imports[stack[n].file]
      BY <2>1, <2>2
    <3>3. x \notin PreludeModule
      BY <1>10, <2>1, <3>2 DEF OneImporter
    <3>4. PICK h \in {Main} \cup importedFiles :
             /\ x \in imports[h]
             /\ \A k \in Depth : stack[k].file = h => x \notin stack[k].todo
      BY <3>1, <3>3 DEF NInv, Accounted
    <3>5. h = stack[n].file
      BY <1>10, <2>1, <3>2, <3>4 DEF OneImporter
    <3> QED BY <2>1, <2>2, <3>4, <3>5
  <2> QED BY <2>2
<1>11. RefsKept'
  <2>1. \A k \in Depth' : \A g \in stack'[k].globals :
          g.self = g.name /\ DOMAIN g.refs = imports'[g.file]
    BY DEF NInv, RefsKept
  <2>2. ASSUME OneImporter', NEW k \in Depth',
               NEW x \in imports'[stack'[k].file] \ stack'[k].todo
        PROVE  Loading(k, x)' \/ Names(k, <<x>>, ResolvePath(x))'
    <3>1. OneImporter /\ stack'[k].todo = stack[k].todo
      BY <1>8, <1>10, <2>2
    <3>2. Loading(k, x) \/ Names(k, <<x>>, ResolvePath(x))
      BY <2>2, <3>1 DEF NInv, RefsKept
    <3> QED BY <1>3, <1>9, <2>2, <3>2
  <2>3. ASSUME OneImporter', NEW k \in Depth', NEW g \in stack'[k].globals,
               NEW x \in imports'[g.file]
        PROVE  Names(k, g.refs[x], ResolvePath(x))'
    <3>1. Names(k, g.refs[x], ResolvePath(x))
      BY <1>8, <2>3 DEF NInv, RefsKept
    <3> QED BY <1>9, <2>3, <3>1
  <2> QED BY <2>1, <2>2, <2>3 DEF RefsKept
<1> QED BY <1>4, <1>5, <1>6, <1>7, <1>11 DEF NInv

\* A file that is loaded gets a call of its own, above the one that waits.
LEMMA NamesEntered ==
  ASSUME NInv, IInv', UNCHANGED imports,
         NEW m \in Module, NEW file \in File, file[2] = m,
         NEW open \in BOOLEAN, NEW todo, todo \subseteq stack[Len(stack)].todo,
         open => /\ Len(stack) = 1 /\ file \in StdFile /\ m \in PreludeModule
                 /\ todo = stack[Len(stack)].todo,
         ~open => /\ m \in stack[Len(stack)].todo /\ file = ResolvePath(m)
                  /\ todo = stack[Len(stack)].todo \ {m},
         file \notin importedFiles,
         importedFiles' = importedFiles \cup {file},
         Depth' = Depth \cup {Len(stack) + 1},
         \A k \in Depth :
           /\ stack'[k].file = stack[k].file
           /\ stack'[k].mod = stack[k].mod
           /\ stack'[k].open = stack[k].open
           /\ stack'[k].globals = stack[k].globals
           /\ stack'[k].todo = IF k = Len(stack) THEN todo ELSE stack[k].todo,
         stack'[Len(stack) + 1] = Frame(file, m, open, imports[file])
  PROVE  NInv'
<1> DEFINE n == Len(stack)
<1>1. /\ n \in Nat \ {0} /\ Depth = 1..n /\ Depth' = 1..(n + 1)
      /\ n \in Depth /\ stack[n].todo \subseteq imports[stack[n].file]
      /\ stack[n].file \in {Main} \cup importedFiles
  <2>1. n \in Nat \ {0} /\ Depth = 1..n
    BY DEF NInv, IInv, Calls, Depth
  <2>2. n \in Depth /\ Depth' = 1..(n + 1)
    BY <2>1
  <2>3. /\ stack[n].todo \subseteq imports[stack[n].file]
        /\ stack[n].file \in {Main} \cup importedFiles
    BY <2>1, <2>2 DEF NInv, IInv, Calls
  <2> QED BY <2>1, <2>2, <2>3
<1>2. /\ stack'[n + 1].file = file /\ stack'[n + 1].mod = m
      /\ stack'[n + 1].open = open /\ stack'[n + 1].todo = imports[file]
      /\ stack'[n + 1].globals = {}
  BY DEF Frame
<1>3. \A k \in Depth : stack'[k].todo \subseteq stack[k].todo
  OBVIOUS
<1>4. /\ \A k \in Depth : k # n => \A x : Loading(k, x)' <=> Loading(k, x)
      /\ \A x : ~Loading(n, x)
      /\ \A k \in Depth : k = n =>
           \A x : Loading(k, x)' <=> ~open /\ x = m
  <2>1. ASSUME NEW k \in Depth, k # n, NEW x
        PROVE  Loading(k, x)' <=> Loading(k, x)
    <3>1. k + 1 \in Depth /\ k + 1 \in Depth'
      BY <1>1, <2>1
    <3> QED BY <3>1 DEF Loading
  <2>2. n + 1 \notin Depth /\ n + 1 \in Depth'
    BY <1>1
  <2>3. \A x : ~Loading(n, x)
    BY <2>2 DEF Loading
  <2>4. ASSUME NEW k \in Depth, k = n, NEW x
        PROVE  Loading(k, x)' <=> ~open /\ x = m
    BY <1>2, <2>2, <2>4 DEF Loading
  <2> QED BY <2>1, <2>3, <2>4
<1>5. StdLeaves'
  BY DEF NInv, StdLeaves
<1>6. OpenCalls'
  <2> DEFINE Import(k) ==
        IF stack'[k].open
        THEN k = 2 /\ stack'[k].file \in StdFile
        ELSE /\ stack'[k].mod
                  \in imports'[stack'[k - 1].file] \ stack'[k - 1].todo
             /\ stack'[k].file = ResolvePath(stack'[k].mod)
  <2>1. ASSUME NEW k \in Depth, k > 1
        PROVE  Import(k)
    <3>1. k - 1 \in Depth
      BY <1>1, <2>1
    <3> QED BY <1>3, <2>1, <3>1 DEF NInv, OpenCalls
  <2>2. IF stack'[n + 1].open
        THEN n + 1 = 2 /\ stack'[n + 1].file \in StdFile
        ELSE /\ stack'[n + 1].mod
                  \in imports'[stack'[n].file] \ stack'[n].todo
             /\ stack'[n + 1].file = ResolvePath(stack'[n + 1].mod)
    BY <1>1, <1>2
  <2>3. n + 1 - 1 = n
    BY <1>1
  <2>4. Import(n + 1)
    BY <2>2, <2>3
  <2>5. \A k \in Depth' : k \in Depth \/ k = n + 1
    OBVIOUS
  <2> HIDE DEF Import
  <2>6. \A k \in Depth' : k > 1 => Import(k)
    BY <2>1, <2>4, <2>5
  <2> QED BY <2>6 DEF OpenCalls, Import
<1>7. Accounted'
  <2>1. ASSUME NEW h \in {Main} \cup importedFiles PROVE h # file
    BY FilesDiffer
  <2>2. ASSUME NEW f \in importedFiles, f[2] \notin PreludeModule
        PROVE  \E h \in {Main} \cup importedFiles' :
                 /\ f[2] \in imports'[h]
                 /\ \A k \in Depth' :
                      stack'[k].file = h => f[2] \notin stack'[k].todo
    <3>1. PICK h \in {Main} \cup importedFiles :
            /\ f[2] \in imports[h]
            /\ \A k \in Depth : stack[k].file = h => f[2] \notin stack[k].todo
      BY <2>2 DEF NInv, Accounted
    <3> QED BY <1>1, <1>2, <1>3, <2>1, <3>1
  <2>3. ASSUME m \notin PreludeModule
        PROVE  /\ m \in imports[stack[n].file]
               /\ \A k \in Depth' :
                    stack'[k].file = stack[n].file => m \notin stack'[k].todo
    <3>1. ~open /\ m \in stack[n].todo /\ todo = stack[n].todo \ {m}
      BY <2>3
    <3>2. stack[n].file # file
      BY <1>1, <2>1
    <3>3. \A k \in Depth : stack[k].file = stack[n].file => k = n
      BY <1>1 DEF NInv, IInv, OnePlace
    <3> QED BY <1>1, <1>2, <3>1, <3>2, <3>3
  <2> QED BY <1>1, <2>2, <2>3 DEF Accounted
<1>8. HeldNames'
  <2>1. ASSUME NEW k \in Depth, NEW g \in stack[k].globals
        PROVE  /\ g.name = <<>> => k = 1 /\ g.file \in StdFile
               /\ g.name # <<>> =>
                    /\ Head(g.name) \in imports[stack[k].file] \ stack[k].todo
                    /\ ~Loading(k, Head(g.name))
    BY DEF NInv, HeldNames
  <2>2. ASSUME NEW k \in Depth, NEW g \in stack[k].globals, g.name # <<>>
        PROVE  ~Loading(k, Head(g.name))'
    <3> DEFINE x == Head(g.name)
    <3>1. x \notin stack[k].todo /\ ~Loading(k, x)
      BY <2>1, <2>2
    <3> HIDE DEF x
    <3>2. CASE k # n
      BY <1>4, <3>1, <3>2 DEF x
    <3>3. CASE k = n
      <4>1. ~(~open /\ x = m)
        BY <3>1, <3>3
      <4> QED BY <1>4, <3>3, <4>1 DEF x
    <3> QED BY <3>2, <3>3
  <2>3. ASSUME NEW k \in Depth, NEW g \in stack[k].globals,
               NEW h \in stack[k].globals, g.name = h.name, g.name # <<>>
        PROVE  g.file = h.file
    BY <2>3 DEF NInv, HeldNames
  <2>4. ASSUME NEW k \in Depth', NEW g \in stack'[k].globals
        PROVE  k \in Depth /\ g \in stack[k].globals
    BY <1>2
  <2>5. ASSUME NEW k \in Depth', NEW g \in stack'[k].globals
        PROVE  /\ g.name = <<>> => k = 1 /\ g.file \in StdFile
               /\ g.name # <<>> =>
                   /\ Head(g.name) \in imports'[stack'[k].file] \ stack'[k].todo
                   /\ ~Loading(k, Head(g.name))'
    BY <1>3, <2>1, <2>2, <2>4
  <2>6. \A k \in Depth' : \A g, h \in stack'[k].globals :
          g.name = h.name /\ g.name # <<>> => g.file = h.file
    BY <2>3, <2>4
  <2> QED BY <2>5, <2>6 DEF HeldNames
<1>9. OneImporter' => OneImporter
  BY DEF OneImporter
<1>10. \A k \in Depth : \A s, f : Names(k, s, f)' <=> Names(k, s, f)
  BY DEF Names
<1>11. RefsKept'
  <2>1. \A k \in Depth' : \A g \in stack'[k].globals :
          g.self = g.name /\ DOMAIN g.refs = imports'[g.file]
    BY <1>2 DEF NInv, RefsKept
  <2>2. ASSUME OneImporter', NEW k \in Depth',
               NEW x \in imports'[stack'[k].file] \ stack'[k].todo
        PROVE  Loading(k, x)' \/ Names(k, <<x>>, ResolvePath(x))'
    <3>1. k \in Depth
      BY <1>2, <2>2
    <3>2. CASE x \in stack[k].todo
      <4>1. k = n /\ ~open /\ x = m
        BY <2>2, <3>1, <3>2
      <4> QED BY <1>4, <4>1
    <3>3. CASE x \notin stack[k].todo
      <4>1. Loading(k, x) \/ Names(k, <<x>>, ResolvePath(x))
        BY <1>9, <2>2, <3>1, <3>3 DEF NInv, RefsKept
      <4>2. CASE k = n
        BY <1>4, <1>10, <3>1, <4>1, <4>2
      <4>3. CASE k # n
        BY <1>4, <1>10, <3>1, <4>1, <4>3
      <4> QED BY <4>2, <4>3
    <3> QED BY <3>2, <3>3
  <2>3. ASSUME OneImporter', NEW k \in Depth', NEW g \in stack'[k].globals,
               NEW x \in imports'[g.file]
        PROVE  Names(k, g.refs[x], ResolvePath(x))'
    <3>1. k \in Depth /\ g \in stack[k].globals
      BY <1>2, <2>3
    <3>2. Names(k, g.refs[x], ResolvePath(x))
      BY <1>9, <2>3, <3>1 DEF NInv, RefsKept
    <3> QED BY <1>10, <3>1, <3>2
  <2> QED BY <2>1, <2>2, <2>3 DEF RefsKept
<1>12. IsFiniteSet(importedFiles')
  BY FS_AddElement DEF NInv
<1> QED BY <1>5, <1>6, <1>7, <1>8, <1>11, <1>12 DEF NInv

\* What the module on top has when its imports are done, and what it hands on.
Gathered == Top.globals \cup {Parsed(Top.file)}
Handed == IF Top.open THEN Gathered ELSE Mangle(Top.mod, Gathered)

LEMMA ReturnOutcome ==
  ASSUME IInv, ModuleLoaded
  PROVE  /\ Len(stack) \in Nat /\ Len(stack) > 1
         /\ Depth = 1..Len(stack) /\ Depth' = 1..(Len(stack) - 1)
         /\ UNCHANGED <<imports, importedFiles>>
         /\ stack[Len(stack)] \in Call /\ stack[Len(stack)].file \in File
         /\ stack[Len(stack)].mod \in Module /\ stack[Len(stack)].todo = {}
         /\ \A k \in Depth' :
              /\ stack'[k].file = stack[k].file
              /\ stack'[k].mod = stack[k].mod
              /\ stack'[k].open = stack[k].open
              /\ stack'[k].todo = stack[k].todo
              /\ stack'[k].globals =
                   IF k = Len(stack) - 1 THEN stack[k].globals \cup Handed
                                         ELSE stack[k].globals
<1> DEFINE n == Len(stack)
<1>1. /\ n \in Nat /\ n > 1 /\ n \in Depth /\ Depth = 1..n
      /\ \A k \in Depth : stack[k] \in Call
      /\ UNCHANGED <<imports, importedFiles>>
      /\ stack[n].todo = {}
  BY DEF IInv, Calls, Depth, ModuleLoaded, Top
<1>2. stack[n].file \in File /\ stack[n].mod \in Module
  BY <1>1 DEF IInv, Calls, Inputs
<1>3. stack' = [k \in 1..(n - 1) |->
                 IF k = n - 1
                 THEN [stack[k] EXCEPT !.globals = @ \cup Handed]
                 ELSE stack[k]]
  BY DEF ModuleLoaded, Handed, Gathered
<1>4. n - 1 \in Nat /\ DOMAIN stack' = 1..(n - 1)
  BY <1>1, <1>3
<1>5. stack' \in Seq(Call)
  BY LoadedInvariant DEF IInv, Calls
<1>6. Len(stack') = n - 1
  <2> HIDE DEF n
  <2> QED BY <1>4, <1>5
<1>7. Depth' = 1..(n - 1)
  BY <1>6 DEF Depth
<1>8. ASSUME NEW k \in 1..(n - 1)
      PROVE  /\ stack'[k].file = stack[k].file
             /\ stack'[k].mod = stack[k].mod
             /\ stack'[k].open = stack[k].open
             /\ stack'[k].todo = stack[k].todo
             /\ stack'[k].globals =
                  IF k = n - 1 THEN stack[k].globals \cup Handed
                               ELSE stack[k].globals
  <2>1. stack[k] \in Call
    BY <1>1
  <2> QED BY <1>3, <2>1 DEF Call
<1> QED BY <1>1, <1>2, <1>7, <1>8

\* The globals gathered by a module: its own, which has no prefix yet, and
\* those its imports brought, which have one.
LEMMA GatheredGlobals ==
  ASSUME NInv, Len(stack) \in Nat, Len(stack) > 1,
         stack[Len(stack)].todo = {}
  PROVE  /\ Gathered \in SUBSET Global
         /\ Parsed(Top.file) \in Gathered
         /\ Parsed(Top.file).file = Top.file /\ Parsed(Top.file).name = <<>>
         /\ \A g \in Gathered : g.self = g.name
                                /\ DOMAIN g.refs = imports[g.file]
         /\ \A g, h \in Gathered : g.name = h.name => g.file = h.file
         /\ OneImporter =>
              \A g \in Gathered : \A x \in imports[g.file] :
                \E y \in Gathered : y.name = g.refs[x]
                                    /\ y.file = ResolvePath(x)
         /\ Top.open => Gathered = {Parsed(Top.file)}
<1> DEFINE n == Len(stack)
           own == Parsed(Top.file)
<1>1. /\ n \in Depth /\ Depth = 1..n /\ stack[n] \in Call /\ Top = stack[n]
      /\ stack[n].file \in File /\ stack[n].globals \in SUBSET Global
  <2>1. n \in Depth /\ Depth = 1..n /\ stack[n] \in Call
    BY DEF NInv, IInv, Calls, Depth
  <2> QED BY <2>1 DEF NInv, IInv, Calls, Inputs, Call, Top
<1>2. /\ own \in Global /\ own.file = Top.file /\ own.name = <<>>
      /\ own.self = <<>> /\ own.refs = [m \in imports[Top.file] |-> <<m>>]
  <2>1. own \in Global
    BY <1>1, ParsedGlobal DEF NInv, IInv
  <2> QED BY <2>1 DEF Parsed
<1> HIDE DEF own
<1>3. /\ Gathered = stack[n].globals \cup {own}
      /\ Gathered \in SUBSET Global
  BY <1>1, <1>2 DEF Gathered, own
<1>4. \A g \in stack[n].globals : g.name # <<>>
  BY <1>1 DEF NInv, HeldNames
<1>5. ASSUME NEW g \in Gathered
      PROVE  g.self = g.name /\ DOMAIN g.refs = imports[g.file]
  BY <1>1, <1>2, <1>3 DEF NInv, RefsKept
<1>6. ASSUME NEW g \in Gathered, NEW h \in Gathered, g.name = h.name
      PROVE  g.file = h.file
  BY <1>1, <1>2, <1>3, <1>4, <1>6 DEF NInv, HeldNames
<1>7. ASSUME OneImporter, NEW g \in Gathered, NEW x \in imports[g.file]
      PROVE  \E y \in Gathered : y.name = g.refs[x] /\ y.file = ResolvePath(x)
  <2>1. CASE g = own
    <3>1. g.refs[x] = <<x>> /\ x \in imports[stack[n].file] \ stack[n].todo
      BY <1>1, <1>2, <1>7, <2>1
    <3>2. ~Loading(n, x)
      BY <1>1 DEF Loading
    <3>3. Names(n, <<x>>, ResolvePath(x))
      BY <1>1, <1>7, <3>1, <3>2 DEF NInv, RefsKept
    <3> QED BY <1>3, <3>1, <3>3 DEF Names
  <2>2. CASE g # own
    <3>1. g \in stack[n].globals
      BY <1>3, <2>2
    <3>2. Names(n, g.refs[x], ResolvePath(x))
      BY <1>1, <1>7, <3>1 DEF NInv, RefsKept
    <3> QED BY <1>3, <3>2 DEF Names
  <2> QED BY <2>1, <2>2
<1>8. ASSUME Top.open PROVE stack[n].globals = {}
  <2>1. imports[stack[n].file] = {}
    BY <1>1, <1>8 DEF NInv, OpenCalls, StdLeaves
  <2> QED BY <1>1, <1>4, <2>1 DEF NInv, HeldNames
<1> QED BY <1>2, <1>3, <1>5, <1>6, <1>7, <1>8 DEF own

LEMMA HandedGlobals ==
  ASSUME NInv, ModuleLoaded, ~Top.open
  PROVE  /\ \A h \in Handed : h.name # <<>> /\ Head(h.name) = Top.mod
         /\ \A g, h \in Handed : g.name = h.name => g.file = h.file
         /\ \A h \in Handed : h.self = h.name
                              /\ DOMAIN h.refs = imports[h.file]
         /\ \E h \in Handed : h.name = <<Top.mod>> /\ h.file = Top.file
         /\ OneImporter =>
              \A h \in Handed : \A x \in imports[h.file] :
                \E y \in Handed : y.name = h.refs[x]
                                  /\ y.file = ResolvePath(x)
<1> DEFINE mod == Top.mod
<1>1. mod \in Module /\ Handed = Mangle(mod, Gathered)
  BY ReturnOutcome DEF NInv, Handed, Top
<1>2. /\ Gathered \in SUBSET Global
      /\ Parsed(Top.file) \in Gathered
      /\ Parsed(Top.file).file = Top.file /\ Parsed(Top.file).name = <<>>
      /\ \A g \in Gathered : g.self = g.name /\ DOMAIN g.refs = imports[g.file]
      /\ \A g, h \in Gathered : g.name = h.name => g.file = h.file
      /\ OneImporter =>
           \A g \in Gathered : \A x \in imports[g.file] :
             \E y \in Gathered : y.name = g.refs[x] /\ y.file = ResolvePath(x)
  BY ReturnOutcome, GatheredGlobals DEF NInv
<1> HIDE DEF mod
<1>3. /\ \A h \in Handed : \E g \in Gathered :
           /\ h.file = g.file /\ h.name = <<mod>> \o g.name
           /\ g.self = g.name => h.self = h.name
           /\ DOMAIN h.refs = DOMAIN g.refs
           /\ \A m \in DOMAIN g.refs :
                (\E x \in Gathered : x.name = g.refs[m]) =>
                  h.refs[m] = <<mod>> \o g.refs[m]
      /\ \A g \in Gathered : \E h \in Handed :
           h.file = g.file /\ h.name = <<mod>> \o g.name
  BY <1>1, <1>2, MangledGlobals
<1>4. \A g \in Gathered : g.name \in Name
  BY <1>2 DEF Global
<1>5. ASSUME NEW h \in Handed PROVE h.name # <<>> /\ Head(h.name) = mod
  <2>1. PICK g \in Gathered : h.name = <<mod>> \o g.name
    BY <1>3
  <2> QED BY <1>1, <1>4, <2>1, PrefixedName
<1>6. ASSUME NEW g \in Handed, NEW h \in Handed, g.name = h.name
      PROVE  g.file = h.file
  <2>1. PICK u \in Gathered : g.file = u.file /\ g.name = <<mod>> \o u.name
    BY <1>3
  <2>2. PICK v \in Gathered : h.file = v.file /\ h.name = <<mod>> \o v.name
    BY <1>3
  <2>3. u.name = v.name
    BY <1>1, <1>4, <1>6, <2>1, <2>2, PrefixedName
  <2> QED BY <1>2, <2>1, <2>2, <2>3
<1>7. ASSUME NEW h \in Handed
      PROVE  h.self = h.name /\ DOMAIN h.refs = imports[h.file]
  BY <1>2, <1>3, SMTT(20)
<1>8. \E h \in Handed : h.name = <<mod>> /\ h.file = Top.file
  <2>1. PICK h \in Handed : h.file = Top.file /\ h.name = <<mod>> \o <<>>
    BY <1>2, <1>3
  <2> QED BY <1>1, <2>1, PrefixedName
<1>9. ASSUME OneImporter, NEW h \in Handed, NEW x \in imports[h.file]
      PROVE  \E y \in Handed : y.name = h.refs[x] /\ y.file = ResolvePath(x)
  <2>1. PICK g \in Gathered :
          /\ h.file = g.file
          /\ \A m \in DOMAIN g.refs :
               (\E z \in Gathered : z.name = g.refs[m]) =>
                 h.refs[m] = <<mod>> \o g.refs[m]
    BY <1>3
  <2>2. PICK y \in Gathered : y.name = g.refs[x] /\ y.file = ResolvePath(x)
    BY <1>2, <1>9, <2>1
  <2>3. h.refs[x] = <<mod>> \o y.name
    BY <1>2, <1>9, <2>1, <2>2
  <2>4. PICK w \in Handed : w.file = y.file /\ w.name = <<mod>> \o y.name
    BY <1>3
  <2> QED BY <2>2, <2>3, <2>4
<1> QED BY <1>5, <1>6, <1>7, <1>8, <1>9 DEF mod

\* The return from loadModule: the call below has its import, under a first
\* module no other import of it brings.
LEMMA NamesReturned ==
  ASSUME NInv, IInv', ModuleLoaded
  PROVE  NInv'
<1> DEFINE n == Len(stack)
<1>1. /\ n \in Nat /\ n > 1 /\ Depth = 1..n /\ Depth' = 1..(n - 1)
      /\ UNCHANGED <<imports, importedFiles>>
      /\ stack[n] \in Call /\ stack[n].file \in File
      /\ stack[n].mod \in Module /\ stack[n].todo = {}
      /\ \A k \in Depth' :
           /\ stack'[k].file = stack[k].file
           /\ stack'[k].mod = stack[k].mod
           /\ stack'[k].open = stack[k].open
           /\ stack'[k].todo = stack[k].todo
           /\ stack'[k].globals =
                IF k = n - 1 THEN stack[k].globals \cup Handed
                             ELSE stack[k].globals
  BY ReturnOutcome DEF NInv
<1>2. Top = stack[n]
  BY DEF Top
<1>3. CASE Top.open
  <2>1. /\ n = 2 /\ stack[n].file \in StdFile
    <3>1. n \in Depth
      BY <1>1
    <3> QED BY <1>1, <1>2, <1>3, <3>1 DEF NInv, OpenCalls
  <2>2. Handed = {Parsed(Top.file)} /\ Parsed(Top.file).name = <<>>
        /\ Parsed(Top.file).file = stack[n].file
        /\ Parsed(Top.file).self = Parsed(Top.file).name
        /\ DOMAIN Parsed(Top.file).refs = imports[Parsed(Top.file).file]
        /\ imports[Parsed(Top.file).file] = {}
    <3>1. /\ Gathered = {Parsed(Top.file)}
          /\ Parsed(Top.file) \in Gathered
          /\ Parsed(Top.file).file = Top.file /\ Parsed(Top.file).name = <<>>
          /\ \A g \in Gathered : g.self = g.name
                                 /\ DOMAIN g.refs = imports[g.file]
      BY <1>1, <1>3, GatheredGlobals
    <3>2. Handed = Gathered
      BY <1>3 DEF Handed
    <3>3. imports[stack[n].file] = {}
      BY <2>1 DEF NInv, StdLeaves
    <3> QED BY <1>2, <3>1, <3>2, <3>3
  <2> DEFINE own == Parsed(Top.file)
  <2> HIDE DEF own
  <2>3. /\ Handed = {own} /\ own.name = <<>> /\ own.file \in StdFile
        /\ own.self = own.name /\ DOMAIN own.refs = imports[own.file]
        /\ imports[own.file] = {}
    BY <2>1, <2>2 DEF own
  <2>4. Depth' = {1} /\ \A x : ~Loading(1, x) /\ ~Loading(1, x)'
    <3>1. Depth' = {1}
      BY <1>1, <2>1
    <3>2. 1 + 1 = n /\ n \notin Depth' /\ stack[n].open
      BY <1>1, <1>2, <1>3, <2>1, <3>1
    <3> QED BY <3>1, <3>2 DEF Loading
  <2>5. /\ stack'[1].globals = stack[1].globals \cup {own} /\ 1 \in Depth
        /\ stack'[1].file = stack[1].file /\ stack'[1].todo = stack[1].todo
    BY <1>1, <2>1, <2>3, <2>4
  <2>6. StdLeaves' /\ OpenCalls'
    <3>1. \A k \in Depth' : ~(k > 1)
      BY <2>4
    <3> QED BY <1>1, <3>1 DEF NInv, StdLeaves, OpenCalls
  <2>7. Accounted'
    BY <1>1, <2>4, <2>5 DEF NInv, Accounted
  <2>8. HeldNames'
    <3>1. \A g \in stack[1].globals :
            /\ g.name = <<>> => g.file \in StdFile
            /\ g.name # <<>> =>
                 Head(g.name) \in imports[stack[1].file] \ stack[1].todo
      BY <2>5 DEF NInv, HeldNames
    <3>2. \A g, h \in stack[1].globals :
            g.name = h.name /\ g.name # <<>> => g.file = h.file
      BY <2>5 DEF NInv, HeldNames
    <3>3. \A g \in stack'[1].globals :
            /\ g.name = <<>> => 1 = 1 /\ g.file \in StdFile
            /\ g.name # <<>> =>
                 /\ Head(g.name) \in imports'[stack'[1].file] \ stack'[1].todo
                 /\ ~Loading(1, Head(g.name))'
      BY <1>1, <2>3, <2>4, <2>5, <3>1
    <3>4. \A g, h \in stack'[1].globals :
            g.name = h.name /\ g.name # <<>> => g.file = h.file
      BY <2>3, <2>5, <3>2
    <3> QED BY <2>4, <3>3, <3>4 DEF HeldNames
  <2>9. RefsKept'
    <3>1. \A g \in stack'[1].globals :
            g.self = g.name /\ DOMAIN g.refs = imports'[g.file]
      BY <1>1, <2>3, <2>5 DEF NInv, RefsKept
    <3>2. OneImporter' => OneImporter
      BY <1>1 DEF OneImporter
    <3>3. \A s, f : Names(1, s, f) => Names(1, s, f)'
      BY <2>5 DEF Names
    <3>4. ASSUME OneImporter', NEW x \in imports'[stack'[1].file] \ stack'[1].todo
          PROVE  Names(1, <<x>>, ResolvePath(x))'
      <4>1. Loading(1, x) \/ Names(1, <<x>>, ResolvePath(x))
        BY <1>1, <2>5, <3>2, <3>4 DEF NInv, RefsKept
      <4> QED BY <2>4, <3>3, <4>1
    <3>5. ASSUME OneImporter', NEW g \in stack'[1].globals,
                 NEW x \in imports'[g.file]
          PROVE  Names(1, g.refs[x], ResolvePath(x))'
      <4>1. g \in stack[1].globals
        BY <1>1, <2>3, <2>5, <3>5
      <4>2. Names(1, g.refs[x], ResolvePath(x))
        BY <1>1, <2>5, <3>2, <3>5, <4>1 DEF NInv, RefsKept
      <4> QED BY <3>3, <4>2
    <3> QED BY <2>4, <3>1, <3>4, <3>5 DEF RefsKept
  <2> QED BY <1>1, <2>6, <2>7, <2>8, <2>9 DEF NInv
<1>4. CASE ~Top.open
  <2> DEFINE mod == stack[n].mod
  <2>1. /\ \A h \in Handed : h.name # <<>> /\ Head(h.name) = mod
        /\ \A g, h \in Handed : g.name = h.name => g.file = h.file
        /\ \A h \in Handed : h.self = h.name /\ DOMAIN h.refs = imports[h.file]
        /\ \E h \in Handed : h.name = <<mod>> /\ h.file = stack[n].file
        /\ OneImporter =>
             \A h \in Handed : \A x \in imports[h.file] :
               \E y \in Handed : y.name = h.refs[x] /\ y.file = ResolvePath(x)
    BY <1>2, <1>4, HandedGlobals
  <2>2. /\ mod \in imports[stack[n - 1].file] \ stack[n - 1].todo
        /\ stack[n].file = ResolvePath(mod)
        /\ n - 1 \in Depth' /\ n - 1 \in Depth
    BY <1>1, <1>2, <1>4 DEF NInv, OpenCalls
  <2> HIDE DEF mod
  <2>3. /\ \A k \in Depth' : k # n - 1 => \A x : Loading(k, x)' <=> Loading(k, x)
        /\ \A k \in Depth' : k = n - 1 =>
             \A x : ~Loading(k, x)' /\ (Loading(k, x) <=> x = mod)
    <3>1. ASSUME NEW k \in Depth', k # n - 1, NEW x
          PROVE  Loading(k, x)' <=> Loading(k, x)
      <4>1. k + 1 \in Depth /\ k + 1 \in Depth'
        BY <1>1, <3>1
      <4> QED BY <1>1, <4>1 DEF Loading
    <3>2. ASSUME NEW k \in Depth', k = n - 1, NEW x
          PROVE  ~Loading(k, x)' /\ (Loading(k, x) <=> x = mod)
      <4>1. k + 1 = n /\ n \in Depth /\ n \notin Depth'
        BY <1>1, <3>2
      <4> QED BY <1>2, <1>4, <4>1 DEF Loading, mod
    <3> QED BY <3>1, <3>2
  <2>4. StdLeaves'
    BY <1>1 DEF NInv, StdLeaves
  <2>5. OpenCalls'
    <3>1. ASSUME NEW k \in Depth', k > 1 PROVE k - 1 \in Depth' /\ k \in Depth
      BY <1>1, <3>1
    <3> QED BY <1>1, <3>1, ZenonT(40) DEF NInv, OpenCalls
  <2>6. Accounted'
    <3>1. Depth' \subseteq Depth
      BY <1>1
    <3>2. ASSUME NEW f \in importedFiles, f[2] \notin PreludeModule
          PROVE  \E h \in {Main} \cup importedFiles :
                   /\ f[2] \in imports[h]
                   /\ \A k \in Depth' :
                        stack'[k].file = h => f[2] \notin stack'[k].todo
      <4>1. PICK h \in {Main} \cup importedFiles :
              /\ f[2] \in imports[h]
              /\ \A k \in Depth :
                   stack[k].file = h => f[2] \notin stack[k].todo
        BY <3>2 DEF NInv, Accounted
      <4>2. ASSUME NEW k \in Depth', stack'[k].file = h
            PROVE  f[2] \notin stack'[k].todo
        <5>1. stack[k].file = h /\ stack'[k].todo = stack[k].todo
          BY <1>1, <4>2
        <5> QED BY <3>1, <4>1, <4>2, <5>1
      <4> QED BY <4>1, <4>2
    <3> QED BY <1>1, <3>2 DEF Accounted
  <2>7. \A k \in Depth' : k \in Depth /\ \A g \in stack'[k].globals :
          g \in stack[k].globals \/ (k = n - 1 /\ g \in Handed)
    <3>1. \A k \in Depth' : k \in Depth
      BY <1>1
    <3>2. ASSUME NEW k \in Depth', NEW g \in stack'[k].globals
          PROVE  g \in stack[k].globals \/ (k = n - 1 /\ g \in Handed)
      <4>1. stack'[k].globals = IF k = n - 1
                                THEN stack[k].globals \cup Handed
                                ELSE stack[k].globals
        BY <1>1
      <4> QED BY <3>2, <4>1
    <3> QED BY <3>1, <3>2
  <2>8. HeldNames'
    <3>1. ASSUME NEW k \in Depth', NEW g \in stack[k].globals
          PROVE  /\ g.name = <<>> => k = 1 /\ g.file \in StdFile
                 /\ g.name # <<>> =>
                    /\ Head(g.name) \in imports[stack[k].file] \ stack[k].todo
                    /\ ~Loading(k, Head(g.name))
      BY <2>7 DEF NInv, HeldNames
    <3>2. ASSUME NEW k \in Depth', NEW g \in stack'[k].globals
          PROVE  /\ g.name = <<>> => k = 1 /\ g.file \in StdFile
                 /\ g.name # <<>> =>
                   /\ Head(g.name) \in imports'[stack'[k].file] \ stack'[k].todo
                   /\ ~Loading(k, Head(g.name))'
      <4> DEFINE x == Head(g.name)
      <4>1. CASE g \in stack[k].globals
        <5>1. /\ g.name = <<>> => k = 1 /\ g.file \in StdFile
              /\ g.name # <<>> =>
                   x \in imports[stack[k].file] \ stack[k].todo
                   /\ ~Loading(k, x)
          BY <3>1, <4>1
        <5> HIDE DEF x
        <5>2. ~Loading(k, x) => ~Loading(k, x)'
          BY <2>3
        <5>3. g.name # <<>> => x \in imports'[stack'[k].file] \ stack'[k].todo
          BY <1>1, <5>1
        <5> QED BY <5>1, <5>2, <5>3 DEF x
      <4>2. CASE k = n - 1 /\ g \in Handed
        <5>1. g.name # <<>> /\ x = mod
          BY <2>1, <4>2
        <5> HIDE DEF x
        <5>2. ~Loading(k, x)'
          BY <2>3, <4>2
        <5>3. x \in imports'[stack'[k].file] \ stack'[k].todo
          BY <1>1, <2>2, <4>2, <5>1
        <5> QED BY <5>1, <5>2, <5>3 DEF x
      <4> QED BY <2>7, <4>1, <4>2
    <3>3. ASSUME NEW k \in Depth', NEW g \in stack'[k].globals,
                 NEW h \in stack'[k].globals, g.name = h.name, g.name # <<>>
          PROVE  g.file = h.file
      <4>1. CASE g \in stack[k].globals /\ h \in stack[k].globals
        BY <2>7, <3>3, <4>1 DEF NInv, HeldNames
      <4>2. CASE g \in Handed /\ h \in Handed
        BY <2>1, <3>3, <4>2
      <4>3. ASSUME NEW u \in stack[k].globals, NEW v \in Handed, k = n - 1,
                   u.name = v.name
            PROVE  FALSE
        <5> DEFINE x == Head(u.name)
        <5>1. u.name # <<>> /\ x = mod
          BY <2>1, <4>3
        <5>2. ~Loading(k, x)
          BY <3>1, <4>3, <5>1
        <5> HIDE DEF x
        <5> QED BY <2>3, <4>3, <5>1, <5>2
      <4> QED BY <2>7, <3>3, <4>1, <4>2, <4>3
    <3> QED BY <3>2, <3>3 DEF HeldNames
  <2>9. OneImporter' => OneImporter
    BY <1>1 DEF OneImporter
  <2>10. \A k \in Depth' : \A s, f : Names(k, s, f) => Names(k, s, f)'
    BY <1>1 DEF Names
  <2>11. \A k \in Depth' : k = n - 1 =>
           \A y \in Handed : Names(k, y.name, y.file)'
    BY <1>1 DEF Names
  <2>12. RefsKept'
    <3>1. \A k \in Depth' : \A g \in stack'[k].globals :
            g.self = g.name /\ DOMAIN g.refs = imports'[g.file]
      BY <1>1, <2>1, <2>7 DEF NInv, RefsKept
    <3>2. ASSUME OneImporter', NEW k \in Depth',
                 NEW x \in imports'[stack'[k].file] \ stack'[k].todo
          PROVE  Loading(k, x)' \/ Names(k, <<x>>, ResolvePath(x))'
      <4>1. Loading(k, x) \/ Names(k, <<x>>, ResolvePath(x))
        BY <1>1, <2>7, <2>9, <3>2 DEF NInv, RefsKept
      <4>2. CASE Names(k, <<x>>, ResolvePath(x))
        BY <2>10, <4>2
      <4>3. CASE Loading(k, x) /\ k # n - 1
        BY <2>3, <4>3
      <4>4. CASE Loading(k, x) /\ k = n - 1
        <5>1. x = mod
          BY <2>3, <4>4
        <5>2. PICK y \in Handed : y.name = <<x>> /\ y.file = ResolvePath(x)
          BY <2>1, <2>2, <5>1
        <5>3. Names(k, y.name, y.file)'
          BY <2>11, <4>4
        <5> QED BY <5>2, <5>3
      <4> QED BY <4>1, <4>2, <4>3, <4>4
    <3>3. ASSUME OneImporter', NEW k \in Depth', NEW g \in stack'[k].globals,
                 NEW x \in imports'[g.file]
          PROVE  Names(k, g.refs[x], ResolvePath(x))'
      <4>1. CASE g \in stack[k].globals
        <5>1. Names(k, g.refs[x], ResolvePath(x))
          BY <1>1, <2>7, <2>9, <3>3, <4>1 DEF NInv, RefsKept
        <5> QED BY <2>10, <5>1
      <4>2. CASE k = n - 1 /\ g \in Handed
        <5>1. PICK y \in Handed : y.name = g.refs[x] /\ y.file = ResolvePath(x)
          BY <1>1, <2>1, <2>9, <3>3, <4>2
        <5>2. Names(k, y.name, y.file)'
          BY <2>11, <4>2
        <5> QED BY <5>1, <5>2
      <4> QED BY <2>7, <4>1, <4>2
    <3> QED BY <3>1, <3>2, <3>3 DEF RefsKept
  <2> QED BY <1>1, <2>4, <2>5, <2>6, <2>8, <2>12 DEF NInv
<1> QED BY <1>3, <1>4

PreludeLeft ==
  /\ prelude \in Seq(PreludeModule)
  /\ status = "done" => Top.todo = {}

LEMMA PreludeInit == Init => PreludeLeft
<1>1. Prelude \in Seq(Module) /\ Len(Prelude) \in Nat
  BY ModuleAssumption
<1>2. \A i \in 1..Len(Prelude) : Prelude[i] \in PreludeModule
  BY DEF PreludeModule
<1>3. Prelude \in Seq(PreludeModule)
  BY <1>1, <1>2
<1> QED BY <1>3 DEF Init, PreludeLeft

LEMMA NamesNext == NInv /\ PreludeLeft /\ [Next]_vars => NInv' /\ PreludeLeft'
<1> SUFFICES ASSUME NInv, PreludeLeft, [Next]_vars PROVE NInv' /\ PreludeLeft'
  OBVIOUS
<1>0. IInv /\ IInv'
  BY NextInvariant DEF NInv
<1>1. /\ Len(stack) \in Depth /\ Top \in Call /\ Top = stack[Len(stack)]
      /\ Top.todo \subseteq Module
  <2>1. Len(stack) \in Depth /\ stack[Len(stack)] \in Call
    BY <1>0 DEF IInv, Calls, Depth
  <2> QED BY <2>1 DEF Top, Call
<1>2. CASE LoadPrelude
  <2> DEFINE m == Head(prelude)
             file == IF m \in StdModule THEN <<"std", m>> ELSE NoFile
             todo == Top.todo
  <2>1. m \in PreludeModule /\ PreludeLeft'
    <3>1. status = "loading" /\ status' # "done"
      BY <1>2 DEF LoadPrelude, LoadModule, Exit
    <3> QED BY <1>2, <3>1 DEF LoadPrelude, PreludeLeft
  <2>2. m \in Module
    BY <1>0, <1>2 DEF LoadPrelude, IInv, Inputs
  <2>3. file \in File \cup {NoFile}
        /\ (file \in File => file \in StdFile /\ file[2] = m)
    <3>1. m \in StdModule => <<"std", m>> \in StdFile /\ <<"std", m>>[2] = m
      BY DEF StdFile
    <3> QED BY <3>1, FilesDiffer DEF File
  <2>4. /\ Len(stack) = 1 /\ UNCHANGED imports
        /\ LoadModule(m, file, TRUE, Top)
    BY <1>2 DEF LoadPrelude
  <2>5. [Top EXCEPT !.todo = Top.todo] = Top
    BY <1>1 DEF Call
  <2> HIDE DEF m, file
  <2>6. /\ LoadModule(m, file, TRUE, [Top EXCEPT !.todo = todo])
        /\ todo \in SUBSET Top.todo
    BY <2>4, <2>5
  <2> HIDE DEF todo
  <2>7. CASE UNCHANGED <<importedFiles, stack>>
    BY <1>0, <2>1, <2>4, <2>7, NamesSame
  <2> DEFINE Kept ==
        \A k \in Depth :
          /\ stack'[k].file = stack[k].file
          /\ stack'[k].mod = stack[k].mod
          /\ stack'[k].open = stack[k].open
          /\ stack'[k].globals = stack[k].globals
          /\ stack'[k].todo = IF k = Len(stack) THEN todo ELSE stack[k].todo
  <2>8. CASE UNCHANGED importedFiles /\ Depth' = Depth /\ Kept
    <3>1. /\ todo \subseteq stack[Len(stack)].todo
          /\ stack[Len(stack)].todo \ todo = {}
      BY <1>1 DEF todo
    <3> QED BY <1>0, <2>1, <2>4, <2>8, <3>1, NamesLoadedBefore
  <2>9. CASE /\ file \in File /\ file \notin importedFiles
             /\ importedFiles' = importedFiles \cup {file}
             /\ Depth' = Depth \cup {Len(stack) + 1}
             /\ Kept
             /\ stack'[Len(stack) + 1] = Frame(file, m, TRUE, imports[file])
    <3>1. todo = stack[Len(stack)].todo
      BY <1>1 DEF todo
    <3>2. todo \subseteq stack[Len(stack)].todo
      BY <3>1
    <3>3. PICK open \in BOOLEAN : open
      OBVIOUS
    <3>4. stack'[Len(stack) + 1] = Frame(file, m, open, imports[file])
      BY <2>9, <3>3
    <3>6. /\ file \in StdFile /\ file[2] = m
          /\ Len(stack) = 1 /\ UNCHANGED imports
      BY <2>3, <2>4, <2>9
    <3>7. open => /\ Len(stack) = 1 /\ file \in StdFile
                  /\ m \in PreludeModule /\ todo = stack[Len(stack)].todo
      BY <2>1, <3>1, <3>6
    <3>8. ~open => /\ m \in stack[Len(stack)].todo /\ file = ResolvePath(m)
                   /\ todo = stack[Len(stack)].todo \ {m}
      BY <3>3
    <3>5. NInv'
      BY <1>0, <2>2, <2>9, <3>2, <3>3, <3>4, <3>6, <3>7, <3>8, NamesEntered, ZenonT(40)
    <3> QED BY <2>1, <3>5
  <2>10. \/ UNCHANGED <<importedFiles, stack>>
         \/ UNCHANGED importedFiles /\ Depth' = Depth /\ Kept
         \/ /\ file \in File /\ file \notin importedFiles
            /\ importedFiles' = importedFiles \cup {file}
            /\ Depth' = Depth \cup {Len(stack) + 1}
            /\ Kept
            /\ stack'[Len(stack) + 1] = Frame(file, m, TRUE, imports[file])
    <3>1. TRUE \in BOOLEAN /\ file \in File \cup {NoFile}
      BY <2>3
    <3> QED BY <1>0, <2>2, <2>6, <3>1, LoadOutcome, ZenonT(40)
  <2> QED BY <2>7, <2>8, <2>9, <2>10
<1>3. ASSUME NEW m \in Module, ImportStmt(m) PROVE NInv' /\ PreludeLeft'
  <2> DEFINE file == ResolvePath(m)
             todo == Top.todo \ {m}
  <2>1. PreludeLeft' /\ m \in Top.todo /\ UNCHANGED imports
    <3>1. status' # "done"
      BY <1>3 DEF ImportStmt, LoadModule, Exit
    <3> QED BY <1>3, <3>1 DEF ImportStmt, PreludeLeft
  <2>2. /\ file \in File \cup {NoFile}
        /\ file \in File => file[2] = m
        /\ todo \in SUBSET Top.todo
    BY FilesDiffer, ResolvedFile DEF ResolvePath
  <2>3. LoadModule(m, file, FALSE, [Top EXCEPT !.todo = todo])
    BY <1>3, <1>1 DEF ImportStmt, Call
  <2>4. /\ todo \subseteq stack[Len(stack)].todo
        /\ todo = stack[Len(stack)].todo \ {m}
        /\ m \in stack[Len(stack)].todo
    BY <1>1, <2>1
  <2>5. importedFiles \subseteq File
    BY <1>0 DEF IInv, Inputs
  <2>6. file = ResolvePath(m)
    OBVIOUS
  <2> HIDE DEF file, todo
  <2>7. CASE UNCHANGED <<importedFiles, stack>>
    BY <1>0, <2>1, <2>7, NamesSame
  <2> DEFINE Kept ==
        \A k \in Depth :
          /\ stack'[k].file = stack[k].file
          /\ stack'[k].mod = stack[k].mod
          /\ stack'[k].open = stack[k].open
          /\ stack'[k].globals = stack[k].globals
          /\ stack'[k].todo = IF k = Len(stack) THEN todo ELSE stack[k].todo
  <2>8. CASE /\ UNCHANGED importedFiles /\ file \in importedFiles
             /\ Depth' = Depth /\ Kept
    <3>1. \A x \in stack[Len(stack)].todo \ todo :
            \E f \in importedFiles : f[2] = x
      BY <2>2, <2>4, <2>5, <2>8
    <3>2. NInv /\ IInv' /\ UNCHANGED <<imports, importedFiles>>
      BY <1>0, <2>1, <2>8
    <3>3. NInv'
      BY <2>4, <2>8, <3>1, <3>2, NamesLoadedBefore, ZenonT(40)
    <3> QED BY <2>1, <3>3
  <2>9. CASE /\ file \in File /\ file \notin importedFiles
             /\ importedFiles' = importedFiles \cup {file}
             /\ Depth' = Depth \cup {Len(stack) + 1}
             /\ Kept
             /\ stack'[Len(stack) + 1] = Frame(file, m, FALSE, imports[file])
    <3>1. NInv /\ IInv' /\ UNCHANGED imports /\ FALSE \in BOOLEAN
      BY <1>0, <2>1
    <3>2. file[2] = m
      BY <2>2, <2>9
    <3>3. NInv'
      BY <1>3, <2>4, <2>6, <2>9, <3>1, <3>2, NamesEntered, ZenonT(40)
    <3> QED BY <2>1, <3>3
  <2> QED BY <1>0, <2>2, <2>3, <2>7, <2>8, <2>9, LoadOutcome, ZenonT(40)
<1>4. CASE ModuleLoaded
  <2>1. status = "loading" /\ UNCHANGED <<status, prelude>>
    BY <1>4 DEF ModuleLoaded
  <2> QED BY <1>0, <1>4, <2>1, NamesReturned DEF PreludeLeft
<1>5. CASE ImportsResolved
  <2>1. NInv'
    BY <1>0, <1>5, NamesSame DEF ImportsResolved
  <2> QED BY <1>5, <2>1 DEF ImportsResolved, PreludeLeft, Top
<1>6. CASE UNCHANGED vars
  <2>1. NInv'
    BY <1>0, <1>6, NamesSame DEF vars
  <2> QED BY <1>6, <2>1 DEF vars, PreludeLeft, Top
<1> QED BY <1>2, <1>3, <1>4, <1>5, <1>6 DEF Next

LEMMA NamesAlways == Spec => [](NInv /\ PreludeLeft)
BY NamesInit, PreludeInit, NamesNext, PTL DEF Spec

\* Two globals of the finished program with one name are of one file, or of
\* two files of the standard library, however the imports are nested.
THEOREM RenamedApart == Spec => []NamesDiffer
<1>1. NInv => NamesDiffer
  <2> SUFFICES ASSUME NInv, status = "done", NEW g \in Collected,
                      NEW h \in Collected, g.name = h.name, g.file # h.file
               PROVE  {g.file, h.file} \subseteq StdFile
    BY DEF NamesDiffer
  <2>1. Depth = {1}
    <3>1. Len(stack) = 1
      BY DEF NInv, IInv, AllDone
    <3>2. Depth = 1..1
      BY <3>1 DEF Depth
    <3> QED BY <3>2
  <2>2. g \in stack[1].globals /\ h \in stack[1].globals
    BY <2>1 DEF Collected, Depth
  <2>3. g.name = <<>>
    BY <2>1, <2>2 DEF NInv, HeldNames
  <2> QED BY <2>1, <2>2, <2>3 DEF NInv, HeldNames
<1> QED BY <1>1, NamesAlways, PTL

\* A set of importers with at most one element has no two.
LEMMA FewImporters ==
  ASSUME NInv, \A m \in Module : Cardinality(Importers(m)) <= 1,
         \A m \in PreludeModule : Importers(m) = {}
  PROVE  OneImporter
<1> DEFINE all == {Main} \cup importedFiles
<1>1. IsFiniteSet(all)
  BY FS_AddElement DEF NInv
<1>2. \A f \in all : imports[f] \subseteq Module
  BY DEF NInv, IInv, Inputs
<1>3. ASSUME NEW f \in all, NEW h \in all, NEW m \in imports[f] \cap imports[h]
      PROVE  f = h
  <2>1. f \in Importers(m) /\ h \in Importers(m) /\ m \in Module
        /\ Importers(m) \in SUBSET all
    BY <1>2 DEF Importers
  <2>2. IsFiniteSet(Importers(m)) /\ Cardinality(Importers(m)) <= 1
    BY <1>1, <2>1, FS_Subset
  <2>3. Cardinality(Importers(m)) \in Nat
    BY <2>2, FS_CardinalityType
  <2>4. Cardinality(Importers(m)) # 0
    BY <2>1, <2>2, FS_EmptySet
  <2>5. Cardinality(Importers(m)) = 1
    BY <2>2, <2>3, <2>4
  <2>6. \E x : Importers(m) = {x}
    BY <2>2, <2>5, FS_Singleton
  <2> QED BY <2>1, <2>6
<1>4. \A f \in all : imports[f] \cap PreludeModule = {}
  BY DEF Importers
<1> QED BY <1>3, <1>4 DEF OneImporter

\* When no module is imported from two places, every reference to a global of
\* an imported module names that global in the program.
THEOREM ReferencesResolve == Spec => []RefsResolve
<1>1. NInv /\ PreludeLeft => RefsResolve
  <2> SUFFICES ASSUME NInv, PreludeLeft, status = "done",
                      \A m \in Module : Cardinality(Importers(m)) <= 1,
                      \A m \in PreludeModule : Importers(m) = {}
               PROVE  /\ \A m \in imports[Main] :
                           \E x \in Collected :
                             x.name = <<m>> /\ x.file = ResolvePath(m)
                      /\ \A g \in Collected :
                           /\ g.self = g.name
                           /\ \A m \in DOMAIN g.refs :
                                \E x \in Collected :
                                  /\ x.name = g.refs[m]
                                  /\ x.file = ResolvePath(m)
    BY DEF RefsResolve
  <2>0. Len(stack) = 1
    BY DEF NInv, IInv, AllDone
  <2>1. Depth = {1} /\ stack[1].file = Main
    <3>1. Depth = 1..1
      BY <2>0 DEF Depth
    <3> QED BY <3>1 DEF NInv, IInv, Calls
  <2>2. Collected = stack[1].globals
    BY <2>1 DEF Collected, Depth
  <2>3. OneImporter
    BY FewImporters
  <2>4. \A x : ~Loading(1, x)
    BY <2>1 DEF Loading
  <2>5. stack[1].todo = {}
    BY <2>0 DEF PreludeLeft, Top
  <2>6. \A m \in imports[Main] : Names(1, <<m>>, ResolvePath(m))
    BY <2>1, <2>3, <2>4, <2>5 DEF NInv, RefsKept
  <2>7. \A g \in stack[1].globals :
          /\ g.self = g.name /\ DOMAIN g.refs = imports[g.file]
          /\ \A m \in imports[g.file] : Names(1, g.refs[m], ResolvePath(m))
    BY <2>1, <2>3 DEF NInv, RefsKept
  <2> QED BY <2>2, <2>6, <2>7 DEF Names
<1> QED BY <1>1, NamesAlways, PTL
=============================================================================
