------------------------------ MODULE Importer ------------------------------
(***************************************************************************)
(* The importer of the compiler (src/importer).  It loads the modules of   *)
(* the prelude, then those the program imports, depth first; each module's *)
(* globals, with those of the modules it imports, are renamed under the    *)
(* module's name and handed to the importing module.                       *)
(*                                                                         *)
(* Every module defines one global, by the same name in all of them, which *)
(* refers to itself and to the globals of the modules its file imports.  A *)
(* qualified name is the sequence of module names in front of it.          *)
(***************************************************************************)
EXTENDS Naturals, Sequences, FiniteSets

CONSTANTS
  Module,      \* names that can follow `import`
  Prelude,     \* PRELUDE_MODULES, in their order
  UserModule,  \* modules with a file beside the program's
  StdModule,   \* modules with a file in the standard library
  MaxImports   \* bound: imports in one file

PreludeModule == {Prelude[k] : k \in 1..Len(Prelude)}

ASSUME ModuleAssumption ==
  /\ UserModule \subseteq Module /\ StdModule \subseteq Module
  /\ Prelude \in Seq(Module)
  /\ MaxImports \in Nat

UserFile == {"user"} \X UserModule
StdFile  == {"std"} \X StdModule
File     == UserFile \cup StdFile
Main     == <<"main", "main">>
NoFile   == <<"none", "none">>
Name     == Seq(Module)

VARIABLES
  imports,        \* file -> the modules it imports
  malformed,      \* the files that do not parse
  importedFiles,
  prelude,        \* prelude modules not loaded yet
  stack,          \* the calls of loadModule in progress, main's at the bottom
  status          \* "loading", or how it ended

vars == <<imports, malformed, importedFiles, prelude, stack, status>>

Top == stack[Len(stack)]

\* The file an import names: the program's directory first.
ResolvePath(m) ==
  IF m \in UserModule THEN <<"user", m>> ELSE
  IF m \in StdModule THEN <<"std", m>> ELSE NoFile

\* A global as the parser delivers it.
Parsed(file) ==
  [file |-> file, name |-> <<>>, self |-> <<>>,
   refs |-> [m \in imports[file] |-> <<m>>]]

\* Mutant: references are left as they were.
BugMangleNamesOnly(mod, globals) ==
  {[g EXCEPT !.name = <<mod>> \o @, !.self = <<mod>> \o @] : g \in globals}

\* Mutant: an import is open whatever it was written as.
BugNoMangle(mod, globals) == globals

\* ASTNameMangler: a name is prefixed wherever it occurs when it is the name
\* of one of the globals collected, those of imported modules included.
Mangle(mod, globals) ==
  LET globalNames == {g.name : g \in globals}
      mangled(n) == IF n \in globalNames THEN <<mod>> \o n ELSE n
  IN  {[g EXCEPT !.name = mangled(@), !.self = mangled(@),
                 !.refs = [m \in DOMAIN @ |-> mangled(@[m])]] : g \in globals}

Frame(file, mod, open, todo) ==
  [file |-> file, mod |-> mod, open |-> open, todo |-> todo, globals |-> {}]

Init ==
  /\ imports \in [File \cup {Main} -> {S \in SUBSET Module :
                                         Cardinality(S) <= MaxImports}]
  /\ \A f \in StdFile : imports[f] = {}
  /\ malformed \in {{}} \cup {{f} : f \in UserFile}
  /\ importedFiles = {}
  /\ prelude = Prelude
  /\ stack = <<Frame(Main, "main", TRUE, imports[Main])>>
  /\ status = "loading"

\* exit(1) ends the compiler.
Exit(code) ==
  status' = code /\ UNCHANGED <<importedFiles, stack>>

\* Mutant: the file is entered into importedFiles only once it is loaded.
BugCheckLate(m, file, open, caller) ==
  IF file = NoFile THEN Exit("ERROR501") ELSE
  IF \E g \in caller.globals : g.file = file
  THEN /\ stack' = [stack EXCEPT ![Len(stack)] = caller]
       /\ UNCHANGED <<importedFiles, status>>
  ELSE /\ importedFiles' = importedFiles \cup {file}
       /\ stack' = Append([stack EXCEPT ![Len(stack)] = caller],
                          Frame(file, m, open, imports[file]))
       /\ UNCHANGED status

\* Mutant: a file that was loaded before stays an import to be done.
BugImportKept(m, file, open, caller) ==
  IF file = NoFile THEN Exit("ERROR501") ELSE
  IF file \in importedFiles THEN UNCHANGED <<importedFiles, stack, status>>
  ELSE IF file \in malformed THEN Exit("syntax")
  ELSE /\ importedFiles' = importedFiles \cup {file}
       /\ stack' = Append([stack EXCEPT ![Len(stack)] = caller],
                          Frame(file, m, open, imports[file]))
       /\ UNCHANGED status

\* Mutant: the file is never entered into importedFiles.
BugNotEntered(m, file, open, caller) ==
  IF file = NoFile THEN Exit("ERROR501") ELSE
  IF file \in importedFiles
  THEN /\ stack' = [stack EXCEPT ![Len(stack)] = caller]
       /\ UNCHANGED <<importedFiles, status>>
  ELSE IF file \in malformed THEN Exit("syntax")
  ELSE /\ stack' = Append([stack EXCEPT ![Len(stack)] = caller],
                          Frame(file, m, open, imports[file]))
       /\ UNCHANGED <<importedFiles, status>>

\* loadModule up to its loop over the module's globals; caller is the frame
\* of the caller with the import taken off.
LoadModule(m, file, open, caller) ==
  IF file = NoFile THEN Exit("ERROR501") ELSE
  IF file \in importedFiles
  THEN /\ stack' = [stack EXCEPT ![Len(stack)] = caller]
       /\ UNCHANGED <<importedFiles, status>>
  ELSE IF file \in malformed THEN Exit("syntax")
  ELSE /\ importedFiles' = importedFiles \cup {file}
       /\ stack' = Append([stack EXCEPT ![Len(stack)] = caller],
                          Frame(file, m, open, imports[file]))
       /\ UNCHANGED status

LoadPrelude ==
  /\ status = "loading"
  /\ Len(stack) = 1 /\ prelude # <<>>
  /\ prelude' = Tail(prelude)
  /\ LET m == Head(prelude)
     IN  LoadModule(m, IF m \in StdModule THEN <<"std", m>> ELSE NoFile, TRUE,
                    Top)
  /\ UNCHANGED <<imports, malformed>>

\* The next import statement of the module on top, in any order the source
\* may have them.
ImportStmt(m) ==
  /\ status = "loading"
  /\ Len(stack) > 1 \/ prelude = <<>>
  /\ m \in Top.todo
  /\ LoadModule(m, ResolvePath(m), FALSE, [Top EXCEPT !.todo = @ \ {m}])
  /\ UNCHANGED <<imports, malformed, prelude>>

\* Mutant: a module hands on its own globals only, not those it imported.
BugOwnGlobalsOnly ==
  /\ status = "loading"
  /\ Len(stack) > 1 /\ Top.todo = {}
  /\ LET below == Len(stack) - 1
         own == Mangle(Top.mod, {Parsed(Top.file)})
     IN  stack' = [k \in 1..below |->
                    IF k = below
                    THEN [stack[k] EXCEPT !.globals = @ \cup own]
                    ELSE stack[k]]
  /\ UNCHANGED <<imports, malformed, importedFiles, prelude, status>>

\* The rest of loadModule: its globals are renamed and handed to its caller.
ModuleLoaded ==
  /\ status = "loading"
  /\ Len(stack) > 1 /\ Top.todo = {}
  /\ LET below == Len(stack) - 1
         globals == Top.globals \cup {Parsed(Top.file)}
         processed == IF Top.open THEN globals ELSE Mangle(Top.mod, globals)
     IN  stack' = [k \in 1..below |->
                    IF k = below
                    THEN [stack[k] EXCEPT !.globals = @ \cup processed]
                    ELSE stack[k]]
  /\ UNCHANGED <<imports, malformed, importedFiles, prelude, status>>

ImportsResolved ==
  /\ status = "loading"
  /\ Len(stack) = 1 /\ prelude = <<>> /\ Top.todo = {}
  /\ status' = "done"
  /\ UNCHANGED <<imports, malformed, importedFiles, prelude, stack>>

Next ==
  \/ LoadPrelude
  \/ \E m \in Module : ImportStmt(m)
  \/ ModuleLoaded
  \/ ImportsResolved

Spec == Init /\ [][Next]_vars

\* The importer is one sequential call.
FairSpec == Spec /\ WF_vars(Next)

-----------------------------------------------------------------------------
(***************************************************************************)
(* Properties                                                              *)
(***************************************************************************)
Collected == UNION {stack[k].globals : k \in 1..Len(stack)}

TypeOK ==
  /\ imports \in [File \cup {Main} -> SUBSET Module]
  /\ malformed \subseteq File
  /\ importedFiles \subseteq File
  /\ prelude \in Seq(Module)
  /\ stack # <<>> /\ stack[1].file = Main
  /\ \A k \in 1..Len(stack) :
       /\ stack[k].todo \subseteq imports[stack[k].file]
       /\ k > 1 => stack[k].file \in importedFiles
  /\ status \in {"loading", "done", "ERROR501", "syntax"}

\* No file is loaded twice, not even when modules import each other in a
\* cycle or a module is reached through several others: the calls in progress
\* and the globals already collected are all of different files.
LoadedOnce ==
  /\ \A j, k \in 1..Len(stack) : stack[j].file = stack[k].file => j = k
  /\ \A g \in Collected, k \in 1..Len(stack) : g.file # stack[k].file
  /\ \A g, h \in Collected : g.file = h.file => g = h

\* Every file that was reached is in the result, exactly as often as it should
\* be: nothing importedFiles stopped from loading again has been lost.
NothingLost ==
  status = "done" => {g.file : g \in Collected} = importedFiles

\* Modules that define the same name do not collide after renaming, however
\* they are nested (the prelude is imported without renaming).
NamesDiffer ==
  status = "done" =>
    \A g, h \in Collected :
      g.name = h.name /\ g.file # h.file => {g.file, h.file} \subseteq StdFile

\* When no module is imported from two places, every reference to an imported
\* module's global, from a module or from the program, names that global in
\* the result, whatever the depth of the nesting.
Importers(m) == {f \in {Main} \cup importedFiles : m \in imports[f]}
RefsResolve ==
  /\ status = "done"
  /\ \A m \in Module : Cardinality(Importers(m)) <= 1
  /\ \A m \in PreludeModule : Importers(m) = {}
  =>
  LET Names(n, file) == \E g \in Collected : g.name = n /\ g.file = file
  IN  /\ \A m \in imports[Main] : Names(<<m>>, ResolvePath(m))
      /\ \A g \in Collected :
           /\ g.self = g.name
           /\ \A m \in DOMAIN g.refs : Names(g.refs[m], ResolvePath(m))

\* importer.cpp line 11: the mangler is run on the globals of a module, and
\* add() becomes moduleName.add().
NamedAfterModule ==
  status = "done" =>
    \A m \in imports[Main] \ PreludeModule :
      \E g \in Collected : g.name = <<m>> /\ g.file = ResolvePath(m)

\* Resolving the imports ends, cyclic imports included.
ImportsEnd == <>(status # "loading")
=============================================================================
