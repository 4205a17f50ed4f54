---------------------------- MODULE CompileDriver ----------------------------
(***************************************************************************)
(* One invocation of the compiler, bery compile or bery run (src/cli),     *)
(* with the diagnostic engine its passes report to (src/diagnostic).  The  *)
(* lexer and the parser run as in their modules, which share `errors' with *)
(* it, the parser whatever the lexer reported.  The importer, the semantic *)
(* analyser, the code generator and clang are taken by what they may come  *)
(* to; of the program bery run starts, the output is followed (Console).   *)
(*                                                                         *)
(* The files are those beside the source: "before" is whatever an earlier  *)
(* invocation left there, which may be nothing.                            *)
(***************************************************************************)
EXTENDS Parser

CONSTANTS Char, MaxChars, BufferSize, MaxText, MaxPrinted

ASSUME DriverAssumption ==
  /\ MaxChars \in Nat /\ MaxText \in Nat /\ MaxPrinted \in Nat
  /\ BufferSize \in Nat \ {0}

VARIABLES
  unread, next, past, scan, last,   \* the lexer's
  outputBuffer, outputPos, text, after, process,
  shown, printed, due,              \* the program's
  stage,     \* what runs now, "looping" in the analyser, or "exited"
  code,      \* the exit code
  ll, obj, exe,
  found,     \* history: the errors the semantic analyser reported
  circular,  \* history: it met a program in which a class inherits from itself
  wrote,     \* history: the IR file could be written
  ran        \* history: the program bery run has run

L == INSTANCE Lexer
C == INSTANCE Console

consoleVars ==
  <<outputBuffer, outputPos, text, after, process, shown, printed, due>>
lexerVars == <<unread, next, past, scan, last>>
files == <<ll, obj, exe>>
history == <<found, circular, wrote, ran>>
parserVars == <<left, ahead, work, tries, mode, depth, runBlock,
                moduleOptionalRun, nest, lax>>
driverVars == <<vars, lexerVars, consoleVars, stage, code, files, history>>

DriverInit ==
  /\ Init /\ L!Init /\ C!Init
  /\ stage = "start" /\ code = 0
  /\ ll = "before" /\ obj = "before" /\ exe = "before"
  /\ found = {} /\ circular = FALSE /\ wrote = FALSE /\ ran = "nothing"

Exit(n) == stage' = "exited" /\ code' = n
Go(to) == stage' = to /\ UNCHANGED code

\* Without a toolchain (10), the runtime's library (11) or the source (3)
\* there is nothing to do.
Open ==
  /\ stage = "start"
  /\ Exit(10) \/ Exit(11) \/ Exit(3) \/ Go("lexer")
  /\ UNCHANGED <<vars, lexerVars, consoleVars, files, history>>

Lex ==
  /\ stage = "lexer"
  /\ \/ L!Next /\ UNCHANGED stage
     \/ /\ scan = "done" /\ stage' = "parser"
        /\ UNCHANGED <<lexerVars, errors>>
  /\ UNCHANGED <<parserVars, consoleVars, code, files, history>>

Parse ==
  /\ stage = "parser"
  /\ Next
  /\ UNCHANGED <<lexerVars, consoleVars, stage, code, files, history>>

SyntaxChecked ==
  /\ stage = "parser" /\ mode = "done"
  /\ IF errors THEN Exit(5) ELSE Go("importer")
  /\ UNCHANGED <<vars, lexerVars, consoleVars, files, history>>

\* No one catches what a conversion of the parser throws.
SyntaxAborted ==
  /\ stage = "parser" /\ mode = "aborted"
  /\ Exit(134)
  /\ UNCHANGED <<vars, lexerVars, consoleVars, files, history>>

\* resolveImports ends the compiler when it fails: a module that is not found
\* is reported to the engine of the main file, errors in a module only to the
\* module's own, and the parser may abort on a module as on the main file.
ResolveImports ==
  /\ stage = "importer"
  /\ \/ Exit(1) /\ (errors' = TRUE \/ UNCHANGED errors)
     \/ (Exit(134) \/ Go("sema")) /\ UNCHANGED errors
  /\ UNCHANGED <<parserVars, lexerVars, consoleVars, files, history>>

\* DiagnosticEngine::report: a code the registry does not list is not counted.
Counted(reports) == "listed" \in reports

\* The analyser goes on after an error and may then ask for what it has just
\* reported not to be there: the symbol table aborts, a null pointer is
\* followed.
AfterErrors == \E n \in {6, 134, 139} : Exit(n)

\* The ancestors of a class that inherits from itself, by way of others or
\* not, are followed without end: by recursion until the stack is full, or by
\* a loop.
FollowAncestors == Exit(139) \/ Go("looping")

\* Mutant: the errors are not looked at when the analyser returns.
BugErrorsPassed ==
  /\ stage = "sema"
  /\ \E reports \in SUBSET {"listed", "unlisted"}, cycle \in BOOLEAN :
       /\ found' = reports /\ circular' = cycle
       /\ errors' = (errors \/ Counted(reports))
       /\ \/ ~cycle /\ Go("codegen")
          \/ errors' /\ AfterErrors
          \/ cycle /\ FollowAncestors
  /\ UNCHANGED <<parserVars, lexerVars, consoleVars, files, wrote, ran>>

\* Such a class is reported by a listed code, unless it is met before that.
Analyze ==
  /\ stage = "sema"
  /\ \E reports \in SUBSET {"listed", "unlisted"}, cycle \in BOOLEAN :
       /\ found' = reports /\ circular' = cycle
       /\ errors' = (errors \/ Counted(reports))
       /\ \/ ~errors' /\ ~cycle /\ Go("codegen")
          \/ errors' /\ AfterErrors
          \/ cycle /\ FollowAncestors
  /\ UNCHANGED <<parserVars, lexerVars, consoleVars, files, wrote, ran>>

\* generate looks at neither the opening nor the writing of its file; it
\* aborts on a name that the symbol table or its own maps do not have, and
\* takes arguments of built-in methods without asking how many there are.
Generate ==
  /\ stage = "codegen"
  /\ \/ (Exit(134) \/ Exit(139)) /\ UNCHANGED <<ll, wrote>>
     \/ Go("clang") /\ ll' = "new" /\ wrote' = TRUE
     \/ Go("clang") /\ UNCHANGED <<ll, wrote>>
  /\ UNCHANGED <<vars, lexerVars, consoleVars, obj, exe, found, circular, ran>>

\* The object file is made of the IR file that is there.
CompileIR ==
  /\ stage = "clang"
  /\ \/ Exit(12) /\ UNCHANGED obj
     \/ Go("link") /\ obj' = ll
  /\ UNCHANGED <<vars, lexerVars, consoleVars, ll, exe, history>>

\* Mutant: the linker's result is not looked at.
BugLinkUnchecked ==
  /\ stage = "link"
  /\ \/ /\ UNCHANGED <<code, exe>>
        /\ ll' = "none" /\ obj' = "none" /\ stage' = "run"
     \/ /\ exe' = obj /\ ll' = "none" /\ obj' = "none"
        /\ Exit(0) \/ Go("run")
  /\ UNCHANGED <<vars, lexerVars, consoleVars, history>>

\* Mutant: the intermediate files go only when the program is compiled.
BugRunLeavesFiles ==
  /\ stage = "link"
  /\ \/ Exit(13) /\ UNCHANGED files
     \/ exe' = obj /\ ll' = "none" /\ obj' = "none" /\ Exit(0)
     \/ exe' = obj /\ Go("run") /\ UNCHANGED <<ll, obj>>
  /\ UNCHANGED <<vars, lexerVars, consoleVars, history>>

\* The rest of cmdCompile; the command is looked at when it has returned.
Link ==
  /\ stage = "link"
  /\ \/ Exit(13) /\ UNCHANGED files
     \/ /\ exe' = obj /\ ll' = "none" /\ obj' = "none"
        /\ Exit(0) \/ Go("run")
  /\ UNCHANGED <<vars, lexerVars, consoleVars, history>>

Run ==
  /\ stage = "run"
  /\ C!Next
  /\ UNCHANGED <<vars, lexerVars, stage, code, files, history>>

\* cmdRun returns what system() returns, of which the shell sees the low byte:
\* the signal that ended the program, if there is no shell in between.
RunBinary ==
  /\ stage = "run" /\ process \in {"ended", "crashed"}
  /\ \/ \E status \in {0, 1} : Exit((256 * status) % 256)
     \/ process = "crashed" /\ Exit(11)
  /\ ran' = exe /\ exe' = "none"
  /\ UNCHANGED <<vars, lexerVars, consoleVars, ll, obj, found, circular, wrote>>

DriverNext ==
  \/ Open \/ Lex \/ Parse \/ SyntaxChecked \/ SyntaxAborted \/ ResolveImports
  \/ Analyze \/ Generate \/ CompileIR \/ Link \/ Run \/ RunBinary

DriverSpec ==
  DriverInit /\ [][DriverNext]_driverVars /\ WF_driverVars(DriverNext)

-----------------------------------------------------------------------------
(***************************************************************************)
(* Properties                                                              *)
(***************************************************************************)
\* Properties of the lexer.
MaximalMunch == L!MaximalMunch
ReadsInside == L!ReadsInside
NothingDropped == L!NothingDropped

\* An error of any pass keeps the compiler from writing a file or running a
\* program, and shows in its exit code: the code of the pass, or that of a
\* compiler that the pass went on to bring down.  The one error apart whose
\* code the registry of diagnostics does not list.
ErrorsStop ==
  errors \/ "listed" \in found =>
    /\ files = <<"before", "before", "before">> /\ ran = "nothing"
    /\ stage = "exited" => code \in {1, 5, 6, 134, 139}

\* A program is run, or left behind with exit code 0, only if it was built
\* from this source, provided the IR could be written: not one that an earlier
\* invocation left in its place.
BuiltFromSource ==
  /\ ran \in {"nothing", "new"} \/ ~wrote
  /\ stage = "exited" /\ code = 0 /\ wrote => exe = "new" \/ ran = "new"

\* Exit code 0 leaves no intermediate files behind, and a failure of the
\* compiler no program that was not there before.
FilesTellExit ==
  stage = "exited" =>
    IF code = 0 \/ ran # "nothing" THEN ll = "none" /\ obj = "none"
                                    ELSE exe = "before"

\* Properties of the program's output.
PrintedInOrder == C!PrintedInOrder
FlushPoints == C!FlushPoints

\* The compiler ends on every source, whatever errors it meets in it, unless
\* a class in it inherits from itself.
CompileEnds == <>(stage \in {"run", "exited"} \/ circular)
=============================================================================
