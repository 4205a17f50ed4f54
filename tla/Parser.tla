------------------------------- MODULE Parser -------------------------------
(***************************************************************************)
(* The recursive descent parser and its panic mode (src/parser).           *)
(*                                                                         *)
(* A parse function is a nonterminal and what is left of the functions in  *)
(* progress is `work', a sequence of the tokens still to be consumed and   *)
(* of the functions still to be called, the next one first.  The rules     *)
(* below say what each function does with the tokens ahead of it.  A       *)
(* statement loop (a block, a case, the program) calls its function inside *)
(* a try; `tries' are the try blocks in progress, the innermost last.      *)
(*                                                                         *)
(* Tokens are kinds: all type names are "type", all literals but integers  *)
(* "lit", the binary operators looser than `between' are "lo", the tighter *)
(* ones "hi"; "lbrace", "rbrace", "semi" and "comma" are { } ; and the     *)
(* comma.  The token vector is chosen as the parser looks at it.           *)
(* Lexemes are not modelled: a comparison of two may come out either way.  *)
(***************************************************************************)
EXTENDS Integers, Sequences, SequencesExt

CONSTANTS
  Token,      \* the kinds of tokens a file may have
  Starts,     \* what a file may begin with
  MaxTokens   \* bound: tokens after that

ASSUME ParserAssumption == MaxTokens \in Nat /\ Starts \subseteq Seq(Token)

VARIABLES
  left,       \* tokens the file may still have beyond `ahead'
  ahead,      \* the tokens looked at and not yet consumed
  work, tries,
  mode,       \* "parse", "sync" (in synchronize), "done" or "aborted"
  depth,      \* synchronize's local variable
  errors, runBlock, moduleOptionalRun,
  nest,       \* history: "{" consumed minus "}" consumed
  lax         \* history: a brace was taken for something else, see below

vars == <<left, ahead, work, tries, mode, depth, errors, runBlock,
          moduleOptionalRun, nest, lax>>

Tok(i) == IF i <= Len(ahead) THEN ahead[i] ELSE "eof"
La == Tok(1)
Top == work[1]
IsAtEnd == La = "eof"
IsTypeToken == La = "type"
IsClassVarDecl == La = "id" /\ Tok(2) = "id"
IsVarDecl == IsTypeToken \/ IsClassVarDecl

-----------------------------------------------------------------------------
(* What a function may do: go on with a sequence, note an error and go on, *)
(* throw a ParseError, or throw what nothing catches: stoi, stoll and stod *)
(* do so on the lexeme of a number that is out of their range.             *)
Then(s) == {[to |-> s, fault |-> "none"]}
Report(s) == {[to |-> s, fault |-> "report"]}
Throw == {[to |-> <<>>, fault |-> "throw"]}
Convert(s) == Then(s) \cup {[to |-> <<>>, fault |-> "abort"]}
When(t, s) == Then(IF La = t THEN s ELSE <<>>)
Unless(t, s) == Then(IF La = t THEN <<>> ELSE s)

Block == <<"lbrace", "Stmts", "rbrace">>
Condition == <<"(", "Expr", ")">>
Signature == <<"(", "Params", ")">>
FunctionDef == <<"func", "id">> \o Signature \o <<"Returns">> \o Block
ImportDecl == <<"import", "id", "Dots", "semi">>
ExternDecl == <<"extern", "func", "id">> \o Signature \o <<"Returns", "semi">>
WhileStmt == <<"while">> \o Condition \o Block
DoWhileStmt == <<"do">> \o Block \o <<"while">> \o Condition \o <<"semi">>
JumpStmt == <<"jump", "semi">>   \* break, continue and pass
ReturnStmt == <<"return", "RetVal", "semi">>
EnumDecl == <<"enum", "id", "=", "lbrace", "EnumVals", "rbrace", "semi">>

\* The kinds of tokens, and "any" where advance() takes one of any kind.
Terminal ==
  {"run", "func", "enum", "import", "extern", "class", "const", "lbrace",
   "rbrace", "(", ")", "[", "]", "semi", "comma", ":", "::", ".", "=", "->",
   "#", "~", "?", "id", "super", "type", "lit", "int", "if", "else", "while",
   "do", "for", "in", "range", "switch", "case", "default", "jump", "return",
   "attributes", "methods", "access", "new", "ref", "assign", "lo", "hi",
   "-", "un", "inc", "between", "any"}

PrologueFn == {"Prologues", "PrologueName", "PrologueValue", "SetModule"}
PrologueRule(n) ==
  CASE n = "Prologues" ->
         When("#", <<"#", "id", "PrologueName", "PrologueValue", "semi",
                     "Prologues">>)
    [] n = "PrologueName" -> Then(<<>>) \cup Throw
    [] n = "PrologueValue" ->
         IF La \in {"id", "lit"}
         THEN Then(<<La>>) \cup Then(<<La, "SetModule">>) \cup Throw
         ELSE Throw
    [] n = "SetModule" -> Then(<<>>)

GlobalFn == {"Global", "SetRun"}
GlobalRule(n) ==
  CASE n = "Global" ->
         (CASE La = "run" ->
                 Then(<<"run", "lbrace", "Stmts", "SetRun", "rbrace">>)
            [] La = "func" -> Then(FunctionDef)
            [] La = "enum" -> Then(EnumDecl)
            [] La = "import" -> Then(ImportDecl)
            [] La = "extern" -> Then(ExternDecl)
            [] La = "class" ->
                 Then(<<"class", "id", "Parent", "lbrace", "Attributes",
                        "MethodsOpt", "rbrace">>)
            [] La = "const" -> Then(<<"const", "VarDecl">>)
            [] OTHER -> IF IsVarDecl THEN Then(<<"VarDecl">>) ELSE Throw)
    [] n = "SetRun" -> Then(<<>>)

SimpleRule(n) ==
  CASE La = "const" /\ n = "Stmt" -> Then(<<"const", "AfterConst">>)
    [] La = "switch" ->
         Then(<<"switch">> \o Condition \o <<"lbrace", "Cases", "rbrace">>)
    [] La = "jump" -> Then(JumpStmt)
    [] La = "return" -> Then(ReturnStmt)
    [] La = "enum" -> Then(EnumDecl)
    [] OTHER -> Then(IF IsVarDecl THEN <<"VarDecl">> ELSE <<"Expr", "semi">>)

StatementFn == {"Stmt", "AfterConst", "NoBrace", "RetVal"}
StatementRule(n) ==
  CASE n = "Stmt" ->
         (CASE La = "if" -> Then(<<"IfStmt">>)
            [] La = "else" -> Then(<<"else", "NoBrace", "Stmts", "rbrace">>)
            [] La = "while" -> Then(WhileStmt)
            [] La = "do" -> Then(DoWhileStmt)
            [] La = "for" -> Then(<<"for", "(", "ForHead">>)
            [] OTHER -> SimpleRule(n))
    [] n = "AfterConst" -> SimpleRule(n)
    [] n = "NoBrace" -> Then(<<>>)
    [] n = "RetVal" -> Unless("semi", <<"Expr">>)

IfSwitchFn == {"IfStmt", "ElseOpt", "ElseBody", "Cases"}
IfSwitchRule(n) ==
  CASE n = "IfStmt" -> Then(<<"if">> \o Condition \o Block \o <<"ElseOpt">>)
    [] n = "ElseOpt" -> When("else", <<"else", "ElseBody">>)
    [] n = "ElseBody" -> Then(IF La = "if" THEN <<"IfStmt">> ELSE Block)
    [] n = "Cases" ->
         (CASE La \in {"eof", "rbrace"} -> Then(<<>>)
            [] La = "case" ->
                 Then(<<"case", "Expr", ":", "CaseStmts", "Cases">>)
            [] La = "default" ->
                 Then(<<"default", ":", "DefaultStmts", "Cases">>)
            [] OTHER -> Report(<<"any", "Cases">>))

ForFn ==
  {"ForHead", "ForIn", "RangeOpt", "StepOpt", "ForInit", "ForCond",
   "ForUpdates", "MoreUpdates"}
ForRule(n) ==
  CASE n = "ForHead" ->
         (CASE La = "id" /\ Tok(2) = "in" -> Then(<<"ForIn">>)
            [] La = "type" /\ Tok(2) = "id" /\ Tok(3) = "in" ->
                 Then(<<"type", "ForIn">>)
            [] OTHER ->
                 Then(<<"ForInit", "ForCond", "semi", "ForUpdates", ")">>
                      \o Block))
    [] n = "ForIn" ->
         Then(<<"id", "any", "Expr", "RangeOpt", "StepOpt", ")">> \o Block)
    [] n = "RangeOpt" -> When("range", <<"range", "Expr">>)
    [] n = "StepOpt" -> When("comma", <<"comma", "Expr">>)
    [] n = "ForInit" ->
         Unless("semi", <<IF IsTypeToken THEN "VarDecl" ELSE "Expr">>)
    [] n = "ForCond" -> Unless("semi", <<"Expr">>)
    [] n = "ForUpdates" -> Unless(")", <<"Expr", "MoreUpdates">>)
    [] n = "MoreUpdates" -> When("comma", <<"comma", "ForUpdates">>)

FunctionFn ==
  {"Params", "Param", "MoreParams", "Brackets", "Returns", "Args", "MoreArgs"}
FunctionRule(n) ==
  CASE n = "Params" -> Unless(")", <<"Param">>)
    [] n = "Param" -> Then(<<"any", "id", "Brackets", "MoreParams">>)
    [] n = "MoreParams" -> When("comma", <<"comma", "Param">>)
    [] n = "Brackets" -> When("[", <<"[", "]">>)
    [] n = "Returns" -> When("->", <<"->", "any", "Brackets">>)
    [] n = "Args" -> Unless(")", <<"Expr", "MoreArgs">>)
    [] n = "MoreArgs" -> When("comma", <<"comma", "Expr", "MoreArgs">>)

DeclFn ==
  {"VarDecl", "Declarator", "MoreDecls", "DeclTail", "EnumVals", "MoreEnum",
   "Dots"}
DeclRule(n) ==
  CASE n = "VarDecl" -> Then(<<"any", "Declarator", "semi">>)
    [] n = "Declarator" -> Then(<<"id", "DeclTail", "MoreDecls">>)
    [] n = "MoreDecls" -> When("comma", <<"comma", "Declarator">>)
    [] n = "DeclTail" ->
         Then(IF La = "[" THEN <<"[", "FirstDim">>
              ELSE IF La = "=" THEN <<"=", "Expr">> ELSE <<>>)
    [] n = "EnumVals" -> Unless("rbrace", <<"id", "MoreEnum">>)
    [] n = "MoreEnum" -> When("comma", <<"comma", "id", "MoreEnum">>)
    [] n = "Dots" -> When(".", <<".", "id", "Dots">>)

ArrayFn ==
  {"FirstDim", "SecondDim", "Dims", "Dim", "DynamicInit", "FixedInit",
   "DynamicValue", "FixedValue", "SkipToSemi", "Braced", "BracedItems",
   "BracedItem", "MoreItems"}
ArrayRule(n) ==
  CASE n = "FirstDim" ->
         IF La = "int" THEN Convert(<<"int", "]", "Dims", "FixedInit">>)
         ELSE Then(<<"]", "SecondDim">>)
    [] n = "SecondDim" ->
         Then(IF La = "[" THEN <<"Dims", "FixedInit">> ELSE <<"DynamicInit">>)
    [] n = "Dims" -> When("[", <<"[", "Dim", "]", "Dims">>)
    [] n = "Dim" -> IF La = "int" THEN Convert(<<"int">>) ELSE Then(<<>>)
    [] n = "DynamicInit" -> When("=", <<"=", "DynamicValue">>)
    [] n = "FixedInit" -> When("=", <<"=", "FixedValue">>)
    [] n = "DynamicValue" ->
         Then(IF La = "lbrace" THEN <<"Braced">> ELSE <<"Expr">>)
    [] n = "FixedValue" ->
         IF La = "lbrace" THEN Then(<<"Braced">>) ELSE Report(<<"SkipToSemi">>)
    [] n = "SkipToSemi" ->
         Then(IF La \in {"eof", "semi"} THEN <<>> ELSE <<"any", "SkipToSemi">>)
    [] n = "Braced" -> Then(<<"lbrace", "BracedItems", "rbrace">>)
    [] n = "BracedItems" -> Unless("rbrace", <<"BracedItem">>)
    [] n = "BracedItem" ->
         Then(<<IF La = "lbrace" THEN "Braced" ELSE "Expr", "MoreItems">>)
    [] n = "MoreItems" -> When("comma", <<"comma", "BracedItem">>)

ClassFn == {"Parent", "Attributes", "Attrs", "Attr", "MethodsOpt"}
ClassRule(n) ==
  CASE n = "Parent" -> When(":", <<":", "id">>)
    [] n = "Attributes" ->
         Then(<<"attributes", "[", "id", "]", "::", "Attrs">>)
    [] n = "Attrs" ->
         Then(IF La = "access" THEN <<"access", "Attr">>
              ELSE IF IsVarDecl THEN <<"Attr">> ELSE <<>>)
    [] n = "Attr" -> Then(IF IsVarDecl THEN <<"VarDecl", "Attrs">> ELSE <<>>)
    [] n = "MethodsOpt" -> When("methods", <<"methods", "::", "Methods">>)

Member(head) == head \o Signature \o Block \o <<"Methods">>
MethodFn == {"Methods", "Method", "DtorName"}
MethodRule(n) ==
  CASE n = "Methods" ->
         Then(IF La = "access" THEN <<"access", "Method">>
              ELSE IF IsAtEnd THEN <<>> ELSE <<"Method">>)
    [] n = "Method" ->
         (CASE La = "~" -> Then(Member(<<"~", "id", "DtorName">>))
            [] La = "id" /\ Tok(2) = "(" ->
                 Then(Member(<<"id">>)) \cup Then(<<>>)
            [] La = "func" -> Then(Append(FunctionDef, "Methods"))
            [] OTHER -> Then(<<>>))
    [] n = "DtorName" -> Then(<<>>) \cup Report(<<>>)

AssignFn == {"Expr", "AssignOpt", "Target", "Ternary", "TernaryOpt"}
AssignRule(n) ==
  CASE n = "Expr" -> Then(<<"Ternary", "AssignOpt">>)
    [] n = "AssignOpt" ->
         Then(IF La \in {"=", "assign"} THEN <<La, "Expr", "Target">>
              ELSE <<>>)
    [] n = "Target" -> Then(<<>>) \cup Throw
    [] n = "Ternary" -> Then(<<"Logical", "TernaryOpt">>)
    [] n = "TernaryOpt" -> When("?", <<"?", "Expr", ":", "Ternary">>)

BinaryFn ==
  {"Logical", "MoreLogical", "Between", "BetweenOpt", "Bitwise",
   "MoreBitwise"}
BinaryRule(n) ==
  CASE n = "Logical" -> Then(<<"Between", "MoreLogical">>)
    [] n = "MoreLogical" -> When("lo", <<"lo", "Between", "MoreLogical">>)
    [] n = "Between" -> Then(<<"Bitwise", "BetweenOpt">>)
    [] n = "BetweenOpt" ->
         When("between", <<"between", "Bitwise", "comma", "Bitwise">>)
    [] n = "Bitwise" -> Then(<<"Unary", "MoreBitwise">>)
    [] n = "MoreBitwise" ->
         Then(IF La \in {"hi", "-"} THEN <<La, "Unary", "MoreBitwise">>
              ELSE <<>>)

UnaryFn == {"Unary", "Postfix", "IncOpt"}
UnaryRule(n) ==
  CASE n = "Unary" ->
         Then(IF La = "(" /\ Tok(2) = "type" /\ Tok(3) = ")"
              THEN <<"(", "type", ")", "Unary">>
              ELSE IF La \in {"un", "~", "inc", "-"} THEN <<La, "Postfix">>
              ELSE <<"Postfix">>)
    [] n = "Postfix" -> Then(<<"Primary", "IncOpt">>)
    [] n = "IncOpt" -> When("inc", <<"inc">>)

LiteralRule == IF La \in {"lit", "int"} THEN Convert(<<La>>) ELSE Throw

PrimaryFn == {"Primary", "Suffix", "Indices"}
PrimaryRule(n) ==
  CASE n = "Primary" ->
         (CASE La = "ref" -> Then(<<"ref", "Primary">>)
            [] La = "new" -> Then(<<"new", "id", "(", "Args", ")">>)
            [] La \in {"id", "super"} -> Then(<<La, "Dots", "Suffix">>)
            [] La = "(" -> Then(Condition)
            [] OTHER -> Then(<<"Literal">>))
    [] n = "Suffix" ->
         Then(IF La = "(" THEN <<"(", "Args", ")">>
              ELSE IF La = "[" THEN <<"Indices", "Dots">> ELSE <<>>)
    [] n = "Indices" -> When("[", <<"[", "Expr", "]", "Indices">>)

Rule(n) ==
  CASE n \in PrologueFn -> PrologueRule(n)
    [] n \in GlobalFn -> GlobalRule(n)
    [] n \in StatementFn -> StatementRule(n)
    [] n \in IfSwitchFn -> IfSwitchRule(n)
    [] n \in ForFn -> ForRule(n)
    [] n \in FunctionFn -> FunctionRule(n)
    [] n \in DeclFn -> DeclRule(n)
    [] n \in ArrayFn -> ArrayRule(n)
    [] n \in ClassFn -> ClassRule(n)
    [] n \in MethodFn -> MethodRule(n)
    [] n \in AssignFn -> AssignRule(n)
    [] n \in BinaryFn -> BinaryRule(n)
    [] n \in UnaryFn -> UnaryRule(n)
    [] n \in PrimaryFn -> PrimaryRule(n)
    [] n = "Literal" -> LiteralRule
    [] OTHER -> {}   \* a token, or a statement loop

\* The statement loops: the program, a block, the statements of a case.
LoopEnd ==
  [Globals |-> {"eof"}, Stmts |-> {"eof", "rbrace"},
   CaseStmts |-> {"eof", "case", "default", "rbrace"},
   DefaultStmts |-> {"eof", "case", "rbrace"}]
IsLoop(n) == n \in DOMAIN LoopEnd
IsToken(n) == n \in Terminal

Function ==
  PrologueFn \cup GlobalFn \cup StatementFn \cup IfSwitchFn \cup ForFn \cup
  FunctionFn \cup DeclFn \cup ArrayFn \cup ClassFn \cup MethodFn \cup AssignFn
  \cup BinaryFn \cup UnaryFn \cup PrimaryFn \cup {"Literal"}

\* What may be on the work.
Symbol == Terminal \cup Function \cup DOMAIN LoopEnd \cup {"End"}

-----------------------------------------------------------------------------
Init ==
  /\ left = MaxTokens /\ ahead \in Starts
  /\ work = <<"Prologues", "Globals", "End">>
  /\ tries = <<[height |-> 2, guard |-> FALSE, moved |-> FALSE, nest |-> 0]>>
  /\ mode = "parse" /\ depth = 0
  /\ errors = FALSE /\ runBlock = FALSE /\ moduleOptionalRun = FALSE
  /\ nest = 0 /\ lax = FALSE

\* How many tokens the function on top compares before it decides.
Need ==
  IF mode = "parse" /\ La = "id"
     /\ Top \in {"Global", "Stmt", "AfterConst", "Attrs", "Attr", "Method",
                 "ForHead"} THEN 2
  ELSE IF mode = "parse" /\ Top = "Unary" /\ La = "("
       THEN IF Tok(2) = "type" THEN 3 ELSE 2
  ELSE IF mode = "parse" /\ Top = "ForHead" /\ La = "type"
       THEN IF Tok(2) = "id" THEN 3 ELSE 2
  ELSE 1

Ready == Len(ahead) >= Need \/ left = 0

Scan ==
  /\ mode \in {"parse", "sync"} /\ ~Ready
  /\ \/ \E t \in Token : ahead' = Append(ahead, t) /\ left' = left - 1
     \/ left' = 0 /\ UNCHANGED ahead
  /\ UNCHANGED <<work, tries, mode, depth, errors, runBlock,
                 moduleOptionalRun, nest, lax>>

advance ==
  /\ ahead' = IF IsAtEnd THEN ahead ELSE Tail(ahead)
  /\ nest' = nest + (IF La = "lbrace" THEN 1
                     ELSE IF La = "rbrace" THEN -1 ELSE 0)

\* A try notices that a token was consumed in it: current # startPos.
Moved(ts) ==
  IF IsAtEnd THEN ts
  ELSE [i \in DOMAIN ts |-> [ts[i] EXCEPT !.moved = TRUE]]

InParse == mode = "parse" /\ Ready
Inner == tries[Len(tries)]
Finished == tries # <<>> /\ Len(work) = Inner.height

\* What is left of the functions below a try.
Unwound(h) == SubSeq(work, Len(work) - h + 1, Len(work))

\* Mutant: a syntax error is reported but hasErrors stays false.
BugErrorNotNoted ==
  /\ mode' = "sync" /\ depth' = 0
  /\ work' = Unwound(Inner.height)
  /\ UNCHANGED <<left, ahead, tries, errors, runBlock, moduleOptionalRun,
                 nest, lax>>

\* Mutant: synchronize is called in the function that failed.
BugNotUnwound ==
  /\ errors' = TRUE /\ mode' = "sync" /\ depth' = 0
  /\ UNCHANGED <<left, ahead, work, tries, runBlock, moduleOptionalRun, nest,
                 lax>>

\* A ParseError unwinds the calls to the innermost try, which calls
\* synchronize.
ThrowError ==
  /\ errors' = TRUE /\ mode' = "sync" /\ depth' = 0
  /\ work' = Unwound(Inner.height)
  /\ UNCHANGED <<left, ahead, tries, runBlock, moduleOptionalRun, nest, lax>>

consume ==
  /\ InParse /\ ~Finished /\ IsToken(Top)
  /\ IF Top = La \/ Top = "any"
     THEN /\ advance
          /\ work' = Tail(work) /\ tries' = Moved(tries)
          /\ lax' = (lax \/ (Top = "any" /\ La \in {"lbrace", "rbrace"}))
          /\ UNCHANGED <<left, mode, depth, errors, runBlock,
                         moduleOptionalRun>>
     ELSE ThrowError

Abort ==
  /\ mode' = "aborted"
  /\ UNCHANGED <<left, ahead, work, tries, depth, errors, runBlock,
                 moduleOptionalRun, nest, lax>>

Call ==
  /\ InParse /\ ~Finished
  /\ \E r \in Rule(Top) :
       \/ r.fault = "throw" /\ ThrowError
       \/ r.fault = "abort" /\ Abort
       \/ /\ r.fault \in {"none", "report"}
          /\ work' = r.to \o Tail(work)
          /\ errors' = (errors \/ r.fault = "report")
          /\ runBlock' = (runBlock \/ Top = "SetRun")
          /\ moduleOptionalRun' = (moduleOptionalRun \/ Top = "SetModule")
          /\ lax' = (lax \/ Top = "NoBrace")
          /\ UNCHANGED <<left, ahead, tries, mode, depth, nest>>

\* An iteration of a statement loop.
EnterLoopBody ==
  /\ InParse /\ ~Finished /\ IsLoop(Top)
  /\ IF La \in LoopEnd[Top]
     THEN work' = Tail(work) /\ UNCHANGED tries
     ELSE /\ work' = <<IF Top = "Globals" THEN "Global" ELSE "Stmt">> \o work
          /\ tries' = Append(tries, [height |-> Len(work), guard |-> TRUE,
                                     moved |-> FALSE, nest |-> nest])
  /\ UNCHANGED <<left, ahead, mode, depth, errors, runBlock,
                 moduleOptionalRun, nest, lax>>

StatementDone ==
  /\ mode = "parse" /\ Finished
  /\ tries' = Front(tries)
  /\ UNCHANGED <<left, ahead, work, mode, depth, errors, runBlock,
                 moduleOptionalRun, nest, lax>>

-----------------------------------------------------------------------------
(* Error recovery.                                                         *)
\* Mutant: a closing brace is skipped like any other token.
BugBraceSkipped == {"if", "while", "for", "switch", "return", "type"}
ResyncAt == {"rbrace", "if", "else", "while", "do", "for", "switch", "jump",
             "return", "enum", "const", "type"}

NewDepth ==
  IF La = "lbrace" THEN depth + 1
  ELSE IF La = "rbrace" THEN depth - 1 ELSE depth

\* Mutant: the token an iteration failed on is not stepped over.
BugNoGuard == FALSE
Stuck == Inner.guard /\ ~Inner.moved /\ ~IsAtEnd

\* synchronize's loop, and what the catch block does after it.
synchronize ==
  /\ mode = "sync" /\ Ready
  /\ IF IsAtEnd \/ (depth = 0 /\ La \in ResyncAt)
     THEN /\ IF Stuck THEN advance ELSE UNCHANGED <<ahead, nest>>
          /\ tries' = LET outer == Front(tries)
                      IN IF Stuck THEN Moved(outer) ELSE outer
          /\ mode' = "parse" /\ UNCHANGED depth
     ELSE /\ advance
          /\ depth' = NewDepth
          /\ IF La = "semi" /\ depth = 0
             THEN /\ tries' = Moved(Front(tries))
                  /\ mode' = "parse"
             ELSE tries' = Moved(tries) /\ UNCHANGED mode
  /\ UNCHANGED <<left, work, errors, runBlock, moduleOptionalRun, lax>>

\* The end of parse(): ERROR275 when there is no run block.
EndParse ==
  /\ InParse /\ Top = "End"
  /\ mode' = "done"
  /\ errors' = (errors \/ ~(runBlock \/ moduleOptionalRun))
  /\ UNCHANGED <<left, ahead, work, tries, depth, runBlock,
                 moduleOptionalRun, nest, lax>>

Next ==
  \/ Scan \/ consume \/ Call \/ EnterLoopBody \/ StatementDone
  \/ synchronize \/ EndParse

Spec == Init /\ [][Next]_vars

-----------------------------------------------------------------------------
Try == [height : Nat, guard : BOOLEAN, moved : BOOLEAN, nest : Int]

\* The try blocks in progress are nested: each is entered below what the ones
\* inside it still have to do, and an error always finds one.
TypeOK ==
  /\ left \in 0..MaxTokens /\ ahead \in Seq(Token)
  /\ work \in Seq(Symbol) /\ work # <<>>
  /\ tries \in Seq(Try) /\ mode \in {"parse", "sync", "done", "aborted"}
  /\ depth \in Nat /\ nest \in Int
  /\ errors \in BOOLEAN /\ runBlock \in BOOLEAN
  /\ moduleOptionalRun \in BOOLEAN /\ lax \in BOOLEAN
  /\ \A i, j \in DOMAIN tries : i < j => tries[i].height < tries[j].height
  /\ \A i \in DOMAIN tries : tries[i].height <= Len(work)
  /\ mode = "sync" => tries # <<>> /\ Finished

\* A file that is parsed without an error has as many closing as opening
\* braces.  The exceptions are two leniencies of the code: parseStatement
\* takes `else' without an `if' for a block and does not ask for its "{", and
\* advance() takes any token, a brace too, for a type name.
AcceptedIsBalanced ==
  mode = "done" /\ ~errors /\ ~lax => nest = 0

\* Recovery stays inside the block whose statement failed: no block in
\* progress ever sees a brace closed that was open when it began.
RecoveryStaysInside ==
  \A i \in DOMAIN tries : tries[i].nest <= nest \/ lax
=============================================================================
