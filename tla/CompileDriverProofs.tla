------------------------ MODULE CompileDriverProofs ------------------------
(***************************************************************************)
(* Proofs about CompileDriver: what the stages promise of files and exit   *)
(* codes, whatever the lexer, the parser and the program do; and what the  *)
(* lexer does with a source of any length and any characters.              *)
(***************************************************************************)
EXTENDS CompileDriver, SequenceTheorems, TLAPS

\* Nothing was written and nothing ran.
Untouched ==
  ll = "before" /\ obj = "before" /\ exe = "before" /\ ran = "nothing"

\* What holds of a compilation that has passed the front end.
Accepted == ~errors /\ "listed" \notin found

\* Where the files are at each stage.  The properties alone are not inductive:
\* they say nothing of the files between the front end and the exit.
DInv ==
  /\ stage \in {"start", "lexer", "parser", "importer", "sema", "looping",
                "codegen", "clang", "link", "run", "exited"}
  /\ ll \in {"before", "new", "none"}
  /\ obj \in {"before", "new", "none"}
  /\ exe \in {"before", "new", "none"}
  /\ stage \in {"start", "lexer", "parser", "importer", "sema"} =>
       Untouched /\ ~wrote /\ found = {}
  /\ stage \in {"start", "importer", "sema"} => ~errors
  /\ stage = "looping" => Untouched /\ ~wrote
  /\ stage = "codegen" => Untouched /\ ~wrote /\ Accepted
  /\ stage \in {"clang", "link"} =>
       /\ Accepted /\ exe = "before" /\ ran = "nothing"
       /\ wrote => ll = "new"
       /\ stage = "link" /\ wrote => obj = "new"
  /\ stage = "run" =>
       /\ Accepted /\ ran = "nothing"
       /\ ll = "none" /\ obj = "none"
       /\ wrote => exe = "new"
  /\ stage = "exited" => ErrorsStop /\ BuiltFromSource /\ FilesTellExit
  /\ stage # "exited" => code = 0

LEMMA InitDInv == DriverInit => DInv
BY DEF DriverInit, DInv, Untouched, Init

LEMMA NextDInv ==
  ASSUME DInv, [DriverNext]_driverVars
  PROVE  DInv'
<1> USE DEF DInv, Untouched, Accepted, files, history, Go, Exit,
            ErrorsStop, BuiltFromSource, FilesTellExit
<1>1. CASE Open
  BY <1>1 DEF Open, vars
<1>2. CASE Lex
  BY <1>2 DEF Lex
<1>3. CASE Parse
  BY <1>3 DEF Parse
<1>4. CASE SyntaxChecked
  BY <1>4 DEF SyntaxChecked, vars
<1>5. CASE ResolveImports
  BY <1>5 DEF ResolveImports, parserVars
<1>6. CASE Analyze
  <2>1. PICK reports \in SUBSET {"listed", "unlisted"}, cycle \in BOOLEAN :
          /\ found' = reports
          /\ errors' = (errors \/ "listed" \in reports)
          /\ \/ ~errors' /\ ~cycle /\ Go("codegen")
             \/ errors' /\ \E n \in {6, 134, 139} : Exit(n)
             \/ cycle /\ (Exit(139) \/ Go("looping"))
    BY <1>6 DEF Analyze, Counted, AfterErrors, FollowAncestors
  <2>2. stage = "sema" /\ ~errors /\ Untouched /\ ~wrote /\ code = 0
    BY <1>6 DEF Analyze
  <2>3. Untouched' /\ ~wrote'
    BY <1>6, <2>2 DEF Analyze
  <2>4. CASE stage' = "codegen" /\ ~errors' /\ code' = 0
    BY <2>4, <2>1, <2>3
  <2>5. CASE stage' = "exited" /\ code' \in {6, 134, 139}
    BY <2>5, <2>1, <2>3
  <2>6. CASE stage' = "looping" /\ code' = 0
    BY <2>6, <2>3
  <2> QED BY <2>1, <2>2, <2>4, <2>5, <2>6
<1>7. CASE Generate
  BY <1>7 DEF Generate, vars
<1>8. CASE CompileIR
  BY <1>8 DEF CompileIR, vars
<1>9. CASE Link
  BY <1>9 DEF Link, vars
<1>10. CASE Run
  BY <1>10 DEF Run, vars
<1>11. CASE RunBinary
  <2>1. \A status \in {0, 1} : (256 * status) % 256 = 0
    BY SMT
  <2>2. /\ stage = "run" /\ Accepted /\ ll = "none" /\ obj = "none"
        /\ wrote => exe = "new"
        /\ exe \in {"before", "new", "none"}
    BY <1>11 DEF RunBinary
  <2>3. /\ stage' = "exited" /\ code' \in {0, 11}
        /\ ran' = exe /\ exe' = "none"
        /\ UNCHANGED <<errors, ll, obj, found, wrote>>
    BY <1>11, <2>1 DEF RunBinary, vars
  <2> QED BY <2>2, <2>3
<1>12. CASE SyntaxAborted
  BY <1>12 DEF SyntaxAborted, vars
<1>13. CASE UNCHANGED driverVars
  BY <1>13 DEF driverVars, vars
<1> QED BY <1>1, <1>2, <1>3, <1>4, <1>5, <1>6, <1>7, <1>8, <1>9, <1>10,
           <1>11, <1>12, <1>13 DEF DriverNext

\* Where the files are at each stage.
THEOREM DriverInvariant == DriverSpec => []DInv
BY InitDInv, NextDInv, PTL DEF DriverSpec

\* An error keeps files and programs from being made, and shows.
THEOREM ErrorsStopCompilation == DriverSpec => []ErrorsStop
<1>1. DInv => ErrorsStop
  BY DEF DInv, Untouched, Accepted, ErrorsStop, files
<1> QED BY <1>1, DriverInvariant, PTL

\* What runs, or is left with exit code 0, was built from this source.
THEOREM ProgramIsOfSource == DriverSpec => []BuiltFromSource
<1>1. DInv => BuiltFromSource
  BY DEF DInv, Untouched, BuiltFromSource
<1> QED BY <1>1, DriverInvariant, PTL

\* Exit codes agree with the files left behind.
THEOREM FilesMatchExit == DriverSpec => []FilesTellExit
<1>1. DInv => FilesTellExit
  BY DEF DInv, FilesTellExit
<1> QED BY <1>1, DriverInvariant, PTL
-----------------------------------------------------------------------------
(***************************************************************************)
(* The lexer.                                                              *)
(***************************************************************************)

\* While `current' is behind the end of the source there is nothing left to
\* look at, and the functions that peek before they ask isAtEnd do not run.
LInv ==
  /\ unread \in Nat /\ next \in Seq(Char)
  /\ past \in 0..1
  /\ past = 1 => /\ unread = 0 /\ next = <<>>
                 /\ scan \notin {"char", "block_dash"}

\* A character that is there has been looked at.
LEMMA PeekLooked ==
  ASSUME next \in Seq(Char), NEW i \in Nat, L!Peek(i) # "end"
  PROVE  i <= Len(next)
BY LenProperties DEF L!Peek

\* k calls of advance, then on in function f.
Advanced(k, f) ==
  /\ next' = SubSeq(next, k + 1, Len(next))
  /\ past' = past + IF k > Len(next) THEN k - Len(next) ELSE 0
  /\ scan' = f
  /\ unread' = unread

\* advance stays inside what was looked at.
LEMMA AdvanceInside ==
  ASSUME LInv, NEW k \in Nat, NEW f, Advanced(k, f),
         k <= Len(next), past = 1 => f \notin {"char", "block_dash"}
  PROVE  LInv'
<1>1. Len(next) \in Nat /\ unread' = unread /\ scan' = f
  BY LenProperties DEF LInv, Advanced
<1>2. past' = past
  <2>1. ~(k > Len(next))
    BY <1>1
  <2>2. past' = past + 0
    BY <2>1 DEF Advanced
  <2> QED BY <2>2 DEF LInv
<1>3. next' \in Seq(Char)
  <2>1. next' = SubSeq(next, k + 1, Len(next))
    BY DEF Advanced
  <2>2. \A i \in (k + 1)..Len(next) : next[i] \in Char
    BY <1>1, ElementOfSeq DEF LInv
  <2> QED BY <2>1, <2>2, <1>1, SubSeqProperties
<1>4. ASSUME past = 1 PROVE next' = <<>>
  <2>1. next = <<>> /\ Len(next) = 0
    BY <1>4, EmptySeq DEF LInv
  <2>2. next' = SubSeq(next, k + 1, 0)
    BY <2>1 DEF Advanced
  <2> QED BY <2>2, SubSeqEmpty
<1> QED BY <1>1, <1>2, <1>3, <1>4 DEF LInv

\* advance at the end of the source, by a function that does not ask.
LEMMA AdvanceOver ==
  ASSUME LInv, NEW f, Advanced(1, f),
         next = <<>>, unread = 0, past = 0, f \notin {"char", "block_dash"}
  PROVE  LInv'
<1>1. Len(next) = 0 /\ 1 > Len(next)
  BY EmptySeq
<1>2. past' = 1 /\ unread' = unread /\ scan' = f
  BY <1>1 DEF Advanced
<1>3. next' = SubSeq(next, 2, 0)
  BY <1>1 DEF Advanced
<1>4. next' = <<>>
  BY <1>3, SubSeqEmpty
<1> QED BY <1>2, <1>4, EmptySeq DEF LInv
\* An operator is made of characters that are there.
LEMMA OperatorFits ==
  ASSUME next \in Seq(Char), L!Peek(1) # "end"
  PROVE  LET k == L!OperatorLength(L!Peek(1), L!Peek(2), L!Peek(3))
         IN  k \in 1..3 /\ k <= Len(next)
<1> DEFINE c == L!Peek(1)
           p == L!Peek(2)
           n == L!Peek(3)
           k == L!OperatorLength(c, p, n)
<1>1. Len(next) \in Nat
  BY LenProperties
<1>2. /\ 1 <= Len(next)
      /\ p # "end" => 2 <= Len(next)
      /\ n # "end" => 3 <= Len(next)
  BY <1>1 DEF L!Peek
<1> HIDE DEF c, p, n
<1>3. k \in 1..3 /\ (k >= 2 => p # "end") /\ (k = 3 => n # "end")
  BY DEF L!OperatorLength
<1> QED BY <1>1, <1>2, <1>3 DEF c, p, n

\* advance is called on characters that are there, but by the functions that
\* take one more of a literal or a comment whatever it is.
LEMMA LexInside ==
  ASSUME LInv, L!Next
  PROVE  LInv'
<1> DEFINE Within(f) ==
      \/ Advanced(0, f)
      \/ 1 <= Len(next) /\ Advanced(1, f)
      \/ 2 <= Len(next) /\ Advanced(2, f)
      \/ 3 <= Len(next) /\ Advanced(3, f)
<1> DEFINE Beyond(f) == unread = 0 /\ ~(1 <= Len(next)) /\ Advanced(1, f)
<1>1. Len(next) \in Nat /\ next \in Seq(Char)
  BY LenProperties DEF LInv
<1>2. ASSUME NEW f, Within(f), past = 1 => f \notin {"char", "block_dash"}
      PROVE  LInv'
  <2>1. CASE Advanced(0, f)
    BY <2>1, <1>1, <1>2, AdvanceInside
  <2>2. CASE 1 <= Len(next) /\ Advanced(1, f)
    BY <2>2, <1>1, <1>2, AdvanceInside
  <2>3. CASE 2 <= Len(next) /\ Advanced(2, f)
    BY <2>3, <1>1, <1>2, AdvanceInside
  <2>4. CASE 3 <= Len(next) /\ Advanced(3, f)
    BY <2>4, <1>1, <1>2, AdvanceInside
  <2> QED BY <2>1, <2>2, <2>3, <2>4, <1>2
<1>3. ASSUME NEW f, Beyond(f), f \notin {"char", "block_dash"}, past = 0
      PROVE  LInv'
  <2>1. next = <<>>
    <3>1. Len(next) = 0
      BY <1>1, <1>3
    <3> QED BY <3>1, <1>1, EmptySeq
  <2> QED BY <2>1, <1>3, AdvanceOver
<1>4. past = 1 => ~(1 <= Len(next)) /\ scan \notin {"char", "block_dash"}
  BY EmptySeq DEF LInv
<1>5. past \in {0, 1}
  BY DEF LInv
<1>0. L!Wanted \in {1, 2, 3}
  BY DEF L!Wanted
<1> USE DEF L!In, L!Go, L!Lexeme, L!Report, L!Advance, L!AtEnd, L!Peek,
            Advanced
<1>6. CASE L!Look
  <2>1. PICK c \in Char : next' = Append(next, c)
    BY <1>6 DEF L!Look
  <2>2. unread > 0 /\ unread' = unread - 1 /\ UNCHANGED <<past, scan>>
    BY <1>6 DEF L!Look
  <2>3. next' \in Seq(Char)
    BY <2>1, <1>1, AppendProperties
  <2> QED BY <2>2, <2>3 DEF LInv
<1>7. CASE L!skipWhitespaces
  <2>1. Within("start")
    BY <1>7 DEF L!skipWhitespaces, L!White
  <2> QED BY ONLY <2>1, <1>2
<1>8. CASE L!scanToken
  <2> DEFINE c == L!Peek(1)
             k == L!OperatorLength(c, L!Peek(2), L!Peek(3))
  <2>1. /\ L!Peek(1) # "end" /\ 1 <= Len(next)
        /\ L!Peek(2) # "end" => 2 <= Len(next)
    BY <1>8, <1>1 DEF L!scanToken
  <2>2. k \in 1..3 /\ k <= Len(next)
    BY <2>1, <1>1, OperatorFits
  <2>3. Len(SubSeq(next, 1, k)) = k
    <3> HIDE DEF k
    <3>1. \A i \in 1..k : next[i] \in Char
      BY <2>2, <1>1, ElementOfSeq
    <3> QED BY <3>1, <2>2, SubSeqProperties
  <2>4. \/ \E f \in {"word", "digits", "char", "string", "start"} :
             L!Go(1, f)
        \/ L!Go(2, L!Prefix[L!Peek(2)]) /\ L!Peek(2) \in DOMAIN L!BaseDigits
        \/ /\ SubSeq(next, 1, k) \in {<<"-", "-", "-">>, <<"-", "-", "!">>}
           /\ L!Go(3, "line") \/ L!Go(3, "block")
        \/ L!Advance(k, "start", L!Emit(SubSeq(next, 1, k)))
    BY <1>8 DEF L!scanToken
  <2>5. CASE \E f \in {"word", "digits", "char", "string", "start"} :
               L!Go(1, f)
    <3>1. PICK f \in {"word", "digits", "char", "string", "start"} :
            Advanced(1, f)
      BY <2>5
    <3> QED BY <3>1, <2>1, <1>2, <1>4
  <2>6. CASE /\ L!Go(2, L!Prefix[L!Peek(2)])
             /\ L!Peek(2) \in DOMAIN L!BaseDigits
    <3>1. L!Peek(2) \in {"x", "b", "o"}
      BY <2>6 DEF L!BaseDigits
    <3>2. 2 <= Len(next)
      BY <3>1, <2>1
    <3>3. L!Prefix[L!Peek(2)] \in {"0x", "0b", "0o"}
      BY <3>1 DEF L!Prefix
    <3>4. Advanced(2, L!Prefix[L!Peek(2)])
      BY <2>6
    <3> QED BY ONLY <3>2, <3>3, <3>4, <1>2
  <2>7. CASE /\ SubSeq(next, 1, k) \in {<<"-", "-", "-">>, <<"-", "-", "!">>}
             /\ L!Go(3, "line") \/ L!Go(3, "block")
    <3>1. k = 3
      BY <2>3, <2>7
    <3>2. Within("line") \/ Within("block")
      BY <3>1, <2>2, <2>7
    <3> QED BY ONLY <3>2, <1>2
  <2>8. CASE L!Advance(k, "start", L!Emit(SubSeq(next, 1, k)))
    <3>1. Advanced(k, "start")
      BY <2>8
    <3>2. k = 1 \/ k = 2 \/ k = 3
      BY <2>2
    <3>3. Within("start")
      <4>1. CASE k = 1
        BY ONLY <4>1, <3>1, <2>2
      <4>2. CASE k = 2
        BY ONLY <4>2, <3>1, <2>2
      <4>3. CASE k = 3
        BY ONLY <4>3, <3>1, <2>2
      <4> QED BY ONLY <4>1, <4>2, <4>3, <3>2
    <3> QED BY ONLY <3>3, <1>2
  <2> QED BY <2>4, <2>5, <2>6, <2>7, <2>8
<1>9. CASE L!scanIdentifierOrKeyword
  <2>1. Within("word") \/ Within("start")
    BY <1>9 DEF L!scanIdentifierOrKeyword, L!AlphaNumeric, L!Letter, L!Digit
  <2> QED BY ONLY <2>1, <1>2
<1>10. CASE L!scanNumber
  <2>1. \/ Within("digits") \/ Within("fraction") \/ Within("exponent")
        \/ Within("power") \/ Within("start")
    BY <1>10, <1>1 DEF L!scanNumber, L!Digit
  <2> QED BY ONLY <2>1, <1>2
<1>11. ASSUME NEW p \in DOMAIN L!BaseDigits, L!scanBase(p)
       PROVE  LInv'
  <2>1. p \in {"x", "b", "o"} /\ "end" \notin L!BaseDigits[p]
    BY <1>11 DEF L!BaseDigits, L!Digit
  <2>2. Within(p) \/ Within("start")
    BY <1>11, <2>1, <1>1 DEF L!scanBase, L!AlphaNumeric, L!Letter, L!Digit
  <2> QED BY ONLY <2>1, <2>2, <1>2
<1>12. CASE L!scanCharLit
  <2>1. \/ Within("start") \/ Within("char_escape") \/ Within("char_tail")
        \/ Within("char_rest")
        \/ scan = "char" /\ Beyond("char_tail")
    BY <1>12, <1>1, <1>0 DEF L!scanCharLit, L!CharRest, L!Escape
  <2> QED BY <2>1, <1>2, <1>3, <1>4, <1>5
<1>13. CASE L!scanStringLit
  <2>1. Within("start") \/ Within("string") \/ Within("string_escape")
    BY <1>13, <1>1 DEF L!scanStringLit, L!StringBody, L!Escape
  <2> QED BY ONLY <2>1, <1>2
<1>14. CASE L!BlockComment
  <2>1. \/ Within("start") \/ Within("block")
        \/ scan = "block" /\ 2 <= Len(next) /\ Within("block_dash")
        \/ scan = "block_dash" /\ Beyond("block")
    BY <1>14, <1>1, <1>0 DEF L!BlockComment
  <2> QED BY <2>1, <1>1, <1>2, <1>3, <1>4, <1>5
<1>15. CASE L!LineComment
  <2>1. Within("start") \/ Within("line")
    BY <1>15, <1>1 DEF L!LineComment
  <2> QED BY ONLY <2>1, <1>2
<1>16. CASE L!tokanizeEnds
  BY <1>16 DEF L!tokanizeEnds, LInv
<1> QED BY <1>6, <1>7, <1>8, <1>9, <1>10, <1>11, <1>12, <1>13, <1>14, <1>15,
           <1>16 DEF L!Next

\* The rest of the compiler leaves the lexer alone.
LEMMA DriverLexes ==
  ASSUME [DriverNext]_driverVars
  PROVE  L!Next \/ UNCHANGED lexerVars
BY DEF DriverNext, driverVars, Open, Lex, Parse, SyntaxChecked, SyntaxAborted,
       ResolveImports, Analyze, Generate, CompileIR, Link, Run, RunBinary

LEMMA LexerInvariant == DriverSpec => []LInv
<1>1. DriverInit => LInv
  BY DriverAssumption, EmptySeq DEF DriverInit, L!Init, LInv
<1>2. ASSUME LInv, [DriverNext]_driverVars PROVE LInv'
  <2>1. CASE L!Next
    BY <2>1, <1>2, LexInside
  <2>2. CASE UNCHANGED lexerVars
    BY <2>2, <1>2 DEF LInv, lexerVars
  <2> QED BY <2>1, <2>2, <1>2, DriverLexes
<1> QED BY <1>1, <1>2, PTL DEF DriverSpec

\* The lexer never reads behind the null that ends the source, whatever the
\* source and however it is cut off.
THEOREM SourceReadInside == DriverSpec => []ReadsInside
<1>1. LInv => ReadsInside
  BY EmptySeq DEF LInv, ReadsInside, L!ReadsInside, L!AtEnd, L!Peek
<1> QED BY <1>1, LexerInvariant, PTL

\* What a scan function does when it is done, or goes on with, is an answer.
LEMMA LexAnswers ==
  ASSUME LInv, L!Next, scan' = "start", unread' = unread
  PROVE  L!Answered
<1> USE DEF L!In, L!Go, L!Lexeme, L!Report, L!Advance, L!Emit, L!Error,
            L!Skipped
<1>1. SUFFICES ASSUME last'.kind = "none"
               PROVE  \/ scan = "start" /\ L!Peek(1) \in L!White \cup {"@", "\\"}
                      \/ scan = "string_escape" /\ L!AtEnd
  BY DEF L!Answered
<1>2. CASE L!Look
  BY <1>2 DEF L!Look, LInv
<1>3. CASE L!skipWhitespaces
  BY <1>3 DEF L!skipWhitespaces
<1>4. CASE L!scanToken
  <2> DEFINE c == L!Peek(1)
             k == L!OperatorLength(c, L!Peek(2), L!Peek(3))
  <2>1. \/ c \in {"\\", "@"}
        \/ L!Go(2, L!Prefix[L!Peek(2)]) /\ L!Peek(2) \in DOMAIN L!BaseDigits
        \/ \E f \in {"word", "digits", "char", "string", "line", "block"} :
             scan' = f
        \/ last' = L!Emit(SubSeq(next, 1, k))
    BY <1>4 DEF L!scanToken
  <2>2. CASE /\ L!Go(2, L!Prefix[L!Peek(2)])
             /\ L!Peek(2) \in DOMAIN L!BaseDigits
    <3>1. L!Peek(2) \in {"x", "b", "o"}
      BY <2>2 DEF L!BaseDigits
    <3>2. scan' \in {"0x", "0b", "0o"}
      BY <3>1, <2>2 DEF L!Prefix
    <3> QED BY <3>2
  <2>3. scan = "start"
    BY <1>4 DEF L!scanToken
  <2> QED BY <2>1, <2>2, <2>3, <1>1
<1>5. CASE L!scanIdentifierOrKeyword
  BY <1>5, <1>1 DEF L!scanIdentifierOrKeyword
<1>6. CASE L!scanNumber
  BY <1>6, <1>1 DEF L!scanNumber
<1>7. ASSUME NEW p \in DOMAIN L!BaseDigits, L!scanBase(p)
      PROVE  FALSE
  <2>1. p \in {"x", "b", "o"}
    BY <1>7 DEF L!BaseDigits
  <2>2. L!Prefix[p] # "start"
    BY <2>1 DEF L!Prefix
  <2> QED BY <2>1, <2>2, <1>7, <1>1 DEF L!scanBase
<1>8. CASE L!scanCharLit
  BY <1>8, <1>1 DEF L!scanCharLit, L!CharRest
<1>9. CASE L!scanStringLit
  BY <1>9, <1>1 DEF L!scanStringLit, L!StringBody
<1>10. CASE L!BlockComment
  BY <1>10, <1>1 DEF L!BlockComment
<1>11. CASE L!LineComment
  BY <1>11, <1>1 DEF L!LineComment
<1>12. CASE L!tokanizeEnds
  BY <1>12 DEF L!tokanizeEnds
<1> QED BY <1>2, <1>3, <1>4, <1>5, <1>6, <1>7, <1>8, <1>9, <1>10, <1>11,
           <1>12 DEF L!Next

\* Whatever the lexer consumes it answers for.
THEOREM EverythingAnswered == DriverSpec => NothingDropped
<1>1. ASSUME LInv, [DriverNext]_driverVars
      PROVE  [scan' = "start" /\ unread' = unread => L!Answered]_<<scan, next>>
  <2>1. CASE L!Next
    BY <2>1, <1>1, LexAnswers
  <2>2. CASE UNCHANGED lexerVars
    BY <2>2 DEF lexerVars
  <2> QED BY <2>1, <2>2, <1>1, DriverLexes
<1> QED BY <1>1, LexerInvariant, PTL
        DEF DriverSpec, NothingDropped, L!NothingDropped

\* How many characters the operators that begin with c may have.
Span(c) ==
  IF c \in {"*", "-", "!", "<", ">"} THEN 3
  ELSE IF c \in {"=", "/", "+", "&", ":", "."} THEN 2 ELSE 1

\* An operator fits in what is looked at, and scanToken takes all of it.
LEMMA OperatorWhole ==
  ASSUME NEW op \in L!Operators
  PROVE  /\ Len(op) \in 1..3 /\ Len(op) <= Span(op[1])
         /\ Len(op) = 2 => \A n : L!OperatorLength(op[1], op[2], n) \in 2..3
         /\ Len(op) = 3 => L!OperatorLength(op[1], op[2], op[3]) = 3
<1>1. CASE \E c \in {"=", "*", "/", "-", "+", "!", "<", ">", "&", ":", "."} :
             op = <<c>>
  BY <1>1 DEF Span
<1>2. CASE \E c \in {"=", "*", "/", "-", "+", "!", "<", ">", "&"} :
             op = <<c, "=">>
  BY <1>2 DEF Span, L!OperatorLength
<1>3. CASE \E c \in {"*", "-", "+", "<", ">", "&", ":", "."} : op = <<c, c>>
  BY <1>3 DEF Span, L!OperatorLength
<1>4. CASE \E c \in {"*", "<", ">"} : op = <<c, c, "=">>
  <2>1. PICK c \in {"*", "<", ">"} : op = <<c, c, "=">>
    BY <1>4
  <2>2. Len(op) = 3 /\ op[1] = c /\ op[2] = c /\ op[3] = "="
    BY <2>1
  <2>3. Span(c) = 3
    BY DEF Span
  <2>4. L!OperatorLength(c, c, "=") = 3
    BY DEF L!OperatorLength
  <2> QED BY <2>2, <2>3, <2>4
<1>5. CASE op \in {<<"-", ">">>, <<">", "<">>, <<"!", ">", "<">>,
                   <<"-", "-", "-">>, <<"-", "-", "!">>}
  <2>1. CASE op = <<"-", ">">>
    BY <2>1 DEF Span, L!OperatorLength
  <2>2. CASE op = <<">", "<">>
    BY <2>2 DEF Span, L!OperatorLength
  <2>3. CASE op = <<"!", ">", "<">>
    BY <2>3 DEF Span, L!OperatorLength
  <2>4. CASE op = <<"-", "-", "-">>
    BY <2>4 DEF Span, L!OperatorLength
  <2>5. CASE op = <<"-", "-", "!">>
    BY <2>5 DEF Span, L!OperatorLength
  <2> QED BY <1>5, <2>1, <2>2, <2>3, <2>4, <2>5
<1> QED BY <1>1, <1>2, <1>3, <1>4, <1>5 DEF L!Operators

LEMMA PrefixElements ==
  ASSUME NEW S, NEW t \in Seq(S), NEW op, Len(op) \in Nat, L!IsPrefix(op, t)
  PROVE  /\ Len(op) <= Len(t)
         /\ \A i \in 1..Len(op) : op[i] = t[i]
<1>1. SubSeq(op, 1, Len(op)) = SubSeq(t, 1, Len(op)) /\ Len(op) <= Len(t)
  BY DEF L!IsPrefix
<1>2. \A i \in 1..Len(op) : SubSeq(t, 1, Len(op))[i] = t[i]
  <2>1. \A i \in 1..Len(op) : t[i] \in S
    BY <1>1, ElementOfSeq, LenProperties
  <2> QED BY <2>1, SubSeqProperties
<1>3. \A i \in 1..Len(op) : SubSeq(op, 1, Len(op))[i] = op[i]
  BY SubSeqProperties
<1> QED BY <1>1, <1>2, <1>3

\* The last token is the longest operator where it began, and what was looked
\* at then is enough to tell.
MInv ==
  last.kind = "token" /\ last.text # <<>> =>
    /\ last.text \in Seq(Char)
    /\ unread = 0 \/ Span(last.text[1]) <= Len(last.text) + Len(next)
    /\ L!MaximalMunch

LEMMA ElementsPrefix ==
  ASSUME NEW S, NEW t \in Seq(S), NEW op, NEW n \in Nat, n = Len(op),
         n <= Len(t), \A i \in 1..n : op[i] = t[i]
  PROVE  L!IsPrefix(op, t)
<1>1. Len(t) \in Nat /\ \A i \in 1..n : t[i] \in S /\ op[i] \in S
  BY ElementOfSeq, LenProperties
<1>2. /\ SubSeq(op, 1, n) \in Seq(S) /\ Len(SubSeq(op, 1, n)) = n
      /\ \A i \in 1..n : SubSeq(op, 1, n)[i] = op[i]
  BY <1>1, SubSeqProperties
<1>3. /\ SubSeq(t, 1, n) \in Seq(S) /\ Len(SubSeq(t, 1, n)) = n
      /\ \A i \in 1..n : SubSeq(t, 1, n)[i] = t[i]
  BY <1>1, SubSeqProperties
<1>4. SubSeq(op, 1, n) = SubSeq(t, 1, n)
  BY <1>2, <1>3, SeqEqual
<1> QED BY <1>4 DEF L!IsPrefix

\* One more character changes nothing: the operator would have been longer.
LEMMA LookMunch ==
  ASSUME LInv, MInv, L!Look
  PROVE  MInv'
<1> SUFFICES ASSUME last.kind = "token", last.text # <<>>
             PROVE  /\ Span(last.text[1]) <= Len(last.text) + Len(next')
                    /\ L!MaximalMunch'
  BY DEF MInv, L!Look
<1> DEFINE a == last.text
           t == a \o next
           u == a \o next'
<1>1. PICK c \in Char : next' = Append(next, c)
  BY DEF L!Look
<1>2. last' = last /\ unread > 0
  BY DEF L!Look
<1>3. /\ a \in Seq(Char) /\ a # <<>> /\ Span(a[1]) <= Len(a) + Len(next)
      /\ L!MaximalMunch
  BY <1>2 DEF MInv, LInv
<1>4. /\ next \in Seq(Char) /\ next' \in Seq(Char)
      /\ Len(next) \in Nat /\ Len(next') = Len(next) + 1
      /\ \A i \in 1..Len(next) : next'[i] = next[i]
      /\ Len(a) \in Nat \ {0}
  BY <1>1, <1>3, AppendProperties, LenProperties, EmptySeq DEF LInv
<1> HIDE DEF a
<1>5. /\ t \in Seq(Char) /\ u \in Seq(Char)
      /\ Len(t) = Len(a) + Len(next) /\ Len(u) = Len(t) + 1
      /\ \A i \in 1..Len(t) : t[i] = u[i]
      /\ u[1] = a[1]
  <2>1. /\ t \in Seq(Char) /\ Len(t) = Len(a) + Len(next)
        /\ \A i \in 1..(Len(a) + Len(next)) :
             t[i] = IF i <= Len(a) THEN a[i] ELSE next[i - Len(a)]
    BY <1>3, <1>4, ConcatProperties
  <2>2. /\ u \in Seq(Char) /\ Len(u) = Len(a) + Len(next')
        /\ \A i \in 1..(Len(a) + Len(next')) :
             u[i] = IF i <= Len(a) THEN a[i] ELSE next'[i - Len(a)]
    BY <1>3, <1>4, ConcatProperties
  <2> HIDE DEF t, u
  <2>3. ASSUME NEW i \in 1..Len(t) PROVE t[i] = u[i]
    <3>1. /\ i \in 1..(Len(a) + Len(next)) /\ i \in 1..(Len(a) + Len(next'))
          /\ i \in Nat
      BY <2>1, <2>3, <1>4
    <3>2. CASE i <= Len(a)
      BY <3>1, <3>2, <2>1, <2>2
    <3>3. CASE ~(i <= Len(a))
      <4>1. i - Len(a) \in 1..Len(next)
        BY <3>1, <3>3, <1>4
      <4>2. t[i] = next[i - Len(a)] /\ u[i] = next'[i - Len(a)]
        BY <3>1, <3>3, <2>1, <2>2
      <4> QED BY <4>1, <4>2, <1>4
    <3> QED BY <3>2, <3>3
  <2>4. u[1] = a[1]
    BY <2>2, <1>4
  <2> QED BY <2>1, <2>2, <2>3, <2>4, <1>4
<1>6. Span(a[1]) \in 1..3
  BY DEF Span
<1> HIDE DEF t, u
<1>7. ASSUME NEW op \in L!Operators, L!IsPrefix(op, u)
      PROVE  Len(op) <= Len(a)
  <2>1. /\ Len(op) \in Nat \ {0} /\ Len(op) <= Span(op[1])
        /\ Len(op) <= Len(u) /\ \A i \in 1..Len(op) : op[i] = u[i]
    BY <1>5, <1>7, OperatorWhole, PrefixElements
  <2>2. op[1] = a[1]
    BY <2>1, <1>5
  <2>3. Len(op) <= Len(t)
    BY <2>1, <2>2, <1>3, <1>5, <1>6, <1>4
  <2>4. \A i \in 1..Len(op) : op[i] = t[i]
    BY <2>1, <2>3, <1>5, <1>4
  <2>5. L!IsPrefix(op, t)
    BY <2>1, <2>3, <2>4, <1>5, ElementsPrefix
  <2> QED BY <2>5, <1>3 DEF t, a, L!MaximalMunch
<1>8. L!MaximalMunch'
  BY <1>2, <1>7 DEF u, a, L!MaximalMunch
<1>9. Span(a[1]) <= Len(a) + Len(next')
  BY <1>3, <1>4, <1>6
<1> QED BY <1>8, <1>9 DEF a

\* scanToken has looked at enough, and takes the longest operator.
LEMMA TokenMunch ==
  ASSUME LInv, MInv, L!scanToken, last'.kind = "token"
  PROVE  MInv'
<1> DEFINE k == L!OperatorLength(L!Peek(1), L!Peek(2), L!Peek(3))
           n == Len(next)
<1>1. /\ L!Peek(1) # "end" /\ scan = "start"
      /\ n >= L!Wanted \/ unread = 0
  BY DEF L!scanToken, L!In, L!AtEnd
<1>2. L!Advance(k, "start", L!Emit(SubSeq(next, 1, k)))
  BY DEF L!scanToken, L!Go, L!Quiet, L!Advance
<1>3. next \in Seq(Char) /\ n \in Nat
  BY LenProperties DEF LInv
<1>4. k \in 1..3 /\ k <= n
  BY <1>1, <1>3, OperatorFits
<1>5. /\ last'.text = SubSeq(next, 1, k) /\ next' = SubSeq(next, k + 1, n)
      /\ unread' = unread
  BY <1>2 DEF L!Advance, L!Emit
<1>6. n >= Span(L!Peek(1)) \/ unread = 0
  BY <1>1, <1>3 DEF L!Wanted, Span
<1> HIDE DEF k, n
<1>7. /\ last'.text \in Seq(Char) /\ Len(last'.text) = k
      /\ last'.text[1] = next[1]
  <2>1. \A i \in 1..k : next[i] \in Char
    BY <1>3, <1>4, ElementOfSeq DEF n
  <2>2. /\ SubSeq(next, 1, k) \in Seq(Char) /\ Len(SubSeq(next, 1, k)) = k
        /\ \A i \in 1..k : SubSeq(next, 1, k)[i] = next[1 + i - 1]
    BY <2>1, <1>4, SubSeqProperties
  <2>3. 1 \in 1..k /\ SubSeq(next, 1, k)[1] = next[1]
    BY <2>2, <1>4
  <2> QED BY <2>2, <2>3, <1>5
<1>8. Len(next') = n - k
  <2>1. \A i \in (k + 1)..n : next[i] \in Char
    BY <1>3, <1>4, ElementOfSeq DEF n
  <2> QED BY <2>1, <1>3, <1>4, <1>5, SubSeqProperties
<1>9. last'.text \o next' = next
  <2>1. 1 \in 1..(n + 1) /\ k \in (1 - 1)..n /\ n \in k..n
    BY <1>3, <1>4
  <2>2. SubSeq(next, 1, k) \o SubSeq(next, k + 1, n) = SubSeq(next, 1, n)
    BY <2>1, <1>3, ConcatAdjacentSubSeq DEF n
  <2> QED BY <2>2, <1>3, <1>5, SubSeqFull DEF n
<1>10. ASSUME NEW op \in L!Operators, L!IsPrefix(op, next)
       PROVE  Len(op) <= k
  <2>1. /\ Len(op) \in 1..3
        /\ Len(op) <= n /\ \A i \in 1..Len(op) : op[i] = next[i]
    BY <1>3, <1>10, OperatorWhole, PrefixElements DEF n
  <2>2. \A i \in 1..Len(op) : op[i] = L!Peek(i)
    BY <2>1, <1>3 DEF L!Peek, n
  <2>3. CASE Len(op) = 1
    BY <2>3, <1>4
  <2>4. CASE Len(op) = 2
    <3>1. op[1] = L!Peek(1) /\ op[2] = L!Peek(2)
      BY <2>2, <2>4
    <3>2. k \in 2..3
      BY <3>1, <2>4, OperatorWhole DEF k
    <3> QED BY <3>2, <2>4
  <2>5. CASE Len(op) = 3
    <3>1. op[1] = L!Peek(1) /\ op[2] = L!Peek(2) /\ op[3] = L!Peek(3)
      BY <2>2, <2>5
    <3>2. k = 3
      BY <3>1, <2>5, OperatorWhole DEF k
    <3> QED BY <3>2, <2>5
  <2> QED BY <2>1, <2>3, <2>4, <2>5
<1>11. L!MaximalMunch'
  BY <1>7, <1>9, <1>10 DEF L!MaximalMunch
<1>12. next[1] = L!Peek(1)
  BY <1>1 DEF L!Peek
<1>13. Span(next[1]) \in 1..3
  BY DEF Span
<1>14. unread' = 0 \/ Span(last'.text[1]) <= Len(last'.text) + Len(next')
  BY <1>3, <1>4, <1>5, <1>6, <1>7, <1>8, <1>12, <1>13
<1> QED BY <1>7, <1>11, <1>14 DEF MInv

LEMMA LexMunch ==
  ASSUME LInv, MInv, L!Next
  PROVE  MInv'
<1>1. CASE L!Look
  BY <1>1, LookMunch
<1>2. CASE L!scanToken
  <2>1. CASE last'.kind = "token"
    BY <1>2, <2>1, TokenMunch
  <2>2. CASE last'.kind # "token"
    BY <2>2 DEF MInv
  <2> QED BY <2>1, <2>2
<1>3. ASSUME ~L!Look, ~L!scanToken
      PROVE  last'.kind # "token" \/ last'.text = <<>>
  <2> USE DEF L!In, L!Go, L!Lexeme, L!Report, L!Advance, L!Emit, L!Error,
              L!Skipped, L!Quiet
  <2>1. \/ L!skipWhitespaces \/ L!scanIdentifierOrKeyword \/ L!scanNumber
        \/ \E p \in DOMAIN L!BaseDigits : L!scanBase(p)
        \/ L!scanCharLit \/ L!scanStringLit \/ L!BlockComment
        \/ L!LineComment \/ L!tokanizeEnds
    BY <1>3 DEF L!Next
  <2>2. CASE L!skipWhitespaces
    BY <2>2 DEF L!skipWhitespaces
  <2>3. CASE L!scanIdentifierOrKeyword
    BY <2>3 DEF L!scanIdentifierOrKeyword
  <2>4. CASE L!scanNumber
    BY <2>4 DEF L!scanNumber
  <2>5. CASE \E p \in DOMAIN L!BaseDigits : L!scanBase(p)
    BY <2>5 DEF L!scanBase
  <2>6. CASE L!scanCharLit
    BY <2>6 DEF L!scanCharLit, L!CharRest
  <2>7. CASE L!scanStringLit
    BY <2>7 DEF L!scanStringLit, L!StringBody
  <2>8. CASE L!BlockComment
    BY <2>8 DEF L!BlockComment
  <2>9. CASE L!LineComment
    BY <2>9 DEF L!LineComment
  <2>10. CASE L!tokanizeEnds
    BY <2>10 DEF L!tokanizeEnds
  <2> QED BY <2>1, <2>2, <2>3, <2>4, <2>5, <2>6, <2>7, <2>8, <2>9, <2>10
<1> QED BY <1>1, <1>2, <1>3 DEF MInv

\* An operator is never cut short, in any source.
THEOREM OperatorsWhole == DriverSpec => []MaximalMunch
<1>1. DriverInit => MInv
  BY DEF DriverInit, L!Init, L!Quiet, MInv
<1>2. ASSUME LInv, MInv, [DriverNext]_driverVars PROVE MInv'
  <2>1. CASE L!Next
    BY <2>1, <1>2, LexMunch
  <2>2. CASE UNCHANGED lexerVars
    BY <2>2, <1>2 DEF MInv, L!MaximalMunch, lexerVars
  <2> QED BY <2>1, <2>2, <1>2, DriverLexes
<1>3. MInv => MaximalMunch
  BY DEF MInv, MaximalMunch, L!MaximalMunch
<1> QED BY <1>1, <1>2, <1>3, LexerInvariant, PTL DEF DriverSpec
=============================================================================
