-------------------------------- MODULE Lexer --------------------------------
(***************************************************************************)
(* The lexer (src/lexer).  Characters are classes: "(" stands for those    *)
(* that are tokens of their own, "/" for the operators that only take an   *)
(* "=", "&" for & and |, "n" for the letters of the escape sequences, "z"  *)
(* for the other letters, "quote" for the double quote, "nl" and "sp" for  *)
(* white space, "@" for whatever the lexer has no case for.  The source is *)
(* chosen as the lexer looks at it.  A loop of a scan function is one step *)
(* for each iteration.                                                     *)
(***************************************************************************)
EXTENDS Integers, SequencesExt

CONSTANTS
  Char,      \* the characters a file may have
  MaxChars   \* bound: the length of a file, a natural number

VARIABLES
  unread,    \* characters the file has beyond `next'
  next,      \* the characters looked at and not yet consumed
  past,      \* how far `current' is behind the end of the source
  scan,      \* the scan function in progress, "start" between tokens, "done"
  last,      \* history: what the last scanToken came to
  errors     \* the diagnostic engine has counted an error

lexVars == <<unread, next, past, scan, last, errors>>

Digit == {"0", "1", "9"}
Letter == {"b", "e", "n", "o", "x", "z"}
AlphaNumeric == Letter \cup Digit
White == {"sp", "nl"}
Escape == {"n", "0", "\\", "quote", "'"}
BaseDigits ==
  [x |-> Digit \cup {"b", "e"}, b |-> {"0", "1"}, o |-> {"0", "1"}]
Prefix == [x |-> "0x", b |-> "0b", o |-> "0o"]

Peek(i) == IF i <= Len(next) THEN next[i] ELSE "end"
AtEnd == Peek(1) = "end"
Quiet == [kind |-> "none", text |-> <<>>]
Emit(text) == [kind |-> "token", text |-> text]
Skipped == [kind |-> "comment", text |-> <<>>]
Error == [kind |-> "error", text |-> <<>>]

\* What the next step looks at.
Wanted ==
  CASE scan = "start" ->
         (CASE Peek(1) \in {"*", "-", "!", "<", ">"} -> 3
            [] Peek(1) \in {"=", "/", "+", "&", ":", ".", "0"} -> 2
            [] OTHER -> 1)
    [] scan \in {"digits", "block"} -> 2
    [] scan = "exponent" -> IF Peek(1) = "e" THEN 3 ELSE 1
    [] OTHER -> 1

Init ==
  /\ unread \in 0..MaxChars
  /\ next = <<>> /\ past = 0
  /\ scan = "start" /\ last = Quiet
  /\ errors = FALSE

Look ==
  /\ scan # "done" /\ Len(next) < Wanted /\ unread > 0
  /\ \E c \in Char : next' = Append(next, c)
  /\ unread' = unread - 1
  /\ UNCHANGED <<past, scan, last, errors>>

In(function) ==
  /\ scan = function
  /\ Len(next) >= Wanted \/ unread = 0

\* k calls of advance, then on in a function, with what scanToken came to.
Advance(k, function, result) ==
  /\ next' = SubSeq(next, k + 1, Len(next))
  /\ past' = past + IF k > Len(next) THEN k - Len(next) ELSE 0
  /\ scan' = function
  /\ last' = result
  /\ errors' = (errors \/ result.kind = "error")
  /\ UNCHANGED unread
Go(k, function) == Advance(k, function, Quiet)
Lexeme(k) == Advance(k, "start", Emit(<<>>))
Report(k) == Advance(k, "start", Error)

-----------------------------------------------------------------------------
(* tokanize and scanToken *)

skipWhitespaces ==
  /\ In("start") /\ Peek(1) \in White
  /\ Go(1, "start")

\* Mutant: "**" is taken without a look at what follows.
BugShortPower(c, p, n) ==
  IF c = p /\ c \in {"*", "<", ">", "+", "-", "&", ":", ".", "="} THEN 2
  ELSE IF p = "=" /\ c \notin {":", "."} THEN 2 ELSE 1

\* The length of the operator that begins with c, before p and n.
OperatorLength(c, p, n) ==
  CASE c = "*" -> IF p = "=" THEN 2
                  ELSE IF p # "*" THEN 1 ELSE IF n = "=" THEN 3 ELSE 2
    [] c = "<" -> IF p = "=" THEN 2
                  ELSE IF p # "<" THEN 1 ELSE IF n = "=" THEN 3 ELSE 2
    [] c = ">" -> IF p \in {"<", "="} THEN 2
                  ELSE IF p # ">" THEN 1 ELSE IF n = "=" THEN 3 ELSE 2
    [] c = "!" -> IF p = "=" THEN 2
                  ELSE IF p = ">" /\ n = "<" THEN 3 ELSE 1
    [] c = "-" -> IF p \in {"=", ">"} THEN 2
                  ELSE IF p # "-" THEN 1 ELSE IF n \in {"-", "!"} THEN 3 ELSE 2
    [] c \in {"+", "&"} -> IF p \in {c, "="} THEN 2 ELSE 1
    [] c \in {"=", "/"} -> IF p = "=" THEN 2 ELSE 1
    [] c \in {":", "."} -> IF p = c THEN 2 ELSE 1
    [] OTHER -> 1

scanToken ==
  /\ In("start") /\ ~AtEnd /\ Peek(1) \notin White
  /\ LET c == Peek(1)
         k == OperatorLength(c, Peek(2), Peek(3))
         text == SubSeq(next, 1, k)
     IN  CASE c \in Letter -> Go(1, "word")
           [] c = "0" /\ Peek(2) \in DOMAIN BaseDigits ->
                Go(2, Prefix[Peek(2)])
           [] c \in Digit /\ ~(c = "0" /\ Peek(2) \in DOMAIN BaseDigits) ->
                Go(1, "digits")
           [] c = "'" -> Go(1, "char")
           [] c = "quote" -> Go(1, "string")
           [] c \in {"\\", "@"} -> Go(1, "start")
           [] text = <<"-", "-", "-">> -> Go(3, "line")
           [] text = <<"-", "-", "!">> -> Go(3, "block")
           [] OTHER -> Advance(k, "start", Emit(text))

scanIdentifierOrKeyword ==
  /\ In("word")
  /\ IF Peek(1) \in AlphaNumeric THEN Go(1, "word") ELSE Lexeme(0)

tokanizeEnds ==
  /\ In("start") /\ AtEnd
  /\ scan' = "done" /\ past' = 0 /\ last' = Quiet
  /\ UNCHANGED <<unread, next, errors>>

-----------------------------------------------------------------------------
(* scanNumber *)

\* The digits behind 0x, 0b and 0o: none, one that does not belong, a value
\* that is too large.
scanBase(p) ==
  \/ /\ In(Prefix[p])
     /\ IF Peek(1) \in BaseDigits[p] THEN Go(1, p) ELSE Report(0)
  \/ /\ In(p)
     /\ \/ Peek(1) \in BaseDigits[p] /\ Go(1, p)
        \/ Peek(1) \in AlphaNumeric \ BaseDigits[p] /\ Report(1)
        \/ Peek(1) \notin AlphaNumeric /\ (Lexeme(0) \/ Report(0))

scanNumber ==
  \/ /\ In("digits")
     /\ CASE Peek(1) \in Digit -> Go(1, "digits")
          [] Peek(1) = "." /\ Peek(2) \in Digit -> Go(1, "fraction")
          [] OTHER -> Go(0, "exponent")
  \/ /\ In("fraction")
     /\ IF Peek(1) \in Digit THEN Go(1, "fraction") ELSE Go(0, "exponent")
  \/ /\ In("exponent")
     /\ LET signed == Peek(2) \in {"+", "-"}
            k == IF signed THEN 2 ELSE 1
        IN  CASE Peek(1) # "e" -> Lexeme(0)
              [] Peek(1) = "e" /\ Peek(k + 1) \in Digit -> Go(k, "power")
              [] OTHER -> Report(k)
  \/ /\ In("power")
     /\ IF Peek(1) \in Digit THEN Go(1, "power") ELSE Lexeme(0)

-----------------------------------------------------------------------------
(* scanCharLit and scanStringLit *)

\* Mutant: the loop does not ask for the end of the source.
BugRunsOn ==
  /\ In("char_rest")
  /\ CASE Peek(1) = "'" -> Report(1)
       [] Peek(1) = "nl" \/ past > 1 -> Report(0)
       [] OTHER -> Go(1, "char_rest")

\* The loop to the closing quote of a literal that is too long.
CharRest ==
  /\ In("char_rest")
  /\ CASE Peek(1) = "'" -> Report(1)
       [] Peek(1) \in {"nl", "end"} -> Report(0)
       [] OTHER -> Go(1, "char_rest")

scanCharLit ==
  \/ /\ In("char")
     /\ CASE Peek(1) = "'" -> Report(1)
          [] Peek(1) = "\\" -> Go(1, "char_escape")
          [] Peek(1) = "nl" -> Report(0)
          [] OTHER -> Go(1, "char_tail")
  \/ /\ In("char_escape")
     /\ CASE Peek(1) \in {"'", "end"} -> Report(0)
          [] Peek(1) \in Escape \ {"'"} -> Go(1, "char_tail")
          [] OTHER -> Report(1)
  \/ /\ In("char_tail")
     /\ IF Peek(1) = "'" THEN Lexeme(1) ELSE Go(0, "char_rest")
  \/ CharRest

\* Mutant: an unterminated literal is dropped.
BugUnclosedDropped ==
  /\ In("string")
  /\ CASE AtEnd -> Advance(0, "start", Quiet)
       [] Peek(1) = "quote" -> Lexeme(1)
       [] Peek(1) = "\\" -> Go(1, "string_escape")
       [] OTHER -> Go(1, "string")

StringBody ==
  /\ In("string")
  /\ CASE AtEnd -> Report(0)
       [] Peek(1) = "quote" -> Lexeme(1)
       [] Peek(1) = "\\" -> Go(1, "string_escape")
       [] OTHER -> Go(1, "string")

\* A bad escape is reported and the literal goes on; at the end of the source
\* the literal is given up.
scanStringLit ==
  \/ StringBody
  \/ /\ In("string_escape")
     /\ CASE AtEnd -> Go(0, "start")
          [] Peek(1) \in Escape -> Go(1, "string")
          [] OTHER -> Advance(1, "string", Error)

-----------------------------------------------------------------------------
(* skipComments *)

BlockComment ==
  \/ /\ In("block")
     /\ CASE AtEnd -> Report(0)
          [] Peek(1) = "!" /\ Peek(2) = "-" -> Go(2, "block_dash")
          [] OTHER -> Go(1, "block")
  \/ /\ In("block_dash")
     /\ IF Peek(1) = "-" THEN Advance(1, "start", Skipped) ELSE Go(1, "block")

LineComment ==
  /\ In("line")
  /\ IF Peek(1) \in {"nl", "end"} THEN Advance(0, "start", Skipped)
     ELSE Go(1, "line")

Next ==
  \/ Look \/ skipWhitespaces \/ scanToken \/ scanIdentifierOrKeyword
  \/ scanNumber \/ \E p \in DOMAIN BaseDigits : scanBase(p)
  \/ scanCharLit \/ scanStringLit \/ BlockComment \/ LineComment
  \/ tokanizeEnds

-----------------------------------------------------------------------------
(***************************************************************************)
(* Properties                                                              *)
(***************************************************************************)
\* The operators of token.h, and what opens a comment.
Operators ==
  {<<c>> : c \in {"=", "*", "/", "-", "+", "!", "<", ">", "&", ":", "."}}
  \cup {<<c, "=">> : c \in {"=", "*", "/", "-", "+", "!", "<", ">", "&"}}
  \cup {<<c, c>> : c \in {"*", "-", "+", "<", ">", "&", ":", "."}}
  \cup {<<c, c, "=">> : c \in {"*", "<", ">"}}
  \cup {<<"-", ">">>, <<">", "<">>, <<"!", ">", "<">>,
        <<"-", "-", "-">>, <<"-", "-", "!">>}

\* An operator is never cut short: no longer one begins where it begins.
MaximalMunch ==
  last.kind = "token" /\ last.text # <<>> =>
    \A op \in Operators :
      IsPrefix(op, last.text \o next) => Len(op) <= Len(last.text)

\* Whatever the lexer consumes it answers for, by a token, a comment or an
\* error, but for white space, the characters it has no case for, and a string
\* literal whose last character in the file is a backslash.
Answered ==
  \/ last'.kind # "none"
  \/ scan = "start" /\ Peek(1) \in White \cup {"@", "\\"}
  \/ scan = "string_escape" /\ AtEnd
NothingDropped ==
  [][scan' = "start" /\ unread' = unread => Answered]_<<scan, next>>

\* The source is not read behind the terminating null: advance passes the end
\* by one at most, and then nothing peeks without asking isAtEnd first.
ReadsInside ==
  /\ past \in 0..1
  /\ past = 1 => AtEnd /\ scan \notin {"char", "block_dash"}
=============================================================================
