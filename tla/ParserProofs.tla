---------------------------- MODULE ParserProofs ----------------------------
(***************************************************************************)
(* Proofs about Parser, as CompileDriver runs it, for any tokens and files *)
(* of any length: an error always finds the try block it belongs to, what  *)
(* is accepted has balanced braces, and recovery stays inside the block    *)
(* whose statement failed.                                                 *)
(*                                                                         *)
(* A try names a place in `work' by its height, the distance from the end; *)
(* the lemmas do so too: whatever a step does above a height, the parts    *)
(* below it keep their places.                                             *)
(***************************************************************************)
EXTENDS CompileDriver, SequenceTheorems, TLAPS

\* The part of the work at height n, and the n lowest parts.
At(w, n) == w[Len(w) - n + 1]
Suffix(w, m) == SubSeq(w, Len(w) - m + 1, Len(w))

-----------------------------------------------------------------------------
(***************************************************************************)
(* Places in the work.                                                     *)
(***************************************************************************)
LEMMA SuffixFacts ==
  ASSUME NEW S, NEW w \in Seq(S), NEW m \in 0..Len(w)
  PROVE  /\ Suffix(w, m) \in Seq(S) /\ Len(Suffix(w, m)) = m
         /\ \A n \in 1..m : At(Suffix(w, m), n) = At(w, n)
<1> DEFINE a == Len(w) - m + 1
           b == Len(w)
<1>1. b \in Nat /\ a \in 1..(b + 1) /\ m = b - a + 1
  BY LenProperties
<1>2. Suffix(w, m) = SubSeq(w, a, b)
  BY DEF Suffix
<1>3. \A i \in a..b : w[i] \in S
  BY <1>1, ElementOfSeq
<1> HIDE DEF a, b
<1>4. /\ SubSeq(w, a, b) \in Seq(S) /\ Len(SubSeq(w, a, b)) = m
      /\ \A i \in 1..m : SubSeq(w, a, b)[i] = w[a + i - 1]
  BY <1>1, <1>3, SubSeqProperties
<1>5. ASSUME NEW n \in 1..m PROVE At(Suffix(w, m), n) = At(w, n)
  <2>1. m - n + 1 \in 1..m
    BY <1>1
  <2>2. At(Suffix(w, m), n) = w[a + (m - n + 1) - 1]
    BY <1>2, <1>4, <2>1 DEF At
  <2>3. a + (m - n + 1) - 1 = b - n + 1
    BY <1>1
  <2> QED BY <2>2, <2>3 DEF At, b
<1> QED BY <1>2, <1>4, <1>5

LEMMA TailSuffix ==
  ASSUME NEW S, NEW w \in Seq(S), w # <<>>
  PROVE  Len(w) \in Nat \ {0} /\ Tail(w) = Suffix(w, Len(w) - 1)
<1>1. Len(w) \in Nat \ {0} /\ Tail(w) = SubSeq(w, 2, Len(w))
  BY TailIsSubSeq, EmptySeq
<1>2. Len(w) - (Len(w) - 1) + 1 = 2
  BY <1>1
<1> QED BY <1>1, <1>2 DEF Suffix

\* New parts s on the m lowest parts of w.
LEMMA OnTop ==
  ASSUME NEW S, NEW w \in Seq(S), NEW m \in 0..Len(w), NEW s \in Seq(S)
  PROVE  LET x == s \o Suffix(w, m)
         IN  /\ x \in Seq(S) /\ Len(x) = m + Len(s)
             /\ \A n \in 1..m : At(x, n) = At(w, n)
             /\ \A k \in 1..Len(s) : At(x, m + k) = At(s, k)
<1> DEFINE t == Suffix(w, m)
           x == s \o t
<1>1. /\ t \in Seq(S) /\ Len(t) = m
      /\ \A n \in 1..m : At(t, n) = At(w, n)
  BY SuffixFacts
<1>2. Len(s) \in Nat /\ m \in Nat
  BY LenProperties
<1> HIDE DEF t
<1>3. /\ x \in Seq(S) /\ Len(x) = Len(s) + m
      /\ \A i \in 1..(Len(s) + m) :
           x[i] = IF i <= Len(s) THEN s[i] ELSE t[i - Len(s)]
  BY <1>1, ConcatProperties
<1> HIDE DEF x
<1>4. ASSUME NEW n \in 1..m PROVE At(x, n) = At(w, n)
  <2>1. /\ Len(s) + m - n + 1 \in 1..(Len(s) + m)
        /\ ~(Len(s) + m - n + 1 <= Len(s))
        /\ Len(s) + m - n + 1 - Len(s) = m - n + 1
    BY <1>2
  <2>2. At(x, n) = t[m - n + 1]
    BY <2>1, <1>3 DEF At
  <2> QED BY <2>2, <1>1 DEF At
<1>5. ASSUME NEW k \in 1..Len(s) PROVE At(x, m + k) = At(s, k)
  <2>1. /\ Len(s) - k + 1 \in 1..(Len(s) + m) /\ Len(s) - k + 1 <= Len(s)
        /\ Len(s) + m - (m + k) + 1 = Len(s) - k + 1
    BY <1>2
  <2> QED BY <2>1, <1>3 DEF At
<1> QED BY <1>2, <1>3, <1>4, <1>5 DEF x, t

-----------------------------------------------------------------------------
(***************************************************************************)
(* Levels: lev[n] braces are still to be closed by the n lowest parts.     *)
(***************************************************************************)
Delta(x) ==
  IF x = "rbrace" THEN 1 ELSE IF x \in {"lbrace", "NoBrace"} THEN -1 ELSE 0

Levels(w, lev) ==
  /\ lev \in [0..Len(w) -> Int]
  /\ lev[0] = 0
  /\ \A n \in 1..Len(w) : lev[n] = lev[n - 1] + Delta(At(w, n))

\* The levels u of s, from the level that lev has at height m.
Raised(x, lev, m, s, u) ==
  \E lv : /\ Levels(x, lv)
          /\ \A n \in 0..m : lv[n] = lev[n]
          /\ \A k \in 0..Len(s) : lv[m + k] = lev[m] + u[k]

LEMMA LevelsOnTop ==
  ASSUME NEW w \in Seq(Symbol), NEW lev, Levels(w, lev), NEW m \in 0..Len(w),
         NEW s \in Seq(Symbol), NEW u, Levels(s, u),
         NEW x, x = s \o Suffix(w, m)
  PROVE  Raised(x, lev, m, s, u)
<1>1. /\ x \in Seq(Symbol) /\ Len(x) = m + Len(s)
      /\ \A n \in 1..m : At(x, n) = At(w, n)
      /\ \A k \in 1..Len(s) : At(x, m + k) = At(s, k)
  BY OnTop
<1>2. Len(s) \in Nat /\ Len(w) \in Nat /\ m \in Nat
  BY LenProperties
<1>3. /\ lev \in [0..Len(w) -> Int] /\ lev[0] = 0
      /\ u \in [0..Len(s) -> Int] /\ u[0] = 0
  BY DEF Levels
<1>4. /\ \A n \in 0..m : lev[n] \in Int
      /\ \A k \in 0..Len(s) : u[k] \in Int
  <2>1. \A n \in 0..m : n \in 0..Len(w)
    BY <1>2
  <2> QED BY <2>1, <1>3
<1> DEFINE lv == [n \in 0..Len(x) |->
                    IF n <= m THEN lev[n] ELSE lev[m] + u[n - m]]
<1>5. /\ lv[0] = 0
      /\ \A n \in 0..m : lv[n] = lev[n]
  BY <1>1, <1>2, <1>3
<1>6. ASSUME NEW k \in 0..Len(s) PROVE lv[m + k] = lev[m] + u[k]
  <2>1. m + k \in 0..Len(x) /\ (m + k <= m <=> k = 0) /\ m + k - m = k
    BY <1>1, <1>2
  <2>2. CASE k = 0
    <3>1. m + k = m /\ m \in 0..m /\ lev[m] \in Int
      BY <2>2, <1>2, <1>4
    <3>2. lv[m] = lev[m]
      BY <3>1, <1>5
    <3>3. lev[m] + u[k] = lev[m]
      BY <3>1, <2>2, <1>3
    <3> HIDE DEF lv
    <3> QED BY <3>1, <3>2, <3>3
  <2>3. CASE k # 0
    <3>1. lv[m + k] = lev[m] + u[m + k - m]
      BY <2>1, <2>3
    <3> QED BY <3>1, <2>1
  <2> QED BY <2>2, <2>3
<1>7. ASSUME NEW n \in 0..Len(x) PROVE lv[n] \in Int
  <2>1. CASE n <= m
    BY <2>1, <1>4, <1>5
  <2>2. CASE ~(n <= m)
    <3>1. n - m \in 0..Len(s) /\ m \in 0..m
      BY <2>2, <1>1, <1>2
    <3>2. lv[n] = lev[m] + u[n - m]
      BY <2>2
    <3>3. lev[m] \in Int /\ u[n - m] \in Int
      BY <3>1, <1>4
    <3> QED BY <3>2, <3>3
  <2> QED BY <2>1, <2>2
<1>8. lv \in [0..Len(x) -> Int]
  BY <1>7
<1> HIDE DEF lv
<1>9. ASSUME NEW n \in 1..Len(x)
      PROVE  lv[n] = lv[n - 1] + Delta(At(x, n))
  <2>1. CASE n <= m
    <3>1. n \in 1..m /\ n \in 0..m /\ n - 1 \in 0..m /\ n \in 1..Len(w)
      BY <2>1, <1>1, <1>2
    <3>2. lev[n] = lev[n - 1] + Delta(At(w, n))
      BY <3>1 DEF Levels
    <3> QED BY <3>1, <3>2, <1>1, <1>5
  <2>2. CASE ~(n <= m)
    <3> DEFINE k == n - m
    <3>1. /\ k \in 1..Len(s) /\ k - 1 \in 0..Len(s) /\ k \in 0..Len(s)
          /\ n = m + k /\ n - 1 = m + (k - 1)
      BY <2>2, <1>1, <1>2
    <3> HIDE DEF k
    <3>2. u[k] = u[k - 1] + Delta(At(s, k))
      BY <3>1 DEF Levels
    <3>3. lv[n] = lev[m] + u[k] /\ lv[n - 1] = lev[m] + u[k - 1]
      BY <3>1, <1>6
    <3>4. At(x, n) = At(s, k)
      BY <3>1, <1>1
    <3>5. u[k - 1] \in Int /\ lev[m] \in Int /\ Delta(At(s, k)) \in Int
      BY <3>1, <1>2, <1>4 DEF Delta
    <3> QED BY <3>2, <3>3, <3>4, <3>5
  <2> QED BY <2>1, <2>2
<1> QED BY <1>5, <1>6, <1>8, <1>9 DEF Levels, Raised

-----------------------------------------------------------------------------
(***************************************************************************)
(* What the rules put on the work: no brace, or one pair of braces.        *)
(***************************************************************************)
Marks == {"lbrace", "rbrace", "NoBrace", "Globals", "End"}

Plain == Symbol \ Marks
Flat(s) == s \in Seq(Plain)

Paired(s) ==
  /\ s \in Seq(Symbol)
  /\ \E p, q \in 1..Len(s) :
       /\ p < q /\ s[p] \in {"lbrace", "NoBrace"} /\ s[q] = "rbrace"
       /\ \A i \in 1..Len(s) : i \notin {p, q} => s[i] \notin Marks

LEMMA FlatElements ==
  ASSUME NEW s, Flat(s)
  PROVE  /\ s \in Seq(Symbol) /\ Len(s) \in Nat
         /\ \A i \in 1..Len(s) : s[i] \notin Marks
<1>1. Plain \subseteq Symbol
  BY DEF Plain
<1>2. s \in Seq(Symbol)
  BY <1>1, SeqMonotonic DEF Flat
<1>3. \A i \in 1..Len(s) : s[i] \in Plain
  BY ElementOfSeq DEF Flat
<1> QED BY <1>2, <1>3, LenProperties DEF Plain

LEMMA FlatLevels ==
  ASSUME NEW s, Flat(s)
  PROVE  \E u : /\ Levels(s, u) /\ u[Len(s)] = 0
                /\ \A k \in 0..Len(s) : u[k] >= 0
<1> DEFINE u == [k \in 0..Len(s) |-> 0]
<1>1. Len(s) \in Nat
  BY FlatElements
<1>2. ASSUME NEW n \in 1..Len(s) PROVE Delta(At(s, n)) = 0
  <2>1. Len(s) - n + 1 \in 1..Len(s)
    BY <1>1
  <2> QED BY <2>1, FlatElements DEF At, Delta, Marks
<1>3. Levels(s, u)
  BY <1>1, <1>2 DEF Levels
<1> QED BY <1>1, <1>3

LEMMA PairedLevels ==
  ASSUME NEW s, Paired(s)
  PROVE  \E u : /\ Levels(s, u) /\ u[Len(s)] = 0
                /\ \A k \in 0..Len(s) : u[k] >= 0
<1>1. Len(s) \in Nat
  BY LenProperties DEF Paired
<1>2. PICK p \in 1..Len(s), q \in 1..Len(s) :
        /\ p < q /\ s[p] \in {"lbrace", "NoBrace"} /\ s[q] = "rbrace"
        /\ \A i \in 1..Len(s) : i \notin {p, q} => s[i] \notin Marks
  BY DEF Paired
<1> DEFINE a == Len(s) - q + 1
           b == Len(s) - p + 1
           u == [k \in 0..Len(s) |-> IF a <= k /\ k < b THEN 1 ELSE 0]
<1>3. a \in 1..Len(s) /\ b \in 1..Len(s) /\ a < b
  BY <1>1, <1>2
<1>4. ASSUME NEW n \in 1..Len(s)
      PROVE  Delta(At(s, n)) = IF n = a THEN 1 ELSE IF n = b THEN -1 ELSE 0
  <2>1. /\ Len(s) - n + 1 \in 1..Len(s)
        /\ n = a <=> Len(s) - n + 1 = q
        /\ n = b <=> Len(s) - n + 1 = p
    BY <1>1, <1>2
  <2>2. CASE n = a
    BY <2>1, <2>2, <1>2 DEF At, Delta
  <2>3. CASE n = b
    <3>1. At(s, n) \in {"lbrace", "NoBrace"} /\ n # a
      BY <2>1, <2>3, <1>2, <1>3 DEF At
    <3> QED BY <3>1, <2>3 DEF Delta
  <2>4. CASE n \notin {a, b}
    <3>1. At(s, n) \notin Marks
      BY <2>1, <2>4, <1>2 DEF At
    <3> QED BY <3>1, <2>4 DEF Delta, Marks
  <2> QED BY <2>2, <2>3, <2>4
<1> HIDE DEF a, b
<1>5. Levels(s, u)
  <2>1. u \in [0..Len(s) -> Int] /\ u[0] = 0
    BY <1>1, <1>3
  <2>2. ASSUME NEW n \in 1..Len(s)
        PROVE  u[n] = u[n - 1] + Delta(At(s, n))
    <3>1. n \in 0..Len(s) /\ n - 1 \in 0..Len(s) /\ n \in Nat
      BY <1>1
    <3> QED BY <3>1, <1>3, <1>4
  <2> QED BY <2>1, <2>2 DEF Levels
<1>6. u[Len(s)] = 0
  BY <1>1, <1>3
<1>7. \A k \in 0..Len(s) : u[k] >= 0
  OBVIOUS
<1> QED BY <1>5, <1>6, <1>7

LEMMA FlatFlat ==
  ASSUME NEW s, NEW t, Flat(s), Flat(t)
  PROVE  Flat(s \o t)
BY ConcatProperties DEF Flat

LEMMA FlatPaired ==
  ASSUME NEW s, NEW t, Flat(s), Paired(t)
  PROVE  Paired(s \o t)
<1>1. Len(s) \in Nat /\ Len(t) \in Nat
  BY FlatElements, LenProperties DEF Paired
<1>2. /\ s \o t \in Seq(Symbol) /\ Len(s \o t) = Len(s) + Len(t)
      /\ \A i \in 1..(Len(s) + Len(t)) :
           (s \o t)[i] = IF i <= Len(s) THEN s[i] ELSE t[i - Len(s)]
  BY FlatElements, ConcatProperties DEF Paired
<1>3. PICK p \in 1..Len(t), q \in 1..Len(t) :
        /\ p < q /\ t[p] \in {"lbrace", "NoBrace"} /\ t[q] = "rbrace"
        /\ \A i \in 1..Len(t) : i \notin {p, q} => t[i] \notin Marks
  BY DEF Paired
<1> DEFINE a == Len(s) + p
           b == Len(s) + q
<1>4. /\ a \in 1..(Len(s) + Len(t)) /\ b \in 1..(Len(s) + Len(t)) /\ a < b
      /\ ~(a <= Len(s)) /\ a - Len(s) = p
      /\ ~(b <= Len(s)) /\ b - Len(s) = q
  BY <1>1, <1>3
<1>5. (s \o t)[a] = t[p] /\ (s \o t)[b] = t[q]
  BY <1>2, <1>4
<1>6. ASSUME NEW i \in 1..(Len(s) + Len(t)), i \notin {a, b}
      PROVE  (s \o t)[i] \notin Marks
  <2>1. CASE i <= Len(s)
    BY <2>1, <1>1, <1>2, FlatElements
  <2>2. CASE ~(i <= Len(s))
    <3>1. i - Len(s) \in 1..Len(t) /\ i - Len(s) \notin {p, q}
      BY <2>2, <1>1, <1>6
    <3> QED BY <3>1, <2>2, <1>2, <1>3
  <2> QED BY <2>1, <2>2
<1> HIDE DEF a, b
<1> QED BY <1>2, <1>3, <1>4, <1>5, <1>6 DEF Paired

LEMMA PairedFlat ==
  ASSUME NEW s, NEW t, Paired(s), Flat(t)
  PROVE  Paired(s \o t)
<1>1. Len(s) \in Nat /\ Len(t) \in Nat
  BY FlatElements, LenProperties DEF Paired
<1>2. /\ s \o t \in Seq(Symbol) /\ Len(s \o t) = Len(s) + Len(t)
      /\ \A i \in 1..(Len(s) + Len(t)) :
           (s \o t)[i] = IF i <= Len(s) THEN s[i] ELSE t[i - Len(s)]
  BY FlatElements, ConcatProperties DEF Paired
<1>3. PICK p \in 1..Len(s), q \in 1..Len(s) :
        /\ p < q /\ s[p] \in {"lbrace", "NoBrace"} /\ s[q] = "rbrace"
        /\ \A i \in 1..Len(s) : i \notin {p, q} => s[i] \notin Marks
  BY DEF Paired
<1>4. /\ p \in 1..(Len(s) + Len(t)) /\ q \in 1..(Len(s) + Len(t))
      /\ p <= Len(s) /\ q <= Len(s)
  BY <1>1, <1>3
<1>5. (s \o t)[p] = s[p] /\ (s \o t)[q] = s[q]
  BY <1>2, <1>4
<1>6. ASSUME NEW i \in 1..(Len(s) + Len(t)), i \notin {p, q}
      PROVE  (s \o t)[i] \notin Marks
  <2>1. CASE i <= Len(s)
    BY <2>1, <1>1, <1>2, <1>3, <1>6
  <2>2. CASE ~(i <= Len(s))
    <3>1. i - Len(s) \in 1..Len(t)
      BY <2>2, <1>1
    <3> QED BY <3>1, <2>2, <1>2, FlatElements
  <2> QED BY <2>1, <2>2
<1> QED BY <1>2, <1>3, <1>4, <1>5, <1>6 DEF Paired

Good(s) == Flat(s) \/ Paired(s)
GoodSet(R) == \A r \in R : Good(r.to)

LEMMA GoodForms ==
  /\ \A s : Good(s) => GoodSet(Then(s)) /\ GoodSet(Report(s))
  /\ \A t, s : Good(s) => GoodSet(When(t, s)) /\ GoodSet(Unless(t, s))
  /\ GoodSet(Throw)
  /\ \A s : Good(s) => GoodSet(Convert(s))
  /\ \A R, T : GoodSet(R) /\ GoodSet(T) => GoodSet(R \cup T)
<1>1. Good(<<>>)
  BY DEF Good, Flat
<1>2. \A s : Good(s) => GoodSet(Then(s)) /\ GoodSet(Report(s))
  BY DEF Then, Report, GoodSet
<1>3. \A t, s : Good(s) => GoodSet(When(t, s)) /\ GoodSet(Unless(t, s))
  BY <1>1, <1>2 DEF When, Unless
<1>4. GoodSet(Throw)
  BY <1>1 DEF Throw, GoodSet
<1>5. \A R, T : GoodSet(R) /\ GoodSet(T) => GoodSet(R \cup T)
  BY DEF GoodSet
<1>6. \A s : Good(s) => GoodSet(Convert(s))
  BY <1>1 DEF Convert, Then, GoodSet
<1> QED BY <1>2, <1>3, <1>4, <1>5, <1>6

\* The names that rules put on the work.
LEMMA Names ==
  /\ Terminal \ {"lbrace", "rbrace"} \subseteq Plain
  /\ Function \ {"NoBrace"} \subseteq Plain
  /\ {"Stmts", "CaseStmts", "DefaultStmts"} \subseteq Plain
  /\ {"lbrace", "rbrace", "NoBrace", "Globals", "End"} \subseteq Symbol
<1>1. DOMAIN LoopEnd = {"Globals", "Stmts", "CaseStmts", "DefaultStmts"}
  BY DEF LoopEnd
<1>2. Terminal \cap Marks \subseteq {"lbrace", "rbrace"}
  BY DEF Terminal, Marks
<1>3. Function \cap Marks \subseteq {"NoBrace"}
  BY DEF Function, Marks, PrologueFn, GlobalFn, StatementFn, IfSwitchFn,
         ForFn, FunctionFn, DeclFn, ArrayFn, ClassFn, MethodFn, AssignFn,
         BinaryFn, UnaryFn, PrimaryFn
<1>4. {"Stmts", "CaseStmts", "DefaultStmts"} \cap Marks = {}
  BY DEF Marks
<1>5. {"lbrace", "rbrace"} \subseteq Terminal /\ "NoBrace" \in Function
  BY DEF Terminal, Function, StatementFn
<1> QED BY <1>1, <1>2, <1>3, <1>4, <1>5 DEF Plain, Symbol

LEMMA FlatTuples ==
  /\ Flat(<<>>)
  /\ \A a \in Plain : Flat(<<a>>)
  /\ \A a, b \in Plain : Flat(<<a, b>>)
  /\ \A a, b, c \in Plain : Flat(<<a, b, c>>)
  /\ \A a, b, c, d \in Plain : Flat(<<a, b, c, d>>)
  /\ \A a, b, c, d, e \in Plain : Flat(<<a, b, c, d, e>>)
  /\ \A a, b, c, d, e, f \in Plain : Flat(<<a, b, c, d, e, f>>)
  /\ \A a, b, c, d, e, f, g \in Plain : Flat(<<a, b, c, d, e, f, g>>)
  /\ \A a, b, c, d, e, f, g, h \in Plain : Flat(<<a, b, c, d, e, f, g, h>>)
BY DEF Flat

LEMMA PairedTuples ==
  /\ \A a \in Plain : Paired(<<"lbrace", a, "rbrace">>)
  /\ Paired(<<"run", "lbrace", "Stmts", "SetRun", "rbrace">>)
  /\ Paired(EnumDecl)
  /\ Paired(<<"class", "id", "Parent", "lbrace", "Attributes", "MethodsOpt",
              "rbrace">>)
  /\ Paired(<<"else", "NoBrace", "Stmts", "rbrace">>)
<1>1. ASSUME NEW s \in Seq(Symbol), NEW p \in 1..Len(s), NEW q \in 1..Len(s),
             p < q, s[p] \in {"lbrace", "NoBrace"}, s[q] = "rbrace",
             \A i \in 1..Len(s) : i \notin {p, q} => s[i] \notin Marks
      PROVE  Paired(s)
  BY <1>1 DEF Paired
<1>2. ASSUME NEW a \in Plain PROVE Paired(<<"lbrace", a, "rbrace">>)
  <2>1. <<"lbrace", a, "rbrace">> \in Seq(Symbol)
    BY Names DEF Plain
  <2> QED BY <2>1 DEF Paired, Plain
<1>3. Paired(<<"run", "lbrace", "Stmts", "SetRun", "rbrace">>)
  <2> DEFINE s == <<"run", "lbrace", "Stmts", "SetRun", "rbrace">>
  <2>1. s \in Seq(Symbol)
    BY Names DEF Plain, Terminal, Function, GlobalFn
  <2>2. \A i \in 1..5 : i \notin {2, 5} => s[i] \notin Marks
    BY DEF Marks
  <2>3. Len(s) = 5 /\ s[2] \in {"lbrace", "NoBrace"} /\ s[5] = "rbrace"
    OBVIOUS
  <2>4. 2 \in 1..5 /\ 5 \in 1..5 /\ 2 < 5
    OBVIOUS
  <2> HIDE DEF s
  <2>5. Paired(s)
    BY <2>1, <2>2, <2>3, <2>4, <1>1
  <2> QED BY <2>5 DEF s
<1>4. Paired(EnumDecl)
  <2>1. EnumDecl \in Seq(Symbol)
    BY Names DEF EnumDecl, Plain, Terminal, Function, DeclFn
  <2>2. \A i \in 1..7 : i \notin {4, 6} => EnumDecl[i] \notin Marks
    BY DEF EnumDecl, Marks
  <2>3. /\ Len(EnumDecl) = 7 /\ EnumDecl[4] \in {"lbrace", "NoBrace"}
        /\ EnumDecl[6] = "rbrace"
    BY DEF EnumDecl
  <2>4. 4 \in 1..7 /\ 6 \in 1..7 /\ 4 < 6
    OBVIOUS
  <2> QED BY <2>1, <2>2, <2>3, <2>4, <1>1
<1>5. Paired(<<"class", "id", "Parent", "lbrace", "Attributes", "MethodsOpt",
               "rbrace">>)
  <2> DEFINE s == <<"class", "id", "Parent", "lbrace", "Attributes",
                    "MethodsOpt", "rbrace">>
  <2>1. s \in Seq(Symbol)
    BY Names DEF Plain, Terminal, Function, ClassFn
  <2>2. \A i \in 1..7 : i \notin {4, 7} => s[i] \notin Marks
    BY DEF Marks
  <2>3. Len(s) = 7 /\ s[4] \in {"lbrace", "NoBrace"} /\ s[7] = "rbrace"
    OBVIOUS
  <2>4. 4 \in 1..7 /\ 7 \in 1..7 /\ 4 < 7
    OBVIOUS
  <2> HIDE DEF s
  <2>5. Paired(s)
    BY <2>1, <2>2, <2>3, <2>4, <1>1
  <2> QED BY <2>5 DEF s
<1>6. Paired(<<"else", "NoBrace", "Stmts", "rbrace">>)
  <2> DEFINE s == <<"else", "NoBrace", "Stmts", "rbrace">>
  <2>1. s \in Seq(Symbol)
    BY Names DEF Plain, Terminal
  <2>2. \A i \in 1..4 : i \notin {2, 4} => s[i] \notin Marks
    BY DEF Marks
  <2>3. Len(s) = 4 /\ s[2] \in {"lbrace", "NoBrace"} /\ s[4] = "rbrace"
    OBVIOUS
  <2>4. 2 \in 1..4 /\ 4 \in 1..4 /\ 2 < 4
    OBVIOUS
  <2> HIDE DEF s
  <2>5. Paired(s)
    BY <2>1, <2>2, <2>3, <2>4, <1>1
  <2> QED BY <2>5 DEF s
<1> QED BY <1>2, <1>3, <1>4, <1>5, <1>6

\* The pieces that the rules share.
LEMMA Pieces ==
  /\ Flat(Condition) /\ Flat(Signature) /\ Paired(Block)
  /\ Paired(FunctionDef) /\ Flat(ImportDecl) /\ Flat(ExternDecl)
  /\ Paired(WhileStmt) /\ Paired(DoWhileStmt)
  /\ Flat(JumpStmt) /\ Flat(ReturnStmt)
<1> USE Names, FlatTuples DEF Terminal, Function
<1>1. Flat(Condition) /\ Flat(Signature)
  BY DEF Condition, Signature, AssignFn, FunctionFn
<1>2. Paired(Block)
  BY PairedTuples DEF Block
<1>3. Paired(FunctionDef)
  <2>1. Flat(<<"func", "id">>) /\ Flat(<<"Returns">>)
    BY DEF FunctionFn
  <2>2. Flat(<<"func", "id">> \o Signature \o <<"Returns">>)
    BY <1>1, <2>1, FlatFlat
  <2> QED BY <1>2, <2>2, FlatPaired DEF FunctionDef
<1>4. Flat(ImportDecl) /\ Flat(JumpStmt) /\ Flat(ReturnStmt)
  BY ZenonT(40) DEF ImportDecl, JumpStmt, ReturnStmt, DeclFn, StatementFn
<1>5. Flat(ExternDecl)
  <2>1. Flat(<<"extern", "func", "id">>) /\ Flat(<<"Returns", "semi">>)
    BY DEF FunctionFn
  <2> QED BY <1>1, <2>1, FlatFlat DEF ExternDecl
<1>6. Flat(<<"while">>) /\ Flat(<<"do">>) /\ Flat(<<"semi">>)
  OBVIOUS
<1>7. Paired(WhileStmt)
  BY <1>1, <1>2, <1>6, FlatFlat, FlatPaired DEF WhileStmt
<1>8. Paired(DoWhileStmt)
  <2>1. Paired(<<"do">> \o Block)
    BY <1>2, <1>6, FlatPaired
  <2> QED BY <2>1, <1>1, <1>6, PairedFlat DEF DoWhileStmt
<1> QED BY <1>1, <1>2, <1>3, <1>4, <1>5, <1>7, <1>8

\* A rule puts no brace on the work, or a pair of them.
LEMMA GlobalRules ==
  ASSUME NEW n \in GlobalFn PROVE GoodSet(GlobalRule(n))
<1> USE Names, FlatTuples DEF Terminal, Function, Good
<1>1. Good(<<"const", "VarDecl">>) /\ Good(<<"VarDecl">>)
  BY DEF DeclFn
<1>2. Good(<<>>)
  OBVIOUS
<1> QED
  BY <1>1, <1>2, GoodForms, Pieces, PairedTuples DEF GlobalRule, GlobalFn

LEMMA SimpleRules ==
  ASSUME NEW n PROVE GoodSet(SimpleRule(n))
<1> USE Names, FlatTuples DEF Terminal, Function, Good
<1>1. Flat(<<"const", "AfterConst">>) /\ Flat(<<"switch">>)
  BY DEF StatementFn
<1>2. Flat(<<"VarDecl">>) /\ Flat(<<"Expr", "semi">>)
  BY DEF DeclFn, AssignFn
<1>3. Paired(<<"switch">> \o Condition \o <<"lbrace", "Cases", "rbrace">>)
  <2>1. Paired(<<"lbrace", "Cases", "rbrace">>)
    BY PairedTuples DEF IfSwitchFn
  <2> QED BY <1>1, <2>1, Pieces, FlatFlat, FlatPaired
<1> QED BY <1>1, <1>2, <1>3, GoodForms, Pieces, PairedTuples DEF SimpleRule

LEMMA StatementRules ==
  ASSUME NEW n \in StatementFn PROVE GoodSet(StatementRule(n))
<1> USE Names, FlatTuples DEF Terminal, Function, Good
<1>1. Flat(<<"IfStmt">>) /\ Flat(<<"for", "(", "ForHead">>)
  BY DEF IfSwitchFn, ForFn
<1>2. Flat(<<"Expr">>) /\ Flat(<<>>)
  BY DEF AssignFn
<1> QED
  BY <1>1, <1>2, GoodForms, Pieces, PairedTuples, SimpleRules
  DEF StatementRule, StatementFn

LEMMA IfSwitchRules ==
  ASSUME NEW n \in IfSwitchFn PROVE GoodSet(IfSwitchRule(n))
<1> USE Names, FlatTuples DEF Terminal, Function, Good, IfSwitchFn
<1>1. Paired(<<"if">> \o Condition \o Block \o <<"ElseOpt">>)
  <2>1. Flat(<<"if">>) /\ Flat(<<"ElseOpt">>)
    OBVIOUS
  <2> QED BY <2>1, Pieces, FlatFlat, FlatPaired, PairedFlat
<1>2. /\ Flat(<<"else", "ElseBody">>) /\ Flat(<<"IfStmt">>) /\ Flat(<<>>)
      /\ Flat(<<"any", "Cases">>)
  OBVIOUS
<1>3. /\ Flat(<<"case", "Expr", ":", "CaseStmts", "Cases">>)
      /\ Flat(<<"default", ":", "DefaultStmts", "Cases">>)
  BY DEF AssignFn
<1> QED BY <1>1, <1>2, <1>3, GoodForms, Pieces DEF IfSwitchRule

LEMMA ForRules ==
  ASSUME NEW n \in ForFn PROVE GoodSet(ForRule(n))
<1> USE Names, FlatTuples DEF Terminal, Function, Good, ForFn
<1>1. Flat(<<"Expr">>) /\ Flat(<<"VarDecl">>) /\ Flat(<<>>)
  BY DEF AssignFn, DeclFn
<1>2. Flat(<<"ForIn">>) /\ Flat(<<"type", "ForIn">>)
  OBVIOUS
<1>3. Paired(<<"ForInit", "ForCond", "semi", "ForUpdates", ")">> \o Block)
  <2>1. Flat(<<"ForInit", "ForCond", "semi", "ForUpdates", ")">>)
    OBVIOUS
  <2> QED BY <2>1, Pieces, FlatPaired
<1>4. Paired(<<"id", "any", "Expr", "RangeOpt", "StepOpt", ")">> \o Block)
  <2>1. Flat(<<"id", "any", "Expr", "RangeOpt", "StepOpt", ")">>)
    BY DEF AssignFn
  <2> QED BY <2>1, Pieces, FlatPaired
<1>5. /\ Flat(<<"range", "Expr">>) /\ Flat(<<"comma", "Expr">>)
      /\ Flat(<<"Expr", "MoreUpdates">>) /\ Flat(<<"comma", "ForUpdates">>)
  BY DEF AssignFn
<1> QED
  BY <1>1, <1>2, <1>3, <1>4, <1>5, GoodForms DEF ForRule

\* The functions that take no brace of their own.
LEMMA FlatRules ==
  /\ \A n \in PrologueFn : GoodSet(PrologueRule(n))
  /\ \A n \in FunctionFn : GoodSet(FunctionRule(n))
  /\ \A n \in DeclFn : GoodSet(DeclRule(n))
  /\ \A n \in ClassFn : GoodSet(ClassRule(n))
  /\ \A n \in AssignFn : GoodSet(AssignRule(n))
  /\ \A n \in BinaryFn : GoodSet(BinaryRule(n))
  /\ \A n \in UnaryFn : GoodSet(UnaryRule(n))
  /\ \A n \in PrimaryFn : GoodSet(PrimaryRule(n))
  /\ GoodSet(LiteralRule)
<1> USE Names, FlatTuples, GoodForms DEF Terminal, Function, Good
<1>1. \A n \in PrologueFn : GoodSet(PrologueRule(n))
  BY ZenonT(40) DEF PrologueRule, PrologueFn
<1>2. \A n \in FunctionFn : GoodSet(FunctionRule(n))
  BY ZenonT(40) DEF FunctionRule, FunctionFn, AssignFn
<1>3. \A n \in DeclFn : GoodSet(DeclRule(n))
  BY ZenonT(40) DEF DeclRule, DeclFn, ArrayFn, AssignFn
<1>4. \A n \in ClassFn : GoodSet(ClassRule(n))
  BY ZenonT(40) DEF ClassRule, ClassFn, DeclFn, MethodFn
<1>5. \A n \in AssignFn : GoodSet(AssignRule(n))
  BY ZenonT(40) DEF AssignRule, AssignFn, BinaryFn
<1>6. \A n \in BinaryFn : GoodSet(BinaryRule(n))
  BY ZenonT(40) DEF BinaryRule, BinaryFn, UnaryFn
<1>7. \A n \in UnaryFn : GoodSet(UnaryRule(n))
  BY ZenonT(40) DEF UnaryRule, UnaryFn, PrimaryFn
<1>8. \A n \in PrimaryFn : GoodSet(PrimaryRule(n))
  BY Pieces, ZenonT(40)
  DEF PrimaryRule, PrimaryFn, DeclFn, FunctionFn, AssignFn
<1>9. GoodSet(LiteralRule)
  BY DEF LiteralRule
<1> QED BY <1>1, <1>2, <1>3, <1>4, <1>5, <1>6, <1>7, <1>8, <1>9

LEMMA ArrayRules ==
  ASSUME NEW n \in ArrayFn PROVE GoodSet(ArrayRule(n))
<1>1. Paired(<<"lbrace", "BracedItems", "rbrace">>)
  BY Names, PairedTuples DEF ArrayFn, Function
<1> QED
  BY <1>1, Names, FlatTuples, GoodForms, ZenonT(40)
  DEF ArrayRule, ArrayFn, AssignFn, Terminal, Function, Good

LEMMA MethodRules ==
  ASSUME NEW n \in MethodFn PROVE GoodSet(MethodRule(n))
<1> USE Names, FlatTuples DEF Terminal, Function, Good, MethodFn
<1>1. Flat(<<"Methods">>)
  OBVIOUS
<1>2. ASSUME NEW head, Flat(head) PROVE Paired(Member(head))
  <2>1. Paired(head \o Signature \o Block)
    BY <1>2, Pieces, FlatFlat, FlatPaired
  <2> QED BY <2>1, <1>1, PairedFlat DEF Member
<1>3. Paired(Append(FunctionDef, "Methods"))
  <2>1. FunctionDef \in Seq(Symbol) /\ "Methods" \in Symbol
    BY Pieces DEF Paired, Plain
  <2>2. Append(FunctionDef, "Methods") = FunctionDef \o <<"Methods">>
    BY <2>1, AppendIsConcat
  <2> QED BY <2>2, <1>1, Pieces, PairedFlat
<1>4. /\ Flat(<<"access", "Method">>) /\ Flat(<<"Method">>) /\ Flat(<<>>)
      /\ Flat(<<"~", "id", "DtorName">>) /\ Flat(<<"id">>)
  OBVIOUS
<1> QED
  BY <1>1, <1>2, <1>3, <1>4, GoodForms DEF MethodRule

LEMMA RuleShape ==
  ASSUME NEW n, NEW r \in Rule(n)
  PROVE  n \in Function /\ Good(r.to)
<1>1. n \in Function
  BY DEF Rule, Function
<1>2. GoodSet(Rule(n))
  BY GlobalRules, StatementRules, IfSwitchRules, ForRules, ArrayRules,
     MethodRules, FlatRules DEF Rule, GoodSet
<1> QED BY <1>1, <1>2 DEF GoodSet

-----------------------------------------------------------------------------
(***************************************************************************)
(* The inductive invariant.  What is to be done ends with the loop of the  *)
(* program; the try blocks lie in it one above the other; a guard that has *)
(* not moved still looks at the token its loop went on with; and, braces   *)
(* taken for something else apart, the braces the work still closes are    *)
(* the ones that are open.                                                 *)
(***************************************************************************)
WorkOK(w) ==
  /\ w \in Seq(Symbol) /\ w # <<>>
  /\ At(w, 1) = "End" /\ (Len(w) >= 2 => At(w, 2) = "Globals")
  /\ \A n \in 3..Len(w) : At(w, n) \notin {"Globals", "End"}

Nested(ts, w) ==
  /\ ts \in Seq(Try)
  /\ \A i, j \in 1..Len(ts) : i < j => ts[i].height < ts[j].height
  /\ \A i \in 1..Len(ts) : ts[i].height <= Len(w)
  /\ ts = <<>> => Len(w) <= 2
  /\ ts # <<>> => ts[1].height = 2

Guarded(ts, w, a) ==
  \A i \in 1..Len(ts) :
    ts[i].guard /\ ~ts[i].moved =>
      /\ a # <<>> /\ At(w, ts[i].height) \in DOMAIN LoopEnd
      /\ a[1] \notin LoopEnd[At(w, ts[i].height)]

\* Above a try the work never falls below its level, and what is open beyond
\* that, out of n, was open when the try began.
Held(t, lev, k, n) ==
  /\ \A j \in t.height..k : lev[t.height] <= lev[j]
  /\ t.nest + lev[k] - lev[t.height] <= n

Balanced(w, ts, n, r, faulty) ==
  \E lev : /\ Levels(w, lev)
           /\ faulty = FALSE => n = lev[Len(w)]
           /\ \A i \in 1..Len(ts) : Held(ts[i], lev, Len(w), r)

Skipped == IF mode = "sync" THEN depth ELSE 0

Types ==
  /\ left \in 0..MaxTokens /\ ahead \in Seq(Token)
  /\ mode \in {"parse", "sync", "done", "aborted"}
  /\ depth \in Nat /\ nest \in Int
  /\ errors \in BOOLEAN /\ runBlock \in BOOLEAN
  /\ moduleOptionalRun \in BOOLEAN /\ lax \in BOOLEAN

IInv ==
  /\ Types /\ WorkOK(work) /\ Nested(tries, work)
  /\ Guarded(tries, work, ahead)
  /\ mode = "sync" => errors /\ Finished
  /\ mode = "done" => Len(work) = 1
  /\ ~lax => Balanced(work, tries, nest, nest - Skipped, errors)

\* The tries are at or below the innermost and never below the program's.
LEMMA Heights ==
  ASSUME NEW w, NEW ts, w \in Seq(Symbol), Nested(ts, w),
         NEW i \in 1..Len(ts)
  PROVE  /\ Len(ts) \in 1..Len(ts) /\ ts[i] \in Try /\ Len(w) \in Nat
         /\ ts[i].height \in 2..Len(w)
         /\ ts[i].height <= ts[Len(ts)].height
<1>1. Len(ts) \in Nat /\ Len(w) \in Nat /\ ts \in Seq(Try)
  BY LenProperties DEF Nested
<1>2. Len(ts) \in 1..Len(ts) /\ 1 \in 1..Len(ts) /\ ts # <<>>
  BY <1>1, EmptySeq
<1>3. \A j \in 1..Len(ts) : ts[j] \in Try /\ ts[j].height \in Nat
  <2>1. \A j \in 1..Len(ts) : ts[j] \in Try
    BY <1>1, ElementOfSeq
  <2> QED BY <2>1 DEF Try
<1>4. ts[1].height = 2 /\ ts[i].height <= Len(w)
  BY <1>2 DEF Nested
<1>5. ts[i].height <= ts[Len(ts)].height
  BY <1>1, <1>2, <1>3 DEF Nested
<1>6. 2 <= ts[i].height
  <2>1. i = 1 \/ 1 < i
    BY <1>1
  <2> QED BY <2>1, <1>2, <1>3, <1>4 DEF Nested
<1> QED BY <1>1, <1>2, <1>3, <1>4, <1>5, <1>6

\* Below a try that is not finished there is room for a step.
LEMMA Below ==
  ASSUME NEW w, NEW ts, w \in Seq(Symbol), Nested(ts, w),
         ~(ts # <<>> /\ Len(w) = ts[Len(ts)].height),
         NEW i \in 1..Len(ts)
  PROVE  ts[i].height \in 2..(Len(w) - 1)
<1>1. /\ Len(ts) \in 1..Len(ts) /\ Len(w) \in Nat
      /\ ts[i].height \in 2..Len(w)
      /\ ts[i].height <= ts[Len(ts)].height
  BY Heights
<1>2. ts[Len(ts)].height \in 2..Len(w)
  BY <1>1, Heights
<1>3. ts # <<>>
  BY EmptySeq DEF Nested
<1> QED BY <1>1, <1>2, <1>3

LEMMA WorkKept ==
  ASSUME NEW w \in Seq(Symbol), WorkOK(w), NEW m \in 0..Len(w),
         NEW s \in Seq(Symbol), Good(s), NEW y, y = s \o Suffix(w, m)
  PROVE  m >= 2 \/ (m = 1 /\ s = <<>>) => WorkOK(y)
<1>1. s \in Seq(Symbol) /\ w \in Seq(Symbol)
  BY FlatElements DEF Good, Paired
<1>2. /\ y \in Seq(Symbol) /\ Len(y) = m + Len(s)
      /\ \A n \in 1..m : At(y, n) = At(w, n)
      /\ \A k \in 1..Len(s) : At(y, m + k) = At(s, k)
  BY OnTop
<1> SUFFICES ASSUME m >= 2 \/ (m = 1 /\ s = <<>>) PROVE WorkOK(y)
  OBVIOUS
<1>3. Len(s) \in Nat /\ Len(w) \in Nat /\ m \in Nat /\ 1 <= m /\ m <= Len(w)
  BY <1>1, LenProperties
<1>4. \A i \in 1..Len(s) : s[i] \notin {"Globals", "End"}
  <2>1. CASE Flat(s)
    BY <2>1, FlatElements DEF Marks
  <2>2. CASE Paired(s)
    BY <2>2 DEF Paired, Marks
  <2> QED BY <2>1, <2>2 DEF Good
<1>5. s = <<>> => Len(s) = 0
  BY <1>1, EmptySeq
<1>6. y # <<>> /\ At(y, 1) = "End"
  <2>1. 1 \in 1..m /\ Len(y) # 0
    BY <1>2, <1>3
  <2> QED BY <2>1, <1>2, EmptySeq DEF WorkOK
<1>7. Len(y) >= 2 => At(y, 2) = "Globals"
  <2> SUFFICES ASSUME Len(y) >= 2 PROVE At(y, 2) = "Globals"
    OBVIOUS
  <2>1. 2 \in 1..m /\ Len(w) >= 2
    BY <1>2, <1>3, <1>5
  <2> QED BY <2>1, <1>2 DEF WorkOK
<1>8. ASSUME NEW n \in 3..Len(y) PROVE At(y, n) \notin {"Globals", "End"}
  <2>1. CASE n <= m
    <3>1. n \in 1..m /\ n \in 3..Len(w)
      BY <2>1, <1>2, <1>3
    <3> QED BY <3>1, <1>2 DEF WorkOK
  <2>2. CASE ~(n <= m)
    <3> DEFINE k == n - m
    <3>1. k \in 1..Len(s) /\ n = m + k /\ Len(s) - k + 1 \in 1..Len(s)
      BY <2>2, <1>2, <1>3
    <3> HIDE DEF k
    <3> QED BY <3>1, <1>2, <1>4 DEF At
  <2> QED BY <2>1, <2>2
<1> QED BY <1>2, <1>6, <1>7, <1>8 DEF WorkOK

-----------------------------------------------------------------------------
(***************************************************************************)
(* The balance, step by step.                                              *)
(***************************************************************************)
LEMMA GoodLevels ==
  ASSUME NEW s, Good(s)
  PROVE  /\ s \in Seq(Symbol) /\ Len(s) \in Nat
         /\ \E u : /\ Levels(s, u) /\ u[Len(s)] = 0
                  /\ \A k \in 0..Len(s) : u[k] >= 0
BY FlatElements, FlatLevels, PairedLevels, LenProperties DEF Good, Paired

LEMMA LevelFacts ==
  ASSUME NEW w \in Seq(Symbol), NEW lev, Levels(w, lev)
  PROVE  /\ Len(w) \in Nat
         /\ \A n \in 0..Len(w) : lev[n] \in Int
         /\ w # <<>> => /\ Len(w) - 1 \in 0..Len(w)
                        /\ lev[Len(w)] = lev[Len(w) - 1] + Delta(w[1])
<1>1. Len(w) \in Nat /\ (w # <<>> => Len(w) # 0)
  BY LenProperties, EmptySeq
<1>2. \A n \in 0..Len(w) : lev[n] \in Int
  BY DEF Levels
<1>3. ASSUME w # <<>> PROVE lev[Len(w)] = lev[Len(w) - 1] + Delta(w[1])
  <2>1. Len(w) \in 1..Len(w) /\ Len(w) - Len(w) + 1 = 1
    BY <1>1, <1>3
  <2>2. lev[Len(w)] = lev[Len(w) - 1] + Delta(At(w, Len(w)))
    BY <2>1 DEF Levels
  <2> QED BY <2>1, <2>2 DEF At
<1> QED BY <1>1, <1>2, <1>3

\* The part on top is done, or replaced by what its function goes on with.
LEMMA BalancedReplace ==
  ASSUME NEW w \in Seq(Symbol), NEW ts \in Seq(Try),
         NEW n \in Int, NEW r \in Int, NEW c, Balanced(w, ts, n, r, c),
         NEW m \in 0..Len(w), \A i \in 1..Len(ts) : ts[i].height \in 0..m,
         NEW s \in Seq(Symbol), Good(s), NEW y, y = s \o Suffix(w, m)
  PROVE  w # <<>> /\ m = Len(w) - 1 =>
           Balanced(y, ts, n - Delta(w[1]), r - Delta(w[1]), c)
<1> DEFINE d == Delta(w[1])
<1>1. PICK lev : /\ Levels(w, lev)
                 /\ c = FALSE => n = lev[Len(w)]
                 /\ \A i \in 1..Len(ts) : Held(ts[i], lev, Len(w), r)
  BY DEF Balanced
<1>2. PICK u : /\ Levels(s, u) /\ u[Len(s)] = 0
               /\ \A k \in 0..Len(s) : u[k] >= 0
  BY GoodLevels
<1>4. s \in Seq(Symbol) /\ Len(s) \in Nat
  BY GoodLevels
<1>5. Len(y) = m + Len(s)
  BY OnTop
<1>6. PICK lv : /\ Levels(y, lv)
                /\ \A k \in 0..m : lv[k] = lev[k]
                /\ \A k \in 0..Len(s) : lv[m + k] = lev[m] + u[k]
  <2>1. Raised(y, lev, m, s, u)
    BY <1>1, <1>2, LevelsOnTop
  <2> QED BY <2>1 DEF Raised
<1> SUFFICES ASSUME w # <<>>, m = Len(w) - 1
             PROVE  Balanced(y, ts, n - Delta(w[1]), r - Delta(w[1]), c)
  OBVIOUS
<1>3. /\ Len(w) \in Nat /\ m \in 0..Len(w) /\ Len(w) = m + 1 /\ m \in Nat
      /\ lev[Len(w)] = lev[m] + d
      /\ \A k \in 0..Len(w) : lev[k] \in Int
  <2>1. Levels(w, lev)
    BY <1>1
  <2>2. /\ Len(w) \in Nat
        /\ \A k \in 0..Len(w) : lev[k] \in Int
        /\ lev[Len(w)] = lev[Len(w) - 1] + d
    BY <2>1, LevelFacts
  <2>3. lev[Len(w) - 1] = lev[m]
    OBVIOUS
  <2>4. lev[Len(w)] = lev[m] + d
    BY <2>2, <2>3
  <2>5. Len(w) = m + 1 /\ m \in Nat
    BY <2>2
  <2> HIDE DEF d
  <2> QED BY <2>2, <2>4, <2>5
<1>7. d \in Int /\ lev[Len(w)] \in Int
  <2>1. d \in Int
    BY DEF Delta
  <2>2. Len(w) \in 0..Len(w)
    BY <1>3
  <2> QED BY <2>1, <2>2, <1>3
<1> HIDE DEF d
<1>8. lv[Len(y)] = lev[m] /\ lev[m] \in Int
  <2>1. Len(s) \in 0..Len(s)
    BY <1>4
  <2>2. lv[m + Len(s)] = lev[m] + u[Len(s)]
    BY <2>1, <1>6
  <2>3. lev[m] \in Int
    BY <1>3
  <2>4. u[Len(s)] = 0
    BY <1>2
  <2>5. lv[m + Len(s)] = lev[m] + 0
    BY <2>2, <2>4
  <2>6. lev[m] + 0 = lev[m]
    BY <2>3
  <2> QED BY <2>3, <2>5, <2>6, <1>5
<1>9. \A k \in 0..Len(s) : u[k] \in Int
  BY <1>2 DEF Levels
<1>10. ASSUME NEW i \in 1..Len(ts) PROVE Held(ts[i], lv, Len(y), r - d)
  <2> DEFINE h == ts[i].height
  <2>1. h \in 0..m /\ h \in Nat /\ h <= m /\ ts[i].nest \in Int
    <3>1. ts[i] \in Try /\ h \in 0..m
      BY ElementOfSeq
    <3> QED BY <3>1, <1>3, SMTT(20) DEF Try
  <2>2. /\ \A j \in h..Len(w) : lev[h] <= lev[j]
        /\ ts[i].nest + lev[Len(w)] - lev[h] <= r
    BY <1>1 DEF Held
  <2> HIDE DEF h
  <2>3. lv[h] = lev[h] /\ lev[h] \in Int
    BY <2>1, <1>3, <1>6
  <2>4. lev[h] <= lev[m]
    BY <2>1, <2>2, <1>3
  <2>5. ASSUME NEW j \in h..Len(y) PROVE lv[h] <= lv[j]
    <3>1. CASE j <= m
      <4>1. j \in 0..m /\ j \in h..Len(w)
        BY <3>1, <2>1, <1>3
      <4> QED BY <4>1, <2>2, <2>3, <1>6
    <3>2. CASE ~(j <= m)
      <4>1. j - m \in 0..Len(s) /\ j = m + (j - m)
        BY <3>2, <2>1, <1>3, <1>4, <1>5, SMTT(20)
      <4>2. lv[j] = lev[m] + u[j - m] /\ u[j - m] >= 0 /\ u[j - m] \in Int
        BY <4>1, <1>2, <1>6, <1>9
      <4>3. \A a, b, e \in Int : a <= b /\ e >= 0 => a <= b + e
        OBVIOUS
      <4>4. lev[h] \in Int /\ lev[m] \in Int
        BY <2>3, <1>8
      <4>5. lev[h] <= lev[m] + u[j - m]
        BY <4>2, <4>3, <4>4, <2>4
      <4> QED BY <4>2, <4>5, <2>3
    <3> QED BY <3>1, <3>2
  <2>6. ts[i].nest + lv[Len(y)] - lv[h] <= r - d
    <3>1. ts[i].nest + (lev[m] + d) - lev[h] <= r
      BY <2>2, <1>3
    <3>2. ASSUME NEW a \in Int, NEW b \in Int, NEW e \in Int, NEW f \in Int,
                 a + (b + f) - e <= r
          PROVE  a + b - e <= r - f
      BY <3>2
    <3>3. ts[i].nest + lev[m] - lev[h] <= r - d
      BY <3>1, <3>2, <2>1, <2>3, <1>7, <1>8
    <3> QED BY <3>3, <2>3, <1>8
  <2> QED BY <2>5, <2>6 DEF Held, h
<1>11. ASSUME c = FALSE PROVE n - d = lv[Len(y)]
  <2>1. n = lev[m] + d
    BY <1>11, <1>1, <1>3
  <2>2. n - d = lev[m]
    BY <2>1, <1>7, <1>8
  <2> QED BY <2>2, <1>8
<1>12. Balanced(y, ts, n - d, r - d, c)
  BY <1>6, <1>10, <1>11 DEF Balanced
<1> QED BY <1>12 DEF d

\* A loop goes on: its function on top of the work, in a try of its own.
LEMMA BalancedPush ==
  ASSUME NEW w \in Seq(Symbol), NEW ts \in Seq(Try),
         NEW n \in Int, NEW c, Balanced(w, ts, n, n, c),
         NEW m \in 0..Len(w), \A i \in 1..Len(ts) : ts[i].height \in 0..m,
         NEW s \in Seq(Symbol), Flat(s), NEW y, y = s \o Suffix(w, m),
         NEW t \in Try, t.height = m, t.nest = n
  PROVE  m = Len(w) => Balanced(y, Append(ts, t), n, n, c)
<1>1. PICK lev : /\ Levels(w, lev)
                 /\ c = FALSE => n = lev[Len(w)]
                 /\ \A i \in 1..Len(ts) : Held(ts[i], lev, Len(w), n)
  BY DEF Balanced
<1>2. PICK u : /\ Levels(s, u) /\ u[Len(s)] = 0
               /\ \A k \in 0..Len(s) : u[k] >= 0
  BY FlatLevels
<1>3. PICK lv : /\ Levels(y, lv)
                /\ \A k \in 0..m : lv[k] = lev[k]
                /\ \A k \in 0..Len(s) : lv[m + k] = lev[m] + u[k]
  <2>1. Raised(y, lev, m, s, u)
    BY <1>1, <1>2, LevelsOnTop
  <2> QED BY <2>1 DEF Raised
<1>4. Len(s) \in Nat /\ Len(w) \in Nat /\ m \in Nat /\ Len(y) = m + Len(s)
  <2>1. Len(y) = m + Len(s)
    BY OnTop
  <2>2. Len(s) \in Nat /\ Len(w) \in Nat
    BY LenProperties
  <2> QED BY <2>1, <2>2
<1> SUFFICES ASSUME m = Len(w) PROVE Balanced(y, Append(ts, t), n, n, c)
  OBVIOUS
<1>5. \A k \in 0..m : lev[k] \in Int /\ lv[k] = lev[k]
  BY <1>1, <1>3, LevelFacts
<1>6. lv[m] = lev[m] /\ lev[m] \in Int /\ lev[Len(w)] = lev[m]
  BY <1>4, <1>5
<1>7. ASSUME NEW k \in 0..Len(s)
      PROVE  lv[m + k] >= lev[m] /\ lv[m + k] \in Int
  <2>1. u[k] >= 0 /\ u[k] \in Int /\ lv[m + k] = lev[m] + u[k]
    BY <1>2, <1>3 DEF Levels
  <2> QED BY <2>1, <1>6
<1>8. lv[Len(y)] = lev[m]
  <2>1. Len(s) \in 0..Len(s)
    BY <1>4
  <2>2. lv[m + Len(s)] = lev[m] + u[Len(s)] /\ u[Len(s)] = 0
    BY <2>1, <1>2, <1>3
  <2> QED BY <2>2, <1>4, <1>6
<1>9. ASSUME NEW h \in 0..m, \A j \in h..m : lev[h] <= lev[j]
      PROVE  \A j \in h..Len(y) : lv[h] <= lv[j]
  <2> SUFFICES ASSUME NEW j \in h..Len(y) PROVE lv[h] <= lv[j]
    OBVIOUS
  <2>1. lv[h] = lev[h] /\ lev[h] \in Int /\ lev[h] <= lev[m]
    BY <1>4, <1>5, <1>9
  <2>2. CASE j <= m
    <3>1. j \in 0..m /\ j \in h..m
      BY <2>2, <1>4
    <3> QED BY <3>1, <2>1, <1>5, <1>9
  <2>3. CASE ~(j <= m)
    <3>1. j - m \in 0..Len(s) /\ j = m + (j - m)
      BY <2>3, <1>4
    <3>2. lv[j] >= lev[m] /\ lv[j] \in Int
      BY <3>1, <1>7
    <3> QED BY <3>2, <2>1, <1>6
  <2> QED BY <2>2, <2>3
<1>10. ASSUME NEW i \in 1..Len(Append(ts, t))
       PROVE  Held(Append(ts, t)[i], lv, Len(y), n)
  <2>1. /\ Len(ts) \in Nat /\ Len(Append(ts, t)) = Len(ts) + 1
        /\ i <= Len(ts) => i \in 1..Len(ts) /\ Append(ts, t)[i] = ts[i]
        /\ ~(i <= Len(ts)) => Append(ts, t)[i] = t
    BY AppendProperties, LenProperties
  <2>2. CASE i <= Len(ts)
    <3> DEFINE h == ts[i].height
               e == ts[i].nest
    <3>1. ts[i] \in Try /\ h \in 0..m
      BY <2>1, <2>2, ElementOfSeq
    <3>2. e \in Int
      BY <3>1 DEF Try
    <3>3. /\ \A j \in h..m : lev[h] <= lev[j]
          /\ e + lev[m] - lev[h] <= n
      BY <2>1, <2>2, <1>1 DEF Held
    <3> HIDE DEF h, e
    <3>4. \A j \in h..Len(y) : lv[h] <= lv[j]
      BY <3>1, <3>3, <1>9
    <3>5. e + lv[Len(y)] - lv[h] <= n
      BY <3>1, <3>3, <1>5, <1>8
    <3> QED BY <2>1, <2>2, <3>4, <3>5 DEF Held, h, e
  <2>3. CASE ~(i <= Len(ts))
    <3>1. m \in 0..m /\ \A j \in m..m : lev[m] <= lev[j]
      BY <1>4, <1>6
    <3>2. \A j \in m..Len(y) : lv[m] <= lv[j]
      BY <3>1, <1>9
    <3>3. n + lv[Len(y)] - lv[m] <= n
      BY <1>6, <1>8
    <3> QED BY <2>1, <2>3, <3>2, <3>3 DEF Held
  <2> QED BY <2>2, <2>3
<1>11. c = FALSE => n = lv[Len(y)]
  BY <1>1, <1>6, <1>8
<1> QED BY <1>3, <1>10, <1>11 DEF Balanced

\* An error unwinds the work to the innermost try.
LEMMA BalancedUnwind ==
  ASSUME NEW w \in Seq(Symbol), NEW ts \in Seq(Try), NEW n \in Int,
         NEW r \in Int, NEW c, Balanced(w, ts, n, r, c), NEW m \in 0..Len(w),
         \A i \in 1..Len(ts) : ts[i].height \in 0..m,
         \E i \in 1..Len(ts) : ts[i].height = m,
         NEW y, y = Suffix(w, m)
  PROVE  Balanced(y, ts, n, r, TRUE)
<1>1. PICK lev : /\ Levels(w, lev)
                 /\ \A i \in 1..Len(ts) : Held(ts[i], lev, Len(w), r)
  BY DEF Balanced
<1>2. /\ Len(y) = m /\ y \in Seq(Symbol)
      /\ \A k \in 1..m : At(y, k) = At(w, k)
  BY SuffixFacts
<1>3. /\ Len(w) \in Nat /\ m \in Nat /\ m <= Len(w)
      /\ \A k \in 0..Len(w) : lev[k] \in Int
  BY <1>1, LevelFacts
<1> DEFINE lv == [k \in 0..m |-> lev[k]]
<1>4. \A k \in 0..m : lv[k] = lev[k] /\ lev[k] \in Int
  BY <1>3
<1>5. lv \in [0..m -> Int]
  BY <1>4
<1> HIDE DEF lv
<1>6. Levels(y, lv)
  <2>1. lv[0] = 0
    BY <1>1, <1>3, <1>4 DEF Levels
  <2>2. ASSUME NEW k \in 1..m PROVE lv[k] = lv[k - 1] + Delta(At(y, k))
    <3>1. k \in 0..m /\ k - 1 \in 0..m /\ k \in 1..Len(w)
      BY <1>3
    <3>2. lev[k] = lev[k - 1] + Delta(At(w, k))
      BY <3>1, <1>1 DEF Levels
    <3> QED BY <3>1, <3>2, <1>2, <1>4
  <2> QED BY <2>1, <2>2, <1>2, <1>5 DEF Levels
<1>7. lev[m] <= lev[Len(w)] /\ lev[m] \in Int /\ lev[Len(w)] \in Int
  <2>1. PICK i \in 1..Len(ts) : ts[i].height = m
    OBVIOUS
  <2>2. \A j \in m..Len(w) : lev[m] <= lev[j]
    BY <2>1, <1>1 DEF Held
  <2>3. Len(w) \in m..Len(w) /\ Len(w) \in 0..Len(w) /\ m \in 0..Len(w)
    BY <1>3
  <2> QED BY <2>2, <2>3, <1>3
<1>8. ASSUME NEW i \in 1..Len(ts) PROVE Held(ts[i], lv, m, r)
  <2> DEFINE h == ts[i].height
             e == ts[i].nest
  <2>1. ts[i] \in Try /\ h \in 0..m
    BY ElementOfSeq
  <2>2. e \in Int
    BY <2>1 DEF Try
  <2>3. /\ \A j \in h..Len(w) : lev[h] <= lev[j]
        /\ e + lev[Len(w)] - lev[h] <= r
    BY <1>1 DEF Held
  <2> HIDE DEF h, e
  <2>4. lv[h] = lev[h] /\ lev[h] \in Int /\ lv[m] = lev[m]
    BY <2>1, <1>3, <1>4
  <2>5. \A j \in h..m : lv[h] <= lv[j]
    <3> SUFFICES ASSUME NEW j \in h..m PROVE lv[h] <= lv[j]
      OBVIOUS
    <3>1. j \in 0..m /\ j \in h..Len(w)
      BY <2>1, <1>3
    <3> QED BY <3>1, <2>3, <2>4, <1>4
  <2>6. e + lv[m] - lv[h] <= r
    BY <2>2, <2>3, <2>4, <1>7, SMTT(20)
  <2> QED BY <2>5, <2>6 DEF Held, h, e
<1> QED BY <1>2, <1>6, <1>8 DEF Balanced

\* What a step may do to the tries that are left, and to what is known.
LEMMA BalancedWeaker ==
  ASSUME NEW w, NEW ts, NEW us, NEW n, NEW k, NEW r \in Int, NEW q \in Int,
         NEW c, NEW d, w \in Seq(Symbol), ts \in Seq(Try),
         \A i \in 1..Len(ts) : ts[i].height \in 0..Len(w),
         Balanced(w, ts, n, r, c), r <= q, d = FALSE => c = FALSE /\ k = n,
         \A i \in 1..Len(us) :
           /\ i \in 1..Len(ts)
           /\ us[i].height = ts[i].height /\ us[i].nest = ts[i].nest
  PROVE  Balanced(w, us, k, q, d)
<1>1. PICK lev : /\ Levels(w, lev)
                 /\ c = FALSE => n = lev[Len(w)]
                 /\ \A i \in 1..Len(ts) : Held(ts[i], lev, Len(w), r)
  BY DEF Balanced
<1>2. ASSUME NEW i \in 1..Len(us) PROVE Held(us[i], lev, Len(w), q)
  <2> DEFINE h == ts[i].height
             e == ts[i].nest
  <2>1. i \in 1..Len(ts) /\ us[i].height = h /\ us[i].nest = e
    OBVIOUS
  <2>2. ts[i] \in Try /\ h \in 0..Len(w)
    BY <2>1, ElementOfSeq
  <2>3. e \in Int
    BY <2>2 DEF Try
  <2>4. /\ \A j \in h..Len(w) : lev[h] <= lev[j]
        /\ e + lev[Len(w)] - lev[h] <= r
    BY <2>1, <1>1 DEF Held
  <2> HIDE DEF h, e
  <2>5. lev[h] \in Int /\ lev[Len(w)] \in Int
    <3>1. Len(w) \in 0..Len(w) /\ \A j \in 0..Len(w) : lev[j] \in Int
      BY <1>1, LevelFacts, LenProperties
    <3> QED BY <3>1, <2>2
  <2>6. e + lev[Len(w)] - lev[h] <= q
    <3>1. e + lev[Len(w)] - lev[h] \in Int
      BY <2>3, <2>5
    <3> QED BY <3>1, <2>4
  <2> QED BY <2>1, <2>4, <2>6 DEF Held
<1>3. d = FALSE => k = lev[Len(w)]
  BY <1>1
<1> QED BY <1>1, <1>2, <1>3 DEF Balanced

-----------------------------------------------------------------------------
(***************************************************************************)
(* The tries, step by step.                                                *)
(***************************************************************************)
\* us are the outermost of ts, for all the nesting and the balance tell.
Keeps(us, ts) ==
  /\ us \in Seq(Try) /\ Len(us) \in 0..Len(ts)
  /\ \A i \in 1..Len(us) :
       /\ i \in 1..Len(ts)
       /\ us[i].height = ts[i].height /\ us[i].nest = ts[i].nest

LEMMA MovedKeeps ==
  ASSUME NEW ts \in Seq(Try)
  PROVE  /\ Keeps(Moved(ts), ts) /\ Len(Moved(ts)) = Len(ts)
         /\ IsAtEnd => Moved(ts) = ts
         /\ ~IsAtEnd => \A i \in 1..Len(Moved(ts)) : Moved(ts)[i].moved = TRUE
<1>1. Len(ts) \in Nat /\ DOMAIN ts = 1..Len(ts)
  BY LenProperties
<1>2. CASE IsAtEnd
  BY <1>1, <1>2 DEF Moved, Keeps
<1>3. CASE ~IsAtEnd
  <2> DEFINE us == [i \in 1..Len(ts) |-> [ts[i] EXCEPT !.moved = TRUE]]
  <2>1. Moved(ts) = us
    BY <1>1, <1>3 DEF Moved
  <2>2. ASSUME NEW i \in 1..Len(ts)
        PROVE  /\ us[i] \in Try /\ us[i].height = ts[i].height
               /\ us[i].nest = ts[i].nest /\ us[i].moved = TRUE
    <3>1. ts[i] \in Try
      BY ElementOfSeq
    <3> QED BY <3>1 DEF Try
  <2>3. us \in Seq(Try) /\ Len(us) = Len(ts)
    <3>1. us \in [1..Len(ts) -> Try]
      BY <2>2
    <3> HIDE DEF us
    <3>2. us \in Seq(Try)
      BY <1>1, <3>1, SeqDef
    <3>3. DOMAIN us = 1..Len(ts) /\ DOMAIN us = 1..Len(us) /\ Len(us) \in Nat
      BY <3>1, <3>2, LenProperties
    <3> QED BY <1>1, <3>2, <3>3
  <2> HIDE DEF us
  <2>4. Keeps(us, ts)
    <3>1. Len(us) \in 0..Len(ts)
      BY <1>1, <2>3
    <3>2. ASSUME NEW i \in 1..Len(us)
          PROVE  /\ i \in 1..Len(ts)
                 /\ us[i].height = ts[i].height /\ us[i].nest = ts[i].nest
      <4>1. i \in 1..Len(ts)
        BY <2>3
      <4> QED BY <4>1, <2>2
    <3> QED BY <3>1, <3>2, <2>3 DEF Keeps
  <2> QED BY <1>3, <2>1, <2>2, <2>3, <2>4
<1> QED BY <1>2, <1>3

LEMMA FrontKeeps ==
  ASSUME NEW ts \in Seq(Try), ts # <<>>
  PROVE  /\ Keeps(Front(ts), ts) /\ Len(Front(ts)) = Len(ts) - 1
         /\ \A i \in 1..Len(Front(ts)) : Front(ts)[i] = ts[i]
<1>1. Len(ts) \in Nat \ {0}
  BY LenProperties, EmptySeq
<1>2. Front(ts) = SubSeq(ts, 1, Len(ts) - 1)
  BY DEF Front
<1>3. \A i \in 1..(Len(ts) - 1) : ts[i] \in Try
  <2>1. \A i \in 1..Len(ts) : ts[i] \in Try
    BY ElementOfSeq
  <2> QED BY <2>1, <1>1
<1> DEFINE n == Len(ts) - 1
<1>4. n \in Nat /\ Len(ts) = n + 1 /\ \A i \in 1..n : ts[i] \in Try
  BY <1>1, <1>3
<1>5. Front(ts) = SubSeq(ts, 1, n)
  BY <1>2
<1> HIDE DEF n
<1>6. /\ SubSeq(ts, 1, n) \in Seq(Try) /\ Len(SubSeq(ts, 1, n)) = n
      /\ \A i \in 1..n : SubSeq(ts, 1, n)[i] = ts[i]
  BY <1>4, SubSeqProperties
<1>7. Keeps(Front(ts), ts)
  BY <1>4, <1>5, <1>6 DEF Keeps
<1> QED BY <1>4, <1>5, <1>6, <1>7 DEF n

LEMMA KeepsChain ==
  ASSUME NEW us, NEW ts, NEW vs, ts \in Seq(Try), Keeps(us, ts), Keeps(vs, us)
  PROVE  Keeps(vs, ts)
<1>1. Len(ts) \in Nat /\ Len(us) \in 0..Len(ts) /\ Len(vs) \in 0..Len(us)
  BY LenProperties DEF Keeps
<1> QED BY <1>1 DEF Keeps

LEMMA NestedKept ==
  ASSUME NEW w, NEW y, NEW ts, NEW us, w \in Seq(Symbol), Nested(ts, w),
         Keeps(us, ts), us = <<>> => Len(y) <= 2,
         \A i \in 1..Len(ts) : ts[i].height <= Len(y)
  PROVE  Nested(us, y)
<1>1. Len(us) \in Nat /\ us \in Seq(Try)
  BY LenProperties DEF Keeps
<1>2. us # <<>> => 1 \in 1..Len(us) /\ ts # <<>>
  <2>1. us # <<>> => 1 \in 1..Len(us) /\ Len(ts) # 0
    BY <1>1, EmptySeq DEF Keeps
  <2> QED BY <2>1, EmptySeq
<1>3. us # <<>> => us[1].height = 2
  BY <1>2 DEF Keeps, Nested
<1>4. \A i, j \in 1..Len(us) : i < j => us[i].height < us[j].height
  BY DEF Keeps, Nested
<1>5. \A i \in 1..Len(us) : us[i].height <= Len(y)
  BY DEF Keeps
<1> QED BY <1>1, <1>3, <1>4, <1>5 DEF Nested

\* A try that is finished is the last above the program's, or all there is.
LEMMA NestedFront ==
  ASSUME NEW w, NEW ts \in Seq(Try), NEW us \in Seq(Try),
         w \in Seq(Symbol), Nested(ts, w), ts # <<>>,
         Len(w) = ts[Len(ts)].height, Keeps(us, ts), Len(us) >= Len(ts) - 1
  PROVE  Nested(us, w)
<1>1. ts \in Seq(Try) /\ Len(ts) \in Nat \ {0}
  BY LenProperties, EmptySeq DEF Nested
<1>2. us = <<>> => Len(w) <= 2
  <2>1. us = <<>> => Len(us) = 0
    BY EmptySeq
  <2>2. Len(us) = 0 => Len(ts) = 1
    <3>1. Len(ts) - 1 <= Len(us) /\ Len(us) \in Nat
      BY LenProperties
    <3>2. ASSUME NEW k \in Nat, NEW n \in Nat \ {0}, n - 1 <= k
          PROVE  k = 0 => n = 1
      BY <3>2
    <3> QED BY <3>1, <3>2, <1>1
  <2>3. Len(ts) = 1 => Len(w) = 2
    BY DEF Nested
  <2> QED BY <2>1, <2>2, <2>3
<1>3. \A i \in 1..Len(ts) : ts[i].height <= Len(w)
  BY DEF Nested
<1> QED BY <1>2, <1>3, NestedKept

LEMMA NestedPush ==
  ASSUME NEW w, NEW y, NEW ts, NEW t \in Try, w \in Seq(Symbol),
         y \in Seq(Symbol), Nested(ts, w), t.height = Len(w),
         \A i \in 1..Len(ts) : ts[i].height < Len(w),
         ts = <<>> => Len(w) = 2, Len(w) <= Len(y)
  PROVE  Nested(Append(ts, t), y)
<1> DEFINE us == Append(ts, t)
<1>1. /\ ts \in Seq(Try) /\ Len(ts) \in Nat /\ Len(w) \in Nat
      /\ Len(y) \in Nat
  BY LenProperties DEF Nested
<1>2. /\ us \in Seq(Try) /\ Len(us) = Len(ts) + 1
      /\ \A i \in 1..Len(ts) : us[i] = ts[i]
      /\ us[Len(ts) + 1] = t
  BY <1>1, AppendProperties
<1> HIDE DEF us
<1>3. ASSUME NEW i \in 1..Len(us)
      PROVE  IF i <= Len(ts) THEN i \in 1..Len(ts) /\ us[i] = ts[i]
                             ELSE i = Len(ts) + 1 /\ us[i] = t
  BY <1>1, <1>2
<1>4. ASSUME NEW i \in 1..Len(us), NEW j \in 1..Len(us), i < j
      PROVE  us[i].height < us[j].height
  <2>1. i <= Len(ts) /\ i \in 1..Len(ts) /\ us[i] = ts[i]
    BY <1>1, <1>2, <1>3, <1>4
  <2>2. CASE j <= Len(ts)
    BY <2>1, <2>2, <1>3, <1>4 DEF Nested
  <2>3. CASE ~(j <= Len(ts))
    <3>1. us[j] = t
      BY <2>3, <1>3
    <3> QED BY <3>1, <2>1
  <2> QED BY <2>2, <2>3
<1>5. ASSUME NEW i \in 1..Len(us) PROVE us[i].height <= Len(y)
  <2>1. CASE i <= Len(ts)
    <3>1. us[i] = ts[i] /\ ts[i] \in Try /\ ts[i].height < Len(w)
      BY <2>1, <1>1, <1>3, ElementOfSeq
    <3> QED BY <3>1, <1>1 DEF Try
  <2>2. CASE ~(i <= Len(ts))
    BY <2>2, <1>3
  <2> QED BY <2>1, <2>2
<1>6. us # <<>> /\ us[1].height = 2
  <2>1. us # <<>>
    <3>1. Len(us) # 0
      BY <1>1, <1>2
    <3> QED BY <3>1, EmptySeq
  <2>2. CASE ts = <<>>
    <3>1. Len(ts) = 0
      BY <2>2, EmptySeq
    <3>2. us[1] = t
      BY <3>1, <1>2
    <3> QED BY <3>2, <2>1, <2>2
  <2>3. CASE ts # <<>>
    <3>1. Len(ts) # 0
      BY <2>3, <1>1, EmptySeq
    <3>2. us[1] = ts[1]
      BY <3>1, <1>1, <1>2
    <3>3. ts[1].height = 2
      BY <2>3 DEF Nested
    <3> QED BY <3>2, <3>3, <2>1
  <2> QED BY <2>2, <2>3
<1>7. Nested(us, y)
  BY <1>2, <1>4, <1>5, <1>6 DEF Nested
<1> QED BY <1>7 DEF us

\* What the guards know outlives a step that keeps the parts of the work they
\* stand on, as long as it looks at the same token.
LEMMA GuardedKept ==
  ASSUME NEW w, NEW y, NEW a, NEW b, NEW ts, NEW us, Guarded(ts, w, a),
         \A i \in 1..Len(us) :
           /\ i \in 1..Len(ts) /\ us[i] = ts[i]
           /\ At(y, ts[i].height) = At(w, ts[i].height),
         a # <<>> => b # <<>> /\ b[1] = a[1]
  PROVE  Guarded(us, y, b)
BY DEF Guarded

LEMMA AllMoved ==
  ASSUME NEW w, NEW a, NEW us, \A i \in 1..Len(us) : us[i].moved = TRUE
  PROVE  Guarded(us, w, a)
BY DEF Guarded

-----------------------------------------------------------------------------
(***************************************************************************)
(* The steps.                                                              *)
(***************************************************************************)
LEMMA TopFacts ==
  ASSUME WorkOK(work)
  PROVE  /\ Len(work) \in Nat \ {0} /\ work \in Seq(Symbol)
         /\ Top = At(work, Len(work)) /\ Top \in Symbol
         /\ Len(work) = 1 => Top = "End"
         /\ Len(work) = 2 => Top = "Globals"
         /\ Len(work) >= 3 => Top \notin {"Globals", "End"}
<1>1. work \in Seq(Symbol) /\ Len(work) \in Nat \ {0}
  BY EmptySeq DEF WorkOK
<1>2. 1 \in 1..Len(work) /\ Len(work) - Len(work) + 1 = 1
  BY <1>1
<1>3. Top = At(work, Len(work)) /\ Top \in Symbol
  BY <1>1, <1>2, ElementOfSeq DEF Top, At
<1>4. Len(work) >= 3 => Len(work) \in 3..Len(work)
  BY <1>1
<1>5. At(work, 1) = "End" /\ (Len(work) = 2 => At(work, 2) = "Globals")
  BY <1>1 DEF WorkOK
<1>6. Len(work) >= 3 => At(work, Len(work)) \notin {"Globals", "End"}
  BY <1>4 DEF WorkOK
<1> QED BY <1>1, <1>3, <1>5, <1>6

\* A token is never where a function stands.
LEMMA TokenOrFunction ==
  /\ Terminal \cap {"Globals", "End", "NoBrace"} = {}
  /\ Function \cap {"Globals", "End", "lbrace", "rbrace"} = {}
  /\ \A x \in Function \ {"NoBrace"} : Delta(x) = 0
  /\ \A x \in Terminal \ {"lbrace", "rbrace"} : Delta(x) = 0
  /\ Delta("lbrace") = -1 /\ Delta("rbrace") = 1 /\ Delta("any") = 0
  /\ \A x \in DOMAIN LoopEnd : Delta(x) = 0 /\ x # "End"
<1>1. Terminal \cap {"Globals", "End", "NoBrace"} = {}
  BY DEF Terminal
<1>2. Function \cap {"Globals", "End", "lbrace", "rbrace"} = {}
  BY DEF Function, PrologueFn, GlobalFn, StatementFn, IfSwitchFn,
         ForFn, FunctionFn, DeclFn, ArrayFn, ClassFn, MethodFn, AssignFn,
         BinaryFn, UnaryFn, PrimaryFn
<1>3. DOMAIN LoopEnd = {"Globals", "Stmts", "CaseStmts", "DefaultStmts"}
  BY DEF LoopEnd
<1> QED BY <1>1, <1>2, <1>3 DEF Delta

Stacked(x, s, w, m) ==
  /\ Len(x) = m + Len(s)
  /\ \A n \in 1..m : At(x, n) = At(w, n)

LEMMA StackedOnTop ==
  ASSUME NEW w \in Seq(Symbol), NEW m \in 0..Len(w), NEW s \in Seq(Symbol),
         NEW x, x = s \o Suffix(w, m)
  PROVE  Stacked(x, s, w, m)
BY OnTop DEF Stacked

\* The work on top is done, or replaced: what a step that does so keeps.  The
\* program's loop stays until it is done.
Room(s) == Len(work) > 2 \/ (Len(work) = 2 /\ s = <<>>)

LEMMA StepOnTop ==
  ASSUME IInv, mode = "parse", ~Finished,
         NEW s \in Seq(Symbol), Good(s), Room(s), NEW y, y = s \o Tail(work)
  PROVE  /\ WorkOK(y) /\ Nested(tries, y)
         /\ \A i \in 1..Len(tries) :
              At(y, tries[i].height) = At(work, tries[i].height)
         /\ ~lax => Balanced(y, tries, nest - Delta(Top), nest - Delta(Top),
                             errors)
<1>1. /\ work \in Seq(Symbol) /\ Len(work) \in Nat \ {0} /\ work # <<>>
      /\ tries \in Seq(Try) /\ nest \in Int
  BY TopFacts DEF IInv, WorkOK, Nested, Types
<1>0. PICK m \in 0..Len(work) : m = Len(work) - 1
  <2>1. Len(work) - 1 \in 0..Len(work)
    BY <1>1
  <2> QED BY <2>1
<1>2. /\ m \in 0..Len(work) /\ m \in 1..m /\ m + 1 = Len(work)
      /\ m > 1 \/ (m = 1 /\ s = <<>>)
  BY <1>0, <1>1 DEF Room
<1>3. y = s \o Suffix(work, m)
  BY <1>0, <1>1, TailSuffix
<1>4. WorkOK(work) /\ Nested(tries, work)
  BY DEF IInv
<1>5. WorkOK(y)
  <2>1. m >= 2 \/ (m = 1 /\ s = <<>>)
    BY <1>2
  <2> QED BY <2>1, <1>1, <1>3, <1>4, WorkKept
<1>6. /\ Len(y) = m + Len(s) /\ Len(s) \in Nat
      /\ \A n \in 1..m : At(y, n) = At(work, n)
  <2>1. Len(s) \in Nat
    BY LenProperties
  <2>2. work \in Seq(Symbol)
    BY <1>1
  <2>3. Stacked(y, s, work, m)
    BY <2>2, <1>3, StackedOnTop
  <2> QED BY <2>1, <2>3 DEF Stacked
<1>7. \A i \in 1..Len(tries) : tries[i].height \in 2..m
  BY <1>1, <1>4, <1>0, Below DEF Finished, Inner
<1>8. \A i \in 1..Len(tries) :
        At(y, tries[i].height) = At(work, tries[i].height)
  <2>1. 2..m \subseteq 1..m
    BY <1>2
  <2> QED BY <2>1, <1>6, <1>7
<1>9. Nested(tries, y)
  <2>1. tries = <<>> => Len(y) <= 2
    <3>1. tries = <<>> => Len(work) <= 2
      BY <1>4 DEF Nested
    <3>2. Len(work) <= 2 => m = 1 /\ s = <<>>
      BY <1>2
    <3>3. s = <<>> => Len(s) = 0
      BY EmptySeq
    <3> QED BY <3>1, <3>2, <3>3, <1>6
  <2>2. \A i \in 1..Len(tries) : tries[i].height <= Len(y)
    <3>1. \A h \in 2..m : h <= Len(y)
      BY <1>6
    <3> QED BY <3>1, <1>7
  <2>3. Keeps(tries, tries)
    BY <1>1, LenProperties DEF Keeps
  <2> QED BY <2>1, <2>2, <2>3, <1>1, <1>4, NestedKept
<1>10. ASSUME ~lax
       PROVE  Balanced(y, tries, nest - Delta(Top), nest - Delta(Top), errors)
  <2>1. Balanced(work, tries, nest, nest, errors)
    BY <1>1, <1>10 DEF IInv, Skipped
  <2>2. \A i \in 1..Len(tries) : tries[i].height \in 0..m
    BY <1>2, <1>7
  <2> QED BY <2>1, <2>2, <1>0, <1>1, <1>2, <1>3, BalancedReplace DEF Top
<1> QED BY <1>5, <1>8, <1>9, <1>10

LEMMA AdvanceFacts ==
  ASSUME ahead \in Seq(Token), nest \in Int, advance
  PROVE  /\ ahead' \in Seq(Token) /\ nest' \in Int
         /\ IsAtEnd => ahead' = ahead /\ nest' = nest
         /\ nest' = nest - (IF La = "lbrace" THEN -1
                           ELSE IF La = "rbrace" THEN 1 ELSE 0)
<1>1. ~IsAtEnd => ahead # <<>>
  <2>1. ahead = <<>> => ~(1 <= Len(ahead))
    BY EmptySeq
  <2> QED BY <2>1 DEF IsAtEnd, La, Tok
<1>2. ahead' \in Seq(Token)
  <2>1. ahead # <<>> => Tail(ahead) \in Seq(Token)
    BY TailIsSubSeq
  <2> QED BY <1>1, <2>1 DEF advance
<1>3. /\ nest' \in Int
      /\ nest' = nest - (IF La = "lbrace" THEN -1
                        ELSE IF La = "rbrace" THEN 1 ELSE 0)
  BY DEF advance
<1> QED BY <1>2, <1>3 DEF advance, IsAtEnd

LEMMA NestedSame ==
  ASSUME NEW y, NEW ts, NEW us, y \in Seq(Symbol), Nested(ts, y),
         Keeps(us, ts), Len(us) = Len(ts)
  PROVE  Nested(us, y)
<1>1. us = <<>> => ts = <<>>
  <2>1. ts \in Seq(Try)
    BY DEF Nested
  <2>2. us = <<>> => Len(ts) = 0
    BY EmptySeq
  <2> QED BY <2>1, <2>2, EmptySeq
<1>2. us = <<>> => Len(y) <= 2
  BY <1>1 DEF Nested
<1>3. \A i \in 1..Len(ts) : ts[i].height <= Len(y)
  BY DEF Nested
<1> QED BY <1>2, <1>3, NestedKept

LEMMA BalancedKeeps ==
  ASSUME NEW w, NEW ts, NEW us, NEW n, NEW k, NEW r \in Int, NEW q \in Int,
         NEW c, NEW d, w \in Seq(Symbol), Nested(ts, w), Keeps(us, ts),
         Balanced(w, ts, n, r, c), r <= q, d = FALSE => c = FALSE /\ k = n
  PROVE  Balanced(w, us, k, q, d)
<1>1. ts \in Seq(Try)
  BY DEF Nested
<1>2. \A i \in 1..Len(ts) : ts[i].height \in 0..Len(w)
  <2>1. \A i \in 1..Len(ts) : ts[i].height \in 2..Len(w)
    BY Heights
  <2> QED BY <2>1
<1>3. \A i \in 1..Len(us) :
        /\ i \in 1..Len(ts)
        /\ us[i].height = ts[i].height /\ us[i].nest = ts[i].nest
  BY DEF Keeps
<1> QED BY <1>1, <1>2, <1>3, BalancedWeaker

\* A token that is not there, or a function that throws: the innermost try
\* is there to catch it.
LEMMA ThrowStep ==
  ASSUME IInv, mode = "parse", Len(work) > 2, ThrowError
  PROVE  IInv'
<1>1. /\ work \in Seq(Symbol) /\ tries \in Seq(Try) /\ nest \in Int
      /\ WorkOK(work) /\ Nested(tries, work) /\ Types
  BY DEF IInv, WorkOK, Nested, Types
<1>2. tries # <<>> /\ Len(tries) \in 1..Len(tries)
  <2>1. Len(work) \in Nat /\ (tries = <<>> => Len(work) <= 2)
    BY <1>1, LenProperties DEF Nested
  <2>2. tries # <<>>
    BY <2>1
  <2> QED BY <2>2, <1>1, EmptySeq
<1>3. PICK m \in 0..Len(work) : m = Inner.height /\ m >= 2
  <2>1. Inner.height \in 2..Len(work) /\ Len(work) \in Nat
    BY <1>1, <1>2, Heights DEF Inner
  <2> QED BY <2>1
<1>4. work' = Suffix(work, m)
  BY <1>3 DEF ThrowError, Unwound, Suffix
<1> DEFINE y == work'
<1>5. /\ y \in Seq(Symbol) /\ Len(y) = m
      /\ \A n \in 1..m : At(y, n) = At(work, n)
  BY <1>1, <1>4, SuffixFacts
<1>6. WorkOK(y)
  <2>1. <<>> \in Seq(Symbol) /\ Good(<<>>)
    BY FlatTuples, EmptySeq DEF Good
  <2>2. y = <<>> \o Suffix(work, m)
    BY <1>4, <1>5, ConcatEmptySeq
  <2> QED BY <2>1, <2>2, <1>1, <1>3, WorkKept
<1>7. \A i \in 1..Len(tries) : tries[i].height \in 2..m
  <2>1. \A i \in 1..Len(tries) :
          /\ tries[i].height \in 2..Len(work)
          /\ tries[i].height <= Inner.height
    BY <1>1, Heights DEF Inner
  <2>2. \A h \in 2..Len(work) : h <= m => h \in 2..m
    BY <1>3
  <2> QED BY <2>1, <2>2, <1>3
<1>8. Nested(tries, y)
  <2>1. \A i \in 1..Len(tries) : tries[i].height <= Len(y)
    BY <1>5, <1>7
  <2>2. Keeps(tries, tries)
    BY <1>1, LenProperties DEF Keeps
  <2> QED BY <2>1, <2>2, <1>1, <1>2, NestedKept
<1>9. Guarded(tries, y, ahead)
  <2>1. \A i \in 1..Len(tries) :
          At(y, tries[i].height) = At(work, tries[i].height)
    BY <1>5, <1>7
  <2> QED BY <2>1, GuardedKept DEF IInv
<1>10. ASSUME ~lax PROVE Balanced(y, tries, nest, nest, TRUE)
  <2>1. Balanced(work, tries, nest, nest, errors)
    BY <1>1, <1>10 DEF IInv, Skipped
  <2>2. \A i \in 1..Len(tries) : tries[i].height \in 0..m
    BY <1>7
  <2>3. \E i \in 1..Len(tries) : tries[i].height = m
    BY <1>2, <1>3 DEF Inner
  <2> QED BY <2>1, <2>2, <2>3, <1>1, <1>4, BalancedUnwind
<1>11. Len(y) = tries[Len(tries)].height
  BY <1>3, <1>5 DEF Inner
<1>12. /\ errors' = TRUE /\ mode' = "sync" /\ depth' = 0 /\ tries' = tries
       /\ ahead' = ahead /\ nest' = nest /\ lax' = lax /\ left' = left
       /\ runBlock' = runBlock /\ moduleOptionalRun' = moduleOptionalRun
  BY DEF ThrowError
<1>13. Types' /\ nest' - Skipped' = nest
  BY <1>1, <1>12 DEF Types, Skipped
<1> HIDE DEF y
<1>14. Finished'
  BY <1>2, <1>11, <1>12 DEF Finished, Inner, y
<1>15. ~lax' => Balanced(work', tries', nest', nest' - Skipped', errors')
  BY <1>10, <1>12, <1>13 DEF y
<1> QED
  BY <1>6, <1>8, <1>9, <1>12, <1>13, <1>14, <1>15 DEF IInv, y

LEMMA ConsumeStep ==
  ASSUME IInv, consume
  PROVE  IInv'
<1>1. /\ mode = "parse" /\ ~Finished /\ Top \in Terminal
      /\ WorkOK(work) /\ Nested(tries, work) /\ Types
  BY DEF consume, InParse, IsToken, IInv
<1>2. Len(work) > 2
  <2>1. Top # "End" /\ Top # "Globals"
    BY <1>1, TokenOrFunction
  <2>2. /\ Len(work) \in Nat \ {0}
        /\ Len(work) = 1 => Top = "End"
        /\ Len(work) = 2 => Top = "Globals"
    BY <1>1, TopFacts
  <2>3. \A k \in Nat \ {0} : k # 1 /\ k # 2 => k > 2
    OBVIOUS
  <2>4. Len(work) # 1 /\ Len(work) # 2
    BY <2>1, <2>2
  <2> QED BY <2>2, <2>3, <2>4
<1>3. CASE ~(Top = La \/ Top = "any")
  BY <1>1, <1>2, <1>3, ThrowStep DEF consume
<1>4. CASE Top = La \/ Top = "any"
  <2>1. /\ advance /\ work' = Tail(work) /\ tries' = Moved(tries)
        /\ lax' = (lax \/ (Top = "any" /\ La \in {"lbrace", "rbrace"}))
        /\ left' = left /\ mode' = mode /\ depth' = depth
        /\ errors' = errors /\ runBlock' = runBlock
        /\ moduleOptionalRun' = moduleOptionalRun
    BY <1>4 DEF consume
  <2>2. /\ ahead' \in Seq(Token) /\ nest' \in Int
        /\ IsAtEnd => ahead' = ahead
        /\ nest' = nest - (IF La = "lbrace" THEN -1
                          ELSE IF La = "rbrace" THEN 1 ELSE 0)
    BY <1>1, <2>1, AdvanceFacts DEF Types
  <2>3. Types'
    BY <1>1, <2>1, <2>2 DEF Types
  <2> DEFINE y == work'
  <2>4. y = <<>> \o Tail(work) /\ y \in Seq(Symbol)
    <3>1. Tail(work) \in Seq(Symbol)
      BY <1>1, TailIsSubSeq DEF WorkOK
    <3> QED BY <3>1, <2>1, ConcatEmptySeq
  <2>5. /\ WorkOK(y) /\ Nested(tries, y)
        /\ \A i \in 1..Len(tries) :
             At(y, tries[i].height) = At(work, tries[i].height)
        /\ ~lax => Balanced(y, tries, nest - Delta(Top), nest - Delta(Top),
                            errors)
    <3>1. <<>> \in Seq(Symbol) /\ Good(<<>>) /\ Room(<<>>)
      BY <1>2, FlatTuples, EmptySeq DEF Good, Room
    <3> QED BY <3>1, <2>4, <1>1, StepOnTop
  <2>6. tries \in Seq(Try) /\ Keeps(tries', tries) /\ Len(tries') = Len(tries)
    BY <1>1, <2>1, MovedKeeps DEF Nested
  <2>7. Nested(tries', y)
    BY <2>4, <2>5, <2>6, NestedSame
  <2>8. Guarded(tries', y, ahead')
    <3>1. CASE IsAtEnd
      <4>1. tries' = tries /\ ahead' = ahead
        BY <3>1, <2>1, <2>2, <2>6, MovedKeeps
      <4> QED BY <4>1, <2>5, GuardedKept DEF IInv
    <3>2. CASE ~IsAtEnd
      BY <3>2, <2>1, <2>6, MovedKeeps, AllMoved
    <3> QED BY <3>1, <3>2
  <2>9. ASSUME ~lax' PROVE Balanced(y, tries', nest', nest', errors')
    <3>1. nest' = nest - Delta(Top) /\ ~lax
      <4>1. Top = "any" => La \notin {"lbrace", "rbrace"} /\ Delta(Top) = 0
        BY <2>1, <2>9, TokenOrFunction
      <4>2. Top = La => Delta(Top) = IF La = "lbrace" THEN -1
                                     ELSE IF La = "rbrace" THEN 1 ELSE 0
        BY <1>1, TokenOrFunction
      <4>3. ~lax
        BY <2>1, <2>9
      <4> QED BY <4>1, <4>2, <4>3, <1>4, <2>2
    <3>2. Balanced(y, tries, nest', nest', errors)
      BY <3>1, <2>5
    <3>3. errors' = FALSE => errors = FALSE /\ nest' = nest'
      BY <2>1
    <3>4. nest' <= nest' /\ nest' \in Int
      BY <2>2
    <3>5. y \in Seq(Symbol) /\ Nested(tries, y) /\ Keeps(tries', tries)
      BY <2>4, <2>5, <2>6
    <3> HIDE DEF y
    <3> QED BY <3>2, <3>3, <3>4, <3>5, BalancedKeeps
  <2>10. nest' - Skipped' = nest' /\ mode' = "parse"
    BY <1>1, <2>1, <2>2 DEF Skipped
  <2> HIDE DEF y
  <2>11. ~lax' => Balanced(work', tries', nest', nest' - Skipped', errors')
    BY <2>9, <2>10 DEF y
  <2> QED BY <2>3, <2>5, <2>7, <2>8, <2>10, <2>11 DEF IInv, y
<1> QED BY <1>3, <1>4

\* A conversion that throws leaves everything as it is.
LEMMA AbortStep ==
  ASSUME IInv, mode = "parse", Abort
  PROVE  IInv'
<1>1. /\ mode' = "aborted" /\ left' = left /\ ahead' = ahead /\ work' = work
      /\ tries' = tries /\ depth' = depth /\ errors' = errors
      /\ runBlock' = runBlock /\ moduleOptionalRun' = moduleOptionalRun
      /\ nest' = nest /\ lax' = lax
  BY DEF Abort
<1>2. Types' /\ Skipped' = Skipped
  BY <1>1 DEF IInv, Types, Skipped
<1> QED BY <1>1, <1>2 DEF IInv

LEMMA CallStep ==
  ASSUME IInv, Call
  PROVE  IInv'
<1>1. PICK r \in Rule(Top) :
        \/ r.fault = "throw" /\ ThrowError
        \/ r.fault = "abort" /\ Abort
        \/ /\ r.fault \in {"none", "report"}
           /\ work' = r.to \o Tail(work)
           /\ errors' = (errors \/ r.fault = "report")
           /\ runBlock' = (runBlock \/ Top = "SetRun")
           /\ moduleOptionalRun' = (moduleOptionalRun \/ Top = "SetModule")
           /\ lax' = (lax \/ Top = "NoBrace")
           /\ UNCHANGED <<left, ahead, tries, mode, depth, nest>>
  BY DEF Call
<1>2. /\ mode = "parse" /\ ~Finished
      /\ WorkOK(work) /\ Nested(tries, work) /\ Types
  BY DEF Call, InParse, IInv
<1>3. Top \in Function /\ Good(r.to)
  BY RuleShape
<1>4. Len(work) > 2
  <2>1. Top # "End" /\ Top # "Globals"
    BY <1>3, TokenOrFunction
  <2>2. /\ Len(work) \in Nat \ {0}
        /\ Len(work) = 1 => Top = "End"
        /\ Len(work) = 2 => Top = "Globals"
    BY <1>2, TopFacts
  <2>3. \A k \in Nat \ {0} : k # 1 /\ k # 2 => k > 2
    OBVIOUS
  <2>4. Len(work) # 1 /\ Len(work) # 2
    BY <2>1, <2>2
  <2> QED BY <2>2, <2>3, <2>4
<1>5. CASE r.fault = "throw"
  BY <1>1, <1>2, <1>4, <1>5, ThrowStep
<1>6. CASE r.fault = "abort"
  <2>1. Abort
    BY <1>1, <1>6
  <2> QED BY <2>1, <1>2, AbortStep
<1>7. CASE r.fault \in {"none", "report"}
  <2> DEFINE y == work'
             s == r.to
  <2>1. /\ y = s \o Tail(work)
        /\ errors' = (errors \/ r.fault = "report")
        /\ runBlock' = (runBlock \/ Top = "SetRun")
        /\ moduleOptionalRun' = (moduleOptionalRun \/ Top = "SetModule")
        /\ lax' = (lax \/ Top = "NoBrace")
        /\ left' = left /\ ahead' = ahead /\ tries' = tries /\ mode' = mode
        /\ depth' = depth /\ nest' = nest
    BY <1>1, <1>7
  <2>2. s \in Seq(Symbol) /\ Good(s) /\ Room(s)
    BY <1>3, <1>4, GoodLevels DEF Room
  <2> HIDE DEF s
  <2>3. /\ WorkOK(y) /\ Nested(tries, y)
        /\ \A i \in 1..Len(tries) :
             At(y, tries[i].height) = At(work, tries[i].height)
        /\ ~lax => Balanced(y, tries, nest - Delta(Top), nest - Delta(Top),
                            errors)
    BY <1>2, <2>1, <2>2, StepOnTop
  <2>4. y \in Seq(Symbol)
    BY <2>3 DEF WorkOK
  <2>5. Guarded(tries, y, ahead)
    BY <2>3, GuardedKept DEF IInv
  <2>6. ASSUME ~lax' PROVE Balanced(y, tries, nest, nest, errors')
    <3>1. Delta(Top) = 0 /\ ~lax
      BY <2>1, <2>6, <1>3, TokenOrFunction
    <3>2. nest \in Int /\ nest <= nest /\ nest - Delta(Top) = nest
      BY <3>1, <1>2 DEF Types
    <3>3. Balanced(y, tries, nest, nest, errors)
      BY <3>1, <3>2, <2>3
    <3>4. errors' = FALSE => errors = FALSE /\ nest = nest
      BY <2>1, <1>2 DEF Types
    <3>5. Keeps(tries, tries)
      BY <1>2, LenProperties DEF Keeps, Nested
    <3> HIDE DEF y
    <3> QED BY <3>2, <3>3, <3>4, <3>5, <2>3, <2>4, BalancedKeeps
  <2>7. Types'
    BY <1>2, <2>1 DEF Types
  <2>8. nest' - Skipped' = nest /\ mode' = "parse"
    BY <1>2, <2>1 DEF Skipped, Types
  <2> HIDE DEF y
  <2>9. ~lax' => Balanced(work', tries', nest', nest' - Skipped', errors')
    BY <2>1, <2>6, <2>8 DEF y
  <2> QED BY <2>1, <2>3, <2>5, <2>7, <2>8, <2>9 DEF IInv, y
<1> QED BY <1>1, <1>5, <1>6, <1>7

LEMMA SuffixWhole ==
  ASSUME NEW S, NEW w \in Seq(S)
  PROVE  Len(w) \in 0..Len(w) /\ Suffix(w, Len(w)) = w
<1>1. Len(w) \in Nat
  BY LenProperties
<1>2. Len(w) \in 0..Len(w) /\ Len(w) - Len(w) + 1 = 1
  BY <1>1
<1>3. Suffix(w, Len(w)) = SubSeq(w, 1, Len(w))
  BY <1>2 DEF Suffix
<1>4. SubSeq(w, 1, Len(w)) = w
  BY SubSeqFull
<1> QED BY <1>2, <1>3, <1>4

\* A loop calls its function for the next statement.
LEMMA EnterStep ==
  ASSUME IInv, mode = "parse", ~Finished, IsLoop(Top), La \notin LoopEnd[Top],
         NEW x \in {"Global", "Stmt"}, work' = <<x>> \o work,
         tries' = Append(tries, [height |-> Len(work), guard |-> TRUE,
                                 moved |-> FALSE, nest |-> nest]),
         UNCHANGED <<left, ahead, mode, depth, errors, runBlock,
                     moduleOptionalRun, nest, lax>>
  PROVE  IInv'
<1> DEFINE t == [height |-> Len(work), guard |-> TRUE, moved |-> FALSE,
                 nest |-> nest]
           y == work'
           s == <<x>>
<1>1. /\ work \in Seq(Symbol) /\ tries \in Seq(Try) /\ nest \in Int
      /\ WorkOK(work) /\ Nested(tries, work) /\ Types
  BY DEF IInv, WorkOK, Nested, Types
<1>2. PICK m \in 0..Len(work) : m = Len(work)
  BY <1>1, SuffixWhole
<1>3. m \in Nat /\ m >= 2 /\ Top = At(work, m)
  <2>1. Top # "End"
    BY TokenOrFunction DEF IsLoop
  <2>2. Len(work) \in Nat \ {0} /\ (Len(work) = 1 => Top = "End")
    BY <1>1, TopFacts
  <2>3. Top = At(work, m)
    BY <1>1, <1>2, TopFacts
  <2>4. \A k \in Nat \ {0} : k # 1 => k >= 2
    OBVIOUS
  <2>5. Len(work) # 1
    BY <2>1, <2>2
  <2> QED BY <2>2, <2>3, <2>4, <2>5, <1>2
<1>4. s \in Seq(Symbol) /\ Flat(s) /\ Good(s)
  <2>1. x \in Plain
    BY Names DEF Function, GlobalFn, StatementFn
  <2>2. Flat(s)
    BY <2>1, FlatTuples
  <2> QED BY <2>2, FlatElements DEF Good
<1>5. y = s \o Suffix(work, m)
  BY <1>1, <1>2, SuffixWhole
<1>6. /\ t \in Try /\ t.height = m /\ t.nest = nest
      /\ tries' = Append(tries, t)
  <2>1. Len(work) \in Nat
    BY <1>2, <1>3
  <2> QED BY <2>1, <1>1, <1>2 DEF Try
<1> HIDE DEF t, y, s
<1>7. Len(y) = m + Len(s) /\ \A n \in 1..m : At(y, n) = At(work, n)
  <2>1. Stacked(y, s, work, m)
    BY <1>1, <1>4, <1>5, StackedOnTop
  <2> QED BY <2>1 DEF Stacked
<1>8. WorkOK(y) /\ y \in Seq(Symbol)
  <2>1. WorkOK(y)
    BY <1>1, <1>3, <1>4, <1>5, WorkKept
  <2> QED BY <2>1 DEF WorkOK
<1>9. \A i \in 1..Len(tries) : tries[i].height \in 2..(m - 1)
  BY <1>1, <1>2, Below DEF Finished, Inner
<1>10. Nested(tries', y)
  <2>1. tries = <<>> => Len(work) = 2
    <3>1. tries = <<>> => Len(work) <= 2
      BY <1>1 DEF Nested
    <3>2. m <= 2 => m = 2
      BY <1>3
    <3> QED BY <3>1, <3>2, <1>2
  <2>2. Len(work) <= Len(y)
    <3>1. Len(s) \in Nat
      BY <1>4, LenProperties
    <3>2. m <= Len(y)
      BY <3>1, <1>3, <1>7
    <3> QED BY <3>2, <1>2
  <2>3. \A i \in 1..Len(tries) : tries[i].height < Len(work)
    <3>1. \A h \in 2..(m - 1) : h < m
      BY <1>3
    <3> QED BY <3>1, <1>2, <1>9
  <2>4. t.height = Len(work)
    BY <1>2, <1>6
  <2> QED BY <2>1, <2>2, <2>3, <2>4, <1>1, <1>6, <1>8, NestedPush
<1>11. Guarded(tries', y, ahead)
  <2> SUFFICES ASSUME NEW i \in 1..Len(tries'),
                      tries'[i].guard /\ ~tries'[i].moved
               PROVE  /\ ahead # <<>>
                      /\ At(y, tries'[i].height) \in DOMAIN LoopEnd
                      /\ ahead[1] \notin LoopEnd[At(y, tries'[i].height)]
    BY DEF Guarded
  <2>1. /\ Len(tries) \in Nat /\ Len(tries') = Len(tries) + 1
        /\ i <= Len(tries) => i \in 1..Len(tries) /\ tries'[i] = tries[i]
        /\ ~(i <= Len(tries)) => tries'[i] = t
    BY <1>1, <1>6, AppendProperties, LenProperties
  <2>2. CASE i <= Len(tries)
    <3>1. /\ ahead # <<>> /\ At(work, tries[i].height) \in DOMAIN LoopEnd
          /\ ahead[1] \notin LoopEnd[At(work, tries[i].height)]
      BY <2>1, <2>2 DEF Guarded, IInv
    <3>2. 2..(m - 1) \subseteq 1..m
      BY <1>3
    <3>3. At(y, tries[i].height) = At(work, tries[i].height)
      BY <2>1, <2>2, <3>2, <1>7, <1>9
    <3> QED BY <2>1, <2>2, <3>1, <3>3
  <2>3. CASE ~(i <= Len(tries))
    <3>1. tries'[i].height = m /\ At(y, m) = Top
      <4>1. m \in 1..m
        BY <1>3
      <4> QED BY <4>1, <2>1, <2>3, <1>3, <1>6, <1>7
    <3>2. "eof" \in LoopEnd[Top]
      BY DEF IsLoop, LoopEnd
    <3>3. ahead # <<>> /\ La = ahead[1]
      <4>1. ahead = <<>> => ~(1 <= Len(ahead))
        BY EmptySeq
      <4>2. La # "eof"
        BY <3>2
      <4> QED BY <4>1, <4>2 DEF La, Tok
    <3> QED BY <3>1, <3>3 DEF IsLoop
  <2> QED BY <2>2, <2>3
<1>12. ASSUME ~lax PROVE Balanced(y, tries', nest, nest, errors)
  <2>1. Balanced(work, tries, nest, nest, errors)
    BY <1>1, <1>12 DEF IInv, Skipped
  <2>2. \A i \in 1..Len(tries) : tries[i].height \in 0..m
    <3>1. 2..(m - 1) \subseteq 0..m
      BY <1>3
    <3> QED BY <3>1, <1>9
  <2>3. work \in Seq(Symbol) /\ tries \in Seq(Try) /\ nest \in Int
    BY <1>1
  <2>4. t \in Try /\ t.height = m /\ t.nest = nest
    BY <1>6
  <2>5. Balanced(y, Append(tries, t), nest, nest, errors)
    BY <2>1, <2>2, <2>3, <2>4, <1>2, <1>4, <1>5, BalancedPush
  <2> QED BY <2>5, <1>6
<1>13. /\ Types' /\ ahead' = ahead /\ mode' = "parse"
       /\ nest' = nest /\ lax' = lax /\ errors' = errors
  BY <1>1 DEF Types
<1>14. nest' - Skipped' = nest
  BY <1>1, <1>13 DEF Skipped
<1>15. ~lax' => Balanced(work', tries', nest', nest' - Skipped', errors')
  BY <1>12, <1>13, <1>14 DEF y
<1> QED BY <1>8, <1>10, <1>11, <1>13, <1>15 DEF IInv, y

LEMMA LoopStep ==
  ASSUME IInv, EnterLoopBody
  PROVE  IInv'
<1>1. /\ mode = "parse" /\ ~Finished /\ IsLoop(Top)
      /\ WorkOK(work) /\ Nested(tries, work) /\ Types
  BY DEF EnterLoopBody, InParse, IInv
<1>2. CASE La \notin LoopEnd[Top]
  <2> DEFINE x == IF Top = "Globals" THEN "Global" ELSE "Stmt"
  <2>1. /\ work' = <<x>> \o work
        /\ tries' = Append(tries, [height |-> Len(work), guard |-> TRUE,
                                   moved |-> FALSE, nest |-> nest])
        /\ UNCHANGED <<left, ahead, mode, depth, errors, runBlock,
                       moduleOptionalRun, nest, lax>>
    BY <1>2 DEF EnterLoopBody
  <2>2. x \in {"Global", "Stmt"}
    OBVIOUS
  <2> HIDE DEF x
  <2> QED BY <2>1, <2>2, <1>1, <1>2, EnterStep
<1>3. CASE La \in LoopEnd[Top]
  <2> DEFINE y == work'
  <2>1. /\ y = Tail(work) /\ tries' = tries
        /\ left' = left /\ ahead' = ahead /\ mode' = mode /\ depth' = depth
        /\ errors' = errors /\ runBlock' = runBlock /\ nest' = nest
        /\ moduleOptionalRun' = moduleOptionalRun /\ lax' = lax
    BY <1>3 DEF EnterLoopBody
  <2>2. Delta(Top) = 0 /\ Top # "End"
    BY <1>1, TokenOrFunction DEF IsLoop
  <2>3. Room(<<>>)
    <3>1. Len(work) \in Nat \ {0} /\ (Len(work) = 1 => Top = "End")
      BY <1>1, TopFacts
    <3>2. \A k \in Nat \ {0} : k # 1 => k > 2 \/ k = 2
      OBVIOUS
    <3>3. Len(work) # 1
      BY <3>1, <2>2
    <3> QED BY <3>1, <3>2, <3>3 DEF Room
  <2>4. y = <<>> \o Tail(work)
    <3>1. Tail(work) \in Seq(Symbol)
      BY <1>1, TailIsSubSeq DEF WorkOK
    <3> QED BY <3>1, <2>1, ConcatEmptySeq
  <2>5. /\ WorkOK(y) /\ Nested(tries, y)
        /\ \A i \in 1..Len(tries) :
             At(y, tries[i].height) = At(work, tries[i].height)
        /\ ~lax => Balanced(y, tries, nest - Delta(Top), nest - Delta(Top),
                            errors)
    <3>1. <<>> \in Seq(Symbol) /\ Good(<<>>)
      BY FlatTuples, EmptySeq DEF Good
    <3> QED BY <3>1, <2>3, <2>4, <1>1, StepOnTop
  <2>6. Guarded(tries, y, ahead)
    BY <2>5, GuardedKept DEF IInv
  <2>7. Types' /\ mode' = "parse"
    BY <1>1, <2>1 DEF Types
  <2>8. nest' - Skipped' = nest /\ nest - Delta(Top) = nest
    BY <1>1, <2>1, <2>2, <2>7 DEF Skipped, Types
  <2> HIDE DEF y
  <2>9. ~lax' => Balanced(work', tries', nest', nest' - Skipped', errors')
    BY <2>1, <2>5, <2>8 DEF y
  <2> QED BY <2>1, <2>5, <2>6, <2>7, <2>9 DEF IInv, y
<1> QED BY <1>2, <1>3

LEMMA DoneStep ==
  ASSUME IInv, StatementDone
  PROVE  IInv'
<1>1. /\ mode = "parse" /\ tries # <<>> /\ Len(work) = tries[Len(tries)].height
      /\ WorkOK(work) /\ Nested(tries, work) /\ Types
      /\ work \in Seq(Symbol) /\ tries \in Seq(Try) /\ nest \in Int
  BY DEF StatementDone, Finished, Inner, IInv, WorkOK, Nested, Types
<1>2. /\ tries' = Front(tries)
      /\ left' = left /\ ahead' = ahead /\ mode' = mode /\ depth' = depth
      /\ errors' = errors /\ runBlock' = runBlock /\ nest' = nest
      /\ moduleOptionalRun' = moduleOptionalRun /\ lax' = lax
      /\ work' = work
  BY DEF StatementDone
<1>3. /\ Keeps(tries', tries) /\ Len(tries') = Len(tries) - 1
      /\ \A i \in 1..Len(tries') : tries'[i] = tries[i]
  BY <1>1, <1>2, FrontKeeps
<1>4. Nested(tries', work)
  <2>1. Len(tries') >= Len(tries) - 1 /\ tries' \in Seq(Try)
    BY <1>1, <1>3, LenProperties DEF Keeps
  <2> QED BY <2>1, <1>1, <1>3, NestedFront
<1>5. Guarded(tries', work, ahead)
  <2>1. \A i \in 1..Len(tries') : i \in 1..Len(tries)
    BY <1>3 DEF Keeps
  <2> QED BY <2>1, <1>3, GuardedKept DEF IInv
<1>6. ASSUME ~lax PROVE Balanced(work, tries', nest, nest, errors)
  <2>1. Balanced(work, tries, nest, nest, errors)
    BY <1>1, <1>6 DEF IInv, Skipped
  <2>2. nest <= nest /\ (errors = FALSE => errors = FALSE /\ nest = nest)
    BY <1>1
  <2> QED BY <2>1, <2>2, <1>1, <1>3, BalancedKeeps
<1>7. Types' /\ mode' = "parse"
  BY <1>1, <1>2 DEF Types
<1>8. nest' - Skipped' = nest
  BY <1>1, <1>2, <1>7 DEF Skipped
<1>9. ~lax' => Balanced(work', tries', nest', nest' - Skipped', errors')
  BY <1>2, <1>6, <1>8
<1> QED BY <1>1, <1>2, <1>4, <1>5, <1>7, <1>9 DEF IInv

LEMMA ScanStep ==
  ASSUME IInv, Scan
  PROVE  IInv'
<1>1. /\ Nested(tries, work) /\ Guarded(tries, work, ahead) /\ Types
      /\ mode \in {"parse", "sync"} /\ left # 0
  BY DEF IInv, Scan, Ready
<1>2. /\ work' = work /\ tries' = tries /\ mode' = mode /\ depth' = depth
      /\ errors' = errors /\ runBlock' = runBlock /\ nest' = nest
      /\ moduleOptionalRun' = moduleOptionalRun /\ lax' = lax
  BY DEF Scan
<1>3. /\ ahead' \in Seq(Token) /\ left' \in 0..MaxTokens
      /\ ahead # <<>> => ahead' # <<>> /\ ahead'[1] = ahead[1]
  <2>1. ahead \in Seq(Token) /\ left \in 1..MaxTokens
    BY <1>1, ParserAssumption DEF Types
  <2>2. CASE \E k \in Token : ahead' = Append(ahead, k) /\ left' = left - 1
    <3>1. PICK k \in Token : ahead' = Append(ahead, k) /\ left' = left - 1
      BY <2>2
    <3>2. /\ ahead' \in Seq(Token) /\ ahead' # <<>>
          /\ \A i \in 1..Len(ahead) : ahead'[i] = ahead[i]
      BY <2>1, <3>1, AppendProperties
    <3>3. ahead # <<>> => 1 \in 1..Len(ahead)
      BY <2>1, EmptySeq
    <3>4. left' \in 0..MaxTokens
      BY <2>1, <3>1, ParserAssumption
    <3> QED BY <3>2, <3>3, <3>4
  <2>3. CASE left' = 0 /\ ahead' = ahead
    BY <2>1, <2>3, ParserAssumption
  <2> QED BY <2>2, <2>3 DEF Scan
<1>4. Guarded(tries, work, ahead')
  BY <1>1, <1>3, GuardedKept
<1>5. Types' /\ nest' - Skipped' = nest - Skipped
  BY <1>1, <1>2, <1>3 DEF Types, Skipped
<1>6. Finished => Finished'
  BY <1>2 DEF Finished, Inner
<1> QED BY <1>2, <1>4, <1>5, <1>6 DEF IInv

LEMMA EndStep ==
  ASSUME IInv, EndParse
  PROVE  IInv'
<1>1. /\ Nested(tries, work) /\ Guarded(tries, work, ahead) /\ Types
      /\ WorkOK(work) /\ mode = "parse" /\ Top = "End" /\ nest \in Int
      /\ work \in Seq(Symbol)
  BY DEF IInv, EndParse, InParse, Types, WorkOK
<1>2. /\ work' = work /\ tries' = tries /\ mode' = "done" /\ depth' = depth
      /\ runBlock' = runBlock /\ nest' = nest /\ ahead' = ahead
      /\ moduleOptionalRun' = moduleOptionalRun /\ lax' = lax /\ left' = left
      /\ errors' = (errors \/ ~(runBlock \/ moduleOptionalRun))
  BY DEF EndParse
<1>3. Len(work) = 1
  <2>1. /\ Len(work) \in Nat \ {0}
        /\ Len(work) = 2 => Top = "Globals"
        /\ Len(work) >= 3 => Top # "End"
    BY <1>1, TopFacts
  <2>2. \A k \in Nat \ {0} : k # 2 /\ ~(k >= 3) => k = 1
    OBVIOUS
  <2>3. Len(work) # 2 /\ ~(Len(work) >= 3)
    BY <2>1, <1>1
  <2> QED BY <2>1, <2>2, <2>3
<1>4. Types' /\ nest' - Skipped' = nest /\ nest - Skipped = nest
  BY <1>1, <1>2 DEF Types, Skipped
<1>5. ASSUME ~lax PROVE Balanced(work, tries, nest, nest, errors')
  <2>1. Balanced(work, tries, nest, nest, errors)
    BY <1>4, <1>5 DEF IInv
  <2>2. nest <= nest /\ (errors' = FALSE => errors = FALSE /\ nest = nest)
    BY <1>1, <1>2 DEF Types
  <2>3. Keeps(tries, tries)
    BY <1>1, LenProperties DEF Keeps, Nested
  <2> QED BY <2>1, <2>2, <2>3, <1>1, BalancedKeeps
<1>6. ~lax' => Balanced(work', tries', nest', nest' - Skipped', errors')
  BY <1>2, <1>4, <1>5
<1> QED BY <1>1, <1>2, <1>3, <1>4, <1>6 DEF IInv

\* With no try left there is nothing that a closing brace could break into.
LEMMA BalancedAlone ==
  ASSUME NEW w, NEW ts, NEW us, NEW n, NEW k, NEW r, NEW q, NEW c,
         Balanced(w, ts, n, r, c), us = <<>>
  PROVE  Balanced(w, us, k, q, TRUE)
<1>1. \A i \in 1..Len(us) : FALSE
  BY EmptySeq
<1> QED BY <1>1 DEF Balanced

\* A guard that has not moved and finds a closing brace is the program's.
LEMMA StuckAtBrace ==
  ASSUME IInv, mode = "sync", Stuck, La = "rbrace"
  PROVE  Len(tries) = 1
<1>1. /\ tries # <<>> /\ Len(work) = Inner.height
      /\ WorkOK(work) /\ Nested(tries, work) /\ tries \in Seq(Try)
      /\ work \in Seq(Symbol)
  BY DEF IInv, Finished, WorkOK, Nested
<1>2. /\ Len(tries) \in Nat \ {0} /\ Len(tries) \in 1..Len(tries)
      /\ 1 \in 1..Len(tries)
  BY <1>1, EmptySeq
<1>3. /\ At(work, Len(work)) \in DOMAIN LoopEnd
      /\ "rbrace" \notin LoopEnd[At(work, Len(work))]
  <2>1. ahead # <<>> => ahead[1] = La
    <3>1. ahead # <<>> => 1 <= Len(ahead)
      BY EmptySeq DEF IInv, Types
    <3> QED BY <3>1 DEF La, Tok
  <2> QED BY <2>1, <1>1, <1>2 DEF IInv, Guarded, Stuck, Inner
<1>4. Top = "Globals"
  <2>1. Top = At(work, Len(work))
    BY <1>1, TopFacts
  <2> QED BY <2>1, <1>3 DEF LoopEnd
<1>5. Inner.height <= 2
  <2>1. Len(work) \in Nat \ {0} /\ (Len(work) >= 3 => Top # "Globals")
    BY <1>1, TopFacts
  <2>2. \A k \in Nat \ {0} : ~(k >= 3) => k <= 2
    OBVIOUS
  <2>3. Len(work) <= 2
    BY <2>1, <2>2, <1>4
  <2> QED BY <2>3, <1>1
<1>6. Inner \in Try /\ tries[1].height = 2
  BY <1>1, <1>2, ElementOfSeq DEF Nested, Inner
<1>7. 1 < Len(tries) => 2 < Inner.height
  BY <1>1, <1>2, <1>6 DEF Nested, Inner
<1>8. ASSUME NEW h \in Nat, h <= 2, NEW n \in Nat \ {0}, 1 < n => 2 < h
      PROVE  n = 1
  BY <1>8
<1>9. Inner.height \in Nat
  BY <1>6 DEF Try
<1> QED BY <1>2, <1>5, <1>7, <1>8, <1>9

\* synchronize gives up the statement: the try it was called in is left.
LEMMA LeaveTry ==
  ASSUME IInv, mode = "sync", mode' = "parse", NEW k \in Int,
         ahead' \in Seq(Token), nest' \in Int, depth' \in Nat,
         UNCHANGED <<left, work, errors, runBlock, moduleOptionalRun, lax>>,
         \/ tries' = Front(tries) /\ ahead' = ahead
         \/ ~IsAtEnd /\ tries' = Moved(Front(tries)),
         nest' = nest - k, k <= 0 \/ k <= depth \/ Len(tries) = 1
  PROVE  IInv'
<1>1. /\ tries # <<>> /\ Len(work) = tries[Len(tries)].height
      /\ WorkOK(work) /\ Nested(tries, work) /\ tries \in Seq(Try)
      /\ work \in Seq(Symbol) /\ Types /\ errors = TRUE
  BY DEF IInv, Finished, Inner, WorkOK, Nested, Types
<1>2. nest \in Int /\ depth \in Nat /\ work' = work /\ errors' = TRUE
  BY <1>1 DEF Types
<1> DEFINE fs == Front(tries)
<1>3. /\ Keeps(fs, tries) /\ Len(fs) = Len(tries) - 1
      /\ \A i \in 1..Len(fs) : fs[i] = tries[i]
  BY <1>1, FrontKeeps
<1>4. fs \in Seq(Try)
  BY <1>3 DEF Keeps
<1> HIDE DEF fs
<1>5. tries' = fs \/ tries' = Moved(fs)
  BY DEF fs
<1>6. Keeps(tries', fs) /\ Len(tries') = Len(fs)
  <2>1. Keeps(fs, fs)
    BY <1>4, LenProperties DEF Keeps
  <2> QED BY <2>1, <1>4, <1>5, MovedKeeps
<1>7. Keeps(tries', tries) /\ Len(tries') = Len(tries) - 1
  BY <1>1, <1>3, <1>6, KeepsChain
<1>8. Nested(tries', work)
  <2>1. Len(tries') >= Len(tries) - 1 /\ tries' \in Seq(Try)
    <3>1. Len(tries') \in Nat
      BY <1>7, LenProperties DEF Keeps
    <3> QED BY <3>1, <1>7 DEF Keeps
  <2> QED BY <2>1, <1>1, <1>7, NestedFront
<1>9. Guarded(tries', work, ahead')
  <2>1. CASE tries' = fs /\ ahead' = ahead
    <3>1. \A i \in 1..Len(fs) : i \in 1..Len(tries)
      BY <1>3 DEF Keeps
    <3>2. Guarded(fs, work, ahead)
      BY <3>1, <1>3, GuardedKept DEF IInv
    <3> QED BY <3>2, <2>1
  <2>2. CASE ~IsAtEnd /\ tries' = Moved(fs)
    BY <2>2, <1>4, MovedKeeps, AllMoved
  <2> QED BY <2>1, <2>2 DEF fs
<1>10. ASSUME ~lax PROVE Balanced(work, tries', nest', nest', errors')
  <2>1. Balanced(work, tries, nest, nest - depth, errors)
    BY <1>10 DEF IInv, Skipped
  <2>2. CASE k <= 0 \/ k <= depth
    <3>1. nest - depth <= nest' /\ nest - depth \in Int
      BY <2>2, <1>2
    <3>2. errors' = FALSE => errors = FALSE /\ nest' = nest
      BY <1>2
    <3> QED BY <3>1, <3>2, <2>1, <1>1, <1>7, BalancedKeeps
  <2>3. CASE Len(tries) = 1
    <3>1. tries' = <<>>
      <4>1. Len(tries') = 0
        BY <2>3, <1>7
      <4> QED BY <4>1, <1>7, EmptySeq DEF Keeps
    <3> QED BY <3>1, <2>1, <1>2, BalancedAlone
  <2> QED BY <2>2, <2>3
<1>11. Types' /\ nest' - Skipped' = nest'
  BY <1>1 DEF Types, Skipped
<1>12. ~lax' => Balanced(work', tries', nest', nest' - Skipped', errors')
  BY <1>2, <1>10, <1>11
<1> QED BY <1>1, <1>2, <1>8, <1>9, <1>11, <1>12 DEF IInv

LEMMA SkipStep ==
  ASSUME IInv, mode = "sync", ~IsAtEnd, ~(depth = 0 /\ La \in ResyncAt),
         advance, depth' = NewDepth, tries' = Moved(tries),
         UNCHANGED <<left, work, mode, errors, runBlock, moduleOptionalRun,
                     lax>>
  PROVE  IInv'
<1>1. /\ tries # <<>> /\ Len(work) = tries[Len(tries)].height
      /\ WorkOK(work) /\ Nested(tries, work) /\ tries \in Seq(Try)
      /\ work \in Seq(Symbol) /\ Types /\ errors = TRUE
  BY DEF IInv, Finished, Inner, WorkOK, Nested, Types
<1>2. nest \in Int /\ depth \in Nat /\ ahead \in Seq(Token)
  BY <1>1 DEF Types
<1>3. /\ ahead' \in Seq(Token) /\ nest' \in Int
      /\ nest' = nest - (IF La = "lbrace" THEN -1
                        ELSE IF La = "rbrace" THEN 1 ELSE 0)
  BY <1>2, AdvanceFacts
<1>4. depth' \in Nat /\ nest' - depth' = nest - depth
  <2>1. La = "rbrace" => depth # 0
    BY DEF ResyncAt
  <2> QED BY <2>1, <1>2, <1>3 DEF NewDepth
<1>5. Keeps(tries', tries) /\ Len(tries') = Len(tries)
  BY <1>1, MovedKeeps
<1>6. Nested(tries', work)
  BY <1>1, <1>5, NestedSame
<1>7. Guarded(tries', work, ahead')
  BY <1>1, MovedKeeps, AllMoved
<1>8. Finished'
  <2>1. tries' # <<>> /\ tries'[Len(tries')].height = tries[Len(tries)].height
    <3>1. Len(tries) \in Nat \ {0}
      BY <1>1, EmptySeq
    <3>2. Len(tries') \in 1..Len(tries') /\ Len(tries') # 0
      BY <3>1, <1>5
    <3>3. tries' # <<>>
      BY <3>2, EmptySeq
    <3> QED BY <3>2, <3>3, <1>5 DEF Keeps
  <2> QED BY <2>1, <1>1 DEF Finished, Inner
<1>9. ASSUME ~lax
      PROVE  Balanced(work, tries', nest', nest - depth, errors')
  <2>1. Balanced(work, tries, nest, nest - depth, errors)
    BY <1>9 DEF IInv, Skipped
  <2>2. nest - depth <= nest - depth /\ nest - depth \in Int
    BY <1>2
  <2>3. errors' = FALSE => errors = FALSE /\ nest' = nest
    BY <1>1
  <2> QED BY <2>1, <2>2, <2>3, <1>1, <1>5, BalancedKeeps
<1>10. Types' /\ nest' - Skipped' = nest - depth
  BY <1>1, <1>3, <1>4 DEF Types, Skipped
<1>11. ~lax' => Balanced(work', tries', nest', nest' - Skipped', errors')
  BY <1>9, <1>10
<1> QED BY <1>1, <1>6, <1>7, <1>8, <1>10, <1>11 DEF IInv

LEMMA SyncStep ==
  ASSUME IInv, synchronize
  PROVE  IInv'
<1>1. mode = "sync" /\ Types /\ nest \in Int /\ depth \in Nat
  BY DEF synchronize, IInv, Types
<1>2. UNCHANGED <<left, work, errors, runBlock, moduleOptionalRun, lax>>
  BY DEF synchronize
<1>3. ASSUME advance
      PROVE  /\ ahead' \in Seq(Token) /\ nest' \in Int
             /\ nest' = nest - (IF La = "lbrace" THEN -1
                               ELSE IF La = "rbrace" THEN 1 ELSE 0)
  BY <1>1, <1>3, AdvanceFacts DEF Types
<1>4. CASE (IsAtEnd \/ (depth = 0 /\ La \in ResyncAt)) /\ Stuck
  <2>1. /\ advance /\ tries' = Moved(Front(tries)) /\ mode' = "parse"
        /\ depth' = depth /\ ~IsAtEnd /\ La \in ResyncAt
    BY <1>4 DEF synchronize, Stuck
  <2>2. La # "lbrace"
    BY <2>1 DEF ResyncAt
  <2>3. CASE La = "rbrace"
    <3>1. Len(tries) = 1 /\ nest' = nest - 1
      BY <2>1, <2>3, <1>1, <1>3, <1>4, StuckAtBrace
    <3> QED BY <3>1, <2>1, <1>1, <1>2, <1>3, LeaveTry
  <2>4. CASE La # "rbrace"
    <3>1. nest' = nest - 0
      BY <2>1, <2>2, <2>4, <1>3
    <3> QED BY <3>1, <2>1, <1>1, <1>2, <1>3, LeaveTry
  <2> QED BY <2>3, <2>4
<1>5. CASE (IsAtEnd \/ (depth = 0 /\ La \in ResyncAt)) /\ ~Stuck
  <2>1. /\ ahead' = ahead /\ nest' = nest /\ tries' = Front(tries)
        /\ mode' = "parse" /\ depth' = depth
    BY <1>5 DEF synchronize
  <2>2. nest' = nest - 0 /\ ahead' \in Seq(Token) /\ nest' \in Int
    BY <2>1, <1>1 DEF Types
  <2> QED BY <2>1, <2>2, <1>1, <1>2, LeaveTry
<1>6. CASE ~(IsAtEnd \/ (depth = 0 /\ La \in ResyncAt))
  <2>1. /\ advance /\ depth' = NewDepth /\ ~IsAtEnd
        /\ IF La = "semi" /\ depth = 0
           THEN /\ tries' = Moved(Front(tries))
                /\ mode' = "parse"
           ELSE tries' = Moved(tries) /\ UNCHANGED mode
    BY <1>6 DEF synchronize
  <2>2. CASE La = "semi" /\ depth = 0
    <3>1. nest' = nest - 0 /\ depth' \in Nat
      BY <2>1, <2>2, <1>1, <1>3 DEF NewDepth
    <3> QED BY <3>1, <2>1, <2>2, <1>1, <1>2, <1>3, LeaveTry
  <2>3. CASE ~(La = "semi" /\ depth = 0)
    BY <2>1, <2>3, <1>1, <1>2, <1>6, SkipStep
  <2> QED BY <2>2, <2>3
<1> QED BY <1>4, <1>5, <1>6

LEMMA ParseStep ==
  ASSUME IInv, Next
  PROVE  IInv'
BY ScanStep, ConsumeStep, CallStep, LoopStep, DoneStep, SyncStep, EndStep
DEF Next

-----------------------------------------------------------------------------
(***************************************************************************)
(* The compiler runs the parser, and other passes note errors too.         *)
(***************************************************************************)
LEMMA LexErrors ==
  ASSUME L!Next
  PROVE  errors' = errors \/ errors' = TRUE \/ errors' = (errors \/ FALSE)
<1> USE DEF L!In, L!Go, L!Lexeme, L!Report, L!Advance, L!Emit, L!Error,
            L!Skipped, L!Quiet
<1>1. CASE L!Look
  BY <1>1 DEF L!Look
<1>2. CASE L!scanToken
  BY <1>2 DEF L!scanToken
<1>3. CASE L!skipWhitespaces \/ L!scanIdentifierOrKeyword \/ L!tokanizeEnds
  BY <1>3 DEF L!skipWhitespaces, L!scanIdentifierOrKeyword, L!tokanizeEnds
<1>4. CASE L!scanNumber
  BY <1>4 DEF L!scanNumber
<1>5. CASE \E p \in DOMAIN L!BaseDigits : L!scanBase(p)
  BY <1>5 DEF L!scanBase
<1>6. CASE L!scanCharLit
  BY <1>6 DEF L!scanCharLit, L!CharRest
<1>7. CASE L!scanStringLit
  BY <1>7 DEF L!scanStringLit, L!StringBody
<1>8. CASE L!BlockComment \/ L!LineComment
  BY <1>8 DEF L!BlockComment, L!LineComment
<1> QED BY <1>1, <1>2, <1>3, <1>4, <1>5, <1>6, <1>7, <1>8 DEF L!Next

LEMMA DriverParses ==
  ASSUME errors \in BOOLEAN, [DriverNext]_driverVars
  PROVE  \/ Next
         \/ /\ UNCHANGED parserVars /\ errors' \in BOOLEAN
            /\ errors => errors'
<1>1. CASE Lex
  <2>1. UNCHANGED parserVars
    BY <1>1 DEF Lex
  <2>2. errors' \in BOOLEAN /\ (errors => errors')
    BY <1>1, LexErrors DEF Lex
  <2> QED BY <2>1, <2>2
<1>2. CASE Analyze
  <2>1. UNCHANGED parserVars
    BY <1>2 DEF Analyze
  <2>2. errors' \in BOOLEAN /\ (errors => errors')
    BY <1>2 DEF Analyze
  <2> QED BY <2>1, <2>2
<1>3. CASE Parse
  BY <1>3 DEF Parse
<1>4. CASE ResolveImports
  BY <1>4 DEF ResolveImports
<1>5. ASSUME ~Lex, ~Analyze, ~Parse, ~ResolveImports
      PROVE  UNCHANGED parserVars /\ errors' = errors
  BY <1>5 DEF DriverNext, driverVars, vars, parserVars, Open, SyntaxChecked,
              SyntaxAborted, Generate, CompileIR, Link, Run, RunBinary
<1> QED BY <1>1, <1>2, <1>3, <1>4, <1>5

LEMMA OtherStep ==
  ASSUME IInv, UNCHANGED parserVars, errors' \in BOOLEAN, errors => errors'
  PROVE  IInv'
<1>1. /\ left' = left /\ ahead' = ahead /\ work' = work /\ tries' = tries
      /\ mode' = mode /\ depth' = depth /\ runBlock' = runBlock
      /\ moduleOptionalRun' = moduleOptionalRun /\ nest' = nest /\ lax' = lax
  BY DEF parserVars
<1>2. /\ Nested(tries, work) /\ Types /\ work \in Seq(Symbol)
      /\ tries \in Seq(Try)
  BY DEF IInv, WorkOK, Nested
<1>3. Types' /\ nest' - Skipped' = nest - Skipped /\ nest - Skipped \in Int
  BY <1>1, <1>2 DEF Types, Skipped
<1>4. ASSUME ~lax
      PROVE  Balanced(work, tries, nest, nest - Skipped, errors')
  <2>1. Balanced(work, tries, nest, nest - Skipped, errors)
    BY <1>4 DEF IInv
  <2>2. nest - Skipped <= nest - Skipped
    BY <1>3
  <2>3. errors' = FALSE => errors = FALSE /\ nest = nest
    BY <1>2 DEF Types
  <2>4. Keeps(tries, tries)
    BY <1>2, LenProperties DEF Keeps
  <2> QED BY <2>1, <2>2, <2>3, <2>4, <1>2, <1>3, BalancedKeeps
<1>5. ~lax' => Balanced(work', tries', nest', nest' - Skipped', errors')
  BY <1>1, <1>3, <1>4
<1>6. Finished => Finished'
  BY <1>1 DEF Finished, Inner
<1> QED BY <1>1, <1>3, <1>5, <1>6 DEF IInv

LEMMA ParserStarts ==
  ASSUME Init
  PROVE  IInv
<1> DEFINE w == <<"Prologues", "Globals", "End">>
           t == [height |-> 2, guard |-> FALSE, moved |-> FALSE, nest |-> 0]
<1>1. Types
  <2>1. /\ left = MaxTokens /\ ahead \in Starts /\ mode = "parse" /\ depth = 0
        /\ errors = FALSE /\ runBlock = FALSE /\ moduleOptionalRun = FALSE
        /\ nest = 0 /\ lax = FALSE
    BY DEF Init
  <2>2. ahead \in Seq(Token)
    BY <2>1, ParserAssumption
  <2>3. left \in 0..MaxTokens
    BY <2>1, ParserAssumption
  <2>4. /\ mode \in {"parse", "sync", "done", "aborted"}
        /\ depth \in Nat /\ nest \in Int
    BY <2>1
  <2>5. /\ errors \in BOOLEAN /\ runBlock \in BOOLEAN
        /\ moduleOptionalRun \in BOOLEAN /\ lax \in BOOLEAN
    BY <2>1
  <2> HIDE DEF w, t
  <2> QED BY <2>2, <2>3, <2>4, <2>5 DEF Types
<1>2. work = w /\ tries = <<t>> /\ nest = 0 /\ mode = "parse"
  BY DEF Init
<1>3. w \in Seq(Symbol)
  BY Names DEF Plain, Function, PrologueFn
<1>4. /\ Len(w) = 3 /\ At(w, 1) = "End" /\ At(w, 2) = "Globals"
      /\ At(w, 3) = "Prologues" /\ w # <<>>
  BY DEF At
<1>5. t \in Try /\ <<t>> \in Seq(Try) /\ Len(<<t>>) = 1 /\ <<t>>[1] = t
  BY DEF Try
<1>6. t.height = 2 /\ t.nest = 0 /\ t.guard = FALSE
  OBVIOUS
<1> HIDE DEF w, t
<1>7. WorkOK(w)
  <2>1. \A n \in 3..3 : n = 3
    OBVIOUS
  <2> QED BY <2>1, <1>3, <1>4 DEF WorkOK
<1>8. /\ Nested(<<t>>, w) /\ Guarded(<<t>>, w, ahead)
  <2>1. \A i \in 1..1 : i = 1
    OBVIOUS
  <2>2. <<t>> # <<>>
    OBVIOUS
  <2>3. Nested(<<t>>, w)
    BY <2>1, <2>2, <1>4, <1>5, <1>6 DEF Nested
  <2>4. Guarded(<<t>>, w, ahead)
    BY <2>1, <1>5, <1>6 DEF Guarded
  <2> QED BY <2>3, <2>4
<1>9. Balanced(w, <<t>>, 0, 0, errors)
  <2> DEFINE lev == [n \in 0..3 |-> 0]
  <2>1. \A n \in 0..3 : lev[n] = 0
    OBVIOUS
  <2>2. lev \in [0..3 -> Int]
    OBVIOUS
  <2>3. \A n \in 1..3 : Delta(At(w, n)) = 0
    <3>1. \A n \in 1..3 : n = 1 \/ n = 2 \/ n = 3
      OBVIOUS
    <3> QED BY <3>1, <1>4 DEF Delta
  <2> HIDE DEF lev
  <2>4. Levels(w, lev)
    <3>1. \A n \in 1..3 : n \in 0..3 /\ n - 1 \in 0..3
      OBVIOUS
    <3> QED BY <3>1, <2>1, <2>2, <2>3, <1>4 DEF Levels
  <2>5. Held(t, lev, 3, 0)
    <3>1. \A j \in 2..3 : j \in 0..3
      OBVIOUS
    <3> QED BY <3>1, <2>1, <1>6 DEF Held
  <2>6. \A i \in 1..Len(<<t>>) : Held(<<t>>[i], lev, Len(w), 0)
    <3>1. \A i \in 1..1 : i = 1
      OBVIOUS
    <3> QED BY <3>1, <2>5, <1>4, <1>5
  <2>7. errors = FALSE => 0 = lev[Len(w)]
    BY <2>1, <1>4
  <2> QED BY <2>4, <2>6, <2>7 DEF Balanced
<1>10. nest - Skipped = 0
  BY <1>2 DEF Skipped
<1> QED BY <1>1, <1>2, <1>7, <1>8, <1>9, <1>10 DEF IInv

\* Every step of the parser, and of the driver around it, keeps the nesting of
\* the try blocks and the account of the open braces.
THEOREM ParserInvariant == DriverSpec => []IInv
<1>1. DriverInit => IInv
  BY ParserStarts DEF DriverInit
<1>2. ASSUME IInv, [DriverNext]_driverVars PROVE IInv'
  <2>1. errors \in BOOLEAN
    BY <1>2 DEF IInv, Types
  <2>2. CASE Next
    BY <2>2, <1>2, ParseStep
  <2>3. CASE UNCHANGED parserVars /\ errors' \in BOOLEAN /\ (errors => errors')
    BY <2>3, <1>2, OtherStep
  <2> QED BY <2>1, <2>2, <2>3, <1>2, DriverParses
<1> QED BY <1>1, <1>2, PTL DEF DriverSpec

\* The try blocks lie one in the other, and while the program is parsed one is
\* there to catch whatever fails: its work is what is left.
THEOREM TriesNested == DriverSpec => []TypeOK
<1>1. ASSUME IInv PROVE TypeOK
  <2>1. work \in Seq(Symbol) /\ work # <<>> /\ tries \in Seq(Try)
    BY <1>1 DEF IInv, WorkOK, Nested
  <2>2. DOMAIN tries = 1..Len(tries)
    BY <2>1, LenProperties
  <2>3. /\ \A i, j \in DOMAIN tries : i < j => tries[i].height < tries[j].height
        /\ \A i \in DOMAIN tries : tries[i].height <= Len(work)
    BY <2>2, <1>1 DEF IInv, Nested
  <2>4. mode = "sync" => tries # <<>> /\ Finished
    BY <1>1 DEF IInv, Finished
  <2> QED BY <2>1, <2>3, <2>4, <1>1 DEF IInv, Types, TypeOK
<1> QED BY <1>1, ParserInvariant, PTL

\* A file of any length that is parsed without an error has as many closing
\* as opening braces.
THEOREM AcceptedBalanced == DriverSpec => []AcceptedIsBalanced
<1>1. ASSUME IInv, mode = "done", ~errors, ~lax PROVE nest = 0
  <2>1. /\ Len(work) = 1 /\ At(work, 1) = "End" /\ work \in Seq(Symbol)
        /\ errors = FALSE
    BY <1>1 DEF IInv, WorkOK, Types
  <2>2. PICK lev : Levels(work, lev) /\ nest = lev[Len(work)]
    BY <2>1, <1>1 DEF IInv, Balanced
  <2>3. lev[1] = lev[0] + Delta("End") /\ lev[0] = 0
    <3>1. \A n \in 1..Len(work) : lev[n] = lev[n - 1] + Delta(At(work, n))
      BY <2>2 DEF Levels
    <3>2. 1 \in 1..1 /\ 1 - 1 = 0
      OBVIOUS
    <3>3. lev[1] = lev[0] + Delta(At(work, 1))
      BY <3>1, <3>2, <2>1
    <3> QED BY <3>3, <2>1, <2>2 DEF Levels
  <2>4. Delta("End") = 0
    BY DEF Delta
  <2> QED BY <2>1, <2>2, <2>3, <2>4
<1>2. IInv => AcceptedIsBalanced
  BY <1>1 DEF AcceptedIsBalanced
<1> QED BY <1>2, ParserInvariant, PTL

\* No recovery closes a brace that was open when the block began in which it
\* recovers.
THEOREM RecoveryInside == DriverSpec => []RecoveryStaysInside
<1>1. ASSUME IInv, ~lax, NEW i \in DOMAIN tries PROVE tries[i].nest <= nest
  <2>1. /\ work \in Seq(Symbol) /\ tries \in Seq(Try) /\ Types
        /\ Nested(tries, work)
    BY <1>1 DEF IInv, WorkOK, Nested
  <2>2. i \in 1..Len(tries)
    BY <2>1, LenProperties
  <2>3. PICK lev : /\ Levels(work, lev)
                   /\ Held(tries[i], lev, Len(work), nest - Skipped)
    BY <1>1, <2>2 DEF IInv, Balanced
  <2>4. /\ tries[i] \in Try /\ tries[i].height \in 2..Len(work)
        /\ Len(work) \in Nat
    BY <2>1, <2>2, Heights
  <2>5. /\ tries[i].nest \in Int /\ lev[Len(work)] \in Int
        /\ lev[tries[i].height] \in Int
    <3>1. \A n \in 0..Len(work) : lev[n] \in Int
      BY <2>1, <2>3, LevelFacts
    <3>2. Len(work) \in 0..Len(work) /\ 2..Len(work) \subseteq 0..Len(work)
      BY <2>4
    <3> QED BY <3>1, <3>2, <2>4 DEF Try
  <2>6. lev[tries[i].height] <= lev[Len(work)]
    <3>1. \A h \in 2..Len(work) : Len(work) \in h..Len(work)
      BY <2>4
    <3> QED BY <3>1, <2>3, <2>4 DEF Held
  <2>7. tries[i].nest + lev[Len(work)] - lev[tries[i].height] <= nest - Skipped
    BY <2>3 DEF Held
  <2>8. nest \in Int /\ Skipped \in Nat
    BY <2>1 DEF Types, Skipped
  <2>9. ASSUME NEW a \in Int, NEW b \in Int, NEW c \in Int, NEW n \in Int,
               NEW k \in Nat, c <= b, a + b - c <= n - k
        PROVE  a <= n
    BY <2>9
  <2> QED BY <2>5, <2>6, <2>7, <2>8, <2>9
<1>2. IInv => RecoveryStaysInside
  BY <1>1 DEF RecoveryStaysInside
<1> QED BY <1>2, ParserInvariant, PTL

=============================================================================
