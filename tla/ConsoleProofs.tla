---------------------------- MODULE ConsoleProofs ----------------------------
(***************************************************************************)
(* Proofs about the output of the program that bery run starts (Console),  *)
(* for a buffer of any size and strings of any length.                     *)
(***************************************************************************)
EXTENDS CompileDriver, SequenceTheorems, TLAPS

ByteSeq == Seq(Nat)

\* The properties, with the types their induction needs; what is due has been
\* printed, so that a flush that empties the buffer shows it.
CInv ==
  /\ outputBuffer \in ByteSeq /\ text \in ByteSeq /\ shown \in ByteSeq
  /\ printed \in Nat /\ due \in 0..printed
  /\ PrintedInOrder
  /\ FlushPoints

-----------------------------------------------------------------------------
\* Bytes(m, n) lists the numbers from m to n.
LEMMA BytesSeq ==
  ASSUME NEW m \in Nat, NEW n \in Nat, n + 1 >= m
  PROVE  /\ C!Bytes(m, n) \in ByteSeq
         /\ Len(C!Bytes(m, n)) = n - m + 1
         /\ \A k \in 1..(n - m + 1) : C!Bytes(m, n)[k] = m + k - 1
<1>1. n - m + 1 \in Nat
  OBVIOUS
<1>2. \A k \in 1..(n - m + 1) : m + k - 1 \in Nat
  OBVIOUS
<1>3. C!Bytes(m, n) \in [1..(n - m + 1) -> Nat]
  BY <1>2 DEF C!Bytes
<1>4. C!Bytes(m, n) \in ByteSeq
  BY <1>1, <1>3 DEF ByteSeq
<1> QED BY <1>1, <1>3, <1>4 DEF C!Bytes, ByteSeq

\* Printing n more bytes prolongs the list.
LEMMA BytesExtend ==
  ASSUME NEW m \in Nat, NEW n \in Nat
  PROVE  C!Bytes(1, m) \o C!Bytes(m + 1, m + n) = C!Bytes(1, m + n)
<1> DEFINE s == C!Bytes(1, m)
           t == C!Bytes(m + 1, m + n)
           u == C!Bytes(1, m + n)
<1>1. s \in Seq(Nat) /\ Len(s) = m /\ \A k \in 1..m : s[k] = k
  <2>1. 0 \in Nat /\ 1 \in Nat /\ m + 1 >= 1 /\ m - 1 + 1 = m
    OBVIOUS
  <2>2. /\ s \in ByteSeq /\ Len(s) = m - 1 + 1
        /\ \A k \in 1..(m - 1 + 1) : s[k] = 1 + k - 1
    BY <2>1, BytesSeq
  <2> QED BY <2>1, <2>2 DEF ByteSeq
<1>2. /\ t \in Seq(Nat) /\ Len(t) = n
      /\ \A k \in 1..n : t[k] = m + k
  <2>1. /\ m + 1 \in Nat /\ m + n \in Nat /\ (m + n) + 1 >= m + 1
        /\ (m + n) - (m + 1) + 1 = n
    OBVIOUS
  <2>2. /\ t \in ByteSeq /\ Len(t) = (m + n) - (m + 1) + 1
        /\ \A k \in 1..((m + n) - (m + 1) + 1) : t[k] = (m + 1) + k - 1
    BY <2>1, BytesSeq
  <2> QED BY <2>1, <2>2 DEF ByteSeq
<1>3. /\ u \in Seq(Nat) /\ Len(u) = m + n
      /\ \A k \in 1..(m + n) : u[k] = k
  <2>1. /\ 1 \in Nat /\ m + n \in Nat /\ (m + n) + 1 >= 1
        /\ (m + n) - 1 + 1 = m + n
    OBVIOUS
  <2>2. /\ u \in ByteSeq /\ Len(u) = (m + n) - 1 + 1
        /\ \A k \in 1..((m + n) - 1 + 1) : u[k] = 1 + k - 1
    BY <2>1, BytesSeq
  <2> QED BY <2>1, <2>2 DEF ByteSeq
<1> HIDE DEF s, t, u
<1>4. /\ s \o t \in Seq(Nat) /\ Len(s \o t) = m + n
      /\ \A k \in 1..(m + n) :
           (s \o t)[k] = IF k <= m THEN s[k] ELSE t[k - m]
  BY <1>1, <1>2, ConcatProperties
<1> DEFINE w == s \o t
<1> HIDE DEF w
<1>5. \A k \in 1..(m + n) : w[k] = u[k]
  <2> TAKE k \in 1..(m + n)
  <2>1. w[k] = IF k <= m THEN s[k] ELSE t[k - m]
    BY <1>4 DEF w
  <2>2. CASE k <= m
    <3>1. k \in 1..m
      BY <2>2
    <3> QED BY <3>1, <2>1, <2>2, <1>1, <1>3
  <2>3. CASE ~(k <= m)
    <3>1. k - m \in 1..n /\ m + (k - m) = k
      BY <2>3
    <3>2. t[k - m] = k
      BY <3>1, <1>2
    <3> QED BY <3>2, <2>1, <2>3, <1>3
  <2> QED BY <2>2, <2>3
<1>6. s \o t = u
  BY <1>3, <1>4, <1>5, SeqEqual DEF w
<1> QED BY <1>6 DEF s, t, u

LEMMA ConcatBytes ==
  \A s, t, u \in ByteSeq : (s \o t) \o u = s \o (t \o u)
<1> TAKE s, t, u \in ByteSeq
<1>1. s \in Seq(Nat) /\ t \in Seq(Nat) /\ u \in Seq(Nat)
  BY DEF ByteSeq
<1> QED BY <1>1, ConcatAssociative, SMTT(20)

\* Moving the first bytes of a string to the end of the buffer, and the buffer
\* to the end of what was shown, keeps the order.
LEMMA MoveKeepsOrder ==
  \A s, b, t \in ByteSeq : \A k \in 0..Len(t) :
    /\ SubSeq(t, k + 1, Len(t)) \in ByteSeq
    /\ b \o SubSeq(t, 1, k) \in ByteSeq
    /\ Len(b \o SubSeq(t, 1, k)) = Len(b) + k
    /\ (s \o (b \o SubSeq(t, 1, k))) \o SubSeq(t, k + 1, Len(t))
         = (s \o b) \o t
<1> TAKE s, b, t \in ByteSeq
<1> TAKE k \in 0..Len(t)
<1> DEFINE c == SubSeq(t, 1, k)
           r == SubSeq(t, k + 1, Len(t))
<1> USE DEF ByteSeq
<1>1. Len(t) \in Nat /\ \A i \in 1..Len(t) : t[i] \in Nat
  OBVIOUS
<1>2. c \in Seq(Nat) /\ Len(c) = k
  BY <1>1, SubSeqProperties, \A i \in 1..k : t[i] \in Nat
<1>3. r \in Seq(Nat)
  BY <1>1, SubSeqProperties, \A i \in (k + 1)..Len(t) : t[i] \in Nat
<1>4. c \o r = t
  <2>1. SubSeq(t, 1, k) \o SubSeq(t, k + 1, Len(t)) = SubSeq(t, 1, Len(t))
    <3>1. 1 \in 1..(Len(t) + 1) /\ k \in (1 - 1)..Len(t)
          /\ Len(t) \in k..Len(t) /\ t \in Seq(Nat)
      BY <1>1
    <3> QED BY <3>1, ConcatAdjacentSubSeq, Zenon
  <2> QED BY <2>1, SubSeqFull
<1> HIDE DEF c, r
<1>5. b \o c \in Seq(Nat) /\ Len(b \o c) = Len(b) + k
  BY <1>2, ConcatProperties
<1>6. s \o (b \o c) = (s \o b) \o c
  BY <1>2, ConcatBytes, Zenon
<1>7. s \o b \in Seq(Nat)
  BY ConcatProperties
<1>8. ((s \o b) \o c) \o r = (s \o b) \o (c \o r)
  BY <1>2, <1>3, <1>7, ConcatBytes, Zenon
<1> QED BY <1>2, <1>3, <1>4, <1>5, <1>6, <1>8 DEF c, r

-----------------------------------------------------------------------------
LEMMA InitCInv == C!Init => CInv
<1> SUFFICES ASSUME C!Init PROVE CInv
  OBVIOUS
<1>1. C!Bytes(1, 0) = << >>
  BY BytesSeq, EmptySeq DEF ByteSeq
<1>2. << >> \o << >> \o << >> = << >>
  BY EmptySeq, ConcatEmptySeq
<1> QED BY <1>1, <1>2, EmptySeq, DriverAssumption
        DEF C!Init, CInv, ByteSeq, PrintedInOrder, FlushPoints,
            C!PrintedInOrder, C!FlushPoints

\* The program prints n bytes.
LEMMA WriteCInv ==
  ASSUME CInv, NEW n \in Nat, NEW to, C!Write(n, to),
         text = << >>, after = "statement"
  PROVE  CInv'
<1> USE DEF CInv
<1>1. printed' = printed + n /\ printed' \in Nat /\ due' \in 0..printed'
  BY DEF C!Write
<1>2. text' = C!Bytes(printed + 1, printed + n) /\ text' \in ByteSeq
  BY BytesSeq DEF C!Write
<1>3. UNCHANGED <<outputBuffer, outputPos, shown>>
  BY DEF C!Write
<1>4. shown \o outputBuffer \in ByteSeq
  BY ConcatProperties DEF ByteSeq
<1>5. shown \o outputBuffer = C!Bytes(1, printed)
  BY <1>4, ConcatEmptySeq DEF PrintedInOrder, C!PrintedInOrder, ByteSeq
<1>6. PrintedInOrder'
  BY <1>1, <1>2, <1>3, <1>5, BytesExtend
     DEF PrintedInOrder, C!PrintedInOrder
<1>7. FlushPoints'
  BY <1>3 DEF FlushPoints, C!FlushPoints, C!Write
<1> QED BY <1>1, <1>2, <1>3, <1>6, <1>7

\* A turn of bufferWrite's loop.
LEMMA BufferWriteCInv ==
  ASSUME CInv, C!bufferWrite
  PROVE  CInv'
<1> DEFINE space == BufferSize - outputPos
           chunk == IF Len(text) < space THEN Len(text) ELSE space
           filled == outputBuffer \o SubSeq(text, 1, chunk)
<1> USE DEF CInv
<1>1. /\ outputPos = Len(outputBuffer) /\ outputPos < BufferSize
      /\ shown \o outputBuffer \o text = C!Bytes(1, printed)
  BY DEF PrintedInOrder, C!PrintedInOrder
<1>2. /\ Len(text) \in Nat \ {0} /\ outputPos \in Nat /\ BufferSize \in Nat
      /\ Len(shown) \in Nat
  BY <1>1, EmptySeq, DriverAssumption DEF C!bufferWrite, ByteSeq
<1>3. chunk \in 1..Len(text) /\ outputPos + chunk <= BufferSize
  BY <1>1, <1>2
<1>4. UNCHANGED <<after, printed, due>>
  BY DEF C!bufferWrite
<1>5. /\ text' = SubSeq(text, chunk + 1, Len(text))
      /\ IF outputPos + chunk = BufferSize
         THEN C!Flush(filled, BufferSize)
         ELSE /\ outputBuffer' = filled /\ outputPos' = outputPos + chunk
              /\ UNCHANGED shown
  BY DEF C!bufferWrite
<1> HIDE DEF chunk
<1>6. /\ filled \in ByteSeq /\ Len(filled) = outputPos + chunk
      /\ text' \in ByteSeq
      /\ (shown \o filled) \o text' = (shown \o outputBuffer) \o text
  <2>1. chunk \in 0..Len(text)
    BY <1>2, <1>3
  <2>2. /\ filled \in ByteSeq /\ Len(filled) = Len(outputBuffer) + chunk
        /\ SubSeq(text, chunk + 1, Len(text)) \in ByteSeq
        /\ (shown \o filled) \o SubSeq(text, chunk + 1, Len(text))
             = (shown \o outputBuffer) \o text
    <3>1. shown \in ByteSeq /\ outputBuffer \in ByteSeq /\ text \in ByteSeq
      OBVIOUS
    <3>2. \A k \in 0..Len(text) :
            /\ SubSeq(text, k + 1, Len(text)) \in ByteSeq
            /\ outputBuffer \o SubSeq(text, 1, k) \in ByteSeq
            /\ Len(outputBuffer \o SubSeq(text, 1, k)) = Len(outputBuffer) + k
            /\ (shown \o (outputBuffer \o SubSeq(text, 1, k)))
                 \o SubSeq(text, k + 1, Len(text))
                 = (shown \o outputBuffer) \o text
      BY <3>1, MoveKeepsOrder, ZenonT(40)
    <3> QED BY <2>1, <3>2
  <2> QED BY <1>1, <1>5, <2>2
<1> HIDE DEF filled
<1>7. CASE outputPos + chunk = BufferSize
  <2>1. SubSeq(filled, 1, BufferSize) = filled
    BY <1>6, <1>7, SubSeqFull DEF ByteSeq
  <2>2. shown' = shown \o filled /\ outputBuffer' = << >> /\ outputPos' = 0
    BY <1>5, <1>7, <2>1 DEF C!Flush
  <2>3. shown' \in ByteSeq /\ Len(shown') = Len(shown) + Len(filled)
    BY <1>6, <2>2, ConcatProperties DEF ByteSeq
  <2>4. shown' \o outputBuffer' = shown'
    BY <2>2, <2>3, ConcatEmptySeq DEF ByteSeq
  <2>5. Len(outputBuffer') = 0 /\ outputBuffer' \in ByteSeq
    BY <2>2, EmptySeq DEF ByteSeq
  <2>6. PrintedInOrder'
    BY <1>1, <1>2, <1>4, <1>6, <2>2, <2>4, <2>5, DriverAssumption
       DEF PrintedInOrder, C!PrintedInOrder
  <2>7. FlushPoints'
    BY <1>2, <1>4, <1>6, <1>7, <2>3 DEF FlushPoints, C!FlushPoints
  <2> QED BY <1>4, <1>6, <2>3, <2>5, <2>6, <2>7
<1>8. CASE outputPos + chunk # BufferSize
  <2>1. /\ outputBuffer' = filled /\ outputPos' = outputPos + chunk
        /\ shown' = shown
    BY <1>5, <1>8
  <2>2. outputPos' < BufferSize
    BY <1>2, <1>3, <1>8, <2>1
  <2>3. PrintedInOrder'
    BY <1>1, <1>4, <1>6, <2>1, <2>2 DEF PrintedInOrder, C!PrintedInOrder
  <2>4. FlushPoints'
    BY <1>4, <2>1 DEF FlushPoints, C!FlushPoints
  <2> QED BY <1>4, <1>6, <2>1, <2>3, <2>4
<1> QED BY <1>7, <1>8

\* The flush that follows a println, a prompt, an exit or the run block.
LEMMA FlushAfterCInv ==
  ASSUME CInv, C!flushAfter
  PROVE  CInv'
<1> USE DEF CInv
<1>1. /\ outputPos = Len(outputBuffer) /\ text = << >> /\ BufferSize > 0
      /\ BufferSize \in Nat
      /\ shown \o outputBuffer \o text = C!Bytes(1, printed)
  BY DriverAssumption DEF PrintedInOrder, C!PrintedInOrder, C!flushAfter
<1>2. UNCHANGED <<text, printed, due>>
  BY DEF C!flushAfter
<1>3. SubSeq(outputBuffer, 1, outputPos) = outputBuffer
  BY <1>1, SubSeqFull DEF ByteSeq
<1>4. /\ shown' = shown \o outputBuffer
      /\ outputBuffer' = << >> /\ outputPos' = 0
  BY <1>3 DEF C!flushAfter, C!Flush
<1>5. shown' \in ByteSeq
  BY <1>4, ConcatProperties DEF ByteSeq
<1>6. Len(outputBuffer') = 0 /\ outputBuffer' \in ByteSeq
  BY <1>4, EmptySeq DEF ByteSeq
<1>7. shown' \o outputBuffer' = shown' /\ shown' \o text' = shown'
  BY <1>1, <1>2, <1>4, <1>5, ConcatEmptySeq DEF ByteSeq
<1>8. shown' = C!Bytes(1, printed)
  BY <1>1, <1>2, <1>4, <1>7
<1>9. PrintedInOrder'
  BY <1>1, <1>2, <1>4, <1>6, <1>7, <1>8
     DEF PrintedInOrder, C!PrintedInOrder
<1>10. Len(shown') = printed
  BY <1>8, BytesSeq
<1>11. FlushPoints'
  BY <1>2, <1>10 DEF FlushPoints, C!FlushPoints
<1> QED BY <1>2, <1>5, <1>6, <1>9, <1>11

LEMMA NextCInv ==
  ASSUME CInv, C!Next \/ UNCHANGED consoleVars
  PROVE  CInv'
<1>1. CASE C!PrintText
  <2>1. PICK n \in 1..MaxText : C!Write(n, "statement")
    BY <1>1 DEF C!PrintText
  <2> QED BY <1>1, <2>1, WriteCInv, DriverAssumption
          DEF C!PrintText, C!InProgram
<1>2. CASE C!Println
  BY <1>2, WriteCInv DEF C!Println, C!InProgram
<1>3. CASE UNCHANGED <<outputBuffer, outputPos, text, after, shown, printed,
                       due>>
  BY <1>3 DEF CInv, PrintedInOrder, C!PrintedInOrder, FlushPoints,
              C!FlushPoints
<1>4. CASE C!Input
  <2>1. CASE \E n \in 0..MaxText : C!Write(n, "prompt")
    <3>1. PICK n \in 0..MaxText : C!Write(n, "prompt")
      BY <2>1
    <3> QED BY <1>4, <3>1, WriteCInv, DriverAssumption
            DEF C!Input, C!InProgram
  <2> QED BY <1>3, <1>4, <2>1 DEF C!Input
<1>5. CASE C!Leave
  <2>1. PICK n \in Nat, to \in {"exit", "shutdown"} : C!Write(n, to)
    BY <1>5, DriverAssumption DEF C!Leave
  <2> QED BY <1>5, <2>1, WriteCInv DEF C!Leave, C!InProgram
<1>6. CASE C!Answer \/ C!ShutdownEnds \/ C!Crash \/ UNCHANGED consoleVars
  BY <1>3, <1>6 DEF C!Answer, C!ShutdownEnds, C!Crash, consoleVars
<1> QED BY <1>1, <1>2, <1>4, <1>5, <1>6, BufferWriteCInv, FlushAfterCInv
        DEF C!Next

-----------------------------------------------------------------------------
\* The driver starts the program, and no other stage touches its output.
LEMMA DriverConsole ==
  ASSUME [DriverNext]_driverVars
  PROVE  C!Next \/ UNCHANGED consoleVars
BY DEF DriverNext, driverVars, Open, Lex, Parse, SyntaxChecked,
       SyntaxAborted, ResolveImports, Analyze, Generate, CompileIR, Link, Run,
       RunBinary

THEOREM ConsoleInvariant == DriverSpec => []CInv
<1>1. DriverInit => CInv
  BY InitCInv DEF DriverInit
<1>2. CInv /\ [DriverNext]_driverVars => CInv'
  BY DriverConsole, NextCInv
<1> QED BY <1>1, <1>2, PTL DEF DriverSpec

\* Every byte printed is shown, buffered or on its way, in order.
THEOREM OutputKeepsOrder == DriverSpec => []PrintedInOrder
<1>1. CInv => PrintedInOrder
  BY DEF CInv
<1> QED BY <1>1, ConsoleInvariant, PTL

\* What was printed before a println, a prompt or an exit is shown.
THEOREM FlushedWhenDue == DriverSpec => []FlushPoints
<1>1. CInv => FlushPoints
  BY DEF CInv
<1> QED BY <1>1, ConsoleInvariant, PTL
=============================================================================
