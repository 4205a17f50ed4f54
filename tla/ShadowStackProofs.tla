------------------------- MODULE ShadowStackProofs -------------------------
(***************************************************************************)
(* Proofs about ShadowStack for any set of slots and any bounds.  What is  *)
(* on the root list above base(i), the length the list had when scope i    *)
(* was entered, and not above base(i + 1) is the segment of scope i: it    *)
(* holds at least the scope's own roots.  The invariant and the lemmas on  *)
(* how a step changes it are stated for any scopes sc and root list rs.    *)
(***************************************************************************)
EXTENDS ShadowStack, SequenceTheorems, FiniteSetTheorems, TLAPS

\* Where the segment of scope i ends.
End(sc, rs, i) == IF i = Len(sc) THEN Len(rs) ELSE sc[i + 1].base

Bases(sc, rs) ==
  /\ \A i \in 1..Len(sc) : sc[i].base <= Len(rs)
  /\ \A i, j \in 1..Len(sc) : i <= j => sc[i].base <= sc[j].base

Counted(sc, rs) ==
  \A i \in 1..Len(sc) :
    /\ sc[i].base + sc[i].roots <= End(sc, rs, i)
    /\ sc[sc[i].act].base + sc[i].sum <= End(sc, rs, i)

Holds(sc, rs) ==
  \A i \in 1..Len(sc) : \A s \in sc[i].vars :
    \E k \in (sc[i].base + 1)..End(sc, rs, i) : rs[k] = s

Segments(sc, rs) == Bases(sc, rs) /\ Counted(sc, rs) /\ Holds(sc, rs)

OnlyMain == \A i \in 1..Len(scopes) : scopes[i].kind = "main" <=> i = 1

IInv == TypeOK /\ OnlyMain /\ (~over => Segments(scopes, rootStack))

\* The scopes of sc are still open in sd; only their kinds may differ.
StillOpen(sc, sd) ==
  \A i \in 1..Len(sc) :
    /\ sd[i].base = sc[i].base /\ sd[i].act = sc[i].act
    /\ sd[i].roots = sc[i].roots /\ sd[i].sum = sc[i].sum
    /\ sd[i].vars = sc[i].vars

Typed(sc) ==
  /\ sc \in Seq(Scope) /\ sc # <<>>
  /\ \A i \in 1..Len(sc) : sc[i].act \in 1..i

-----------------------------------------------------------------------------
(***************************************************************************)
(* Lists.                                                                  *)
(***************************************************************************)

\* Keeping the first m elements of a list.
LEMMA PrefixProperties ==
  ASSUME NEW S, NEW q \in Seq(S), NEW m \in 0..Len(q)
  PROVE  /\ SubSeq(q, 1, m) \in Seq(S)
         /\ Len(SubSeq(q, 1, m)) = m
         /\ \A i \in 1..m : SubSeq(q, 1, m)[i] = q[i]
<1>1. CASE m = 0
  BY <1>1, SubSeqProperties
<1>2. CASE m # 0
  BY <1>2, SubSeqProperties
<1> QED BY <1>1, <1>2

\* What n pops leave of the root list.
LEMMA PopsProperties ==
  ASSUME rootStack \in Seq(Slot), NEW n \in Nat, EmitGCPops(n)
  PROVE  /\ rootStack' \in Seq(Slot)
         /\ Len(rootStack') = IF n < Len(rootStack) THEN Len(rootStack) - n
                                                    ELSE 0
         /\ \A k \in 1..Len(rootStack') : rootStack'[k] = rootStack[k]
<1> DEFINE m == IF n < Len(rootStack) THEN Len(rootStack) - n ELSE 0
<1>1. m \in 0..Len(rootStack)
  BY LenProperties
<1>2. rootStack' = SubSeq(rootStack, 1, m)
  BY DEF EmitGCPops
<1> HIDE DEF m
<1>3. /\ rootStack' \in Seq(Slot) /\ Len(rootStack') = m
      /\ \A k \in 1..m : rootStack'[k] = rootStack[k]
  BY <1>1, <1>2, PrefixProperties
<1> QED BY <1>3 DEF m

\* Appending to a list.
LEMMA AppendFacts ==
  ASSUME NEW S, NEW q \in Seq(S), NEW x \in S
  PROVE  /\ Append(q, x) \in Seq(S)
         /\ Len(Append(q, x)) = Len(q) + 1
         /\ \A i \in 1..Len(q) : Append(q, x)[i] = q[i]
         /\ Append(q, x)[Len(q) + 1] = x
BY AppendProperties

\* Room kept when the end of a segment moves up, and used by one more root.
LEMMA Room ==
  ASSUME NEW a \in Nat, NEW b \in Nat, NEW e \in Nat, a + b <= e
  PROVE  /\ a + (b + 1) <= e + 1
         /\ \A f \in Nat : e <= f => a + b <= f
OBVIOUS

LEMMA RoomFilled ==
  ASSUME NEW a \in Nat, NEW b \in Nat, NEW e \in Nat, a + b = e
  PROVE  a + (b + 1) = e + 1
OBVIOUS

\* The fields of the open scopes and the ends of their segments are numbers.
LEMMA Numbers ==
  ASSUME NEW sc, Typed(sc), NEW rs \in Seq(Slot)
  PROVE  /\ Len(sc) \in Nat \ {0} /\ Len(rs) \in Nat
         /\ \A i \in 1..Len(sc) :
              /\ sc[i] \in Scope
              /\ sc[i].base \in Nat /\ sc[i].roots \in Nat
              /\ sc[i].sum \in Nat /\ sc[i].act \in 1..i
              /\ sc[i].vars \in SUBSET Slot
              /\ End(sc, rs, i) \in Nat
<1>1. Len(sc) \in Nat \ {0} /\ Len(rs) \in Nat
  BY LenProperties, EmptySeq DEF Typed
<1>2. \A i \in 1..Len(sc) : sc[i] \in Scope
  BY ElementOfSeq DEF Typed
<1>3. \A i \in 1..Len(sc) :
        /\ sc[i].base \in Nat /\ sc[i].roots \in Nat /\ sc[i].sum \in Nat
        /\ sc[i].vars \in SUBSET Slot
  BY <1>2 DEF Scope
<1>4. \A i \in 1..Len(sc) : End(sc, rs, i) \in Nat
  <2> SUFFICES ASSUME NEW i \in 1..Len(sc) PROVE End(sc, rs, i) \in Nat
    OBVIOUS
  <2>1. CASE i = Len(sc)
    BY <2>1, <1>1 DEF End
  <2>2. CASE i # Len(sc)
    <3>1. i + 1 \in 1..Len(sc)
      BY <2>2, <1>1
    <3> QED BY <2>2, <3>1, <1>3 DEF End
  <2> QED BY <2>1, <2>2
<1> QED BY <1>1, <1>2, <1>3, <1>4 DEF Typed

-----------------------------------------------------------------------------
(***************************************************************************)
(* How the steps change the segments.                                      *)
(***************************************************************************)

\* A declaration pushes a root and counts it in the scope on top.
LEMMA PushSegments ==
  ASSUME NEW sc, Typed(sc), NEW sd, NEW rs \in Seq(Slot), NEW s \in Slot,
         Segments(sc, rs), NEW n, n = Len(sc), Len(sd) = n,
         \A i \in 1..(n - 1) : sd[i] = sc[i],
         sd[n].base = sc[n].base, sd[n].act = sc[n].act,
         sd[n].roots = sc[n].roots + 1, sd[n].sum = sc[n].sum + 1,
         sd[n].vars = sc[n].vars \cup {s}
  PROVE  Segments(sd, Append(rs, s))
<1> DEFINE rt == Append(rs, s)
<1>1. /\ n \in Nat \ {0} /\ Len(rs) \in Nat
      /\ \A i \in 1..n :
              /\ sc[i].base \in Nat /\ sc[i].roots \in Nat
              /\ sc[i].sum \in Nat /\ sc[i].act \in 1..i
              /\ End(sc, rs, i) \in Nat
  BY Numbers
<1>2. /\ Len(rt) = Len(rs) + 1 /\ rt[Len(rs) + 1] = s
      /\ \A k \in 1..Len(rs) : rt[k] = rs[k]
  BY AppendFacts
<1> HIDE DEF rt
<1>a. \A i \in 1..n : sd[i].base = sc[i].base /\ sd[i].act = sc[i].act
  <2> SUFFICES ASSUME NEW i \in 1..n
               PROVE  sd[i].base = sc[i].base /\ sd[i].act = sc[i].act
    OBVIOUS
  <2>1. i = n \/ i \in 1..(n - 1)
    BY <1>1
  <2> QED BY <2>1
<1>b. \A i \in 1..(n - 1) : End(sd, rt, i) = End(sc, rs, i)
  <2> SUFFICES ASSUME NEW i \in 1..(n - 1)
               PROVE  End(sd, rt, i) = End(sc, rs, i)
    OBVIOUS
  <2>1. i # n /\ i + 1 \in 1..n
    BY <1>1
  <2>2. sd[i + 1].base = sc[i + 1].base
    BY <2>1, <1>a
  <2> QED BY <2>1, <2>2 DEF End
<1>c. End(sc, rs, n) = Len(rs) /\ End(sd, rt, n) = Len(rs) + 1
  BY <1>2 DEF End
<1>3. /\ \A i \in 1..n : sd[i].base = sc[i].base /\ sd[i].act = sc[i].act
      /\ \A i \in 1..(n - 1) : End(sd, rt, i) = End(sc, rs, i)
      /\ End(sc, rs, n) = Len(rs) /\ End(sd, rt, n) = Len(rs) + 1
  BY <1>a, <1>b, <1>c
<1>4. Bases(sd, rt)
  <2>1. \A i \in 1..n : sc[i].base <= Len(rs) + 1
    BY <1>1 DEF Segments, Bases
  <2>2. \A i, j \in 1..n : i <= j => sd[i].base <= sd[j].base
    BY <1>a DEF Segments, Bases
  <2> QED BY <1>2, <1>a, <2>1, <2>2 DEF Bases
<1>5. Counted(sd, rt)
  <2> SUFFICES ASSUME NEW i \in 1..n
               PROVE  /\ sd[i].base + sd[i].roots <= End(sd, rt, i)
                      /\ sd[sd[i].act].base + sd[i].sum <= End(sd, rt, i)
    BY DEF Counted
  <2>1. sc[i].act \in 1..n /\ sd[sd[i].act].base = sc[sc[i].act].base
    <3>1. sc[i].act \in 1..i
      BY <1>1
    <3>2. sc[i].act \in 1..n
      BY <3>1, <1>1
    <3>3. sd[i].act = sc[i].act
      BY <1>a
    <3> QED BY <3>2, <3>3, <1>a
  <2>2. /\ sc[i].base + sc[i].roots <= End(sc, rs, i)
        /\ sc[sc[i].act].base + sc[i].sum <= End(sc, rs, i)
    BY DEF Segments, Counted
  <2>3. CASE i = n
    <3>1. /\ sc[n].base \in Nat /\ sc[n].roots \in Nat /\ sc[n].sum \in Nat
          /\ sc[sc[n].act].base \in Nat
      BY <2>1, <2>3, <1>1
    <3>2. /\ sc[n].base + (sc[n].roots + 1) <= Len(rs) + 1
          /\ sc[sc[n].act].base + (sc[n].sum + 1) <= Len(rs) + 1
      <4>1. /\ sc[n].base + sc[n].roots <= Len(rs)
            /\ sc[sc[n].act].base + sc[n].sum <= Len(rs)
        BY <2>2, <2>3, <1>c
      <4>2. sc[n].base + (sc[n].roots + 1) <= Len(rs) + 1
        BY <4>1, <3>1, <1>1, Room
      <4>3. sc[sc[n].act].base + (sc[n].sum + 1) <= Len(rs) + 1
        BY <4>1, <3>1, <1>1, Room
      <4> QED BY <4>2, <4>3
    <3> QED BY <2>1, <2>3, <3>2, <1>c
  <2>4. CASE i # n
    <3>1. i \in 1..(n - 1) /\ sd[i] = sc[i] /\ End(sd, rt, i) = End(sc, rs, i)
      BY <2>4, <1>1, <1>3, SMTT(20)
    <3> QED BY <3>1, <2>1, <2>2, <1>3
  <2> QED BY <2>3, <2>4
<1>6. Holds(sd, rt)
  <2> SUFFICES ASSUME NEW i \in 1..n, NEW v \in sd[i].vars
               PROVE  \E k \in (sd[i].base + 1)..End(sd, rt, i) : rt[k] = v
    BY DEF Holds
  <2>1. CASE v \in sc[i].vars
    <3>1. PICK k \in (sc[i].base + 1)..End(sc, rs, i) : rs[k] = v
      BY <2>1 DEF Segments, Holds
    <3>2. End(sc, rs, i) <= Len(rs) /\ End(sc, rs, i) <= End(sd, rt, i)
      BY <1>1, <1>3 DEF Segments, Bases, End
    <3>3. k \in 1..Len(rs) /\ k \in (sd[i].base + 1)..End(sd, rt, i)
      <4>1. CASE i = n
        BY <4>1, <3>1, <3>2, <1>1, <1>3
      <4>2. CASE i # n
        <5>1. i \in 1..(n - 1)
          BY <4>2, <1>1
        <5> QED BY <5>1, <3>1, <3>2, <1>1, <1>3
      <4> QED BY <4>1, <4>2
    <3> QED BY <3>1, <3>3, <1>2
  <2>2. CASE v \notin sc[i].vars
    <3>1. i = n /\ v = s
      <4>1. i = n \/ i \in 1..(n - 1)
        BY <1>1
      <4> QED BY <4>1, <2>2
    <3>2. Len(rs) + 1 \in (sd[n].base + 1)..End(sd, rt, n)
      BY <1>1, <1>3 DEF Segments, Bases
    <3> QED BY <3>1, <3>2, <1>2
  <2> QED BY <2>1, <2>2
<1> QED BY <1>4, <1>5, <1>6 DEF Segments, rt

\* A new scope starts with an empty segment; it belongs to the activation on
\* top or to a new one.
LEMMA OpenSegments ==
  ASSUME NEW sc, Typed(sc), NEW sd, NEW rs \in Seq(Slot), Segments(sc, rs),
         NEW n, n = Len(sc), Len(sd) = n + 1,
         StillOpen(sc, sd), sd[n + 1].base = Len(rs), sd[n + 1].roots = 0,
         sd[n + 1].vars = {},
         \/ sd[n + 1].act = n + 1 /\ sd[n + 1].sum = 0
         \/ sd[n + 1].act = sc[n].act /\ sd[n + 1].sum = sc[n].sum
  PROVE  Segments(sd, rs)
<1> USE DEF StillOpen
<1>1. /\ n \in Nat \ {0} /\ Len(rs) \in Nat
      /\ \A i \in 1..n :
              /\ sc[i].base \in Nat /\ sc[i].roots \in Nat
              /\ sc[i].sum \in Nat /\ sc[i].act \in 1..i
              /\ End(sc, rs, i) \in Nat
  BY Numbers
<1>2. /\ \A i \in 1..n : End(sd, rs, i) = End(sc, rs, i)
      /\ End(sc, rs, n) = Len(rs) /\ End(sd, rs, n + 1) = Len(rs)
  <2>1. End(sc, rs, n) = Len(rs) /\ End(sd, rs, n + 1) = Len(rs)
    BY DEF End
  <2>2. ASSUME NEW i \in 1..n PROVE End(sd, rs, i) = End(sc, rs, i)
    <3>1. i # n + 1 /\ (i = n \/ i + 1 \in 1..n)
      BY <1>1
    <3> QED BY <3>1 DEF End
  <2> QED BY <2>1, <2>2
<1>3. Bases(sd, rs)
  <2>1. \A i \in 1..(n + 1) : i = n + 1 \/ i \in 1..n
    BY <1>1
  <2>2. \A i \in 1..n : sd[i].base \in Nat /\ sd[i].base <= Len(rs)
    BY <1>1 DEF Segments, Bases
  <2>3. \A i, j \in 1..(n + 1) : i <= j => sd[i].base <= sd[j].base
    <3> SUFFICES ASSUME NEW i \in 1..(n + 1), NEW j \in 1..(n + 1), i <= j
                 PROVE  sd[i].base <= sd[j].base
      OBVIOUS
    <3>1. CASE j \in 1..n
      <4>1. i \in 1..n
        BY <3>1, <1>1
      <4>2. sc[i].base <= sc[j].base
        BY <3>1, <4>1 DEF Segments, Bases
      <4> QED BY <3>1, <4>1, <4>2
    <3>2. CASE j = n + 1
      <4>1. CASE i = n + 1
        BY <3>2, <4>1, <1>1
      <4>2. CASE i \in 1..n
        <5>1. sd[i].base <= Len(rs)
          BY <4>2, <2>2
        <5> QED BY <3>2, <5>1
      <4> QED BY <4>1, <4>2, <2>1
    <3> QED BY <3>1, <3>2, <2>1
  <2> QED BY <1>1, <2>1, <2>2, <2>3 DEF Bases
<1>4. Counted(sd, rs)
  <2> SUFFICES ASSUME NEW i \in 1..(n + 1)
               PROVE  /\ sd[i].base + sd[i].roots <= End(sd, rs, i)
                      /\ sd[sd[i].act].base + sd[i].sum <= End(sd, rs, i)
    BY DEF Counted
  <2>1. CASE i \in 1..n
    <3>1. sc[i].act \in 1..n /\ sd[sd[i].act].base = sc[sc[i].act].base
      BY <2>1, <1>1
    <3> QED BY <2>1, <3>1, <1>2 DEF Segments, Counted
  <2>2. CASE i = n + 1
    <3>1. n \in 1..n /\ sc[n].act \in 1..n
      BY <1>1
    <3>2. sd[sc[n].act].base = sc[sc[n].act].base
      BY <3>1
    <3>3. sc[sc[n].act].base + sc[n].sum <= Len(rs)
      BY <3>1, <1>2 DEF Segments, Counted
    <3> QED BY <2>2, <3>1, <3>2, <3>3, <1>1, <1>2
  <2> QED BY <2>1, <2>2, <1>1
<1>5. Holds(sd, rs)
  <2> SUFFICES ASSUME NEW i \in 1..(n + 1), NEW v \in sd[i].vars
               PROVE  \E k \in (sd[i].base + 1)..End(sd, rs, i) : rs[k] = v
    BY DEF Holds
  <2>1. i \in 1..n /\ v \in sc[i].vars
    <3>1. i # n + 1
      OBVIOUS
    <3> QED BY <3>1, <1>1
  <2>2. PICK k \in (sc[i].base + 1)..End(sc, rs, i) : rs[k] = v
    BY <2>1 DEF Segments, Holds
  <2>3. End(sd, rs, i) = End(sc, rs, i) /\ sd[i].base = sc[i].base
    BY <2>1, <1>2
  <2> QED BY <2>2, <2>3
<1> QED BY <1>3, <1>4, <1>5 DEF Segments

\* Closing the scopes above the m-th and popping no further than the list was
\* when the first of them was entered leaves the other segments whole.
LEMMA CutSegments ==
  ASSUME NEW sc, Typed(sc), NEW sd, NEW rs \in Seq(Slot), NEW rt \in Seq(Slot),
         Segments(sc, rs), NEW m \in 1..(Len(sc) - 1), Len(sd) = m,
         \A i \in 1..m : sd[i] = sc[i],
         Len(rt) <= Len(rs), sc[m + 1].base <= Len(rt),
         \A k \in 1..Len(rt) : rt[k] = rs[k]
  PROVE  Segments(sd, rt)
<1> DEFINE n == Len(sc)
<1>1. /\ n \in Nat \ {0} /\ Len(rs) \in Nat /\ Len(rt) \in Nat
      /\ \A i \in 1..n :
              /\ sc[i].base \in Nat /\ sc[i].roots \in Nat
              /\ sc[i].sum \in Nat /\ sc[i].act \in 1..i
              /\ End(sc, rs, i) \in Nat
  BY Numbers, LenProperties
<1>2. /\ \A i \in 1..m : i \in 1..n /\ End(sc, rs, i) = sc[i + 1].base
      /\ \A i \in 1..m : End(sd, rt, i) \in Nat
                           /\ End(sc, rs, i) <= End(sd, rt, i)
      /\ \A i \in 1..m : End(sd, rt, i) <= Len(rt)
  <2> SUFFICES ASSUME NEW i \in 1..m
               PROVE  /\ i \in 1..n /\ End(sc, rs, i) = sc[i + 1].base
                      /\ End(sd, rt, i) \in Nat
                      /\ End(sc, rs, i) <= End(sd, rt, i)
                      /\ End(sd, rt, i) <= Len(rt)
    OBVIOUS
  <2>1. i \in 1..n /\ i + 1 \in 1..n /\ i # n /\ m + 1 \in 1..n
    BY <1>1
  <2>2. End(sc, rs, i) = sc[i + 1].base /\ sc[i + 1].base \in Nat
    BY <2>1, <1>1 DEF End
  <2>3. sc[i + 1].base <= sc[m + 1].base
    BY <2>1 DEF Segments, Bases
  <2>4. sc[i + 1].base <= Len(rt)
    BY <1>1, <2>1, <2>2, <2>3
  <2>5. CASE i = m
    BY <1>1, <2>1, <2>2, <2>4, <2>5 DEF End
  <2>6. CASE i # m
    <3>1. i + 1 \in 1..m
      BY <2>6
    <3>2. End(sd, rt, i) = sc[i + 1].base
      BY <2>6, <3>1 DEF End
    <3> QED BY <2>1, <2>2, <2>4, <3>2
  <2> QED BY <2>5, <2>6
<1>3. Bases(sd, rt)
  <2>1. \A i \in 1..m : sc[i].base <= Len(rt)
    <3> SUFFICES ASSUME NEW i \in 1..m PROVE sc[i].base <= Len(rt)
      OBVIOUS
    <3>1. i \in 1..n /\ m + 1 \in 1..n /\ i <= m + 1
      BY <1>1
    <3>2. sc[i].base <= sc[m + 1].base
      BY <3>1 DEF Segments, Bases
    <3> QED BY <3>1, <3>2, <1>1
  <2>2. \A i, j \in 1..m : i <= j => sc[i].base <= sc[j].base
    BY <1>1, <1>2 DEF Segments, Bases
  <2> QED BY <2>1, <2>2 DEF Bases
<1>4. Counted(sd, rt)
  <2> SUFFICES ASSUME NEW i \in 1..m
               PROVE  /\ sd[i].base + sd[i].roots <= End(sd, rt, i)
                      /\ sd[sd[i].act].base + sd[i].sum <= End(sd, rt, i)
    BY DEF Counted
  <2>1. i \in 1..n /\ sc[i].act \in 1..m /\ sc[i].act \in 1..n
    <3>1. i \in 1..n /\ m <= n /\ i <= m
      BY <1>1
    <3>2. sc[i].act \in 1..i
      BY <3>1, <1>1
    <3> QED BY <3>1, <3>2, <1>1, SMTT(20)
  <2>2. sd[sd[i].act].base = sc[sc[i].act].base
    BY <2>1
  <2>3. /\ sc[i].base + sc[i].roots <= End(sc, rs, i)
        /\ sc[sc[i].act].base + sc[i].sum <= End(sc, rs, i)
    BY <2>1 DEF Segments, Counted
  <2>4. /\ End(sc, rs, i) \in Nat /\ End(sd, rt, i) \in Nat
        /\ End(sc, rs, i) <= End(sd, rt, i)
        /\ sc[i].base \in Nat /\ sc[i].roots \in Nat /\ sc[i].sum \in Nat
        /\ sc[sc[i].act].base \in Nat /\ sd[i] = sc[i]
    BY <1>1, <1>2, <2>1
  <2>5. /\ sc[i].base + sc[i].roots <= End(sd, rt, i)
        /\ sc[sc[i].act].base + sc[i].sum <= End(sd, rt, i)
    BY <2>3, <2>4, Room
  <2> QED BY <2>2, <2>4, <2>5
<1>5. Holds(sd, rt)
  <2> SUFFICES ASSUME NEW i \in 1..m, NEW v \in sc[i].vars
               PROVE  \E k \in (sc[i].base + 1)..End(sd, rt, i) : rt[k] = v
    BY DEF Holds
  <2>1. PICK k \in (sc[i].base + 1)..End(sc, rs, i) : rs[k] = v
    BY <1>2 DEF Segments, Holds
  <2>2. /\ i \in 1..n /\ sc[i].base \in Nat
        /\ End(sc, rs, i) \in Nat /\ End(sd, rt, i) \in Nat
        /\ End(sc, rs, i) <= End(sd, rt, i) /\ End(sd, rt, i) <= Len(rt)
    BY <1>1, <1>2
  <2>3. k \in 1..Len(rt) /\ k \in (sc[i].base + 1)..End(sd, rt, i)
    BY <1>1, <2>1, <2>2, SMTT(20)
  <2> QED BY <2>1, <2>3
<1> QED BY <1>3, <1>4, <1>5 DEF Segments

-----------------------------------------------------------------------------
(***************************************************************************)
(* The actions preserve the invariant, by what they do to the scopes.      *)
(***************************************************************************)

LEMMA IInvTyped ==
  ASSUME IInv
  PROVE  /\ Typed(scopes) /\ rootStack \in Seq(Slot)
         /\ Len(scopes) \in Nat \ {0} /\ Len(rootStack) \in Nat
         /\ Top \in Scope /\ Top.act \in 1..Len(scopes)
         /\ Top.roots \in Nat /\ Top.sum \in Nat
<1>1. Typed(scopes) /\ rootStack \in Seq(Slot)
  BY DEF IInv, TypeOK, Typed
<1>2. Len(scopes) \in Nat \ {0} /\ Len(rootStack) \in Nat
  BY <1>1, Numbers
<1>3. Len(scopes) \in 1..Len(scopes)
  BY <1>2
<1> QED BY <1>1, <1>2, <1>3, Numbers DEF Top

\* A declaration.
LEMMA PushStep ==
  ASSUME IInv, ~over, UNCHANGED over, NEW s \in Slot, EmitGCPush(s),
         alloc' \in [Slot -> Nat], written' \in SUBSET Slot,
         leaked' \in BOOLEAN
  PROVE  IInv'
<1> DEFINE n == Len(scopes)
           new == [Top EXCEPT !.roots = Top.roots + 1, !.sum = Top.sum + 1,
                              !.vars = Top.vars \cup {s}]
<1>1. /\ new \in Scope
      /\ new.kind = Top.kind /\ new.act = Top.act
      /\ new.base = Top.base /\ new.roots = Top.roots + 1
      /\ new.sum = Top.sum + 1 /\ new.vars = Top.vars \cup {s}
  <2>1. Top \in Scope
    BY IInvTyped
  <2>2. new \in Scope
    <3>1. /\ Top.roots + 1 \in Nat /\ Top.sum + 1 \in Nat
          /\ Top.vars \cup {s} \in SUBSET Slot
      BY <2>1 DEF Scope
    <3> DEFINE r == Top.roots + 1
               t == Top.sum + 1
               v == Top.vars \cup {s}
    <3> HIDE DEF r, t, v
    <3>2. r \in Nat /\ t \in Nat /\ v \in SUBSET Slot
      BY <3>1 DEF r, t, v
    <3>3. [Top EXCEPT !.roots = r, !.sum = t, !.vars = v] \in Scope
      BY <2>1, <3>2 DEF Scope
    <3> QED BY <3>3 DEF r, t, v
  <2>3. new.kind = Top.kind /\ new.act = Top.act /\ new.base = Top.base
    BY <2>1 DEF Scope
  <2>4. new.roots = Top.roots + 1
    BY <2>1 DEF Scope
  <2>5. new.sum = Top.sum + 1
    BY <2>1 DEF Scope
  <2>6. new.vars = Top.vars \cup {s}
    BY <2>1 DEF Scope
  <2> QED BY <2>2, <2>3, <2>4, <2>5, <2>6
<1>2. scopes' = [scopes EXCEPT ![n] = new] /\ rootStack' = Append(rootStack, s)
  BY DEF EmitGCPush
<1> HIDE DEF new
<1>3. /\ scopes' \in Seq(Scope) /\ Len(scopes') = n /\ scopes'[n] = new
      /\ \A i \in 1..n : i # n => scopes'[i] = scopes[i]
  BY <1>1, <1>2, IInvTyped, ExceptSeq DEF Typed
<1>4. rootStack' \in Seq(Slot)
  BY <1>2, IInvTyped, AppendFacts
<1>5. \A i \in 1..n : /\ scopes'[i].kind = scopes[i].kind
                       /\ scopes'[i].act = scopes[i].act
  BY <1>1, <1>3 DEF Top
<1>6. TypeOK'
  BY <1>3, <1>4, <1>5, IInvTyped, EmptySeq DEF IInv, TypeOK
<1>7. OnlyMain'
  BY <1>3, <1>5 DEF IInv, OnlyMain
<1>8. Segments(scopes', rootStack')
  <2>1. \A i \in 1..(n - 1) : scopes'[i] = scopes[i]
    BY <1>3, IInvTyped
  <2>2. Segments(scopes, rootStack)
    BY DEF IInv
  <2>3. /\ Typed(scopes) /\ rootStack \in Seq(Slot) /\ n = Len(scopes)
        /\ Len(scopes') = n
        /\ scopes'[n].base = scopes[n].base /\ scopes'[n].act = scopes[n].act
        /\ scopes'[n].roots = scopes[n].roots + 1
        /\ scopes'[n].sum = scopes[n].sum + 1
        /\ scopes'[n].vars = scopes[n].vars \cup {s}
    BY <1>1, <1>3, IInvTyped DEF Top
  <2> HIDE DEF n
  <2>4. Segments(scopes', Append(rootStack, s))
    BY <2>1, <2>2, <2>3, PushSegments
  <2> QED BY <2>4, <1>2
<1> QED BY <1>6, <1>7, <1>8 DEF IInv

\* A scope is opened on scopes that differ at most in a kind.
LEMMA OpenStep ==
  ASSUME IInv, ~over, UNCHANGED <<rootStack, alloc, written, over, leaked>>,
         NEW sc \in Seq(Scope), Len(sc) = Len(scopes),
         \A i \in 1..Len(scopes) :
           /\ sc[i].base = scopes[i].base /\ sc[i].act = scopes[i].act
           /\ sc[i].roots = scopes[i].roots /\ sc[i].sum = scopes[i].sum
           /\ sc[i].vars = scopes[i].vars
           /\ sc[i].kind = "main" <=> scopes[i].kind = "main",
         NEW kind \in Kind \ {"main"}, NEW act, NEW sum,
         \/ act = Len(scopes) + 1 /\ sum = 0
         \/ act = Top.act /\ sum = Top.sum,
         scopes' = Append(sc, Open(kind, act, sum))
  PROVE  IInv'
<1> DEFINE n == Len(scopes)
           new == Open(kind, act, sum)
<1>1. act \in 1..(n + 1) /\ sum \in Nat
  BY IInvTyped
<1>2. /\ new \in Scope
      /\ new.kind = kind /\ new.act = act /\ new.sum = sum
      /\ new.base = Len(rootStack) /\ new.roots = 0 /\ new.vars = {}
  BY <1>1, IInvTyped DEF Open, Scope
<1> HIDE DEF new
<1>3. /\ scopes' \in Seq(Scope) /\ Len(scopes') = n + 1
      /\ scopes'[n + 1] = new /\ \A i \in 1..n : scopes'[i] = sc[i]
  BY <1>2, AppendFacts DEF new
<1>4. \A i \in 1..(n + 1) : i = n + 1 \/ i \in 1..n
  BY IInvTyped
<1>5. TypeOK'
  <2>1. \A i \in 1..(n + 1) : scopes'[i].act \in 1..i
    <3>1. \A i \in 1..n : scopes[i].act \in 1..i
      BY DEF IInv, TypeOK
    <3>2. \A i \in 1..n : scopes'[i].act = scopes[i].act
      BY <1>3
    <3>3. scopes'[n + 1].act \in 1..(n + 1)
      BY <1>1, <1>2, <1>3
    <3> HIDE DEF n
    <3> QED BY <3>1, <3>2, <3>3, <1>4
  <2>2. scopes' # <<>>
    BY <1>3, IInvTyped, EmptySeq
  <2> QED BY <1>3, <2>1, <2>2 DEF IInv, TypeOK
<1>6. OnlyMain'
  <2>1. n + 1 # 1
    BY IInvTyped
  <2> QED BY <1>2, <1>3, <1>4, <2>1 DEF IInv, OnlyMain
<1>7. Segments(scopes', rootStack)
  <2>1. Segments(scopes, rootStack)
    BY DEF IInv
  <2>2. /\ Typed(scopes) /\ rootStack \in Seq(Slot) /\ n = Len(scopes)
        /\ Len(scopes') = n + 1 /\ StillOpen(scopes, scopes')
    BY <1>3, IInvTyped DEF StillOpen
  <2>3. /\ scopes'[n + 1].base = Len(rootStack)
        /\ scopes'[n + 1].roots = 0 /\ scopes'[n + 1].vars = {}
        /\ \/ scopes'[n + 1].act = n + 1 /\ scopes'[n + 1].sum = 0
           \/ /\ scopes'[n + 1].act = scopes[n].act
              /\ scopes'[n + 1].sum = scopes[n].sum
    BY <1>2, <1>3 DEF Top
  <2> HIDE DEF n
  <2>4. CASE scopes'[n + 1].act = n + 1 /\ scopes'[n + 1].sum = 0
    BY <2>1, <2>2, <2>3, <2>4, OpenSegments
  <2>5. CASE /\ scopes'[n + 1].act = scopes[n].act
             /\ scopes'[n + 1].sum = scopes[n].sum
    BY <2>1, <2>2, <2>3, <2>5, OpenSegments
  <2> QED BY <2>3, <2>4, <2>5
<1> QED BY <1>5, <1>6, <1>7 DEF IInv

\* Scopes above the m-th are left, and what was rooted below stays.
LEMMA CutStep ==
  ASSUME IInv, ~over, UNCHANGED over, NEW m \in 1..(Len(scopes) - 1),
         scopes' = SubSeq(scopes, 1, m),
         rootStack' \in Seq(Slot), Len(rootStack') <= Len(rootStack),
         \A k \in 1..Len(rootStack') : rootStack'[k] = rootStack[k],
         scopes[m + 1].base <= Len(rootStack'),
         alloc' \in [Slot -> Nat], written' \in SUBSET Slot,
         leaked' \in BOOLEAN
  PROVE  IInv'
<1>1. m \in 0..Len(scopes) /\ \A i \in 1..m : i \in 1..Len(scopes)
  BY IInvTyped
<1>2. /\ scopes' \in Seq(Scope) /\ Len(scopes') = m
      /\ \A i \in 1..m : scopes'[i] = scopes[i]
  BY <1>1, IInvTyped, PrefixProperties DEF Typed
<1>3. TypeOK'
  <2>1. scopes' # <<>>
    <3>1. m # 0
      BY IInvTyped
    <3>2. Len(scopes') # 0 /\ scopes' \in Seq(Scope)
      BY <3>1, <1>2
    <3> QED BY <3>2, EmptySeq
  <2>2. \A i \in 1..m : scopes'[i].act \in 1..i
    BY <1>1, <1>2 DEF IInv, TypeOK
  <2> QED BY <1>2, <2>1, <2>2 DEF IInv, TypeOK
<1>4. OnlyMain'
  BY <1>1, <1>2 DEF IInv, OnlyMain
<1>5. Segments(scopes', rootStack')
  <2>1. Segments(scopes, rootStack)
    BY DEF IInv
  <2> QED BY <1>2, <2>1, IInvTyped, CutSegments, ZenonT(40)
<1> QED BY <1>3, <1>4, <1>5 DEF IInv

-----------------------------------------------------------------------------
(***************************************************************************)
(* The inductive invariant.                                                *)
(***************************************************************************)

LEMMA InitIInv == Init => IInv
<1> SUFFICES ASSUME Init PROVE IInv
  OBVIOUS
<1> DEFINE m == [kind |-> "main", roots |-> 0, sum |-> 0, act |-> 1,
                 vars |-> {}, base |-> 0]
<1>1. m \in Scope
  BY DEF Scope, Kind
<1>2. scopes = <<m>>
  BY DEF Init
<1>3. m.kind = "main" /\ m.roots = 0 /\ m.sum = 0 /\ m.act = 1 /\ m.vars = {}
      /\ m.base = 0
  OBVIOUS
<1> HIDE DEF m
<1>4. scopes \in Seq(Scope) /\ Len(scopes) = 1 /\ scopes[1] = m /\ scopes # <<>>
  BY <1>1, <1>2
<1>5. rootStack = <<>> /\ rootStack \in Seq(Slot) /\ Len(rootStack) = 0
  BY DEF Init
<1>6. TypeOK
  <2>1. \A i \in 1..1 : scopes[i].act \in 1..i
    BY <1>3, <1>4
  <2>2. /\ alloc \in [Slot -> Nat] /\ written \in SUBSET Slot
        /\ over \in BOOLEAN /\ leaked \in BOOLEAN
    BY DEF Init
  <2> QED BY <1>4, <1>5, <2>1, <2>2 DEF TypeOK
<1>7. OnlyMain
  BY <1>3, <1>4 DEF OnlyMain
<1>8. \A i \in 1..Len(scopes) : i = 1 /\ End(scopes, rootStack, i) = 0
  BY <1>4, <1>5 DEF End
<1>9. Segments(scopes, rootStack)
  BY <1>3, <1>4, <1>5, <1>8 DEF Segments, Bases, Counted, Holds
<1> QED BY <1>6, <1>7, <1>9 DEF IInv

LEMMA NextIInv == IInv /\ [Next]_vars => IInv'
<1> SUFFICES ASSUME IInv, [Next]_vars PROVE IInv'
  OBVIOUS
<1> USE IInvTyped
<1>t. /\ alloc \in [Slot -> Nat] /\ written \in SUBSET Slot
      /\ scopes \in Seq(Scope) /\ leaked \in BOOLEAN
  BY DEF IInv, TypeOK
<1>f. \A act \in Nat : Leave(act) =>
        alloc' \in [Slot -> Nat] /\ written' \in SUBSET Slot
  BY <1>t DEF Leave
<1>n. Top.act \in Nat /\ Top.kind \in Kind
  BY DEF Scope
<1>k. \A i \in 1..Len(scopes) : i \in 1..Len(scopes) - 1 \/ i = Len(scopes)
  OBVIOUS
<1>1. ASSUME NEW s \in Slot, VarDecl(s) PROVE IInv'
  <2>1. /\ ~over /\ UNCHANGED over /\ EmitGCPush(s)
        /\ alloc' \in [Slot -> Nat] /\ written' \in SUBSET Slot
        /\ leaked' \in BOOLEAN
    BY <1>1, <1>t, <1>n DEF VarDecl, Alloca
  <2> QED BY <2>1, PushStep
<1>2. ASSUME NEW s \in Slot, StoredDecl(s) PROVE IInv'
  <2>1. /\ ~over /\ UNCHANGED over /\ EmitGCPush(s)
        /\ alloc' \in [Slot -> Nat] /\ written' \in SUBSET Slot
        /\ leaked' \in BOOLEAN
    BY <1>2, <1>t, <1>n DEF StoredDecl, Alloca
  <2> QED BY <2>1, PushStep
<1>3. ASSUME NEW s \in Slot, Store(s) PROVE IInv'
  BY <1>3, <1>t DEF Store, IInv, TypeOK, OnlyMain
<1>4. ASSUME NEW kind \in Kind \ {"main"}, PushGCScope(kind), ~over
      PROVE  IInv'
  <2>1. /\ scopes' = Append(scopes, Open(kind, Top.act, Top.sum))
        /\ UNCHANGED <<rootStack, alloc, written, over, leaked>>
    BY <1>4 DEF PushGCScope
  <2> QED BY <1>4, <1>t, <2>1, OpenStep
<1>5. CASE EnterBody
  <2> DEFINE top == [Top EXCEPT !.kind = IF Top.kind = "for_init"
                                         THEN "for_loop" ELSE Top.kind]
             sc == [scopes EXCEPT ![Len(scopes)] = top]
  <2>1. /\ top \in Scope
        /\ top.base = Top.base /\ top.act = Top.act /\ top.roots = Top.roots
        /\ top.sum = Top.sum /\ top.vars = Top.vars
        /\ top.kind = "main" <=> Top.kind = "main"
    <3>1. Top \in Scope /\ Top.kind \in Kind
      BY <1>n
    <3>2. (IF Top.kind = "for_init" THEN "for_loop" ELSE Top.kind) \in Kind
      BY <3>1 DEF Kind
    <3> QED BY <3>1, <3>2 DEF Scope
  <2> HIDE DEF top
  <2>2. /\ sc \in Seq(Scope) /\ Len(sc) = Len(scopes)
        /\ sc[Len(scopes)] = top
        /\ \A i \in 1..Len(scopes) : i # Len(scopes) => sc[i] = scopes[i]
    BY <2>1, <1>t, ExceptSeq
  <2>3. /\ scopes' = Append(sc, Open("body", Top.act, Top.sum))
        /\ ~over /\ UNCHANGED <<rootStack, alloc, written, over, leaked>>
    BY <1>5 DEF EnterBody, top
  <2> HIDE DEF sc
  <2>4. \A i \in 1..Len(scopes) :
           /\ sc[i].base = scopes[i].base /\ sc[i].act = scopes[i].act
           /\ sc[i].roots = scopes[i].roots /\ sc[i].sum = scopes[i].sum
           /\ sc[i].vars = scopes[i].vars
           /\ sc[i].kind = "main" <=> scopes[i].kind = "main"
    BY <2>1, <2>2 DEF Top
  <2>5. "body" \in Kind \ {"main"}
    BY DEF Kind
  <2> QED BY <2>2, <2>3, <2>4, <2>5, OpenStep
<1>6. CASE PopGCScope
  <2> DEFINE m == Len(scopes) - 1
  <2>1. ~over /\ UNCHANGED <<alloc, written, over, leaked>> /\ Top.kind # "main"
        /\ EmitGCPops(Top.roots) /\ scopes' = SubSeq(scopes, 1, m)
    BY <1>6 DEF PopGCScope
  <2>2. m \in 1..(Len(scopes) - 1) /\ Len(scopes) = m + 1
    BY <2>1 DEF IInv, OnlyMain, Top
  <2>3. Top.base + Top.roots <= Len(rootStack) /\ Top.base \in Nat
    BY <2>1 DEF IInv, Segments, Counted, End, Top, Scope
  <2>4. /\ rootStack' \in Seq(Slot) /\ Len(rootStack') <= Len(rootStack)
        /\ \A k \in 1..Len(rootStack') : rootStack'[k] = rootStack[k]
        /\ Top.base <= Len(rootStack')
    BY <2>1, <2>3, PopsProperties
  <2>5. scopes[m + 1].base <= Len(rootStack')
    BY <2>2, <2>4 DEF Top
  <2> HIDE DEF m
  <2> QED BY <1>t, <2>1, <2>2, <2>4, <2>5, CutStep
<1>7. ASSUME NEW kinds, BranchOut(kinds), ~over PROVE IInv'
  <2>1. PICK i \in 1..Len(scopes) :
          /\ Innermost(i, kinds) /\ scopes' = SubSeq(scopes, 1, i - 1)
          /\ UNCHANGED <<rootStack, alloc, written, over>>
          /\ leaked' \in BOOLEAN
    BY <1>7, <1>t DEF BranchOut
  <2>2. i - 1 \in 1..(Len(scopes) - 1) /\ (i - 1) + 1 = i
    BY <2>1 DEF Innermost
  <2>3. scopes[i].base <= Len(rootStack)
    BY <1>7, <2>1 DEF IInv, Segments, Bases
  <2>4. scopes[(i - 1) + 1].base <= Len(rootStack')
    BY <2>1, <2>2, <2>3
  <2> QED BY <1>7, <1>t, <2>1, <2>2, <2>4, CutStep
<1>8. CASE Call
  <2>1. /\ scopes' = Append(scopes, Open("func", Len(scopes) + 1, 0))
        /\ ~over /\ UNCHANGED <<rootStack, alloc, written, over, leaked>>
    BY <1>8 DEF Call
  <2>2. "func" \in Kind \ {"main"}
    BY DEF Kind
  <2> QED BY <1>t, <2>1, <2>2, OpenStep
<1>9. CASE Return
  <2> DEFINE m == Top.act - 1
  <2>1. /\ ~over /\ UNCHANGED <<over, leaked>> /\ Top.act > 1 /\ Leave(Top.act)
        /\ EmitGCPops(Top.sum) /\ scopes' = SubSeq(scopes, 1, m)
    BY <1>9 DEF Return
  <2>2. m \in 1..(Len(scopes) - 1) /\ Top.act = m + 1
    BY <2>1
  <2>3. /\ scopes[Top.act].base + Top.sum <= Len(rootStack)
        /\ scopes[Top.act].base \in Nat
    BY <2>1, Numbers DEF IInv, Segments, Counted, End, Top
  <2>4. /\ rootStack' \in Seq(Slot) /\ Len(rootStack') <= Len(rootStack)
        /\ \A k \in 1..Len(rootStack') : rootStack'[k] = rootStack[k]
        /\ scopes[Top.act].base <= Len(rootStack')
    <3>1. EmitGCPops(Top.sum) /\ Top.sum \in Nat /\ rootStack \in Seq(Slot)
      BY <2>1
    <3>2. /\ rootStack' \in Seq(Slot)
          /\ Len(rootStack') = IF Top.sum < Len(rootStack)
                               THEN Len(rootStack) - Top.sum ELSE 0
          /\ \A k \in 1..Len(rootStack') : rootStack'[k] = rootStack[k]
      BY <3>1, PopsProperties
    <3> QED BY <2>3, <3>1, <3>2, SMTT(20)
  <2>5. scopes[m + 1].base <= Len(rootStack')
    BY <2>2, <2>4
  <2> HIDE DEF m
  <2> QED BY <1>t, <1>f, <1>n, <2>1, <2>2, <2>4, <2>5, CutStep
<1>10. CASE MainEnds
  <2>1. /\ UNCHANGED <<scopes, leaked>> /\ over' = TRUE /\ Leave(1)
        /\ EmitGCPops(Top.roots)
    BY <1>10 DEF MainEnds
  <2>2. rootStack' \in Seq(Slot)
    BY <2>1, PopsProperties
  <2> QED BY <1>f, <2>1, <2>2 DEF IInv, TypeOK, OnlyMain
<1>11. CASE UNCHANGED vars
  BY <1>11 DEF vars, IInv, TypeOK, OnlyMain
<1>12. CASE EnterBlock \/ EnterCase \/ EnterFor
  <2>1. PICK kind \in {"block", "case", "for_init"} : PushGCScope(kind) /\ ~over
    BY <1>12 DEF EnterBlock, EnterCase, EnterFor, AtStatement
  <2>2. kind \in Kind \ {"main"}
    BY DEF Kind
  <2> QED BY <1>4, <2>1, <2>2
<1>13. CASE Break \/ Continue
  BY <1>7, <1>13 DEF Break, Continue, AtStatement
<1> QED BY <1>1, <1>2, <1>3, <1>5, <1>6, <1>8, <1>9, <1>10, <1>11, <1>12,
           <1>13 DEF Next

THEOREM RootInvariant == Spec => []IInv
BY InitIInv, NextIInv, PTL DEF Spec

\* The scopes, the root list and the slots stay in their ranges, and a scope
\* belongs to an activation that is open below it or that it opened.
THEOREM ScopesTypeCorrect == Spec => []TypeOK
<1>1. IInv => TypeOK
  BY DEF IInv
<1> QED BY <1>1, RootInvariant, PTL

LEMMA EndInList ==
  ASSUME IInv, ~over, NEW i \in 1..Len(scopes)
  PROVE  /\ scopes[i].base \in Nat /\ scopes[i].roots \in Nat
         /\ End(scopes, rootStack, i) \in Nat
         /\ End(scopes, rootStack, i) <= Len(rootStack)
<1>1. /\ scopes[i].base \in Nat /\ scopes[i].roots \in Nat
      /\ Len(rootStack) \in Nat /\ End(scopes, rootStack, i) \in Nat
  BY IInvTyped, Numbers
<1>2. End(scopes, rootStack, i) <= Len(rootStack)
  <2>1. CASE i = Len(scopes)
    BY <2>1, <1>1 DEF End
  <2>2. CASE i # Len(scopes)
    <3>1. i + 1 \in 1..Len(scopes)
      BY <2>2, IInvTyped
    <3> QED BY <2>2, <3>1 DEF End, IInv, Segments, Bases
  <2> QED BY <2>1, <2>2
<1> QED BY <1>1, <1>2

\* Every variable of every open scope is on the root list, whatever the
\* program nests, calls, returns from and jumps out of (the pops emitted by
\* genBlock, genForStmt, genReturnStmt and genFuncDef).
THEOREM LiveVariablesRooted == Spec => []LiveVarsRooted
<1>1. IInv => LiveVarsRooted
  <2> SUFFICES ASSUME IInv, ~over, NEW i \in 1..Len(scopes),
                      NEW s \in scopes[i].vars
               PROVE  s \in Rooted
    BY DEF LiveVarsRooted
  <2>1. PICK k \in (scopes[i].base + 1)..End(scopes, rootStack, i) :
           rootStack[k] = s
    BY DEF IInv, Segments, Holds
  <2>2. k \in 1..Len(rootStack)
    BY <2>1, EndInList, IInvTyped
  <2> QED BY <2>1, <2>2 DEF Rooted
<1> QED BY <1>1, RootInvariant, PTL

\* No scope pops below the list it was entered with, and no return more than
\* the list holds: the roots of the callers outlive every call.
THEOREM CallersRootsKept == Spec => []OuterRootsKept
<1>1. IInv => OuterRootsKept
  <2> SUFFICES ASSUME IInv, ~over
               PROVE  /\ \A i \in 1..Len(scopes) :
                           scopes[i].base + scopes[i].roots <= Len(rootStack)
                      /\ Top.sum <= Len(rootStack)
    BY DEF OuterRootsKept
  <2>1. ASSUME NEW i \in 1..Len(scopes)
        PROVE  scopes[i].base + scopes[i].roots <= Len(rootStack)
    <3>1. scopes[i].base + scopes[i].roots <= End(scopes, rootStack, i)
      BY DEF IInv, Segments, Counted
    <3> QED BY <3>1, EndInList, IInvTyped, Room
  <2>2. Top.sum <= Len(rootStack)
    <3>1. /\ Len(scopes) \in 1..Len(scopes) /\ Top.act \in 1..Len(scopes)
          /\ Top.sum \in Nat /\ Len(rootStack) \in Nat
      BY IInvTyped
    <3>2. scopes[Top.act].base + Top.sum <= Len(rootStack)
      BY <3>1 DEF IInv, Segments, Counted, End, Top
    <3>3. scopes[Top.act].base \in Nat
      BY <3>1, EndInList
    <3> QED BY <3>1, <3>2, <3>3
  <2> QED BY <2>1, <2>2
<1> QED BY <1>1, RootInvariant, PTL

-----------------------------------------------------------------------------
(***************************************************************************)
(* While no branch has left roots behind, the segments are exactly as long *)
(* as counted, and every root is that of a variable of the activation its  *)
(* scope belongs to.                                                       *)
(***************************************************************************)
Tight(sc, rs) ==
  /\ sc[1].base = 0
  /\ \A i \in 1..Len(sc) :
       /\ sc[i].base + sc[i].roots = End(sc, rs, i)
       /\ sc[sc[i].act].base + sc[i].sum = End(sc, rs, i)

Owned(sc, rs, al) ==
  \A k \in 1..Len(rs) : \E i \in 1..Len(sc) :
    sc[i].base < k /\ rs[k] \in sc[i].vars /\ al[rs[k]] = sc[i].act

Distinct(rs) == \A j, k \in 1..Len(rs) : rs[j] = rs[k] => j = k

Exact(sc, rs, al) == Tight(sc, rs) /\ Owned(sc, rs, al) /\ Distinct(rs)

MInv ==
  ~leaked => IF over THEN rootStack = <<>> ELSE Exact(scopes, rootStack, alloc)

\* What a declaration of s, and the closing of all scopes but m, change.
Declared(sc, sd, s) ==
  LET n == Len(sc)
  IN  /\ Len(sd) = n /\ \A i \in 1..(n - 1) : sd[i] = sc[i]
      /\ sd[n].base = sc[n].base /\ sd[n].act = sc[n].act
      /\ sd[n].roots = sc[n].roots + 1 /\ sd[n].sum = sc[n].sum + 1
      /\ sd[n].vars = sc[n].vars \cup {s}
Taken(al, am, s, act) ==
  /\ al[s] = 0 /\ am[s] = act
  /\ \A t \in Slot : t # s => am[t] = al[t]
Prefix(sc, sd, m) == Len(sd) = m /\ \A i \in 1..m : sd[i] = sc[i]
StillTaken(al, am, m) == \A t \in Slot : al[t] \in 1..m => am[t] = al[t]

\* A declaration takes a slot that belongs to no activation.
LEMMA PushExact ==
  ASSUME NEW sc, Typed(sc), NEW sd, NEW rs \in Seq(Slot), NEW s \in Slot,
         NEW al, NEW am, Exact(sc, rs, al), sc[Len(sc)].base <= Len(rs),
         Declared(sc, sd, s), Taken(al, am, s, sc[Len(sc)].act)
  PROVE  Exact(sd, Append(rs, s), am)
<1> USE DEF Declared, Taken
<1> DEFINE n == Len(sc)
           rt == Append(rs, s)
<1>1. /\ n \in Nat \ {0} /\ Len(rs) \in Nat
      /\ \A i \in 1..n :
              /\ sc[i].base \in Nat /\ sc[i].roots \in Nat
              /\ sc[i].sum \in Nat /\ sc[i].act \in 1..i
  BY Numbers
<1>2. /\ Len(rt) = Len(rs) + 1 /\ rt[Len(rs) + 1] = s
      /\ \A k \in 1..Len(rs) : rt[k] = rs[k] /\ rs[k] \in Slot
  BY AppendFacts, ElementOfSeq
<1> HIDE DEF rt
<1>3. \A i \in 1..n : /\ sd[i].base = sc[i].base /\ sd[i].act = sc[i].act
                      /\ sc[i].vars \subseteq sd[i].vars
                      /\ sc[i].act \in 1..n
  <2> SUFFICES ASSUME NEW i \in 1..n
               PROVE  /\ sd[i].base = sc[i].base /\ sd[i].act = sc[i].act
                      /\ sc[i].vars \subseteq sd[i].vars
                      /\ sc[i].act \in 1..n
    OBVIOUS
  <2>1. i = n \/ i \in 1..(n - 1)
    BY <1>1
  <2>2. sc[i].act \in 1..i
    BY <1>1
  <2> QED BY <2>1, <2>2, <1>1
<1>4. Tight(sd, rt)
  <2>1. sd[1].base = 0
    <3>1. sc[1].base = 0
      BY <1>1 DEF Exact, Tight
    <3>2. 1 \in 1..n
      BY <1>1
    <3> QED BY <3>1, <3>2, <1>3
  <2>2. ASSUME NEW i \in 1..n
        PROVE  /\ sd[i].base + sd[i].roots = End(sd, rt, i)
               /\ sd[sd[i].act].base + sd[i].sum = End(sd, rt, i)
    <3>1. /\ sc[i].base + sc[i].roots = End(sc, rs, i)
          /\ sc[sc[i].act].base + sc[i].sum = End(sc, rs, i)
      BY DEF Exact, Tight
    <3>2. sd[sd[i].act].base = sc[sc[i].act].base
      BY <1>3
    <3>3. CASE i = n
      <4>1. End(sc, rs, n) = Len(rs) /\ End(sd, rt, n) = Len(rs) + 1
        BY <1>2 DEF End
      <4>2. sc[i].base \in Nat /\ sc[i].roots \in Nat /\ sc[i].sum \in Nat
            /\ sc[sc[i].act].base \in Nat
        BY <1>1, <1>3
      <4>3. /\ sc[i].base + (sc[i].roots + 1) = Len(rs) + 1
            /\ sc[sc[i].act].base + (sc[i].sum + 1) = Len(rs) + 1
        <5>1. sc[i].base + sc[i].roots = Len(rs)
          BY <3>1, <3>3, <4>1
        <5>2. sc[sc[i].act].base + sc[i].sum = Len(rs)
          BY <3>1, <3>3, <4>1
        <5> DEFINE b == sc[i].base
                   r == sc[i].roots
                   c == sc[sc[i].act].base
                   t == sc[i].sum
                   e == Len(rs)
        <5>5. b \in Nat /\ r \in Nat /\ c \in Nat /\ t \in Nat /\ e \in Nat
          BY <4>2, <1>1
        <5> HIDE DEF b, r, c, t, e
        <5>3. b + r = e => b + (r + 1) = e + 1
          BY <5>5
        <5>4. c + t = e => c + (t + 1) = e + 1
          BY <5>5
        <5> USE DEF b, r, c, t, e
        <5> QED BY <5>1, <5>2, <5>3, <5>4
      <4> QED BY <3>2, <3>3, <4>1, <4>3
    <3>4. CASE i # n
      <4>1. i \in 1..(n - 1) /\ i + 1 \in 1..n
        BY <3>4, <1>1
      <4>2. End(sd, rt, i) = End(sc, rs, i)
        BY <3>4, <4>1, <1>3 DEF End
      <4> QED BY <3>1, <3>2, <4>1, <4>2
    <3> QED BY <3>3, <3>4
  <2> QED BY <2>1, <2>2 DEF Tight
<1>5. \A k \in 1..Len(rt) : k = Len(rs) + 1 \/ k \in 1..Len(rs)
  BY <1>1, <1>2
<1>6. \A k \in 1..Len(rs) : al[rs[k]] # 0 /\ rs[k] # s
  BY <1>1, SMTT(20) DEF Exact, Owned
<1>7. Owned(sd, rt, am)
  <2> SUFFICES ASSUME NEW k \in 1..Len(rt)
               PROVE  \E i \in 1..n : /\ sd[i].base < k /\ rt[k] \in sd[i].vars
                                      /\ am[rt[k]] = sd[i].act
    BY DEF Owned
  <2>1. CASE k = Len(rs) + 1
    <3>1. n \in 1..n /\ sd[n].base < k /\ rt[k] = s
      BY <2>1, <1>1, <1>2
    <3> QED BY <3>1
  <2>2. CASE k \in 1..Len(rs)
    <3>1. PICK i \in 1..n : /\ sc[i].base < k /\ rs[k] \in sc[i].vars
                            /\ al[rs[k]] = sc[i].act
      BY <2>2 DEF Exact, Owned
    <3>2. rt[k] = rs[k] /\ am[rs[k]] = al[rs[k]]
      BY <2>2, <1>2, <1>6
    <3> QED BY <3>1, <3>2, <1>3
  <2> QED BY <2>1, <2>2, <1>5
<1>8. Distinct(rt)
  <2> SUFFICES ASSUME NEW j \in 1..Len(rt), NEW k \in 1..Len(rt), rt[j] = rt[k]
               PROVE  j = k
    BY DEF Distinct
  <2>1. CASE j \in 1..Len(rs) /\ k \in 1..Len(rs)
    BY <2>1, <1>2 DEF Exact, Distinct
  <2>2. CASE j = Len(rs) + 1 /\ k \in 1..Len(rs)
    BY <2>2, <1>2, <1>6
  <2>3. CASE j \in 1..Len(rs) /\ k = Len(rs) + 1
    BY <2>3, <1>2, <1>6
  <2> QED BY <2>1, <2>2, <2>3, <1>5
<1> QED BY <1>4, <1>7, <1>8 DEF Exact, rt

\* A new scope has no roots yet.
LEMMA OpenExact ==
  ASSUME NEW sc, Typed(sc), NEW sd, NEW rs \in Seq(Slot), NEW al,
         Exact(sc, rs, al), NEW n, n = Len(sc), Len(sd) = n + 1,
         StillOpen(sc, sd), sd[n + 1].base = Len(rs), sd[n + 1].roots = 0,
         \/ sd[n + 1].act = n + 1 /\ sd[n + 1].sum = 0
         \/ sd[n + 1].act = sc[n].act /\ sd[n + 1].sum = sc[n].sum
  PROVE  Exact(sd, rs, al)
<1> USE DEF StillOpen
<1>1. /\ n \in Nat \ {0} /\ Len(rs) \in Nat
      /\ \A i \in 1..n : sc[i].act \in 1..i /\ sc[i].act \in 1..n
  <2>1. /\ n \in Nat \ {0} /\ Len(rs) \in Nat
        /\ \A i \in 1..n : sc[i].act \in 1..i
    BY Numbers
  <2>2. \A i \in 1..n : \A a \in 1..i : a \in 1..n
    BY <2>1
  <2> QED BY <2>1, <2>2
<1>2. /\ \A i \in 1..n : End(sd, rs, i) = End(sc, rs, i)
      /\ End(sc, rs, n) = Len(rs) /\ End(sd, rs, n + 1) = Len(rs)
  <2>1. End(sc, rs, n) = Len(rs) /\ End(sd, rs, n + 1) = Len(rs)
    BY DEF End
  <2>2. ASSUME NEW i \in 1..n PROVE End(sd, rs, i) = End(sc, rs, i)
    <3>1. i # n + 1 /\ (i = n \/ i + 1 \in 1..n)
      BY <1>1
    <3> QED BY <3>1 DEF End
  <2> QED BY <2>1, <2>2
<1>3. Tight(sd, rs)
  <2>1. sd[1].base = 0
    BY <1>1 DEF Exact, Tight
  <2>2. ASSUME NEW i \in 1..(n + 1)
        PROVE  /\ sd[i].base + sd[i].roots = End(sd, rs, i)
               /\ sd[sd[i].act].base + sd[i].sum = End(sd, rs, i)
    <3>1. CASE i \in 1..n
      <4>1. sd[sd[i].act].base = sc[sc[i].act].base
        BY <3>1, <1>1
      <4> QED BY <3>1, <4>1, <1>2 DEF Exact, Tight
    <3>2. CASE i = n + 1
      <4>1. n \in 1..n /\ sc[n].act \in 1..n
        BY <1>1
      <4>2. sd[sc[n].act].base = sc[sc[n].act].base
        BY <4>1
      <4>3. sc[sc[n].act].base + sc[n].sum = Len(rs)
        BY <4>1, <1>2 DEF Exact, Tight
      <4> QED BY <3>2, <4>2, <4>3, <1>1, <1>2
    <3> QED BY <3>1, <3>2, <1>1
  <2> QED BY <2>1, <2>2 DEF Tight
<1>4. Owned(sd, rs, al)
  <2>1. 1..n \subseteq 1..(n + 1)
    BY <1>1
  <2> QED BY <2>1, ZenonT(40) DEF Exact, Owned
<1> QED BY <1>3, <1>4 DEF Exact

\* Scopes are closed and exactly their roots are popped.
LEMMA CutExact ==
  ASSUME NEW sc, Typed(sc), NEW sd, NEW rs \in Seq(Slot), NEW rt \in Seq(Slot),
         NEW al, NEW am, Bases(sc, rs), Exact(sc, rs, al),
         NEW m \in 1..(Len(sc) - 1), Prefix(sc, sd, m),
         Prefix(rs, rt, sc[m + 1].base), StillTaken(al, am, m)
  PROVE  Exact(sd, rt, am)
<1> USE DEF Prefix, StillTaken
<1> DEFINE n == Len(sc)
<1>1. /\ n \in Nat \ {0} /\ Len(rs) \in Nat /\ Len(rt) \in Nat
      /\ m + 1 \in 1..n /\ Len(rt) <= Len(rs)
      /\ \A i \in 1..n : sc[i].base \in Nat /\ sc[i].act \in 1..i
  <2>1. /\ n \in Nat \ {0} /\ Len(rs) \in Nat /\ Len(rt) \in Nat
        /\ \A i \in 1..n : sc[i].base \in Nat /\ sc[i].act \in 1..i
    BY Numbers, LenProperties
  <2>2. m + 1 \in 1..n
    BY <2>1
  <2>3. Len(rt) <= Len(rs)
    BY <2>2 DEF Bases
  <2> QED BY <2>1, <2>2, <2>3
<1>2. \A i \in 1..m : i \in 1..n /\ sc[i].act \in 1..m
  <2>1. \A i \in 1..m : i \in 1..n /\ \A a \in 1..i : a \in 1..m
    BY <1>1
  <2> QED BY <2>1, <1>1
<1>3. \A i \in 1..m : End(sd, rt, i) = End(sc, rs, i)
  <2> SUFFICES ASSUME NEW i \in 1..m PROVE End(sd, rt, i) = End(sc, rs, i)
    OBVIOUS
  <2>1. i # n /\ (i = m \/ i + 1 \in 1..m)
    BY <1>1
  <2> QED BY <2>1 DEF End
<1>4. Tight(sd, rt)
  <2>1. sd[1].base = 0
    BY SMTT(20) DEF Exact, Tight
  <2>2. ASSUME NEW i \in 1..m
        PROVE  /\ sd[i].base + sd[i].roots = End(sd, rt, i)
               /\ sd[sd[i].act].base + sd[i].sum = End(sd, rt, i)
    <3>1. i \in 1..n /\ sd[sd[i].act].base = sc[sc[i].act].base
      BY <1>2
    <3> QED BY <3>1, <1>3 DEF Exact, Tight
  <2> QED BY <2>1, <2>2 DEF Tight
<1>5. Owned(sd, rt, am)
  <2> SUFFICES ASSUME NEW k \in 1..Len(rt)
               PROVE  \E i \in 1..m : /\ sd[i].base < k /\ rt[k] \in sd[i].vars
                                      /\ am[rt[k]] = sd[i].act
    BY DEF Owned
  <2>1. k \in 1..Len(rs) /\ rt[k] = rs[k] /\ rs[k] \in Slot
    BY <1>1, ElementOfSeq
  <2>2. PICK i \in 1..n : /\ sc[i].base < k /\ rs[k] \in sc[i].vars
                          /\ al[rs[k]] = sc[i].act
    BY <2>1 DEF Exact, Owned
  <2>3. i \in 1..m
    <3>1. CASE i >= m + 1
      <4>1. sc[m + 1].base <= sc[i].base
        BY <3>1, <1>1 DEF Bases
      <4> QED BY <4>1, <2>2, <1>1
    <3> QED BY <3>1
  <2>4. am[rs[k]] = al[rs[k]]
    BY <2>1, <2>2, <2>3, <1>2
  <2> QED BY <2>1, <2>2, <2>3, <2>4, ZenonT(40)
<1>6. Distinct(rt)
  <2>1. 1..Len(rt) \subseteq 1..Len(rs)
    BY <1>1
  <2> QED BY <2>1 DEF Exact, Distinct
<1> QED BY <1>4, <1>5, <1>6 DEF Exact

LEMMA InitMInv == Init => MInv
<1> SUFFICES ASSUME Init PROVE Exact(scopes, rootStack, alloc)
  BY DEF MInv, Init
<1> DEFINE m == [kind |-> "main", roots |-> 0, sum |-> 0, act |-> 1,
                 vars |-> {}, base |-> 0]
<1>1. scopes = <<m>> /\ rootStack = <<>>
  BY DEF Init
<1>2. m.roots = 0 /\ m.sum = 0 /\ m.act = 1 /\ m.base = 0
  OBVIOUS
<1> HIDE DEF m
<1>3. Len(scopes) = 1 /\ scopes[1] = m /\ Len(rootStack) = 0
  BY <1>1
<1>4. \A i \in 1..Len(scopes) : i = 1 /\ End(scopes, rootStack, i) = 0
  BY <1>3 DEF End
<1> QED BY <1>2, <1>3, <1>4 DEF Exact, Tight, Owned, Distinct

\* A declaration.
LEMMA PushMatch ==
  ASSUME IInv, MInv, ~over, UNCHANGED <<over, leaked>>, NEW s \in Slot,
         EmitGCPush(s), Alloca(s)
  PROVE  MInv'
<1> SUFFICES ASSUME ~leaked PROVE Exact(scopes', rootStack', alloc')
  BY DEF MInv
<1> DEFINE n == Len(scopes)
           r == Top.roots + 1
           t == Top.sum + 1
           v == Top.vars \cup {s}
           new == [Top EXCEPT !.roots = r, !.sum = t, !.vars = v]
<1>1. Typed(scopes) /\ rootStack \in Seq(Slot) /\ Top \in Scope /\ n \in 1..n
      /\ Top = scopes[n] /\ scopes \in Seq(Scope)
  BY IInvTyped DEF Top, Typed
<1>2. scopes' = [scopes EXCEPT ![n] = new] /\ rootStack' = Append(rootStack, s)
  BY DEF EmitGCPush
<1>3. r \in Nat /\ t \in Nat /\ v \in SUBSET Slot
  BY <1>1, SMTT(20) DEF Scope
<1> HIDE DEF r, t, v
<1>4. /\ new \in Scope /\ new.act = Top.act /\ new.base = Top.base
      /\ new.roots = r /\ new.sum = t /\ new.vars = v
  BY <1>1, <1>3 DEF Scope
<1> HIDE DEF new
<1>5. /\ Len(scopes') = n /\ scopes'[n] = new
      /\ \A i \in 1..n : i # n => scopes'[i] = scopes[i]
  BY <1>1, <1>2, <1>4, ExceptSeq
<1>6. \A i \in 1..(n - 1) : scopes'[i] = scopes[i]
  BY <1>1, <1>5, IInvTyped
<1>7. /\ alloc[s] = 0 /\ alloc'[s] = scopes[n].act
      /\ \A u \in Slot : u # s => alloc'[u] = alloc[u]
  BY <1>1 DEF Alloca, IInv, TypeOK
<1>8. Exact(scopes, rootStack, alloc) /\ scopes[n].base <= Len(rootStack)
  BY <1>1 DEF MInv, IInv, Segments, Bases
<1>9. /\ scopes'[n].base = scopes[n].base /\ scopes'[n].act = scopes[n].act
      /\ scopes'[n].roots = scopes[n].roots + 1
      /\ scopes'[n].sum = scopes[n].sum + 1
      /\ scopes'[n].vars = scopes[n].vars \cup {s}
  BY <1>1, <1>4, <1>5 DEF r, t, v
<1>10. Declared(scopes, scopes', s)
  BY <1>5, <1>6, <1>9 DEF Declared
<1>11. Taken(alloc, alloc', s, scopes[Len(scopes)].act)
  BY <1>7 DEF Taken
<1>12. Exact(scopes', Append(rootStack, s), alloc')
  BY <1>1, <1>8, <1>10, <1>11, PushExact
<1> QED BY <1>2, <1>12

\* A scope is opened.
LEMMA OpenMatch ==
  ASSUME IInv, MInv, ~over, UNCHANGED <<rootStack, alloc, written, over, leaked>>,
         NEW sc \in Seq(Scope), Len(sc) = Len(scopes), StillOpen(scopes, sc),
         NEW kind \in Kind, NEW act \in Nat, NEW sum \in Nat,
         \/ act = Len(scopes) + 1 /\ sum = 0
         \/ act = Top.act /\ sum = Top.sum,
         scopes' = Append(sc, Open(kind, act, sum))
  PROVE  MInv'
<1> SUFFICES ASSUME ~leaked PROVE Exact(scopes', rootStack, alloc)
  BY DEF MInv
<1> DEFINE n == Len(scopes)
           new == Open(kind, act, sum)
<1>1. /\ new \in Scope /\ new.act = act /\ new.sum = sum
      /\ new.base = Len(rootStack) /\ new.roots = 0
  BY IInvTyped DEF Open, Scope
<1> HIDE DEF new
<1>2. /\ Len(scopes') = n + 1 /\ scopes'[n + 1] = new
      /\ \A i \in 1..n : scopes'[i] = sc[i]
  BY <1>1, AppendFacts DEF new
<1>3. StillOpen(scopes, scopes')
  BY <1>2 DEF StillOpen
<1>4. Typed(scopes) /\ rootStack \in Seq(Slot) /\ n = Len(scopes)
      /\ Exact(scopes, rootStack, alloc)
  BY IInvTyped DEF MInv
<1>5. /\ scopes'[n + 1].base = Len(rootStack) /\ scopes'[n + 1].roots = 0
      /\ \/ scopes'[n + 1].act = n + 1 /\ scopes'[n + 1].sum = 0
         \/ /\ scopes'[n + 1].act = scopes[n].act
            /\ scopes'[n + 1].sum = scopes[n].sum
  BY <1>1, <1>2 DEF Top
<1> HIDE DEF n
<1>6. CASE scopes'[n + 1].act = n + 1 /\ scopes'[n + 1].sum = 0
  BY <1>2, <1>3, <1>4, <1>5, <1>6, OpenExact
<1>7. CASE /\ scopes'[n + 1].act = scopes[n].act
           /\ scopes'[n + 1].sum = scopes[n].sum
  BY <1>2, <1>3, <1>4, <1>5, <1>7, OpenExact
<1> QED BY <1>5, <1>6, <1>7

\* The scopes above the m-th are left and their roots popped.
LEMMA CutMatch ==
  ASSUME IInv, MInv, ~over, UNCHANGED over, ~leaked,
         NEW m \in 1..(Len(scopes) - 1), scopes' = SubSeq(scopes, 1, m),
         rootStack' \in Seq(Slot),
         Prefix(rootStack, rootStack', scopes[m + 1].base),
         StillTaken(alloc, alloc', m)
  PROVE  MInv'
<1>1. m \in 0..Len(scopes) /\ scopes \in Seq(Scope)
  BY IInvTyped DEF Typed
<1>2. Prefix(scopes, scopes', m)
  BY <1>1, PrefixProperties DEF Prefix
<1>3. /\ Typed(scopes) /\ rootStack \in Seq(Slot) /\ Bases(scopes, rootStack)
      /\ Exact(scopes, rootStack, alloc)
  BY IInvTyped DEF IInv, MInv, Segments
<1>4. Exact(scopes', rootStack', alloc')
  BY <1>2, <1>3, CutExact
<1> QED BY <1>4 DEF MInv

\* What n pops leave when the list is at least that long.
LEMMA PopsPrefix ==
  ASSUME rootStack \in Seq(Slot), NEW n \in Nat, NEW b \in Nat,
         b + n = Len(rootStack), EmitGCPops(n)
  PROVE  rootStack' \in Seq(Slot) /\ Prefix(rootStack, rootStack', b)
<1>1. /\ rootStack' \in Seq(Slot)
      /\ Len(rootStack') = IF n < Len(rootStack) THEN Len(rootStack) - n ELSE 0
      /\ \A k \in 1..Len(rootStack') : rootStack'[k] = rootStack[k]
  BY PopsProperties
<1>2. Len(rootStack') = b
  BY <1>1
<1> QED BY <1>1, <1>2 DEF Prefix

LEMMA NextMInv == IInv /\ MInv /\ [Next]_vars => MInv'
<1> SUFFICES ASSUME IInv, MInv, [Next]_vars PROVE MInv'
  OBVIOUS
<1> USE IInvTyped
<1>n. /\ Top.kind \in Kind /\ Len(scopes) \in 1..Len(scopes)
      /\ scopes \in Seq(Scope) /\ alloc \in [Slot -> Nat]
  <2>1. Top.kind \in Kind
    BY DEF Scope
  <2>2. Len(scopes) \in 1..Len(scopes)
    OBVIOUS
  <2>3. scopes \in Seq(Scope) /\ alloc \in [Slot -> Nat]
    BY DEF IInv, TypeOK
  <2> QED BY <2>1, <2>2, <2>3
<1>1. ASSUME NEW s \in Slot, VarDecl(s) \/ StoredDecl(s) PROVE MInv'
  <2>1. ~over /\ UNCHANGED <<over, leaked>> /\ EmitGCPush(s) /\ Alloca(s)
    BY <1>1 DEF VarDecl, StoredDecl
  <2> QED BY <2>1, PushMatch
<1>2. ASSUME NEW s \in Slot, Store(s) PROVE MInv'
  BY <1>2 DEF Store, MInv
<1>3. CASE EnterBlock \/ EnterCase \/ EnterFor \/ Call
  <2>1. PICK kind \in Kind, act \in Nat, sum \in Nat :
          /\ \/ act = Len(scopes) + 1 /\ sum = 0
             \/ act = Top.act /\ sum = Top.sum
          /\ scopes' = Append(scopes, Open(kind, act, sum))
          /\ ~over /\ UNCHANGED <<rootStack, alloc, written, over, leaked>>
    <3>1. CASE Call
      <4>1. "func" \in Kind /\ Len(scopes) + 1 \in Nat
        BY DEF Kind
      <4> QED BY <3>1, <4>1 DEF Call
    <3>2. CASE EnterBlock \/ EnterCase \/ EnterFor
      <4>1. PICK kind \in {"block", "case", "for_init"} :
              PushGCScope(kind) /\ ~over
        BY <3>2 DEF EnterBlock, EnterCase, EnterFor, AtStatement
      <4>2. kind \in Kind /\ Top.act \in Nat /\ Top.sum \in Nat
        BY DEF Kind
      <4> QED BY <4>1, <4>2 DEF PushGCScope
    <3> QED BY <1>3, <3>1, <3>2
  <2>2. StillOpen(scopes, scopes)
    BY DEF StillOpen
  <2> QED BY <1>n, <2>1, <2>2, OpenMatch
<1>4. CASE EnterBody
  <2> DEFINE top == [Top EXCEPT !.kind = IF Top.kind = "for_init"
                                         THEN "for_loop" ELSE Top.kind]
             sc == [scopes EXCEPT ![Len(scopes)] = top]
  <2>1. /\ top \in Scope
        /\ top.base = Top.base /\ top.act = Top.act /\ top.roots = Top.roots
        /\ top.sum = Top.sum /\ top.vars = Top.vars
    <3>1. (IF Top.kind = "for_init" THEN "for_loop" ELSE Top.kind) \in Kind
      BY <1>n DEF Kind
    <3> QED BY <3>1 DEF Scope
  <2> HIDE DEF top
  <2>2. /\ sc \in Seq(Scope) /\ Len(sc) = Len(scopes)
        /\ sc[Len(scopes)] = top
        /\ \A i \in 1..Len(scopes) : i # Len(scopes) => sc[i] = scopes[i]
    BY <2>1, <1>n, ExceptSeq
  <2>3. /\ scopes' = Append(sc, Open("body", Top.act, Top.sum))
        /\ ~over /\ UNCHANGED <<rootStack, alloc, written, over, leaked>>
    BY <1>4 DEF EnterBody, top
  <2> HIDE DEF sc
  <2>4. StillOpen(scopes, sc)
    BY <2>1, <2>2 DEF Top, StillOpen
  <2>5. "body" \in Kind /\ Top.act \in Nat /\ Top.sum \in Nat
    BY DEF Kind
  <2> QED BY <2>2, <2>3, <2>4, <2>5, OpenMatch
<1>5. CASE PopGCScope
  <2> SUFFICES ASSUME ~leaked PROVE MInv'
    BY <1>5 DEF PopGCScope, MInv
  <2> DEFINE m == Len(scopes) - 1
  <2>1. ~over /\ UNCHANGED <<alloc, over, leaked>> /\ Top.kind # "main"
        /\ EmitGCPops(Top.roots) /\ scopes' = SubSeq(scopes, 1, m)
    BY <1>5 DEF PopGCScope
  <2>2. m \in 1..(Len(scopes) - 1) /\ m + 1 = Len(scopes)
    BY <2>1 DEF IInv, OnlyMain, Top
  <2>3. Top.base \in Nat /\ Top.base + Top.roots = Len(rootStack)
    BY <2>1, <1>n DEF MInv, Exact, Tight, End, Top, Scope
  <2>4. rootStack' \in Seq(Slot) /\ Prefix(rootStack, rootStack', Top.base)
    BY <2>1, <2>3, PopsPrefix
  <2>5. Prefix(rootStack, rootStack', scopes[m + 1].base)
    BY <2>2, <2>4 DEF Top
  <2>6. StillTaken(alloc, alloc', m)
    BY <2>1 DEF StillTaken
  <2> HIDE DEF m
  <2> QED BY <2>1, <2>2, <2>4, <2>5, <2>6, CutMatch
<1>6. ASSUME NEW kinds, BranchOut(kinds), ~over PROVE MInv'
  <2> SUFFICES ASSUME ~leaked' PROVE MInv'
    BY DEF MInv
  <2>1. PICK i \in 1..Len(scopes) :
          /\ Innermost(i, kinds) /\ scopes' = SubSeq(scopes, 1, i - 1)
          /\ leaked' = (leaked \/ scopes[i].base < Len(rootStack))
          /\ UNCHANGED <<rootStack, alloc, written, over>>
    BY <1>6 DEF BranchOut
  <2> DEFINE m == i - 1
  <2>2. m \in 1..(Len(scopes) - 1) /\ m + 1 = i
    BY <2>1 DEF Innermost
  <2>3. ~leaked /\ scopes[i].base = Len(rootStack)
    <3>1. scopes[i].base <= Len(rootStack)
      BY <1>6 DEF IInv, Segments, Bases
    <3>2. scopes[i].base \in Nat
      BY Numbers
    <3>3. ~leaked /\ ~(scopes[i].base < Len(rootStack))
      BY <2>1
    <3>4. scopes[i].base = Len(rootStack)
      BY <3>1, <3>2, <3>3
    <3> QED BY <3>3, <3>4
  <2>4. Prefix(rootStack, rootStack', scopes[m + 1].base)
    BY <2>1, <2>2, <2>3 DEF Prefix
  <2>5. StillTaken(alloc, alloc', m) /\ rootStack' \in Seq(Slot)
        /\ UNCHANGED over /\ scopes' = SubSeq(scopes, 1, m)
    BY <2>1 DEF StillTaken
  <2> HIDE DEF m
  <2> QED BY <1>6, <2>2, <2>3, <2>4, <2>5, CutMatch
<1>7. CASE Return
  <2> SUFFICES ASSUME ~leaked PROVE MInv'
    BY <1>7 DEF Return, MInv
  <2> DEFINE m == Top.act - 1
  <2>1. /\ ~over /\ UNCHANGED over /\ Top.act > 1 /\ Leave(Top.act)
        /\ EmitGCPops(Top.sum) /\ scopes' = SubSeq(scopes, 1, m)
    BY <1>7 DEF Return
  <2>2. m \in 1..(Len(scopes) - 1) /\ m + 1 = Top.act
    BY <2>1
  <2>3. /\ scopes[Top.act].base + Top.sum = Len(rootStack)
        /\ scopes[Top.act].base \in Nat
    BY <2>1, <1>n, Numbers DEF MInv, Exact, Tight, End, Top
  <2>4. /\ rootStack' \in Seq(Slot)
        /\ Prefix(rootStack, rootStack', scopes[Top.act].base)
    BY <2>1, <2>3, PopsPrefix
  <2>5. Prefix(rootStack, rootStack', scopes[m + 1].base)
    BY <2>2, <2>4
  <2>6. StillTaken(alloc, alloc', m)
    <3>1. \A a \in 1..m : a # Top.act
      BY <2>2
    <3> QED BY <3>1, <2>1, <1>n DEF Leave, StillTaken
  <2> HIDE DEF m
  <2> QED BY <2>1, <2>2, <2>4, <2>5, <2>6, CutMatch
<1>8. CASE MainEnds
  <2> SUFFICES ASSUME ~leaked PROVE rootStack' = <<>>
    BY <1>8 DEF MainEnds, MInv
  <2>1. ~over /\ Top.kind = "main" /\ EmitGCPops(Top.roots)
    BY <1>8 DEF MainEnds
  <2>2. Len(scopes) = 1
    BY <2>1, <1>n DEF IInv, OnlyMain, Top
  <2>3. 0 + Top.roots = Len(rootStack)
    BY <2>1, <2>2, <1>n DEF MInv, Exact, Tight, End, Top
  <2>4. rootStack' \in Seq(Slot) /\ Prefix(rootStack, rootStack', 0)
    BY <2>1, <2>3, PopsPrefix
  <2> QED BY <2>4, EmptySeq DEF Prefix
<1>9. CASE UNCHANGED vars
  BY <1>9 DEF vars, MInv
<1>10. CASE Break \/ Continue
  BY <1>6, <1>10 DEF Break, Continue, AtStatement
<1> QED BY <1>1, <1>2, <1>3, <1>4, <1>5, <1>7, <1>8, <1>9, <1>10 DEF Next

\* Until a branch leaves roots behind, the root list is exactly the variables
\* in scope, each once, and main leaves none (the balance of emitGCPush and
\* emitGCPops over every path through blocks, loops, calls and returns).
THEOREM RootsAreScopes == Spec => []RootsMatchScopes
<1>1. IInv /\ MInv => RootsMatchScopes
  <2> SUFFICES ASSUME IInv, MInv, ~leaked, ~over
               PROVE  /\ Rooted = UNION {scopes[i].vars : i \in 1..Len(scopes)}
                      /\ Cardinality(Rooted) = Len(rootStack)
    BY DEF RootsMatchScopes, MInv
  <2> DEFINE n == Len(rootStack)
             f == [k \in 1..n |-> rootStack[k]]
  <2>1. n \in Nat
    BY IInvTyped
  <2>2. Rooted = UNION {scopes[i].vars : i \in 1..Len(scopes)}
    <3>1. ASSUME NEW i \in 1..Len(scopes), NEW s \in scopes[i].vars
          PROVE  s \in Rooted
      <4>1. PICK k \in (scopes[i].base + 1)..End(scopes, rootStack, i) :
               rootStack[k] = s
        BY DEF IInv, Segments, Holds
      <4>2. k \in 1..Len(rootStack)
        BY <4>1, EndInList, IInvTyped
      <4> QED BY <4>1, <4>2 DEF Rooted
    <3>2. ASSUME NEW k \in 1..n
          PROVE  \E i \in 1..Len(scopes) : rootStack[k] \in scopes[i].vars
      BY DEF MInv, Exact, Owned
    <3> QED BY <3>1, <3>2, SMTT(20) DEF Rooted
  <2>3. f \in Bijection(1..n, Rooted)
    <3>1. f \in [1..n -> Rooted] /\ \A s \in Rooted : \E k \in 1..n : f[k] = s
      BY DEF Rooted
    <3>2. \A j, k \in 1..n : f[j] = f[k] => j = k
      BY DEF MInv, Exact, Distinct
    <3> QED BY <3>1, <3>2 DEF Bijection, Injection, Surjection, IsInjective
  <2>4. Cardinality(Rooted) = n
    <3>1. ExistsBijection(1..n, Rooted)
      BY <2>3 DEF ExistsBijection
    <3> QED BY <3>1, <2>1, FS_CountingElements
  <2> QED BY <2>2, <2>4
<1> QED BY <1>1, InitMInv, NextMInv, InitIInv, NextIInv, PTL DEF Spec
=============================================================================
