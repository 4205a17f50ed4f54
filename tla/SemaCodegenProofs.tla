------------------------- MODULE SemaCodegenProofs -------------------------
(***************************************************************************)
(* Proofs about the two passes over a program (SemaCodegen).               *)
(***************************************************************************)
EXTENDS SemaCodegen, FiniteSetTheorems, SequenceTheorems,
        WellFoundedInduction, TLAPS
-----------------------------------------------------------------------------
(***************************************************************************)
(* The constructs open, and how many of them are of some kinds K.          *)
(***************************************************************************)
BreakKinds == Loops \cup {"switch"}
ForKinds == {"for", "forin"}
Kinds == Loops \cup {"if", "stray", "switch"}
Construct == [kind : Kinds, pos : Nat \ {0}]

Strayed(o) == \E k \in 1..Len(o) : o[k].kind = "stray"
Sight(o) == {k \in 1..Len(o) : \A j \in 1..k : o[j].kind # "stray"}
Of(o, S, K) == {k \in S : o[k].kind \in K}
Count(o, S, K) == Cardinality(Of(o, S, K))
One(c, K) == IF c.kind \in K THEN 1 ELSE 0

LEMMA FrontLast ==
  ASSUME NEW C, NEW o \in Seq(C), o # <<>>
  PROVE  /\ Len(o) \in Nat \ {0} /\ Len(Front(o)) = Len(o) - 1
         /\ Front(o) \in Seq(C) /\ Last(o) \in C /\ Last(o) = o[Len(o)]
         /\ \A k \in 1..Len(Front(o)) : Front(o)[k] = o[k]
         /\ o = Append(Front(o), Last(o))
<1>1. Len(o) \in Nat /\ Len(o) # 0
  BY EmptySeq
<1>2. Last(o) = o[Len(o)] /\ Last(o) \in C
  BY <1>1 DEF Last
<1>3. /\ Front(o) \in Seq(C) /\ Len(Front(o)) = Len(o) - 1
      /\ \A k \in 1..Len(Front(o)) : Front(o)[k] = o[k]
  <2>1. Front(o) = [k \in 1..(Len(o) - 1) |-> o[k]]
    BY <1>1 DEF Front
  <2>2. \A k \in 1..(Len(o) - 1) : o[k] \in C
    BY <1>1
  <2>3. Len(o) - 1 \in Nat
    BY <1>1
  <2> QED BY <2>1, <2>2, <2>3
<1>4. o = Append(Front(o), Last(o))
  BY <1>1, <1>2, <1>3
<1> QED BY <1>1, <1>2, <1>3, <1>4

LEMMA CountType ==
  ASSUME NEW o \in Seq(Construct), NEW S \in SUBSET (1..Len(o)), NEW K
  PROVE  /\ IsFiniteSet(S)
         /\ Cardinality(S) \in Nat /\ Cardinality(S) <= Len(o)
         /\ IsFiniteSet(Of(o, S, K))
         /\ Count(o, S, K) \in Nat /\ Count(o, S, K) <= Len(o)
<1>1. Len(o) \in Nat
  OBVIOUS
<1>2. IsFiniteSet(1..Len(o)) /\ Cardinality(1..Len(o)) = Len(o)
  <2>1. \A n \in Nat : IsFiniteSet(1..n) /\ Cardinality(1..n) = n
    <3> TAKE n \in Nat
    <3>1. Cardinality(1..n) = IF 1 > n THEN 0 ELSE n - 1 + 1
      BY FS_Interval
    <3> QED BY <3>1, FS_Interval
  <2> QED BY <1>1, <2>1
<1>3. IsFiniteSet(S) /\ Cardinality(S) <= Len(o) /\ Cardinality(S) \in Nat
  BY <1>2, FS_Subset, FS_CardinalityType
<1>4. Of(o, S, K) \subseteq 1..Len(o)
  BY DEF Of
<1>5. /\ IsFiniteSet(Of(o, S, K)) /\ Count(o, S, K) <= Len(o)
      /\ Count(o, S, K) \in Nat
  BY <1>2, <1>4, FS_Subset, FS_CardinalityType DEF Count
<1> QED BY <1>1, <1>3, <1>5

LEMMA CountMonotone ==
  ASSUME NEW o \in Seq(Construct), NEW S \in SUBSET (1..Len(o)),
         NEW K, NEW L, K \subseteq L
  PROVE  Count(o, S, K) <= Count(o, S, L)
<1>1. Of(o, S, K) \subseteq Of(o, S, L)
  BY DEF Of
<1> QED BY <1>1, CountType, FS_Subset DEF Count

\* A construct that is opened counts if its place is in sight.
LEMMA CountAppend ==
  ASSUME NEW o \in Seq(Construct), NEW c \in Construct,
         NEW S \in SUBSET (1..Len(o)), NEW K
  PROVE  /\ Count(Append(o, c), S, K) = Count(o, S, K)
         /\ Count(Append(o, c), S \cup {Len(o) + 1}, K)
              = Count(o, S, K) + One(c, K)
         /\ Cardinality(S \cup {Len(o) + 1}) = Cardinality(S) + 1
<1> DEFINE p == Append(o, c)
           n == Len(o) + 1
<1>1. /\ Len(o) \in Nat /\ n \notin S /\ p[n] = c
      /\ \A k \in S : p[k] = o[k]
  OBVIOUS
<1>2. Of(p, S, K) = Of(o, S, K)
  BY <1>1 DEF Of
<1>3. Of(p, S \cup {n}, K) = Of(o, S, K) \cup IF c.kind \in K THEN {n} ELSE {}
  BY <1>1 DEF Of
<1>4. IsFiniteSet(Of(o, S, K)) /\ IsFiniteSet(S) /\ Count(o, S, K) \in Nat
  BY CountType
<1>5. n \notin Of(o, S, K)
  BY <1>1 DEF Of
<1>6. Cardinality(S \cup {n}) = Cardinality(S) + 1
  BY <1>1, <1>4, FS_AddElement
<1>7. CASE c.kind \in K
  <2>1. Cardinality(Of(o, S, K) \cup {n}) = Cardinality(Of(o, S, K)) + 1
    BY <1>4, <1>5, FS_AddElement
  <2> QED BY <1>2, <1>3, <1>6, <1>7, <2>1 DEF Count, One
<1>8. CASE c.kind \notin K
  <2>1. Of(p, S \cup {n}, K) = Of(o, S, K) /\ One(c, K) = 0
    BY <1>3, <1>8 DEF One
  <2>2. Count(o, S, K) = Count(o, S, K) + 0
    BY <1>4
  <2> QED BY <1>2, <1>6, <2>1, <2>2 DEF Count
<1> QED BY <1>7, <1>8

\* The analyser sees what stands before the first stray block.
LEMMA SightAppend ==
  ASSUME NEW o \in Seq(Construct), NEW c \in Construct
  PROVE  /\ Strayed(Append(o, c)) <=> (Strayed(o) \/ c.kind = "stray")
         /\ Sight(o) \in SUBSET (1..Len(o))
         /\ ~Strayed(o) => Sight(o) = 1..Len(o)
         /\ Sight(Append(o, c)) = IF Strayed(o) \/ c.kind = "stray"
                                  THEN Sight(o) ELSE Sight(o) \cup {Len(o) + 1}
<1> DEFINE p == Append(o, c)
<1>1. /\ Len(o) \in Nat /\ Len(p) = Len(o) + 1 /\ p[Len(o) + 1] = c
      /\ \A k \in 1..Len(o) : p[k] = o[k]
  OBVIOUS
<1> HIDE DEF p
<1>2. Strayed(p) <=> (Strayed(o) \/ c.kind = "stray")
  <2>1. 1..Len(p) = (1..Len(o)) \cup {Len(o) + 1}
    BY <1>1
  <2> QED BY <1>1, <2>1 DEF Strayed
<1>3. /\ Sight(o) \in SUBSET (1..Len(o))
      /\ ~Strayed(o) => Sight(o) = 1..Len(o)
  BY <1>1 DEF Sight, Strayed
<1>4. \A k \in 1..Len(o) : k \in Sight(p) <=> k \in Sight(o)
  BY <1>1 DEF Sight
<1>5. Len(o) + 1 \in Sight(p) <=> ~Strayed(o) /\ c.kind # "stray"
  BY <1>1 DEF Sight, Strayed
<1>6. Sight(p) \subseteq 1..(Len(o) + 1)
  BY <1>1 DEF Sight
<1>7. Sight(p) = IF Strayed(o) \/ c.kind = "stray"
                 THEN Sight(o) ELSE Sight(o) \cup {Len(o) + 1}
  BY <1>1, <1>3, <1>4, <1>5, <1>6
<1> QED BY <1>2, <1>3, <1>7 DEF p
-----------------------------------------------------------------------------
(***************************************************************************)
(* First and last places                                                   *)
(***************************************************************************)
LEMMA LeastNumber ==
  ASSUME NEW S \in SUBSET Nat, S # {}
  PROVE  \E n \in S : \A m \in S : n <= m
<1>1. PICK n \in S : \A m \in S : ~(<<m, n>> \in OpToRel(<, Nat))
  BY WFMin, NatLessThanWellFounded
<1>2. \A m \in S : ~(m < n)
  BY <1>1 DEF OpToRel
<1> QED BY <1>2

LEMMA GreatestNumber ==
  ASSUME NEW n \in Nat, NEW S \in SUBSET (1..n), S # {}
  PROVE  Max(S) \in S /\ \A m \in S : m <= Max(S)
<1> DEFINE T == {n - m : m \in S}
<1>1. T \in SUBSET Nat /\ T # {}
  <2>1. \A m \in S : n - m \in Nat
    OBVIOUS
  <2> QED BY <2>1
<1>2. PICK d \in T : \A e \in T : d <= e
  BY <1>1, LeastNumber
<1>3. PICK x \in S : d = n - x
  OBVIOUS
<1>4. \A m \in S : n - x <= n - m
  BY <1>2, <1>3
<1>5. \A m \in S : x >= m
  BY <1>4
<1> QED BY <1>5 DEF Max

LEMMA SmallestNumber ==
  ASSUME NEW n \in Nat, NEW S \in SUBSET (1..n), S # {}
  PROVE  Min(S) \in S /\ \A m \in S : Min(S) <= m
<1>1. PICK x \in S : \A m \in S : x <= m
  BY LeastNumber
<1> QED BY <1>1 DEF Min

\* The innermost construct of the kinds K.
Innermost(o, K) == SelectLastInSeq(o, LAMBDA c : c.kind \in K)

LEMMA InnermostIs ==
  ASSUME NEW o \in Seq(Construct), NEW K
  PROVE  LET k == Innermost(o, K)
         IN  \/ k = 0 /\ \A i \in 1..Len(o) : o[i].kind \notin K
             \/ /\ k \in 1..Len(o) /\ o[k].kind \in K
                /\ \A i \in 1..Len(o) : o[i].kind \in K => i <= k
<1> DEFINE I == {i \in 1..Len(o) : o[i].kind \in K}
<1>1. Innermost(o, K) = IF I # {} THEN Max(I) ELSE 0
  BY DEF Innermost, SelectLastInSeq
<1>2. Len(o) \in Nat /\ I \in SUBSET (1..Len(o))
  OBVIOUS
<1>3. I # {} => Max(I) \in I /\ \A m \in I : m <= Max(I)
  BY <1>2, GreatestNumber
<1> QED BY <1>1, <1>3
-----------------------------------------------------------------------------
(***************************************************************************)
(* A tracker: where the open constructs of the kinds K began, in order.    *)
(***************************************************************************)
Tracks(t, o, K) ==
  /\ t \in Seq(Nat \ {0})
  /\ Len(t) = Count(o, 1..Len(o), K)
  /\ \A k \in 1..Len(o) :
       o[k].kind \in K => t[Count(o, 1..k, K)] = o[k].pos

LEMMA CountUpTo ==
  ASSUME NEW o \in Seq(Construct), NEW K, NEW k \in 1..Len(o),
         o[k].kind \in K
  PROVE  Count(o, 1..k, K) \in 1..Count(o, 1..Len(o), K)
<1>1. (1..k) \in SUBSET (1..Len(o)) /\ (1..Len(o)) \in SUBSET (1..Len(o))
  OBVIOUS
<1>2. /\ Count(o, 1..k, K) \in Nat /\ Count(o, 1..Len(o), K) \in Nat
      /\ IsFiniteSet(Of(o, 1..k, K)) /\ IsFiniteSet(Of(o, 1..Len(o), K))
  BY <1>1, CountType
<1>3. Of(o, 1..k, K) \subseteq Of(o, 1..Len(o), K)
  BY <1>1 DEF Of
<1>4. Count(o, 1..k, K) <= Count(o, 1..Len(o), K)
  BY <1>2, <1>3, FS_Subset DEF Count
<1>5. k \in Of(o, 1..k, K)
  BY DEF Of
<1>6. Count(o, 1..k, K) # 0
  BY <1>2, <1>5, FS_EmptySet DEF Count
<1> QED BY <1>2, <1>4, <1>6

LEMMA CountSame ==
  ASSUME NEW o \in Seq(Construct), NEW c \in Construct, NEW K,
         NEW k \in 1..Len(o)
  PROVE  Count(Append(o, c), 1..k, K) = Count(o, 1..k, K)
<1>1. (1..k) \in SUBSET (1..Len(o))
  OBVIOUS
<1> QED BY <1>1, CountAppend

LEMMA TracksAppend ==
  ASSUME NEW o \in Seq(Construct), NEW c \in Construct, NEW K, NEW t,
         Tracks(t, o, K)
  PROVE  Tracks(IF c.kind \in K THEN Append(t, c.pos) ELSE t, Append(o, c), K)
<1> DEFINE p == Append(o, c)
           n == Count(o, 1..Len(o), K)
           u == IF c.kind \in K THEN Append(t, c.pos) ELSE t
<1>1. /\ Len(o) \in Nat /\ Len(p) = Len(o) + 1 /\ p[Len(o) + 1] = c
      /\ \A k \in 1..Len(o) : p[k] = o[k]
      /\ 1..Len(p) = (1..Len(o)) \cup {Len(o) + 1}
      /\ (1..Len(o)) \in SUBSET (1..Len(o))
  OBVIOUS
<1>2. n \in Nat /\ t \in Seq(Nat \ {0}) /\ Len(t) = n
  BY <1>1, CountType DEF Tracks
<1>3. Count(p, 1..Len(p), K) = n + One(c, K)
  <2>1. Count(p, (1..Len(o)) \cup {Len(o) + 1}, K) = n + One(c, K)
    BY <1>1, CountAppend
  <2> QED BY <1>1, <2>1
<1>4. c.pos \in Nat \ {0}
  BY DEF Construct
<1>5. /\ u \in Seq(Nat \ {0}) /\ Len(u) = n + One(c, K)
      /\ \A i \in 1..n : u[i] = t[i]
      /\ c.kind \in K => u[n + 1] = c.pos
  BY <1>2, <1>4 DEF One
<1>6. ASSUME NEW k \in 1..Len(p), p[k].kind \in K
      PROVE  u[Count(p, 1..k, K)] = p[k].pos
  <2>1. CASE k \in 1..Len(o)
    <3>1. Count(p, 1..k, K) = Count(o, 1..k, K)
      BY <2>1, CountSame
    <3>2. Count(o, 1..k, K) \in 1..n
      BY <1>1, <1>6, <2>1, CountUpTo
    <3>3. t[Count(o, 1..k, K)] = o[k].pos
      BY <1>1, <1>6, <2>1 DEF Tracks
    <3> QED BY <1>1, <1>5, <2>1, <3>1, <3>2, <3>3
  <2>2. CASE k = Len(o) + 1
    BY <1>1, <1>3, <1>5, <1>6, <2>2 DEF One
  <2> QED BY <1>1, <2>1, <2>2
<1> HIDE DEF p, u
<1>7. Tracks(u, p, K)
  BY <1>3, <1>5, <1>6 DEF Tracks
<1> QED BY <1>7 DEF p, u

LEMMA TracksFront ==
  ASSUME NEW o \in Seq(Construct), o # <<>>, NEW K, NEW t, Tracks(t, o, K)
  PROVE  Tracks(IF Last(o).kind \in K THEN Front(t) ELSE t, Front(o), K)
<1> DEFINE f == Front(o)
           c == Last(o)
           n == Count(f, 1..Len(f), K)
           u == IF c.kind \in K THEN Front(t) ELSE t
<1>1. /\ f \in Seq(Construct) /\ c \in Construct /\ o = Append(f, c)
      /\ Len(f) \in Nat /\ Len(o) = Len(f) + 1
      /\ \A k \in 1..Len(f) : f[k] = o[k]
  BY FrontLast
<1> HIDE DEF f, c
<1>2. /\ 1..Len(o) = (1..Len(f)) \cup {Len(f) + 1}
      /\ (1..Len(f)) \in SUBSET (1..Len(f)) /\ (1..Len(f)) \subseteq 1..Len(o)
  BY <1>1
<1>3. Count(o, 1..Len(o), K) = n + One(c, K) /\ n \in Nat
  BY <1>1, <1>2, CountAppend, CountType, SMTT(20)
<1>4. t \in Seq(Nat \ {0}) /\ Len(t) = n + One(c, K)
  BY <1>3 DEF Tracks
<1>5. /\ u \in Seq(Nat \ {0}) /\ Len(u) = n
      /\ \A i \in 1..n : u[i] = t[i]
  <2>1. CASE c.kind \in K
    <3>1. Len(t) = n + 1 /\ t # <<>>
      BY <1>3, <1>4, <2>1 DEF One
    <3>2. /\ Front(t) \in Seq(Nat \ {0}) /\ Len(Front(t)) = Len(t) - 1
          /\ \A i \in 1..Len(Front(t)) : Front(t)[i] = t[i]
      BY <1>4, <3>1, FrontLast, ZenonT(40)
    <3>3. Len(Front(t)) = n
      BY <1>3, <3>1, <3>2
    <3> QED BY <2>1, <3>2, <3>3
  <2>2. CASE c.kind \notin K
    BY <1>3, <1>4, <2>2 DEF One
  <2> QED BY <2>1, <2>2
<1>6. ASSUME NEW k \in 1..Len(f), f[k].kind \in K
      PROVE  u[Count(f, 1..k, K)] = f[k].pos
  <2>1. Count(o, 1..k, K) = Count(f, 1..k, K)
    BY <1>1, CountSame
  <2>2. Count(f, 1..k, K) \in 1..n
    BY <1>1, <1>6, CountUpTo
  <2>3. t[Count(o, 1..k, K)] = o[k].pos
    BY <1>1, <1>2, <1>6 DEF Tracks
  <2> QED BY <1>1, <1>5, <2>1, <2>2, <2>3
<1> HIDE DEF u
<1>7. Tracks(u, f, K)
  BY <1>5, <1>6 DEF Tracks
<1> QED BY <1>7 DEF u, f, c

\* The end of a tracker is the innermost construct of its kinds.
LEMMA TracksLast ==
  ASSUME NEW o \in Seq(Construct), NEW K, NEW t, Tracks(t, o, K)
  PROVE  LET k == Innermost(o, K)
         IN  /\ k = 0 <=> t = <<>>
             /\ k # 0 => Last(t) = o[k].pos /\ o[k].pos # 0
<1> DEFINE k == Innermost(o, K)
           n == Count(o, 1..Len(o), K)
<1> HIDE DEF k
<1>1. /\ Len(o) \in Nat /\ (1..Len(o)) \in SUBSET (1..Len(o))
      /\ t \in Seq(Nat \ {0}) /\ Len(t) = n
      /\ IsFiniteSet(Of(o, 1..Len(o), K))
  <2>1. Len(o) \in Nat /\ (1..Len(o)) \in SUBSET (1..Len(o))
    OBVIOUS
  <2>2. IsFiniteSet(Of(o, 1..Len(o), K))
    BY <2>1, CountType
  <2>3. t \in Seq(Nat \ {0}) /\ Len(t) = n
    BY DEF Tracks
  <2> QED BY <2>1, <2>2, <2>3
<1>2. CASE k = 0 /\ \A i \in 1..Len(o) : o[i].kind \notin K
  <2>1. Of(o, 1..Len(o), K) = {}
    BY <1>2 DEF Of
  <2>2. Len(t) = 0
    BY <1>1, <2>1, FS_EmptySet DEF Count
  <2>3. t = <<>>
    BY <1>1, <2>2, EmptySeq
  <2> QED BY <1>2, <2>3 DEF k
<1>3. CASE /\ k \in 1..Len(o) /\ o[k].kind \in K
           /\ \A i \in 1..Len(o) : o[i].kind \in K => i <= k
  <2>1. Of(o, 1..Len(o), K) = Of(o, 1..k, K)
    BY <1>1, <1>3 DEF Of
  <2>2. Count(o, 1..k, K) = n /\ n \in 1..n
    BY <1>3, <2>1, CountUpTo DEF Count
  <2>3. t[n] = o[k].pos /\ o[k] \in Construct
    BY <1>3, <2>2 DEF Tracks
  <2>4. t # <<>> /\ Last(t) = t[n]
    BY <1>1, <2>2 DEF Last
  <2> QED BY <1>3, <2>3, <2>4 DEF k, Construct
<1> QED BY <1>2, <1>3, InnermostIs DEF k

\* What opening a construct adds to the counts of the analyser, which sees
\* nothing behind a stray block.
LEMMA SightCount ==
  ASSUME NEW o \in Seq(Construct), NEW c \in Construct, NEW K
  PROVE  LET p == Append(o, c)
             seen(n) == IF Strayed(p) THEN 0 ELSE n
         IN  /\ Count(o, Sight(o), K) \in Nat
             /\ Cardinality(Sight(o)) \in Nat
             /\ Count(p, Sight(p), K) = Count(o, Sight(o), K) + seen(One(c, K))
             /\ Cardinality(Sight(p)) = Cardinality(Sight(o)) + seen(1)
<1> DEFINE p == Append(o, c)
<1>1. Sight(o) \in SUBSET (1..Len(o))
  BY SightAppend
<1>2. Count(o, Sight(o), K) \in Nat /\ Cardinality(Sight(o)) \in Nat
  BY <1>1, CountType
<1>3. CASE Strayed(p)
  <2>1. Sight(p) = Sight(o)
    BY <1>3, SightAppend
  <2>2. Count(p, Sight(o), K) = Count(o, Sight(o), K)
    BY <1>1, CountAppend
  <2> QED BY <1>2, <1>3, <2>1, <2>2
<1>4. CASE ~Strayed(p)
  <2>1. Sight(p) = Sight(o) \cup {Len(o) + 1}
    BY <1>4, SightAppend
  <2>2. /\ Count(p, Sight(p), K) = Count(o, Sight(o), K) + One(c, K)
        /\ Cardinality(Sight(p)) = Cardinality(Sight(o)) + 1
    BY <1>1, <2>1, CountAppend
  <2> QED BY <1>2, <1>4, <2>2
<1> QED BY <1>3, <1>4

\* The same for the generator, which has scopes for all of them.
LEMMA WholeCount ==
  ASSUME NEW o \in Seq(Construct), NEW c \in Construct, NEW K
  PROVE  LET p == Append(o, c)
             whole(q) == 1..Len(q)
         IN  /\ Count(o, whole(o), K) \in Nat
             /\ Cardinality(whole(o)) \in Nat
             /\ Count(p, whole(p), K) = Count(o, whole(o), K) + One(c, K)
             /\ Cardinality(whole(p)) = Cardinality(whole(o)) + 1
<1> DEFINE p == Append(o, c)
<1>1. /\ (1..Len(o)) \in SUBSET (1..Len(o))
      /\ 1..Len(p) = (1..Len(o)) \cup {Len(o) + 1}
  OBVIOUS
<1>2. Count(o, 1..Len(o), K) \in Nat /\ Cardinality(1..Len(o)) \in Nat
  BY <1>1, CountType
<1>3. /\ Count(p, (1..Len(o)) \cup {Len(o) + 1}, K)
           = Count(o, 1..Len(o), K) + One(c, K)
      /\ Cardinality((1..Len(o)) \cup {Len(o) + 1})
           = Cardinality(1..Len(o)) + 1
  BY <1>1, CountAppend
<1> QED BY <1>1, <1>2, <1>3
-----------------------------------------------------------------------------
(***************************************************************************)
(* Induction, and what the recursive definitions compute.                  *)
(***************************************************************************)
LEMMA Induction ==
  ASSUME NEW S \in SUBSET Nat, 0 \in S, \A n \in S : n + 1 \in S
  PROVE  S = Nat
<1>1. SUFFICES ASSUME Nat \ S # {} PROVE FALSE
  OBVIOUS
<1>2. PICK n \in Nat \ S : \A m \in Nat \ S : n <= m
  BY <1>1, LeastNumber
<1>3. n - 1 \in S
  BY <1>2
<1> QED BY <1>2, <1>3

\* FlattenSeq(seqs) by its parts: flat[i] is that of the first i sequences.
Flat(seqs, n, flat) ==
  \A i \in 1..n : flat[i] = IF i = 1 THEN seqs[i] ELSE flat[i-1] \o seqs[i]

LEMMA FlatExists ==
  ASSUME NEW T, NEW seqs \in Seq(Seq(T))
  PROVE  \E flat \in [1..Len(seqs) -> Seq(T)] : Flat(seqs, Len(seqs), flat)
<1> DEFINE S == {n \in Nat : n <= Len(seqs) =>
                   \E flat \in [1..n -> Seq(T)] : Flat(seqs, n, flat)}
<1>1. 0 \in S
  <2>1. [i \in 1..0 |-> <<>>] \in [1..0 -> Seq(T)]
    OBVIOUS
  <2>2. Flat(seqs, 0, [i \in 1..0 |-> <<>>])
    BY DEF Flat
  <2> QED BY <2>1, <2>2
<1>2. ASSUME NEW n \in S PROVE n + 1 \in S
  <2>1. SUFFICES ASSUME n + 1 <= Len(seqs)
                 PROVE  \E flat \in [1..(n + 1) -> Seq(T)] :
                          Flat(seqs, n + 1, flat)
    OBVIOUS
  <2>2. PICK f \in [1..n -> Seq(T)] : Flat(seqs, n, f)
    BY <2>1
  <2> DEFINE g == [i \in 1..(n + 1) |->
                     IF i <= n THEN f[i]
                     ELSE IF n = 0 THEN seqs[n + 1] ELSE f[n] \o seqs[n + 1]]
  <2>3. seqs[n + 1] \in Seq(T)
    BY <2>1
  <2>4. n # 0 => f[n] \in Seq(T)
    BY <2>2
  <2>5. g \in [1..(n + 1) -> Seq(T)]
    BY <2>2, <2>3, <2>4
  <2>6. ASSUME NEW i \in 1..(n + 1)
        PROVE  g[i] = IF i = 1 THEN seqs[i] ELSE g[i-1] \o seqs[i]
    <3>1. CASE i <= n
      <4>1. f[i] = IF i = 1 THEN seqs[i] ELSE f[i-1] \o seqs[i]
        <5>1. i \in 1..n
          BY <3>1
        <5> QED BY <2>2, <5>1 DEF Flat
      <4>2. g[i] = f[i] /\ (i # 1 => g[i-1] = f[i-1])
        BY <3>1
      <4> QED BY <4>1, <4>2
    <3>2. CASE i = n + 1
      <4>1. g[i] = IF n = 0 THEN seqs[n + 1] ELSE f[n] \o seqs[n + 1]
        BY <3>2
      <4>2. n # 0 => i - 1 = n /\ i # 1 /\ g[n] = f[n]
        BY <3>2
      <4> QED BY <3>2, <4>1, <4>2
    <3> QED BY <3>1, <3>2
  <2> QED BY <2>5, <2>6 DEF Flat
<1>3. S = Nat
  BY <1>1, <1>2, Induction
<1> QED BY <1>3

LEMMA FlattenIs ==
  ASSUME NEW T, NEW seqs \in Seq(Seq(T))
  PROVE  /\ Len(seqs) = 0 => FlattenSeq(seqs) = <<>>
         /\ Len(seqs) # 0 =>
              \E flat : /\ FlattenSeq(seqs) = flat[Len(seqs)]
                        /\ Flat(seqs, Len(seqs), flat)
<1> DEFINE n == Len(seqs)
           Def(f) == f = [i \in 1..n |-> IF i = 1 THEN seqs[i]
                                         ELSE f[i-1] \o seqs[i]]
           flat == CHOOSE f : Def(f)
<1>1. PICK g \in [1..n -> Seq(T)] : Flat(seqs, n, g)
  BY FlatExists
<1>2. Def(g)
  BY <1>1 DEF Flat
<1>3. Def(flat)
  BY <1>2
<1>4. Flat(seqs, n, flat)
  BY <1>3 DEF Flat
<1>5. n = 0 => FlattenSeq(seqs) = seqs /\ seqs = <<>>
  BY EmptySeq DEF FlattenSeq
<1>6. n # 0 => FlattenSeq(seqs) = flat[n]
  BY DEF FlattenSeq
<1> QED BY <1>4, <1>5, <1>6

LEMMA RangeOfConcat ==
  ASSUME NEW T, NEW s \in Seq(T), NEW t \in Seq(T)
  PROVE  Range(s \o t) = Range(s) \cup Range(t)
<1>1. /\ Len(s) \in Nat /\ Len(t) \in Nat /\ Len(s \o t) = Len(s) + Len(t)
      /\ DOMAIN s = 1..Len(s) /\ DOMAIN t = 1..Len(t)
      /\ DOMAIN (s \o t) = 1..(Len(s) + Len(t))
  OBVIOUS
<1>2. \A i \in 1..(Len(s) + Len(t)) :
        (s \o t)[i] = IF i <= Len(s) THEN s[i] ELSE t[i - Len(s)]
  OBVIOUS
<1>3. ASSUME NEW x \in Range(s \o t) PROVE x \in Range(s) \cup Range(t)
  <2>1. PICK i \in 1..(Len(s) + Len(t)) : x = (s \o t)[i]
    BY <1>1 DEF Range
  <2>2. i <= Len(s) => i \in 1..Len(s)
    BY <1>1
  <2>3. ~(i <= Len(s)) => i - Len(s) \in 1..Len(t)
    BY <1>1
  <2> QED BY <1>1, <1>2, <2>1, <2>2, <2>3 DEF Range
<1>4. ASSUME NEW i \in 1..Len(s) PROVE s[i] \in Range(s \o t)
  <2>1. i \in 1..(Len(s) + Len(t)) /\ i <= Len(s)
    BY <1>1
  <2> QED BY <1>1, <1>2, <2>1 DEF Range
<1>5. ASSUME NEW i \in 1..Len(t) PROVE t[i] \in Range(s \o t)
  <2>1. /\ Len(s) + i \in 1..(Len(s) + Len(t)) /\ ~(Len(s) + i <= Len(s))
        /\ Len(s) + i - Len(s) = i
    BY <1>1
  <2>2. (s \o t)[Len(s) + i] = t[i]
    BY <1>2, <2>1
  <2> QED BY <1>1, <2>1, <2>2 DEF Range
<1>6. Range(s) \subseteq Range(s \o t) /\ Range(t) \subseteq Range(s \o t)
  BY <1>1, <1>4, <1>5 DEF Range
<1> QED BY <1>3, <1>6

LEMMA FlattenRange ==
  ASSUME NEW T, NEW seqs \in Seq(Seq(T))
  PROVE  /\ FlattenSeq(seqs) \in Seq(T)
         /\ \A x : x \in Range(FlattenSeq(seqs)) <=>
                     \E i \in 1..Len(seqs) : x \in Range(seqs[i])
<1>1. CASE Len(seqs) = 0
  <2>1. FlattenSeq(seqs) = <<>>
    BY <1>1, FlattenIs
  <2> QED BY <1>1, <2>1 DEF Range
<1>2. CASE Len(seqs) # 0
  <2>1. PICK flat : /\ FlattenSeq(seqs) = flat[Len(seqs)]
                    /\ Flat(seqs, Len(seqs), flat)
    BY <1>2, FlattenIs
  <2> DEFINE Good(n) ==
               /\ flat[n] \in Seq(T)
               /\ \A x : x \in Range(flat[n]) <=>
                           \E i \in 1..n : x \in Range(seqs[i])
             S == {n \in Nat : n + 1 <= Len(seqs) => Good(n + 1)}
  <2>2. 0 \in S
    <3>1. Len(seqs) \in Nat /\ 1 \in 1..Len(seqs)
      BY <1>2
    <3>2. flat[1] = seqs[1] /\ seqs[1] \in Seq(T)
      BY <2>1, <3>1 DEF Flat
    <3>3. Good(1)
      BY <3>2
    <3> QED BY <3>3
  <2>3. ASSUME NEW n \in S PROVE n + 1 \in S
    <3>1. SUFFICES ASSUME n + 1 + 1 <= Len(seqs) PROVE Good(n + 1 + 1)
      OBVIOUS
    <3> DEFINE m == n + 1
    <3>2. /\ m \in Nat /\ m + 1 \in 1..Len(seqs) /\ m + 1 # 1
          /\ m + 1 - 1 = m /\ m <= Len(seqs)
      BY <3>1
    <3>3. Good(m)
      BY <3>2
    <3>4. flat[m + 1] = flat[m] \o seqs[m + 1] /\ seqs[m + 1] \in Seq(T)
      <4>1. \A i \in 1..Len(seqs) :
              flat[i] = IF i = 1 THEN seqs[i] ELSE flat[i-1] \o seqs[i]
        BY <2>1 DEF Flat
      <4> DEFINE q == m + 1
      <4> HIDE DEF m
      <4>3. q \in 1..Len(seqs) /\ q # 1 /\ q - 1 = m
        BY <3>2
      <4> HIDE DEF q
      <4>4. flat[q] = flat[m] \o seqs[q]
        BY <4>1, <4>3
      <4>2. flat[m + 1] = flat[m] \o seqs[m + 1]
        BY <4>4 DEF q
      <4> QED BY <3>2, <4>2
    <3>5. /\ flat[m + 1] \in Seq(T)
          /\ Range(flat[m + 1]) = Range(flat[m]) \cup Range(seqs[m + 1])
      BY <3>3, <3>4, RangeOfConcat
    <3>6. 1..(m + 1) = (1..m) \cup {m + 1}
      BY <3>2
    <3> HIDE DEF m
    <3>7. Good(m + 1)
      BY <3>3, <3>5, <3>6
    <3> QED BY <3>7 DEF m
  <2>4. S = Nat
    BY <2>2, <2>3, Induction
  <2>5. Len(seqs) - 1 \in S /\ Len(seqs) - 1 + 1 = Len(seqs)
    <3>1. Len(seqs) \in Nat /\ Len(seqs) - 1 \in Nat
      BY <1>2
    <3> HIDE DEF S
    <3> QED BY <2>4, <3>1
  <2>6. Good(Len(seqs))
    BY <2>5
  <2> QED BY <2>1, <2>6
<1> QED BY <1>1, <1>2

\* The same for the lineage of a class: line[n] is what n steps to a parent
\* have found.
Longer(s) ==
  IF Parent(Last(s)) \in Classes THEN Append(s, Parent(Last(s))) ELSE s
Line(c, n, line) ==
  \A i \in 0..n : line[i] = IF i = 0 THEN <<c>> ELSE Longer(line[i-1])

LEMMA LineExists ==
  ASSUME NEW c, Len(program) \in Nat
  PROVE  \E line : /\ Lineage(c) = line[Len(program)]
                   /\ Line(c, Len(program), line)
<1> DEFINE S == {n \in Nat : \E line : /\ line = [i \in 0..n |-> line[i]]
                                       /\ Line(c, n, line)}
<1>1. 0 \in S
  <2> DEFINE f == [i \in 0..0 |-> <<c>>]
  <2>1. Line(c, 0, f)
    BY DEF Line
  <2>2. f = [i \in 0..0 |-> f[i]]
    OBVIOUS
  <2> QED BY <2>1, <2>2
<1>2. ASSUME NEW n \in S PROVE n + 1 \in S
  <2>1. PICK f : Line(c, n, f)
    OBVIOUS
  <2> DEFINE g == [i \in 0..(n + 1) |-> IF i <= n THEN f[i] ELSE Longer(f[n])]
  <2>2. ASSUME NEW i \in 0..(n + 1)
        PROVE  g[i] = IF i = 0 THEN <<c>> ELSE Longer(g[i-1])
    <3>1. CASE i <= n
      <4>1. i \in 0..n
        BY <3>1
      <4>2. f[i] = IF i = 0 THEN <<c>> ELSE Longer(f[i-1])
        BY <2>1, <4>1 DEF Line
      <4>3. g[i] = f[i] /\ (i # 0 => g[i-1] = f[i-1])
        BY <3>1
      <4> QED BY <4>2, <4>3
    <3>2. CASE i = n + 1
      <4>1. i # 0 /\ g[i] = Longer(f[n]) /\ g[i-1] = f[n]
        BY <3>2
      <4> QED BY <4>1
    <3> QED BY <3>1, <3>2
  <2>3. Line(c, n + 1, g) /\ g = [i \in 0..(n + 1) |-> g[i]]
    BY <2>2 DEF Line
  <2> HIDE DEF g
  <2>4. n + 1 \in Nat
    OBVIOUS
  <2> QED BY <2>3, <2>4
<1>3. S = Nat
  BY <1>1, <1>2, Induction
<1> DEFINE N == Len(program)
           Def(f) == f = [i \in 0..N |->
                       IF i = 0 THEN <<c>>
                       ELSE IF Parent(Last(f[i-1])) \in Classes
                            THEN Append(f[i-1], Parent(Last(f[i-1])))
                            ELSE f[i-1]]
           line == CHOOSE f : Def(f)
<1>4. PICK f : f = [i \in 0..N |-> f[i]] /\ Line(c, N, f)
  BY <1>3
<1>5. Def(f)
  BY <1>4 DEF Line, Longer
<1>6. Def(line)
  BY <1>5
<1>7. Line(c, N, line)
  BY <1>6 DEF Line, Longer
<1>8. Lineage(c) = line[N]
  BY DEF Lineage
<1> QED BY <1>7, <1>8

\* Each of a lineage is the parent of the one before it, and it ends with a
\* class without a parent in the program, if it is not as long as it can be.
LEMMA LineageIs ==
  ASSUME NEW c \in Classes, Len(program) \in Nat
  PROVE  LET s == Lineage(c)
         IN  /\ s \in Seq(Classes) /\ s # <<>> /\ s[1] = c
             /\ \A k \in 1..(Len(s) - 1) : s[k+1] = Parent(s[k])
             /\ Len(s) <= Len(program) + 1
             /\ Len(s) = Len(program) + 1 \/ Parent(Last(s)) \notin Classes
<1>1. PICK line : /\ Lineage(c) = line[Len(program)]
                  /\ Line(c, Len(program), line)
  BY LineExists
<1> DEFINE N == Len(program)
           Chain(s) == \A k \in 1..(Len(s) - 1) : s[k+1] = Parent(s[k])
           Good(s, n) ==
             /\ s \in Seq(Classes) /\ s # <<>> /\ s[1] = c
             /\ Chain(s) /\ Len(s) <= n + 1
             /\ Len(s) = n + 1 \/ Parent(Last(s)) \notin Classes
           S == {n \in Nat : n <= N => Good(line[n], n)}
<1>2. 0 \in S
  <2>1. line[0] = <<c>>
    BY <1>1 DEF Line
  <2>2. Good(<<c>>, 0)
    OBVIOUS
  <2> QED BY <2>1, <2>2
<1>3. ASSUME NEW n \in S PROVE n + 1 \in S
  <2>1. SUFFICES ASSUME n + 1 <= N PROVE Good(line[n + 1], n + 1)
    OBVIOUS
  <2> DEFINE s == line[n]
  <2>2. Good(s, n) /\ n \in Nat
    BY <2>1
  <2>3. line[n + 1] = Longer(s)
    <3>1. n + 1 \in 0..N /\ n + 1 # 0 /\ n + 1 - 1 = n
      BY <2>1
    <3> QED BY <1>1, <3>1 DEF Line
  <2> HIDE DEF s
  <2>4. CASE Parent(Last(s)) \notin Classes
    <3>1. Good(s, n + 1)
      BY <2>2, <2>4
    <3> QED BY <2>3, <2>4, <3>1 DEF Longer
  <2>5. CASE Parent(Last(s)) \in Classes
    <3> DEFINE p == Parent(Last(s))
               t == Append(s, p)
    <3>1. line[n + 1] = t
      BY <2>3, <2>5 DEF Longer
    <3>2. Len(s) = n + 1
      BY <2>2, <2>5
    <3>3. s \in Seq(Classes) /\ s[1] = c /\ Last(s) = s[n + 1]
      BY <2>2, <3>2 DEF Last
    <3> HIDE DEF p
    <3>4. t \in Seq(Classes) /\ Len(t) = n + 1 + 1 /\ t[n + 1 + 1] = p
      BY <2>2, <2>5, <3>2, <3>3 DEF p
    <3>5. \A k \in 1..(n + 1) : t[k] = s[k]
      BY <2>2, <3>2, <3>3
    <3>6. t # <<>> /\ t[1] = c
      BY <2>2, <3>3, <3>4, <3>5
    <3>7. ASSUME NEW k \in 1..(n + 1) PROVE t[k+1] = Parent(t[k])
      <4>1. CASE k = n + 1
        BY <3>3, <3>4, <3>5, <4>1 DEF p
      <4>2. CASE k # n + 1
        <5>1. k \in 1..n /\ k + 1 \in 1..(n + 1) /\ k \in 1..(n + 1)
          BY <2>2, <4>2
        <5>2. s[k+1] = Parent(s[k])
          BY <2>2, <3>2, <5>1
        <5> QED BY <3>5, <5>1, <5>2
      <4> QED BY <4>1, <4>2
    <3>8. Chain(t)
      BY <2>2, <3>4, <3>7, SMTT(20)
    <3>9. Good(t, n + 1)
      BY <3>4, <3>6, <3>8, SMTT(20)
    <3> QED BY <3>1, <3>9
  <2> QED BY <2>4, <2>5
<1>4. S = Nat
  BY <1>2, <1>3, Induction
<1>5. Good(line[N], N)
  BY <1>4
<1> HIDE DEF N
<1>6. Good(Lineage(c), N)
  BY <1>1, <1>5 DEF N
<1> QED BY <1>6 DEF N
-----------------------------------------------------------------------------
(***************************************************************************)
(* The definitions of the program, and what the passes visit of them.      *)
(***************************************************************************)
Typed == program \in Seq(Definition)

MethodNumbers(d) == 1..Len(program[d].methods)
Visits ==
  {<<program[d].kind, d, 0>> : d \in 1..Len(program)}
    \cup {w \in {"method"} \X Defs("class") \X Nat :
            w[3] \in MethodNumbers(w[2])}
    \cup {Run}
Bodies == {w \in Visits : IsBody(w)}

LEMMA DefinitionIs ==
  ASSUME Typed, NEW d \in 1..Len(program)
  PROVE  /\ program[d].kind \in {"var", "enum", "func", "class"}
         /\ program[d].name \in Name
         /\ program[d].kind = "func" => program[d].params \in Params
         /\ program[d].kind = "class" =>
              /\ program[d].fields \in Seq(FieldDef)
              /\ program[d].methods \in Seq(MethodDef)
<1>1. program[d] \in Definition
  BY DEF Typed
<1> QED BY <1>1 DEF Definition

LEMMA ClassDefIs ==
  ASSUME Typed, NEW c \in Classes
  PROVE  ClassDef(c) \in Defs("class") /\ program[ClassDef(c)].name = c
BY DEF ClassDef, Classes

LEMMA DefsIn ==
  ASSUME NEW kind, NEW d \in Defs(kind)
  PROVE  d \in 1..Len(program) /\ program[d].kind = kind
BY DEF Defs

LEMMA VisitIs ==
  ASSUME Typed, NEW d \in 1..Len(program)
  PROVE  /\ Visit(d) \in Seq(Visits)
         /\ Range(Visit(d)) =
              {<<program[d].kind, d, 0>>}
                \cup IF program[d].kind = "class"
                     THEN {<<"method", d, j>> : j \in MethodNumbers(d)} ELSE {}
<1>1. <<program[d].kind, d, 0>> \in Visits
  BY DEF Visits
<1>2. << <<program[d].kind, d, 0>> >> \in Seq(Visits)
  BY <1>1
<1>3. Range(<< <<program[d].kind, d, 0>> >>) = {<<program[d].kind, d, 0>>}
  BY DEF Range
<1>4. CASE program[d].kind = "class"
  <2>1. d \in Defs("class") /\ Len(program[d].methods) \in Nat
    BY <1>4, DefinitionIs DEF Defs
  <2>2. \A j \in MethodNumbers(d) : <<"method", d, j>> \in Visits
    BY <2>1 DEF Visits, MethodNumbers
  <2>3. MethodsOf(d) \in Seq(Visits)
    BY <2>1, <2>2 DEF MethodsOf, MethodNumbers
  <2>4. Range(MethodsOf(d)) = {<<"method", d, j>> : j \in MethodNumbers(d)}
    BY DEF Range, MethodsOf, MethodNumbers
  <2> DEFINE a == << <<program[d].kind, d, 0>> >>
             b == MethodsOf(d)
  <2>5. Visit(d) = a \o b /\ a \in Seq(Visits) /\ b \in Seq(Visits)
    BY <1>2, <1>4, <2>3 DEF Visit
  <2> HIDE DEF a, b
  <2>6. Range(a \o b) = Range(a) \cup Range(b) /\ a \o b \in Seq(Visits)
    BY <2>5, RangeOfConcat
  <2>7. Range(Visit(d)) = {<<program[d].kind, d, 0>>} \cup Range(MethodsOf(d))
    BY <1>3, <2>5, <2>6 DEF a, b
  <2>8. Visit(d) \in Seq(Visits)
    BY <2>5, <2>6
  <2> QED BY <1>4, <2>4, <2>7, <2>8
<1>5. CASE program[d].kind # "class"
  <2>1. Visit(d) = << <<program[d].kind, d, 0>> >>
    BY <1>2, <1>5 DEF Visit
  <2> QED BY <1>2, <1>3, <1>5, <2>1
<1> QED BY <1>4, <1>5

LEMMA VisitOnlyIs ==
  ASSUME Typed, NEW kinds
  PROVE  /\ VisitOnly(kinds) \in Seq(Visits)
         /\ \A w : w \in Range(VisitOnly(kinds)) <=>
                     \E d \in 1..Len(program) :
                       program[d].kind \in kinds /\ w \in Range(Visit(d))
<1> DEFINE part(d) == IF program[d].kind \in kinds THEN Visit(d) ELSE <<>>
           parts == [d \in 1..Len(program) |-> part(d)]
<1>1. \A d \in 1..Len(program) : part(d) \in Seq(Visits)
  BY VisitIs
<1>2. Len(program) \in Nat
  BY DEF Typed
<1> HIDE DEF part
<1>3. parts \in Seq(Seq(Visits)) /\ Len(parts) = Len(program)
  BY <1>1, <1>2
<1>4. VisitOnly(kinds) = FlattenSeq(parts)
  BY DEF VisitOnly, part
<1> HIDE DEF parts
<1>5. /\ VisitOnly(kinds) \in Seq(Visits)
      /\ \A w : w \in Range(VisitOnly(kinds)) <=>
                  \E d \in 1..Len(program) : w \in Range(parts[d])
  BY <1>3, <1>4, FlattenRange
<1>6. \A d \in 1..Len(program) : \A w :
        w \in Range(parts[d]) <=>
          program[d].kind \in kinds /\ w \in Range(Visit(d))
  BY DEF part, parts, Range
<1> QED BY <1>5, <1>6

LEMMA RunIs ==
  Run \in Visits /\ <<Run>> \in Seq(Visits) /\ Range(<<Run>>) = {Run}
BY DEF Visits, Range

\* The analyser comes to every class and body.
LEMMA SemaWorkIs ==
  ASSUME Typed
  PROVE  /\ SemaWork \in Seq(Visits) /\ Bodies \subseteq Range(SemaWork)
         /\ \A d \in Defs("class") : <<"class", d, 0>> \in Range(SemaWork)
<1> DEFINE kinds == {"var", "func", "class"}
<1>1. /\ SemaWork \in Seq(Visits)
      /\ Range(SemaWork) = Range(VisitOnly(kinds)) \cup {Run}
  <2> DEFINE a == VisitOnly(kinds)
  <2>1. a \in Seq(Visits) /\ SemaWork = a \o <<Run>>
    BY VisitOnlyIs DEF SemaWork
  <2> HIDE DEF a
  <2>2. Range(a \o <<Run>>) = Range(a) \cup Range(<<Run>>)
    BY <2>1, RunIs, RangeOfConcat, ZenonT(40)
  <2>3. a \o <<Run>> \in Seq(Visits)
    BY <2>1, RunIs
  <2> QED BY <2>1, <2>2, <2>3, RunIs DEF a
<1>2. ASSUME NEW w \in Bodies PROVE w \in Range(SemaWork)
  <2>1. CASE w = Run
    BY <1>1, <2>1
  <2>2. ASSUME NEW d \in 1..Len(program), w = <<program[d].kind, d, 0>>
        PROVE  w \in Range(SemaWork)
    <3>1. program[d].kind \in kinds
      BY <2>2, DefinitionIs DEF Bodies, IsBody
    <3>2. w \in Range(Visit(d))
      BY <2>2, VisitIs
    <3> QED BY <1>1, <3>1, <3>2, VisitOnlyIs
  <2>3. ASSUME w \in {"method"} \X Defs("class") \X Nat,
               w[3] \in MethodNumbers(w[2])
        PROVE  w \in Range(SemaWork)
    <3> DEFINE d == w[2]
    <3>1. d \in 1..Len(program) /\ program[d].kind = "class"
      BY <2>3, DefsIn
    <3>2. w = <<"method", d, w[3]>>
      BY <2>3
    <3>3. w \in Range(Visit(d))
      BY <2>3, <3>1, <3>2, VisitIs
    <3> QED BY <1>1, <3>1, <3>3, VisitOnlyIs
  <2> QED BY <2>1, <2>2, <2>3 DEF Bodies, Visits
<1>3. ASSUME NEW d \in Defs("class")
      PROVE  <<"class", d, 0>> \in Range(SemaWork)
  <2>1. d \in 1..Len(program) /\ program[d].kind = "class"
    BY DefsIn
  <2>2. <<"class", d, 0>> \in Range(Visit(d))
    BY <2>1, VisitIs
  <2> QED BY <1>1, <2>1, <2>2, VisitOnlyIs
<1> QED BY <1>1, <1>2, <1>3

LEMMA ClassOrderType ==
  ASSUME Typed
  PROVE  ClassOrder \in Seq(Classes)
<1> DEFINE ancestors(d) == Reverse(Lineage(program[d].name))
           before(d) ==
             UNION {Range(ancestors(e)) : e \in Defs("class") \cap 1..(d - 1)}
           only(c, S) == IF c \in S THEN <<c>> ELSE <<>>
           emit(d, k) == only(ancestors(d)[k], Classes \ before(d))
           parts(d) == [k \in 1..Len(ancestors(d)) |-> emit(d, k)]
           part(d) == IF d \in Defs("class") THEN FlattenSeq(parts(d))
                      ELSE <<>>
<1>1. ClassOrder = FlattenSeq([d \in 1..Len(program) |-> part(d)])
  BY DEF ClassOrder
<1>2. ASSUME NEW d \in Defs("class")
      PROVE  FlattenSeq(parts(d)) \in Seq(Classes)
  <2>1. program[d].name \in Classes /\ Len(program) \in Nat
    BY DEF Classes, Typed
  <2>2. Len(ancestors(d)) \in Nat
    BY <2>1, LineageIs DEF Reverse
  <2>3. \A k : emit(d, k) \in Seq(Classes)
    OBVIOUS
  <2> HIDE DEF emit, ancestors
  <2>4. parts(d) \in Seq(Seq(Classes))
    BY <2>2, <2>3
  <2> QED BY <2>4, FlattenRange
<1>3. Len(program) \in Nat
  BY DEF Typed
<1> HIDE DEF parts
<1>4. \A d \in 1..Len(program) : part(d) \in Seq(Classes)
  BY <1>2
<1> HIDE DEF part
<1>5. [d \in 1..Len(program) |-> part(d)] \in Seq(Seq(Classes))
  BY <1>3, <1>4
<1> QED BY <1>1, <1>5, FlattenRange

LEMMA CodegenWorkType ==
  ASSUME Typed
  PROVE  CodegenWork \in Seq(Visits)
<1> DEFINE part(k) == Visit(ClassDef(ClassOrder[k]))
           parts == [k \in 1..Len(ClassOrder) |-> part(k)]
<1>1. Len(ClassOrder) \in Nat /\ \A k \in 1..Len(ClassOrder) :
        ClassOrder[k] \in Classes
  BY ClassOrderType
<1>2. \A k \in 1..Len(ClassOrder) : part(k) \in Seq(Visits)
  BY <1>1, ClassDefIs, VisitIs, DefsIn
<1> HIDE DEF part
<1>3. parts \in Seq(Seq(Visits))
  BY <1>1, <1>2
<1>4. FlattenSeq(parts) \in Seq(Visits)
  BY <1>3, FlattenRange
<1>5. CodegenWork = FlattenSeq(parts) \o VisitOnly({"func"})
                      \o VisitOnly({"var", "enum"}) \o <<Run>>
  BY DEF CodegenWork, part
<1> QED BY <1>4, <1>5, VisitOnlyIs, RunIs
-----------------------------------------------------------------------------
(***************************************************************************)
(* The symbol table.                                                       *)
(***************************************************************************)
Declaration ==
  ({"global", "param"} \X Name \X {0}) \cup ({"field"} \X Name \X Name)
    \cup ({"local"} \X Nat \X {0})
Entry == [decl : Declaration, reg : BOOLEAN]
Scope == UNION {[D -> Entry] : D \in SUBSET Name}

LEMMA ScopeIs ==
  ASSUME NEW f
  PROVE  /\ f \in Scope => DOMAIN f \subseteq Name /\ f \in [DOMAIN f -> Entry]
         /\ DOMAIN f \subseteq Name /\ f \in [DOMAIN f -> Entry] => f \in Scope
BY DEF Scope

LEMMA EmptyScope == <<>> \in Scope /\ DOMAIN <<>> = {}
<1>1. DOMAIN <<>> = {} /\ <<>> \in [{} -> Entry]
  OBVIOUS
<1> QED BY <1>1, ScopeIs

LEMMA WithIs ==
  ASSUME NEW f \in Scope, NEW n \in Name, NEW e \in Entry
  PROVE  /\ With(f, n, e) \in Scope
         /\ DOMAIN With(f, n, e) = DOMAIN f \cup {n}
         /\ With(f, n, e)[n] = e
         /\ \A m \in DOMAIN f : m # n => With(f, n, e)[m] = f[m]
<1> DEFINE g == With(f, n, e)
<1>1. DOMAIN f \subseteq Name /\ \A m \in DOMAIN f : f[m] \in Entry
  BY ScopeIs
<1>2. /\ g = [m \in DOMAIN f \cup {n} |-> IF m = n THEN e ELSE f[m]]
      /\ DOMAIN g = DOMAIN f \cup {n} /\ g[n] = e
      /\ \A m \in DOMAIN f : m # n => g[m] = f[m]
  BY DEF With
<1>3. DOMAIN g \subseteq Name /\ g \in [DOMAIN g -> Entry]
  BY <1>1, <1>2
<1> HIDE DEF g
<1>4. g \in Scope
  BY <1>3, ScopeIs
<1> QED BY <1>2, <1>4 DEF g

LEMMA AddIs ==
  ASSUME NEW s \in Seq(Scope), s # <<>>, NEW n \in Name,
         NEW decl \in Declaration, NEW reg \in BOOLEAN
  PROVE  LET t == Add(s, n, decl, reg)
         IN  /\ t \in Seq(Scope) /\ Len(t) = Len(s) /\ t # <<>>
             /\ \A k \in 1..Len(s) : k # Len(s) => t[k] = s[k]
             /\ DOMAIN t[Len(s)] = DOMAIN s[Len(s)] \cup {n}
             /\ t[Len(s)][n] = [decl |-> decl, reg |-> reg]
             /\ \A m \in DOMAIN s[Len(s)] :
                  m # n => t[Len(s)][m] = s[Len(s)][m]
<1> DEFINE e == [decl |-> decl, reg |-> reg]
           w == With(s[Len(s)], n, e)
           t == Add(s, n, decl, reg)
<1>1. e \in Entry
  BY DEF Entry
<1>2. Len(s) \in Nat /\ Len(s) # 0 /\ Len(s) \in 1..Len(s)
  BY EmptySeq
<1>3. s[Len(s)] \in Scope
  BY <1>2
<1> HIDE DEF e
<1>4. /\ w \in Scope /\ DOMAIN w = DOMAIN s[Len(s)] \cup {n} /\ w[n] = e
      /\ \A m \in DOMAIN s[Len(s)] : m # n => w[m] = s[Len(s)][m]
  BY <1>1, <1>3, WithIs, ZenonT(40)
<1> HIDE DEF w
<1>5. t = [s EXCEPT ![Len(s)] = w]
  BY DEF Add, w, e
<1> HIDE DEF t
<1>6. /\ t \in Seq(Scope) /\ Len(t) = Len(s) /\ t[Len(s)] = w
      /\ \A k \in 1..Len(s) : k # Len(s) => t[k] = s[k]
  BY <1>2, <1>4, <1>5
<1>7. t # <<>>
  BY <1>2, <1>6
<1> QED BY <1>4, <1>6, <1>7 DEF t, e

LEMMA PushIs ==
  ASSUME NEW s \in Seq(Scope)
  PROVE  LET t == PushScope(s)
         IN  /\ t \in Seq(Scope) /\ Len(t) = Len(s) + 1 /\ t # <<>>
             /\ \A k \in 1..Len(s) : t[k] = s[k]
             /\ t[Len(s) + 1] = <<>>
BY EmptyScope DEF PushScope

LEMMA DropIs ==
  ASSUME NEW s \in Seq(Scope), NEW n \in Nat, n <= Len(s)
  PROVE  LET t == Drop(s, n)
         IN  /\ t \in Seq(Scope) /\ Len(t) = Len(s) - n
             /\ \A k \in 1..(Len(s) - n) : t[k] = s[k]
<1>1. Drop(s, n) = [k \in 1..(Len(s) - n) |-> s[k]]
  BY DEF Drop
<1>2. \A k \in 1..(Len(s) - n) : s[k] \in Scope
  OBVIOUS
<1>3. Len(s) - n \in Nat
  OBVIOUS
<1> QED BY <1>1, <1>2, <1>3

LEMMA PopIs ==
  ASSUME NEW s \in Seq(Scope), s # <<>>
  PROVE  LET t == PopScope(s)
         IN  /\ t \in Seq(Scope) /\ Len(t) = Len(s) - 1
             /\ \A k \in 1..(Len(s) - 1) : t[k] = s[k]
             /\ Len(s) \in Nat \ {0}
BY FrontLast DEF PopScope

\* The place where a name is found.
Found(s, n) == SelectLastInSeq(s, LAMBDA scope : n \in DOMAIN scope)

LEMMA GetIs ==
  ASSUME NEW s \in Seq(Scope), NEW n, Exists(s, n)
  PROVE  LET k == Found(s, n)
         IN  /\ k \in 1..Len(s) /\ n \in DOMAIN s[k]
             /\ \A i \in 1..Len(s) : n \in DOMAIN s[i] => i <= k
             /\ Get(s, n) = s[k][n] /\ Get(s, n) \in Entry
<1> DEFINE I == {i \in 1..Len(s) : n \in DOMAIN s[i]}
<1>1. Found(s, n) = IF I # {} THEN Max(I) ELSE 0
  BY DEF Found, SelectLastInSeq
<1>2. Len(s) \in Nat /\ I \in SUBSET (1..Len(s)) /\ I # {}
  BY DEF Exists
<1>3. Max(I) \in I /\ \A m \in I : m <= Max(I)
  BY <1>2, GreatestNumber
<1>4. Found(s, n) = Max(I)
  BY <1>1, <1>2
<1>5. Get(s, n) = s[Found(s, n)][n]
  BY DEF Get, Found
<1>6. s[Max(I)] \in Scope /\ n \in DOMAIN s[Max(I)]
  BY <1>3
<1>7. s[Max(I)][n] \in Entry
  BY <1>6, ScopeIs
<1> QED BY <1>3, <1>4, <1>5, <1>6, <1>7
-----------------------------------------------------------------------------
(***************************************************************************)
(* The first scope of a body.                                              *)
(***************************************************************************)
LEMMA ClassesNamed == ASSUME Typed PROVE Classes \subseteq Name
BY DefinitionIs, DefsIn DEF Classes

LEMMA NoneIsNoName == None \notin Name
BY DEF Name

LEMMA BodyIs ==
  ASSUME Typed, NEW b \in Bodies
  PROVE  \/ b = Run /\ b[1] = "run"
         \/ /\ b[1] = "func" /\ b[2] \in Defs("func") /\ b[3] = 0
            /\ b = <<"func", b[2], 0>>
         \/ /\ b[1] = "method" /\ b[2] \in Defs("class")
            /\ b[3] \in MethodNumbers(b[2]) /\ b[3] \in Nat
            /\ b = <<"method", b[2], b[3]>>
<1>1. CASE b = Run
  BY <1>1 DEF Run
<1>2. ASSUME NEW d \in 1..Len(program), b = <<program[d].kind, d, 0>>
      PROVE  b[1] = "func" /\ b[2] \in Defs("func") /\ b[3] = 0
  BY <1>2, DefinitionIs DEF Bodies, IsBody, Defs
<1>3. CASE /\ b \in {"method"} \X Defs("class") \X Nat
           /\ b[3] \in MethodNumbers(b[2])
  BY <1>3
<1> QED BY <1>1, <1>2, <1>3 DEF Bodies, Visits

LEMMA ClassOfIs ==
  ASSUME Typed, NEW b \in Bodies
  PROVE  /\ b[1] = "method" => /\ ClassOf(b) = program[b[2]].name
                               /\ ClassOf(b) \in Classes /\ ClassOf(b) # None
         /\ b[1] # "method" => ClassOf(b) = None
<1>1. ASSUME b[1] = "method"
      PROVE  /\ ClassOf(b) = program[b[2]].name
             /\ ClassOf(b) \in Classes
  <2>1. b[2] \in Defs("class")
    BY <1>1, BodyIs DEF Run
  <2> QED BY <1>1, <2>1 DEF ClassOf, Classes
<1> QED BY <1>1, ClassesNamed, NoneIsNoName DEF ClassOf

LEMMA SignatureIs ==
  ASSUME Typed, NEW b \in Bodies, b # Run
  PROVE  Signature(b).params \in Params /\ Signature(b).name \in Name
<1>1. CASE b[1] = "func" /\ b[2] \in Defs("func")
  BY <1>1, DefinitionIs, DefsIn DEF Signature
<1>2. CASE /\ b[1] = "method" /\ b[2] \in Defs("class")
           /\ b[3] \in MethodNumbers(b[2])
  <2>1. program[b[2]].methods \in Seq(MethodDef)
    BY <1>2, DefinitionIs, DefsIn
  <2>2. program[b[2]].methods[b[3]] \in MethodDef
    BY <1>2, <2>1 DEF MethodNumbers
  <2> QED BY <1>2, <2>2 DEF Signature, MethodDef
<1> QED BY <1>1, <1>2, BodyIs

LEMMA FieldsNamed ==
  ASSUME Typed, NEW c \in Classes
  PROVE  Fields(c) \subseteq Name
<1> DEFINE fs == program[ClassDef(c)].fields
<1>1. fs \in Seq(FieldDef)
  BY ClassDefIs, DefinitionIs, DefsIn
<1>2. Fields(c) = {fs[i].name : i \in 1..Len(fs)}
  BY DEF Fields
<1> HIDE DEF fs
<1>3. \A i \in 1..Len(fs) : fs[i] \in FieldDef
  BY <1>1
<1>4. \A f \in FieldDef : f.name \in Name
  BY DEF FieldDef
<1> QED BY <1>2, <1>3, <1>4

\* A field belongs to the nearest class that has it.
LEMMA FieldOwnerIs ==
  ASSUME Typed, NEW c \in Classes, NEW n \in AllFields(c)
  PROVE  /\ FieldOwner(c, n) \in Classes /\ n \in Fields(FieldOwner(c, n))
         /\ n \in Fields(c) => FieldOwner(c, n) = c
<1> DEFINE s == Lineage(c)
           I == {i \in 1..Len(s) : n \in Fields(s[i])}
<1>1. s \in Seq(Classes) /\ s # <<>> /\ s[1] = c
  BY LineageIs DEF Typed
<1> HIDE DEF s
<1>2. Len(s) \in Nat /\ Len(s) # 0 /\ 1 \in 1..Len(s)
  BY <1>1, EmptySeq
<1>3. I # {}
  <2>1. PICK k \in Range(s) : n \in Fields(k)
    BY DEF AllFields, s
  <2>2. PICK i \in 1..Len(s) : k = s[i]
    BY <1>1 DEF Range
  <2> QED BY <2>1, <2>2
<1>4. Min(I) \in I /\ \A m \in I : Min(I) <= m
  BY <1>2, <1>3, SmallestNumber
<1>5. FieldOwner(c, n) = s[Min(I)]
  BY <1>3 DEF FieldOwner, Nearest, SelectInSeq, s
<1>6. n \in Fields(c) => Min(I) = 1
  <2>1. n \in Fields(c) => 1 \in I
    BY <1>1, <1>2
  <2>2. 1 \in I => Min(I) <= 1 /\ Min(I) \in 1..Len(s)
    BY <1>4
  <2> HIDE DEF I
  <2> QED BY <1>2, <2>1, <2>2
<1> QED BY <1>1, <1>4, <1>5, <1>6

LEMMA OwnFields ==
  ASSUME Typed, NEW c \in Classes
  PROVE  Fields(c) \subseteq AllFields(c) /\ AllFields(c) \subseteq Name
<1>1. /\ Lineage(c) \in Seq(Classes) /\ Lineage(c) # <<>>
      /\ Lineage(c)[1] = c
  BY LineageIs DEF Typed
<1>2. c \in Range(Lineage(c)) /\ Range(Lineage(c)) \subseteq Classes
  BY <1>1, EmptySeq DEF Range
<1> QED BY <1>2, FieldsNamed DEF AllFields

\* What a method finds beside its parameters, in either pass.
LEMMA BodyFields ==
  ASSUME Typed, NEW b \in Bodies
  PROVE  /\ SemaFields(b) \subseteq GenFields(b) /\ GenFields(b) \subseteq Name
         /\ GenFields(b) # {} => ClassOf(b) \in Classes
         /\ GenFields(b) \subseteq AllFields(ClassOf(b))
<1>1. CASE ClassOf(b) = None
  BY <1>1 DEF SemaFields, GenFields
<1>2. CASE ClassOf(b) # None
  <2>1. ClassOf(b) \in Classes
    BY <1>2, ClassOfIs
  <2> QED BY <1>2, <2>1, OwnFields DEF SemaFields, GenFields
<1> QED BY <1>1, <1>2

BodyParams(b) ==
  IF b = Run THEN {} ELSE {p.name : p \in Range(Signature(b).params)}

LEMMA BodyParamsNamed ==
  ASSUME Typed, NEW b \in Bodies
  PROVE  BodyParams(b) \subseteq Name
<1>1. CASE b = Run
  BY <1>1 DEF BodyParams
<1>2. CASE b # Run
  <2> DEFINE ps == Signature(b).params
             R == [type : STRING, name : Name]
  <2>1. ps \in Seq(R)
    BY <1>2, SignatureIs DEF Params
  <2>2. BodyParams(b) = {p.name : p \in Range(ps)}
    BY <1>2 DEF BodyParams
  <2>5. \A p \in R : p.name \in Name
    OBVIOUS
  <2> HIDE DEF ps, R
  <2>3. \A i \in 1..Len(ps) : ps[i] \in R
    BY <2>1
  <2>4. \A p \in Range(ps) : p.name \in Name
    BY <2>1, <2>3, <2>5 DEF Range
  <2> QED BY <2>2, <2>4
<1> QED BY <1>1, <1>2

LEMMA BodyScopeIs ==
  ASSUME Typed, NEW b \in Bodies, NEW fields \in SUBSET GenFields(b),
         NEW reg \in BOOLEAN
  PROVE  LET s == BodyScope(b, fields, reg)
         IN  /\ s \in Scope /\ DOMAIN s = BodyParams(b) \cup fields
             /\ \A n \in DOMAIN s :
                  /\ s[n].reg = reg
                  /\ s[n].decl = IF n \in BodyParams(b)
                                 THEN <<"param", n, 0>>
                                 ELSE <<"field", n, FieldOwner(ClassOf(b), n)>>
<1> DEFINE s == BodyScope(b, fields, reg)
           decl(n) == IF n \in BodyParams(b) THEN <<"param", n, 0>>
                      ELSE <<"field", n, FieldOwner(ClassOf(b), n)>>
<1>1. s = [n \in BodyParams(b) \cup fields |->
             [decl |-> decl(n), reg |-> reg]]
  BY DEF BodyScope, BodyParams
<1>2. BodyParams(b) \subseteq Name /\ fields \subseteq Name
  BY BodyParamsNamed, BodyFields
<1>3. \A n \in BodyParams(b) \cup fields : decl(n) \in Declaration
  <2> TAKE n \in BodyParams(b) \cup fields
  <2>1. CASE n \in BodyParams(b)
    BY <1>2, <2>1 DEF Declaration
  <2>2. CASE n \notin BodyParams(b)
    <3>1. n \in AllFields(ClassOf(b)) /\ ClassOf(b) \in Classes /\ n \in Name
      BY <1>2, <2>2, BodyFields
    <3>2. FieldOwner(ClassOf(b), n) \in Name
      BY <3>1, FieldOwnerIs, ClassesNamed
    <3> QED BY <2>2, <3>1, <3>2 DEF Declaration
  <2> QED BY <2>1, <2>2
<1> HIDE DEF decl, s
<1>4. DOMAIN s = BodyParams(b) \cup fields
  BY <1>1
<1>5. \A n \in DOMAIN s : s[n] = [decl |-> decl(n), reg |-> reg]
  BY <1>1
<1>6. s \in [DOMAIN s -> Entry]
  BY <1>1, <1>3, <1>4 DEF Entry
<1>7. s \in Scope
  BY <1>2, <1>4, <1>6, ScopeIs
<1>8. \A n \in DOMAIN s : s[n].decl = decl(n) /\ s[n].reg = reg
  BY <1>5
<1> USE DEF decl
<1>9. \A n \in DOMAIN s :
        s[n].decl = IF n \in BodyParams(b) THEN <<"param", n, 0>>
                    ELSE <<"field", n, FieldOwner(ClassOf(b), n)>>
  BY <1>8
<1> QED BY <1>4, <1>7, <1>8, <1>9 DEF s
-----------------------------------------------------------------------------
(***************************************************************************)
(* What the analyser made of a body, statement by statement: a trace st    *)
(* holds in st[i] the constructs open and the scopes before statement i.   *)
(***************************************************************************)
State == [open : Seq(Construct), scopes : Seq(Scope)]
\* There are scopes for the constructs the analyser sees, and two for a loop
\* with a variable.
Size(o, S) == 2 + Cardinality(S) + Count(o, S, ForKinds)
Level(x) == Len(x.scopes) = Size(x.open, Sight(x.open))
States == {x \in State : Level(x)}

Naming == {"decl", "for", "forin"}
Using == {"use", "decl", "for", "forin"}
Targets(kind) == IF kind = "break" THEN BreakKinds ELSE Loops
HasTarget(o, kind) == \E k \in 1..Len(o) : o[k].kind \in Targets(kind)

\* Statement item, at place i, leads from x to y: in the constructs, ...
Opening(i, item, o) ==
  IF item.op \in Kinds THEN Append(o, [kind |-> item.op, pos |-> i])
  ELSE IF item.op = "close" THEN Front(o) ELSE o
StepOpen(i, item, x, y) ==
  /\ y.open = Opening(i, item, x.open)
  /\ item.op \in {"close", "case"} => x.open # <<>>
  /\ item.op = "jump" => Strayed(x.open) \/ HasTarget(x.open, item.kind)

\* ... in the scopes, ...
Declared(s, n, i) == Add(s, n, <<"local", i, 0>>, FALSE)
Scoped(i, item, x) ==
  LET s == x.scopes
  IN  IF item.op = "decl" THEN Declared(s, item.name, i)
      ELSE IF item.op \in {"if", "while", "switch"} THEN PushScope(s)
      ELSE IF item.op \in ForKinds
           THEN PushScope(Declared(PushScope(s), item.name, i))
      ELSE IF item.op = "case" THEN PushScope(PopScope(s))
      ELSE IF item.op = "close" THEN Drop(s, Scopes(Last(x.open).kind))
      ELSE s
StepScopes(i, item, x, y) ==
  /\ item.op \in Naming => item.name \in Name
  /\ y.scopes = IF Strayed(x.open) THEN x.scopes ELSE Scoped(i, item, x)

\* ... and in what its name was bound to; a field is one of an object.
StepBinds(item, x) ==
  /\ item.op \in Using =>
       IF item.use = None \/ Strayed(x.open) THEN item.bound = None
       ELSE /\ Exists(x.scopes, item.use)
            /\ item.bound = Get(x.scopes, item.use).decl
  /\ item.op = "field" => item.of \in Classes

Step(i, item, x, y) ==
  /\ StepOpen(i, item, x, y) /\ StepScopes(i, item, x, y)
  /\ StepBinds(item, x)

Start(b, x) ==
  /\ x.open = <<>> /\ Len(x.scopes) = 2
  /\ x.scopes[2] = BodyScope(b, SemaFields(b), FALSE)

Trace(b, B, st) ==
  /\ \E T : B \in Seq(T)
  /\ st \in [1..(Len(B) + 1) -> States]
  /\ Start(b, st[1])
  /\ \A i \in 1..Len(B) : Step(i, B[i], st[i], st[i+1])

LEMMA TraceExtend ==
  ASSUME NEW b, NEW B, NEW st, Trace(b, B, st),
         NEW item, NEW y \in States,
         Step(Len(B) + 1, item, st[Len(B) + 1], y)
  PROVE  \E ext : /\ Trace(b, Append(B, item), ext)
                  /\ ext[Len(B) + 2] = y /\ ext[1] = st[1]
                  /\ Len(Append(B, item)) = Len(B) + 1
<1> DEFINE n == Len(B)
           C == Append(B, item)
           ext == [i \in 1..(n + 2) |-> IF i <= n + 1 THEN st[i] ELSE y]
<1> HIDE DEF Step
<1>1. PICK T : B \in Seq(T)
  BY DEF Trace
<1>2. C \in Seq(T \cup {item})
  BY <1>1
<1>3. /\ n \in Nat /\ Len(C) = n + 1 /\ C[n + 1] = item
      /\ \A i \in 1..n : C[i] = B[i]
  BY <1>1
<1>4. st \in [1..(n + 1) -> States] /\ Start(b, st[1])
  BY DEF Trace
<1>5. \A i \in 1..n : Step(i, B[i], st[i], st[i+1])
  BY DEF Trace
<1>6. Step(n + 1, item, st[n + 1], y)
  OBVIOUS
<1> HIDE DEF n, C
<1>7. /\ ext \in [1..(n + 2) -> States] /\ ext[n + 2] = y
      /\ \A i \in 1..(n + 1) : ext[i] = st[i]
  BY <1>3, <1>4
<1> HIDE DEF ext
<1>8. Start(b, ext[1])
  BY <1>3, <1>4, <1>7
<1>9. ASSUME NEW i \in 1..(n + 1) PROVE Step(i, C[i], ext[i], ext[i+1])
  <2>1. CASE i = n + 1
    <3>1. i + 1 = n + 2 /\ n + 1 \in 1..(n + 1)
      BY <1>3, <2>1
    <3> QED BY <1>3, <1>6, <1>7, <2>1, <3>1
  <2>2. CASE i # n + 1
    <3>1. i \in 1..n /\ i + 1 \in 1..(n + 1)
      BY <1>3, <2>2
    <3> QED BY <1>3, <1>5, <1>7, <3>1
  <2> QED BY <2>1, <2>2
<1>10. n + 2 = Len(C) + 1 /\ n + 1 = Len(C)
  BY <1>3
<1>11. Trace(b, C, ext)
  BY <1>2, <1>7, <1>8, <1>9, <1>10 DEF Trace
<1>12. ext[1] = st[1]
  BY <1>3, <1>7
<1> QED BY <1>3, <1>7, <1>11, <1>12 DEF n, C

LEMMA SizeAppend ==
  ASSUME NEW o \in Seq(Construct), NEW c \in Construct
  PROVE  LET p == Append(o, c)
         IN  /\ Size(o, Sight(o)) \in Nat /\ Size(o, Sight(o)) >= 2
             /\ Size(o, 1..Len(o)) \in Nat /\ Size(o, 1..Len(o)) >= 2
             /\ Size(p, Sight(p)) = Size(o, Sight(o)) +
                                    IF Strayed(p) THEN 0 ELSE Scopes(c.kind)
             /\ Size(p, 1..Len(p)) = Size(o, 1..Len(o)) + Scopes(c.kind)
             /\ Scopes(c.kind) \in {1, 2}
<1> DEFINE p == Append(o, c)
<1>1. Scopes(c.kind) = 1 + One(c, ForKinds) /\ One(c, ForKinds) \in {0, 1}
  BY DEF Scopes, One, ForKinds
<1>2. /\ Count(o, Sight(o), ForKinds) \in Nat /\ Cardinality(Sight(o)) \in Nat
      /\ Count(p, Sight(p), ForKinds)
           = Count(o, Sight(o), ForKinds)
             + IF Strayed(p) THEN 0 ELSE One(c, ForKinds)
      /\ Cardinality(Sight(p))
           = Cardinality(Sight(o)) + IF Strayed(p) THEN 0 ELSE 1
  BY SightCount
<1>3. /\ Count(o, 1..Len(o), ForKinds) \in Nat
      /\ Cardinality(1..Len(o)) \in Nat
      /\ Count(p, 1..Len(p), ForKinds)
           = Count(o, 1..Len(o), ForKinds) + One(c, ForKinds)
      /\ Cardinality(1..Len(p)) = Cardinality(1..Len(o)) + 1
  BY WholeCount
<1> HIDE DEF p
<1>4. \A a, b, e \in Nat :
        /\ 2 + a + b \in Nat /\ 2 + a + b >= 2
        /\ 2 + (a + 1) + (b + e) = 2 + a + b + (1 + e)
  OBVIOUS
<1>5. /\ Size(o, Sight(o)) \in Nat /\ Size(o, Sight(o)) >= 2
      /\ Size(o, 1..Len(o)) \in Nat /\ Size(o, 1..Len(o)) >= 2
  BY <1>2, <1>3, <1>4 DEF Size
<1>6. Size(p, 1..Len(p)) = Size(o, 1..Len(o)) + Scopes(c.kind)
  BY <1>1, <1>3, <1>4, SMTT(20) DEF Size
<1>7. Size(p, Sight(p)) = Size(o, Sight(o)) +
                          IF Strayed(p) THEN 0 ELSE Scopes(c.kind)
  <2>1. CASE Strayed(p)
    BY <1>2, <2>1 DEF Size
  <2>2. CASE ~Strayed(p)
    BY <1>1, <1>2, <1>4, <2>2 DEF Size
  <2> QED BY <2>1, <2>2
<1> QED BY <1>1, <1>5, <1>6, <1>7 DEF p

LEMMA SizeEmpty ==
  /\ Size(<<>>, Sight(<<>>)) = 2 /\ Size(<<>>, 1..Len(<<>>)) = 2
  /\ Sight(<<>>) = {} /\ \A K : Count(<<>>, {}, K) = 0 /\ ~Strayed(<<>>)
<1>1. Sight(<<>>) = {} /\ 1..Len(<<>>) = {} /\ ~Strayed(<<>>)
  BY DEF Sight, Strayed
<1>2. Cardinality({}) = 0
  BY FS_EmptySet
<1>3. \A K : Count(<<>>, {}, K) = 0
  BY <1>2 DEF Count, Of
<1> QED BY <1>1, <1>2, <1>3 DEF Size

LEMMA KindsAre ==
  /\ Kinds = {"while", "for", "forin", "if", "stray", "switch"}
  /\ BreakKinds = {"while", "for", "forin", "switch"}
  /\ ForKinds = {"for", "forin"} /\ Loops = {"while", "for", "forin"}
BY DEF Kinds, BreakKinds, ForKinds, Loops

LEMMA SightSize ==
  ASSUME NEW o \in Seq(Construct)
  PROVE  Size(o, Sight(o)) \in Nat /\ Size(o, Sight(o)) >= 2
<1>1. [kind |-> "if", pos |-> 1] \in Construct
  BY KindsAre DEF Construct
<1> QED BY <1>1, SizeAppend

\* A statement leads from a state that fits its constructs to another.
LEMMA OpeningTyped ==
  ASSUME NEW o \in Seq(Construct), NEW i \in Nat \ {0}, NEW item,
         item.op = "close" => o # <<>>
  PROVE  /\ Opening(i, item, o) \in Seq(Construct)
         /\ item.op \in Kinds =>
              /\ [kind |-> item.op, pos |-> i] \in Construct
              /\ Opening(i, item, o) = Append(o, [kind |-> item.op, pos |-> i])
         /\ item.op = "close" => Opening(i, item, o) = Front(o)
         /\ item.op \notin Kinds \cup {"close"} => Opening(i, item, o) = o
<1>1. item.op \in Kinds => [kind |-> item.op, pos |-> i] \in Construct
  BY DEF Construct
<1>2. item.op = "close" => /\ Opening(i, item, o) = Front(o)
                           /\ Front(o) \in Seq(Construct)
  BY FrontLast, KindsAre DEF Opening
<1>3. item.op \in Kinds =>
        /\ Opening(i, item, o) = Append(o, [kind |-> item.op, pos |-> i])
        /\ Opening(i, item, o) \in Seq(Construct)
  BY <1>1 DEF Opening
<1>4. item.op \notin Kinds \cup {"close"} => Opening(i, item, o) = o
  BY DEF Opening
<1> QED BY <1>1, <1>2, <1>3, <1>4

LocalIs(i) == <<"local", i, 0>> \in Declaration
LEMMA LocalDeclared == ASSUME NEW i \in Nat PROVE LocalIs(i)
BY DEF LocalIs, Declaration

LEMMA DeclaredIs ==
  ASSUME NEW s \in Seq(Scope), s # <<>>, NEW n \in Name, NEW i \in Nat
  PROVE  LET t == Declared(s, n, i)
         IN  /\ t \in Seq(Scope) /\ Len(t) = Len(s) /\ t # <<>>
             /\ \A k \in 1..Len(s) : k # Len(s) => t[k] = s[k]
             /\ DOMAIN t[Len(s)] = DOMAIN s[Len(s)] \cup {n}
             /\ t[Len(s)][n] = [decl |-> <<"local", i, 0>>, reg |-> FALSE]
             /\ \A m \in DOMAIN s[Len(s)] :
                  m # n => t[Len(s)][m] = s[Len(s)][m]
<1> DEFINE d == <<"local", i, 0>>
<1>1. d \in Declaration
  BY LocalDeclared DEF LocalIs
<1> HIDE DEF d
<1>2. Declared(s, n, i) = Add(s, n, d, FALSE)
  BY DEF Declared, d
<1>3. LET t == Add(s, n, d, FALSE)
      IN  /\ t \in Seq(Scope) /\ Len(t) = Len(s) /\ t # <<>>
          /\ \A k \in 1..Len(s) : k # Len(s) => t[k] = s[k]
          /\ DOMAIN t[Len(s)] = DOMAIN s[Len(s)] \cup {n}
          /\ t[Len(s)][n] = [decl |-> d, reg |-> FALSE]
          /\ \A m \in DOMAIN s[Len(s)] : m # n => t[Len(s)][m] = s[Len(s)][m]
  BY <1>1, AddIs
<1> QED BY <1>2, <1>3 DEF d

\* Within a body, the scope of the globals is out of reach.
LEMMA Below ==
  ASSUME NEW s \in Seq(Scope), Len(s) >= 2
  PROVE  /\ s # <<>> /\ 1 \in 1..Len(s) /\ 1 # Len(s)
         /\ PushScope(s)[1] = s[1] /\ PopScope(s)[1] = s[1]
         /\ \A n \in Name, i \in Nat : Declared(s, n, i)[1] = s[1]
         /\ \A n \in Nat : n <= Len(s) - 1 => Drop(s, n)[1] = s[1]
<1>0. \A n \in Nat : n >= 2 => 1 \in 1..n /\ 1 # n /\ n # 0
  OBVIOUS
<1>1. s # <<>> /\ Len(s) \in Nat /\ 1 \in 1..Len(s) /\ 1 # Len(s)
  BY <1>0, EmptySeq
<1>2. PushScope(s)[1] = s[1]
  BY <1>1, PushIs
<1>3. PopScope(s)[1] = s[1]
  <2>1. 1 \in 1..(Len(s) - 1)
    BY <1>1
  <2> QED BY <1>1, <2>1, PopIs
<1>4. ASSUME NEW n \in Name, NEW i \in Nat PROVE Declared(s, n, i)[1] = s[1]
  <2> DEFINE t == Declared(s, n, i)
  <2>1. \A k \in 1..Len(s) : k # Len(s) => t[k] = s[k]
    BY <1>1, DeclaredIs
  <2> QED BY <1>1, <2>1
<1>5. ASSUME NEW n \in Nat, n <= Len(s) - 1 PROVE Drop(s, n)[1] = s[1]
  <2>1. n <= Len(s) /\ 1 \in 1..(Len(s) - n)
    BY <1>1, <1>5
  <2> QED BY <2>1, DropIs
<1> QED BY <1>1, <1>2, <1>3, <1>4, <1>5

LEMMA StepTyped ==
  ASSUME NEW i \in Nat \ {0}, NEW item, NEW x \in States, NEW y,
         y = [open |-> y.open, scopes |-> y.scopes],
         StepOpen(i, item, x, y), StepScopes(i, item, x, y)
  PROVE  y \in States /\ y.scopes[1] = x.scopes[1]
<1> DEFINE o == x.open
           s == x.scopes
           p == Opening(i, item, o)
           N == Size(o, Sight(o))
<1>1. /\ o \in Seq(Construct) /\ s \in Seq(Scope) /\ Len(s) = N
      /\ N \in Nat /\ N >= 2
  BY SightSize DEF States, State, Level
<1>10. item.op = "close" => o # <<>>
  BY DEF StepOpen
<1>2. /\ y.open = p
      /\ item.op \in Naming => item.name \in Name
      /\ y.scopes = IF Strayed(o) THEN s ELSE Scoped(i, item, x)
  BY DEF StepOpen, StepScopes
<1>8. Scoped(i, item, x) =
        IF item.op = "decl" THEN Declared(s, item.name, i)
        ELSE IF item.op \in {"if", "while", "switch"} THEN PushScope(s)
        ELSE IF item.op \in ForKinds
             THEN PushScope(Declared(PushScope(s), item.name, i))
        ELSE IF item.op = "case" THEN PushScope(PopScope(s))
        ELSE IF item.op = "close" THEN Drop(s, Scopes(Last(o).kind))
        ELSE s
  BY DEF Scoped
<1> HIDE DEF o, s
<1>3. /\ p \in Seq(Construct)
      /\ item.op \in Kinds =>
           /\ [kind |-> item.op, pos |-> i] \in Construct
           /\ p = Append(o, [kind |-> item.op, pos |-> i])
      /\ item.op = "close" => p = Front(o)
      /\ item.op \notin Kinds \cup {"close"} => p = o
  BY <1>1, <1>10, OpeningTyped
<1> HIDE DEF p, N
<1>4. s # <<>>
  BY <1>1
<1>5. item.op \in Kinds =>
        Size(p, Sight(p)) =
          N + IF Strayed(o) \/ item.op = "stray" THEN 0 ELSE Scopes(item.op)
  <2> SUFFICES ASSUME item.op \in Kinds
               PROVE  Size(p, Sight(p)) = N +
                        IF Strayed(o) \/ item.op = "stray" THEN 0
                        ELSE Scopes(item.op)
    OBVIOUS
  <2> DEFINE c == [kind |-> item.op, pos |-> i]
  <2>1. c \in Construct /\ c.kind = item.op /\ p = Append(o, c)
    BY <1>3
  <2> HIDE DEF c
  <2>2. Strayed(p) <=> Strayed(o) \/ item.op = "stray"
    BY <1>1, <2>1, SightAppend
  <2>3. Size(p, Sight(p)) = N + IF Strayed(p) THEN 0 ELSE Scopes(item.op)
    BY <1>1, <2>1, SizeAppend DEF N
  <2> QED BY <2>2, <2>3
<1>6. item.op = "close" =>
        N = Size(p, Sight(p)) +
              (IF Strayed(o) THEN 0 ELSE Scopes(Last(o).kind))
        /\ Scopes(Last(o).kind) \in {1, 2}
        /\ Size(p, Sight(p)) \in Nat
  <2> SUFFICES ASSUME item.op = "close"
               PROVE  /\ N = Size(p, Sight(p)) +
                             (IF Strayed(o) THEN 0 ELSE Scopes(Last(o).kind))
                      /\ Scopes(Last(o).kind) \in {1, 2}
                      /\ Size(p, Sight(p)) \in Nat
    OBVIOUS
  <2>0. o # <<>> /\ p = Front(o)
    BY <1>3, <1>10
  <2>1. p = Front(o) /\ o = Append(p, Last(o)) /\ Last(o) \in Construct
    BY <1>1, <2>0, FrontLast
  <2> DEFINE c == Last(o)
  <2> HIDE DEF c
  <2>2. o = Append(p, c) /\ c \in Construct /\ p \in Seq(Construct)
    BY <1>3, <2>1 DEF c
  <2>3. /\ Size(o, Sight(o)) = Size(p, Sight(p)) +
                                (IF Strayed(o) THEN 0 ELSE Scopes(c.kind))
        /\ Scopes(c.kind) \in {1, 2} /\ Size(p, Sight(p)) \in Nat
    BY <2>2, SizeAppend
  <2> QED BY <2>3 DEF c, N
<1> DEFINE Fits == /\ y.scopes \in Seq(Scope)
                   /\ Len(y.scopes) = Size(p, Sight(p)) /\ y.scopes[1] = s[1]
<1>7. Fits
  <2>1. CASE Strayed(o)
    <3>1. Size(p, Sight(p)) = N
      <4>1. CASE item.op \in Kinds
        BY <1>1, <1>5, <2>1, <4>1
      <4>2. CASE item.op = "close"
        BY <1>6, <2>1, <4>2
      <4>3. CASE item.op \notin Kinds \cup {"close"}
        BY <1>3, <4>3 DEF N
      <4> QED BY <4>1, <4>2, <4>3
    <3> QED BY <1>1, <1>2, <2>1, <3>1
  <2>2. CASE ~Strayed(o)
    <3>0. y.scopes = Scoped(i, item, x)
      BY <1>2, <2>2
    <3>1. CASE item.op = "decl"
      <4>1. y.scopes = Declared(s, item.name, i)
        BY <1>8, <3>0, <3>1
      <4>2. item.name \in Name
        BY <1>2, <3>1 DEF Naming
      <4>3. p = o
        BY <1>3, <3>1, KindsAre
      <4>4. LET t == Declared(s, item.name, i)
            IN  t \in Seq(Scope) /\ Len(t) = Len(s) /\ t[1] = s[1]
        BY <1>1, <1>4, <4>2, DeclaredIs, Below, ZenonT(40)
      <4> QED BY <1>1, <4>1, <4>3, <4>4 DEF N
    <3>2. CASE item.op \in {"if", "while", "switch"}
      <4>1. y.scopes = PushScope(s)
        BY <1>8, <3>0, <3>2
      <4>2. /\ y.scopes \in Seq(Scope) /\ Len(y.scopes) = N + 1
            /\ y.scopes[1] = s[1]
        BY <1>1, <4>1, PushIs, Below
      <4>3. Size(p, Sight(p)) = N + 1
        BY <1>5, <2>2, <3>2, KindsAre DEF Scopes
      <4> QED BY <4>2, <4>3
    <3>3. CASE item.op \in ForKinds
      <4> DEFINE a == PushScope(s)
                 d == Declared(a, item.name, i)
      <4>1. y.scopes = PushScope(d)
        BY <1>8, <3>0, <3>3, KindsAre
      <4>2. item.name \in Name
        BY <1>2, <3>3, KindsAre DEF Naming
      <4>3. a \in Seq(Scope) /\ Len(a) = N + 1 /\ a # <<>> /\ a[1] = s[1]
        BY <1>1, PushIs, Below
      <4> HIDE DEF a
      <4>6. Len(a) >= 2 /\ Len(a) \in Nat
        BY <1>1, <4>3
      <4>4. d \in Seq(Scope) /\ Len(d) = N + 1 /\ d[1] = s[1]
        BY <4>2, <4>3, <4>6, DeclaredIs, Below, ZenonT(40)
      <4> HIDE DEF d
      <4>5. /\ PushScope(d) \in Seq(Scope) /\ Len(PushScope(d)) = Len(d) + 1
            /\ PushScope(d)[1] = d[1]
        <5>1. Len(d) >= 2 /\ Len(d) \in Nat
          BY <1>1, <4>4
        <5> QED BY <4>4, <5>1, PushIs, Below
      <4>7. Size(p, Sight(p)) = N + 2
        BY <1>5, <2>2, <3>3, KindsAre DEF Scopes
      <4> QED BY <1>1, <4>1, <4>4, <4>5, <4>7
    <3>4. CASE item.op = "case"
      <4> DEFINE a == PopScope(s)
      <4>1. y.scopes = PushScope(a)
        BY <1>8, <3>0, <3>4, KindsAre
      <4>2. a \in Seq(Scope) /\ Len(a) = N - 1 /\ a[1] = s[1]
        BY <1>1, <1>4, PopIs, Below
      <4> HIDE DEF a
      <4>3. /\ PushScope(a) \in Seq(Scope) /\ Len(PushScope(a)) = Len(a) + 1
            /\ PushScope(a)[1] = a[1]
        <5>1. a # <<>> /\ 1 \in 1..Len(a)
          BY <1>1, <4>2
        <5> QED BY <4>2, <5>1, PushIs
      <4>4. p = o
        BY <1>3, <3>4, KindsAre
      <4> QED BY <1>1, <4>1, <4>2, <4>3, <4>4 DEF N
    <3>5. CASE item.op = "close"
      <4> DEFINE k == Scopes(Last(o).kind)
      <4>1. y.scopes = Drop(s, k)
        BY <1>8, <3>0, <3>5, KindsAre
      <4>2. /\ N = Size(p, Sight(p)) + k /\ k \in {1, 2}
            /\ Size(p, Sight(p)) \in Nat
            /\ Size(p, Sight(p)) >= 2
        BY <1>3, <1>6, <2>2, <3>5, SightSize
      <4> HIDE DEF k
      <4>3. k \in Nat /\ k <= Len(s) /\ N - k = Size(p, Sight(p))
        BY <1>1, <4>2
      <4>4. /\ Drop(s, k) \in Seq(Scope) /\ Len(Drop(s, k)) = Len(s) - k
            /\ Drop(s, k)[1] = s[1]
        <5>1. LET t == Drop(s, k)
              IN  /\ t \in Seq(Scope) /\ Len(t) = Len(s) - k
                  /\ \A i_ \in 1..(Len(s) - k) : t[i_] = s[i_]
          BY <1>1, <4>3, DropIs
        <5>2. 1 \in 1..(Len(s) - k)
          BY <1>1, <4>2, <4>3
        <5> QED BY <5>1, <5>2
      <4> QED BY <1>1, <4>1, <4>3, <4>4
    <3>6. CASE item.op \notin Kinds \cup {"decl", "case", "close"}
      <4>1. y.scopes = s
        BY <1>8, <3>0, <3>6, KindsAre
      <4>2. p = o
        BY <1>3, <3>6
      <4> QED BY <1>1, <4>1, <4>2 DEF N
    <3>7. CASE item.op = "stray"
      <4>1. y.scopes = s
        BY <1>8, <3>0, <3>7, KindsAre
      <4>2. Size(p, Sight(p)) = N
        BY <1>1, <1>5, <3>7, KindsAre
      <4> QED BY <1>1, <4>1, <4>2
    <3> QED BY <3>1, <3>2, <3>3, <3>4, <3>5, <3>6, <3>7, KindsAre
  <2> QED BY <2>1, <2>2
<1>9. y.open = p /\ y \in State
  BY <1>2, <1>3, <1>7 DEF State
<1> QED BY <1>7, <1>9 DEF States, Level, s
-----------------------------------------------------------------------------
(***************************************************************************)
(* The invariant: the analyser leaves of each body a trace that closes all *)
(* it opens; the generator's constructs, trackers and scopes follow it.    *)
(***************************************************************************)
Globals(f, D) == \A n \in DOMAIN f : n \in D /\ f[n].decl = <<"global", n, 0>>

\* st is a trace of the finished body b.
Complete(b, st) ==
  /\ Trace(b, bodies[b], st)
  /\ st[Len(bodies[b]) + 1].open = <<>>
  /\ Globals(st[1].scopes[1], DOMAIN scopes[1])

ProgramInv ==
  \E p \in Programs :
    /\ program = p.defs /\ left \in 0..p.items
    /\ words = [names |-> p.names, calls |-> p.calls,
                fields |-> p.fields, args |-> p.args]

Passes == {"collect", "sema", "codegen", "done", "rejected", "abort"}
WorkInv ==
  /\ pass \in Passes /\ at \in Nat /\ work \in Seq(Visits)
  /\ at > 0 => work # <<>> /\ Current \in Bodies /\ Current \in DOMAIN bodies
  /\ pass \in {"collect", "rejected", "done"} => at = 0 /\ work = <<>>

\* The body that the analyser is in.
Analysed ==
  /\ at = Len(bodies[Current]) + 1
  /\ \E st : /\ Trace(Current, bodies[Current], st)
             /\ st[at] = [open |-> open, scopes |-> scopes]
             /\ Globals(st[1].scopes[1], DOMAIN scopes[1])

\* The body that the generator is in.
Followed ==
  /\ at <= Len(bodies[Current]) + 1
  /\ \A st : Complete(Current, st) => st[at].open = open

BodiesInv ==
  /\ DOMAIN bodies \subseteq Bodies
  /\ pass = "collect" => DOMAIN bodies = {}
  /\ pass = "sema" =>
       /\ Bodies \subseteq Range(work) \cup DOMAIN bodies
       /\ \A b \in DOMAIN bodies :
            (at > 0 /\ b = Current) \/ \E st : Complete(b, st)
       /\ at > 0 => Analysed
  /\ pass \in {"codegen", "done", "abort"} =>
       /\ Bodies \subseteq DOMAIN bodies
       /\ \A b \in DOMAIN bodies : \E st : Complete(b, st)
       /\ at > 0 => Followed

Place == IF pass = "sema" THEN Sight(open) ELSE 1..Len(open)
LevelInv ==
  /\ open \in Seq(Construct)
  /\ scopes \in Seq(Scope)
  /\ Len(scopes) = IF at > 0 THEN Size(open, Place) ELSE 1
  /\ at = 0 => open = <<>>
  /\ Globals(scopes[1], DOMAIN scopes[1])

TrackInv ==
  /\ pass = "sema" => /\ loopDepth = Count(open, Sight(open), Loops)
                      /\ loopOrSwitchDepth
                           = Count(open, Sight(open), BreakKinds)
  /\ pass # "sema" => loopDepth = 0 /\ loopOrSwitchDepth = 0
  /\ pass \in {"collect", "sema", "rejected"} =>
       breakTracker = <<>> /\ continueTracker = <<>>
  /\ pass \in {"codegen", "done", "abort"} =>
       /\ Tracks(breakTracker, open, BreakKinds)
       /\ Tracks(continueTracker, open, Loops)

EmitInv ==
  /\ \A name \in DOMAIN functions : Mangled(functions[name]) = name
  /\ layouts \subseteq Classes
  /\ pass \in {"collect", "sema", "rejected"} => made = {}
  /\ JumpsMeetTarget

\* What the analyser has made sure of, by definitions and in the scope of the
\* globals: the definitions differ, and each class behind it is sound.
GlobalNames == {program[d].name : d \in Defs("var") \cup Defs("enum")}
Distinct ==
  \A d, e \in Defs("func") \cup Defs("class") \cup Defs("enum") :
    \/ d = e \/ program[d].kind # program[e].kind
    \/ program[d].name # program[e].name
    \/ /\ program[d].kind = "func"
       /\ Types(<<"func", d, 0>>) # Types(<<"func", e, 0>>)
Sound(d) ==
  LET c == program[d].name
  IN  /\ program[d].parent \in Classes \cup {None}
      /\ \A k \in 2..Len(Lineage(c)) :
           program[d].parent = None \/ Lineage(c)[k] # c
      /\ \A b, p \in Methods(c) :
           \/ b = p \/ Signature(b).name # Signature(p).name
           \/ Types(b) # Types(p)
Inits(d) == {program[d].fields[i].init :
               i \in {j \in 1..Len(program[d].fields) :
                        ~program[d].fields[j].array}}
Checked(d) == Sound(d) /\ Inits(d) \subseteq {None} \cup DOMAIN scopes[1]
GlobalsInv ==
  /\ DOMAIN scopes[1] \subseteq GlobalNames
  /\ pass \in {"sema", "codegen", "done", "abort"} => Distinct
  /\ pass = "sema" =>
       \A d \in Defs("class") : Checked(d) \/ <<"class", d, 0>> \in Range(work)
  /\ pass \in {"codegen", "done", "abort"} =>
       \A d \in Defs("class") : Checked(d)

IInv == /\ ProgramInv /\ WorkInv /\ BodiesInv /\ LevelInv /\ TrackInv
        /\ EmitInv /\ GlobalsInv

LEMMA ProgramTyped ==
  ASSUME ProgramInv
  PROVE  Typed /\ left \in Nat /\ words.names \subseteq Name
BY SemaCodegenAssumption DEF ProgramInv, Typed

LEMMA InitInv == ASSUME Init PROVE IInv
<1>1. ProgramInv
  <2>1. PICK p \in Programs : /\ program = p.defs
                              /\ words = [names |-> p.names, calls |-> p.calls,
                                          fields |-> p.fields, args |-> p.args]
                              /\ left = p.items
    BY DEF Init
  <2>2. left \in 0..p.items
    BY <2>1, SemaCodegenAssumption
  <2> QED BY <2>1, <2>2 DEF ProgramInv
<1>2. WorkInv
  BY DEF Init, WorkInv, Passes
<1>3. BodiesInv
  BY DEF Init, BodiesInv
<1>4. LevelInv
  <2>1. scopes \in Seq(Scope) /\ Len(scopes) = 1 /\ scopes[1] = <<>>
    BY EmptyScope DEF Init
  <2> QED BY <2>1, EmptyScope DEF Init, LevelInv, Globals
<1>5. TrackInv
  BY DEF Init, TrackInv
<1>6. EmitInv
  BY DEF Init, EmitInv, JumpsMeetTarget
<1>7. GlobalsInv
  BY EmptyScope DEF Init, GlobalsInv
<1> QED BY <1>1, <1>2, <1>3, <1>4, <1>5, <1>6, <1>7 DEF IInv

\* What is read of the program alone stays.
LEMMA SameProgram ==
  ASSUME program' = program
  PROVE  /\ Classes' = Classes /\ Visits' = Visits /\ Bodies' = Bodies
         /\ (\A kind : Defs(kind)' = Defs(kind))
         /\ (\A b : Mangled(b)' = Mangled(b))
         /\ (\A b : GenFields(b)' = GenFields(b))
         /\ (\A d : Sound(d)' <=> Sound(d)) /\ (Distinct' <=> Distinct)
         /\ GlobalNames' = GlobalNames /\ (\A d : Inits(d)' = Inits(d))
         /\ (\A b, x : Start(b, x)' <=> Start(b, x))
         /\ (\A b, B, st : Trace(b, B, st)' <=> Trace(b, B, st))
<1>1. \A kind : Defs(kind)' = Defs(kind)
  BY DEF Defs
<1>2. Classes' = Classes /\ Visits' = Visits /\ Bodies' = Bodies
  BY DEF Classes, Visits, Bodies, Defs, MethodNumbers
<1>3. ASSUME NEW c PROVE Fields(c)' = Fields(c)
  BY DEF Fields, ClassDef, Defs
<1>4. ASSUME NEW c PROVE Lineage(c)' = Lineage(c)
  BY DEF Lineage, Parent, Classes, ClassDef, Defs
<1>5. ASSUME NEW b
      PROVE  ClassOf(b)' = ClassOf(b) /\ Signature(b)' = Signature(b)
  BY DEF ClassOf, Signature
<1>6. ASSUME NEW c, NEW n PROVE FieldOwner(c, n)' = FieldOwner(c, n)
  BY <1>3, <1>4 DEF FieldOwner, Nearest, SelectInSeq
<1>7. ASSUME NEW b PROVE Mangled(b)' = Mangled(b)
  BY DEF Mangled, ClassOf, Signature, Types
<1>8. ASSUME NEW b PROVE SemaFields(b)' = SemaFields(b)
  BY DEF SemaFields, ClassOf, Fields, ClassDef, Defs
<1>9. ASSUME NEW b PROVE GenFields(b)' = GenFields(b)
  BY DEF GenFields, AllFields, Lineage, Parent, Classes, ClassOf, Fields,
         ClassDef, Defs
<1>13. ASSUME NEW b, NEW fields, NEW reg
       PROVE  BodyScope(b, fields, reg)' = BodyScope(b, fields, reg)
  BY <1>5, <1>6 DEF BodyScope
<1>10. ASSUME NEW b PROVE BodyScope(b, SemaFields(b), FALSE)'
                          = BodyScope(b, SemaFields(b), FALSE)
  BY <1>8, <1>13
<1>11. ASSUME NEW b, NEW x PROVE Start(b, x)' <=> Start(b, x)
  BY <1>10 DEF Start
<1>17. ASSUME NEW i, NEW item, NEW x, NEW y
       PROVE  Step(i, item, x, y)' <=> Step(i, item, x, y)
  BY <1>2 DEF Step, StepBinds
<1>12. ASSUME NEW b, NEW B, NEW st PROVE Trace(b, B, st)' <=> Trace(b, B, st)
  BY <1>11, <1>17 DEF Trace
<1>14. /\ GlobalNames' = GlobalNames
       /\ \A d : Inits(d)' = Inits(d)
  BY DEF GlobalNames, Defs, Inits
<1>15. Distinct' <=> Distinct
  BY DEF Distinct, Defs, Types, Signature
<1>16. ASSUME NEW d PROVE Sound(d)' <=> Sound(d)
  <2>1. \A c : Methods(c)' = Methods(c)
    BY DEF Methods, ClassDef, Defs
  <2>2. \A b : Types(b)' = Types(b)
    BY DEF Types, Signature
  <2> QED BY <1>2, <1>4, <1>5, <2>1, <2>2 DEF Sound
<1> QED BY <1>1, <1>2, <1>7, <1>9, <1>11, <1>12, <1>14, <1>15, <1>16

\* Of what a step leaves as it was nothing is lost; the symbol table may get
\* more globals.
LEMMA CompleteKept ==
  ASSUME program' = program,
         NEW b, NEW st, Complete(b, st), bodies'[b] = bodies[b],
         DOMAIN scopes[1] \subseteq DOMAIN scopes'[1]
  PROVE  Complete(b, st)'
<1>1. Trace(b, bodies[b], st)' <=> Trace(b, bodies'[b], st)
  BY SameProgram DEF Trace
<1> QED BY <1>1 DEF Complete, Globals

LEMMA GlobalsKept ==
  ASSUME GlobalsInv, program' = program, pass' = pass,
         DOMAIN scopes[1] \subseteq DOMAIN scopes'[1],
         DOMAIN scopes'[1] \subseteq GlobalNames,
         \A d \in Defs("class") : pass = "sema" =>
           \/ Checked(d)' \/ <<"class", d, 0>> \in Range(work')
           \/ <<"class", d, 0>> \notin Range(work)
  PROVE  GlobalsInv'
<1>1. ASSUME NEW d, Checked(d) PROVE Checked(d)'
  BY <1>1, SameProgram DEF Checked
<1> QED BY <1>1, SameProgram DEF GlobalsInv

LEMMA RejectInv ==
  ASSUME IInv, pass \in {"collect", "sema"}, Reject
  PROVE  IInv'
<1>1. ProgramInv'
  <2>1. PICK p \in Programs : /\ program = p.defs
                              /\ words = [names |-> p.names, calls |-> p.calls,
                                          fields |-> p.fields, args |-> p.args]
    BY DEF IInv, ProgramInv
  <2>2. 0 \in 0..p.items
    BY SemaCodegenAssumption
  <2> QED BY <2>1, <2>2 DEF ProgramInv, Reject
<1>2. WorkInv'
  BY DEF WorkInv, Reject, Passes
<1>3. BodiesInv'
  BY DEF BodiesInv, Reject
<1>4. LevelInv'
  <2>1. scopes' = << <<>> >> /\ open' = <<>> /\ at' = 0
    BY DEF Reject
  <2>2. scopes' \in Seq(Scope) /\ Len(scopes') = 1 /\ scopes'[1] = <<>>
    BY <2>1, EmptyScope
  <2> QED BY <2>1, <2>2, EmptyScope DEF LevelInv, Globals
<1>5. TrackInv'
  BY DEF IInv, TrackInv, Reject
<1>6. EmitInv'
  <2>1. /\ functions' = functions /\ layouts' = layouts /\ made' = {}
        /\ program' = program
    BY DEF IInv, EmitInv, Reject, emitted
  <2>2. Classes' = Classes /\ \A b : Mangled(b)' = Mangled(b)
    BY <2>1, SameProgram
  <2> QED BY <2>1, <2>2 DEF IInv, EmitInv, JumpsMeetTarget
<1>7. GlobalsInv'
  BY EmptyScope DEF Reject, GlobalsInv
<1> QED BY <1>1, <1>2, <1>3, <1>4, <1>5, <1>6, <1>7 DEF IInv
-----------------------------------------------------------------------------
(***************************************************************************)
(* The steps of the analyser outside bodies.                               *)
(***************************************************************************)
LEMMA QueueIs ==
  ASSUME NEW T, NEW s \in Seq(T), s # <<>>
  PROVE  /\ Head(s) \in T /\ Tail(s) \in Seq(T)
         /\ Range(s) = {Head(s)} \cup Range(Tail(s))
<1>1. Len(s) \in Nat /\ Len(s) # 0
  BY EmptySeq
<1>2. /\ Head(s) = s[1] /\ Tail(s) \in Seq(T) /\ Len(Tail(s)) = Len(s) - 1
      /\ \A i \in 1..(Len(s) - 1) : Tail(s)[i] = s[i + 1]
  BY <1>1
<1>3. s[1] \in T
  BY <1>1
<1>4. ASSUME NEW x \in Range(s) PROVE x \in {Head(s)} \cup Range(Tail(s))
  <2>1. PICK i \in 1..Len(s) : x = s[i]
    BY DEF Range
  <2>2. CASE i = 1
    BY <1>2, <2>1, <2>2
  <2>3. CASE i # 1
    <3>1. i - 1 \in 1..(Len(s) - 1) /\ i - 1 + 1 = i
      BY <1>1, <2>3
    <3>2. Tail(s)[i - 1] = x /\ i - 1 \in DOMAIN Tail(s)
      BY <1>1, <1>2, <2>1, <3>1
    <3> QED BY <3>2 DEF Range
  <2> QED BY <2>2, <2>3
<1>5. ASSUME NEW x \in Range(Tail(s)) PROVE x \in Range(s)
  <2>1. PICK i \in 1..(Len(s) - 1) : x = Tail(s)[i]
    BY <1>1, <1>2 DEF Range
  <2>2. i + 1 \in 1..Len(s) /\ x = s[i + 1]
    BY <1>1, <1>2, <2>1
  <2> QED BY <2>2 DEF Range
<1>6. Head(s) \in Range(s)
  BY <1>1, <1>2 DEF Range
<1> QED BY <1>2, <1>3, <1>4, <1>5, <1>6

LEMMA CurrentIs ==
  ASSUME WorkInv, work # <<>>
  PROVE  /\ Current \in Visits /\ Tail(work) \in Seq(Visits)
         /\ Range(work) = {Current} \cup Range(Tail(work))
BY QueueIs DEF WorkInv, Current

LEMMA DefVisit ==
  ASSUME NEW w \in Visits, w[1] \in {"var", "enum", "class", "func"}
  PROVE  /\ w[2] \in 1..Len(program) /\ program[w[2]].kind = w[1]
         /\ w = <<w[1], w[2], 0>>
BY DEF Visits, Run

LEMMA Outside ==
  ASSUME IInv, work # <<>>, Current[1] \in {"var", "enum", "class"}
  PROVE  /\ at = 0 /\ open = <<>> /\ Current \notin Bodies
         /\ Len(scopes) = 1 /\ scopes[1] \in Scope
         /\ Current[2] \in 1..Len(program)
         /\ program[Current[2]].kind = Current[1]
         /\ program[Current[2]].name \in Name
<1>1. Current \notin Bodies
  BY DEF Bodies, IsBody
<1>2. at = 0
  BY <1>1 DEF IInv, WorkInv
<1>3. open = <<>> /\ Len(scopes) = 1 /\ scopes[1] \in Scope
  BY <1>2 DEF IInv, LevelInv
<1>4. Typed /\ Current \in Visits
  BY ProgramTyped, CurrentIs DEF IInv
<1>5. Current[2] \in 1..Len(program) /\ program[Current[2]].kind = Current[1]
  BY <1>4, DefVisit
<1> QED BY <1>1, <1>2, <1>3, <1>4, <1>5, DefinitionIs

\* A step that leaves behind what is not a body, and keeps the globals.
LEMMA NextVisit ==
  ASSUME IInv, pass \in {"sema", "codegen"}, work # <<>>, at = 0,
         \/ Current \notin Bodies
         \/ Current \in DOMAIN bodies /\ pass = "codegen",
         work' = Tail(work),
         UNCHANGED <<program, words, bodies, left, pass, at, open, jumps>>,
         scopes' \in Seq(Scope), Len(scopes') = 1,
         Globals(scopes'[1], DOMAIN scopes'[1]),
         DOMAIN scopes[1] \subseteq DOMAIN scopes'[1]
  PROVE  ProgramInv' /\ WorkInv' /\ BodiesInv' /\ LevelInv' /\ TrackInv'
<1>0. program' = program
  OBVIOUS
<1>1. ProgramInv'
  BY DEF IInv, ProgramInv
<1>2. WorkInv'
  BY <1>0, CurrentIs, SameProgram DEF IInv, WorkInv
<1>3. BodiesInv'
  <2>1. \A b, st : Complete(b, st) => Complete(b, st)'
    BY CompleteKept
  <2>2. pass = "sema" => Bodies \subseteq Range(Tail(work)) \cup DOMAIN bodies
    BY CurrentIs DEF IInv, BodiesInv
  <2> QED BY <1>0, <2>1, <2>2, SameProgram DEF IInv, BodiesInv
<1>4. LevelInv'
  BY DEF IInv, LevelInv
<1>5. TrackInv'
  BY DEF IInv, TrackInv, jumps
<1> QED BY <1>1, <1>2, <1>3, <1>4, <1>5

\* What is passed with a body is no class.
LEMMA BodyPassed ==
  ASSUME IInv, work # <<>>, Current \in Bodies
  PROVE  \A d : \A kind \in {"class", "var", "enum"} :
           <<kind, d, 0>> \in Range(work) =>
             <<kind, d, 0>> \in Range(Tail(work))
<1>1. Range(work) = {Current} \cup Range(Tail(work))
  BY CurrentIs DEF IInv
<1>2. \A d, kind : <<kind, d, 0>> = Current => IsBody(<<kind, d, 0>>)
  BY DEF Bodies
<1>3. \A d, kind : kind \in {"class", "var", "enum"} => ~IsBody(<<kind, d, 0>>)
  BY DEF IsBody
<1> QED BY <1>1, <1>2, <1>3

LEMMA GlobalDeclared == ASSUME NEW n \in Name
                        PROVE  <<"global", n, 0>> \in Declaration
BY DEF Declaration

LEMMA CollectInv == ASSUME IInv, CollectGlobals PROVE IInv'
<1>1. CASE Reject
  BY <1>1, RejectInv DEF CollectGlobals
<1>2. CASE ~Reject
  <2> DEFINE f == [n \in Dotted |->
                    [decl |-> <<"global", n, 0>>, reg |-> FALSE]]
  <2>1. /\ pass = "collect" /\ pass' = "sema" /\ work' = SemaWork
        /\ scopes' = <<f>> /\ program' = program
        /\ UNCHANGED <<program, words, bodies, left, at, open, jumps, emitted,
                       made>>
    BY <1>2 DEF CollectGlobals
  <2>2. Typed /\ at = 0 /\ open = <<>>
    BY <2>1, ProgramTyped DEF IInv, WorkInv, LevelInv
  <2>3. f \in Scope /\ DOMAIN f = Dotted
    <3>1. Dotted \subseteq Name
      BY <2>2, DefinitionIs, DefsIn DEF Dotted
    <3>2. \A n \in Dotted :
            [decl |-> <<"global", n, 0>>, reg |-> FALSE] \in Entry
      BY <3>1, GlobalDeclared DEF Entry
    <3> QED BY <3>1, <3>2, ScopeIs
  <2>4. Globals(f, DOMAIN f)
    BY DEF Globals
  <2> HIDE DEF f
  <2>5. scopes' \in Seq(Scope) /\ Len(scopes') = 1 /\ scopes'[1] = f
    BY <2>1, <2>3
  <2>6. ProgramInv'
    BY <2>1 DEF IInv, ProgramInv
  <2>7. WorkInv'
    BY <2>1, <2>2, SemaWorkIs, SameProgram DEF WorkInv, Passes
  <2>8. BodiesInv'
    BY <2>1, <2>2, SemaWorkIs, SameProgram DEF IInv, BodiesInv
  <2>9. LevelInv'
    BY <2>1, <2>2, <2>4, <2>5 DEF LevelInv
  <2>10. TrackInv'
    BY <2>1, <2>2, SizeEmpty DEF IInv, TrackInv, jumps
  <2>11. EmitInv'
    BY <2>1, SameProgram DEF IInv, EmitInv, emitted, JumpsMeetTarget
  <2>12. Distinct
    BY <1>2, <2>1 DEF CollectGlobals, Distinct
  <2>13. GlobalsInv'
    <3>1. Dotted \subseteq GlobalNames
      BY DEF Dotted, GlobalNames
    <3>2. \A d \in Defs("class") : <<"class", d, 0>> \in Range(work')
      BY <2>1, <2>2, SemaWorkIs
    <3> QED BY <2>1, <2>3, <2>5, <2>12, <3>1, <3>2, SameProgram
            DEF GlobalsInv
  <2> QED BY <2>6, <2>7, <2>8, <2>9, <2>10, <2>11, <2>13 DEF IInv
<1> QED BY <1>1, <1>2

LEMMA OneLong == ASSUME NEW s, Len(s) \in {1, 2} PROVE s # <<>>
<1>1. Len(<<>>) = 0
  OBVIOUS
<1> QED BY <1>1

LEMMA EmitKept ==
  ASSUME IInv, program' = program, UNCHANGED <<emitted, made>>, made = {},
         pass' \in {"sema", "codegen"}
  PROVE  EmitInv'
BY SameProgram DEF IInv, EmitInv, emitted, JumpsMeetTarget

LEMMA SemaVarInv == ASSUME IInv, work # <<>>, SemaVar PROVE IInv'
<1>1. CASE Reject
  BY <1>1, RejectInv DEF SemaVar
<1>2. CASE ~Reject
  <2> DEFINE n == program[Current[2]].name
             d == <<"global", n, 0>>
  <2>1. /\ pass = "sema" /\ Current[1] = "var"
        /\ scopes' = Add(scopes, n, d, FALSE)
        /\ work' = Tail(work)
        /\ UNCHANGED <<program, words, bodies, left, pass, at, open, jumps,
                       emitted, made>>
    BY <1>2 DEF SemaVar
  <2>2. /\ at = 0 /\ Current \notin Bodies /\ n \in Name
        /\ Len(scopes) = 1 /\ scopes[1] \in Scope /\ scopes \in Seq(Scope)
        /\ Globals(scopes[1], DOMAIN scopes[1])
    BY <2>1, Outside DEF IInv, LevelInv
  <2>3. d \in Declaration
    BY <2>2, GlobalDeclared
  <2>8. scopes # <<>>
    BY <2>2, OneLong
  <2> HIDE DEF d, n
  <2>9. LET t == Add(scopes, n, d, FALSE)
            l == Len(scopes)
        IN  /\ t \in Seq(Scope) /\ Len(t) = l
            /\ DOMAIN t[l] = DOMAIN scopes[l] \cup {n}
            /\ t[l][n] = [decl |-> d, reg |-> FALSE]
            /\ \A m \in DOMAIN scopes[l] : m # n => t[l][m] = scopes[l][m]
    BY <2>2, <2>3, <2>8, AddIs, ZenonT(40)
  <2>4. /\ scopes' \in Seq(Scope) /\ Len(scopes') = 1
        /\ DOMAIN scopes'[1] = DOMAIN scopes[1] \cup {n}
        /\ scopes'[1][n] = [decl |-> d, reg |-> FALSE]
        /\ \A m \in DOMAIN scopes[1] : m # n => scopes'[1][m] = scopes[1][m]
    BY <2>1, <2>2, <2>9
  <2>5. Globals(scopes'[1], DOMAIN scopes'[1])
    BY <2>2, <2>4 DEF Globals, d
  <2>6. ProgramInv' /\ WorkInv' /\ BodiesInv' /\ LevelInv' /\ TrackInv'
    BY <2>1, <2>2, <2>4, <2>5, NextVisit
  <2>7. EmitInv'
    BY <2>1, EmitKept DEF IInv, EmitInv
  <2>10. GlobalsInv'
    <3>1. n \in GlobalNames
      BY <2>1, Outside DEF GlobalNames, Defs, n
    <3>2. Range(work) = {Current} \cup Range(work')
      BY <2>1, CurrentIs DEF IInv
    <3>3. \A e : <<"class", e, 0>> # Current
      BY <2>1
    <3> QED BY <2>1, <2>4, <3>1, <3>2, <3>3, GlobalsKept
            DEF IInv, GlobalsInv
  <2> QED BY <2>6, <2>7, <2>10 DEF IInv
<1> QED BY <1>1, <1>2

LEMMA SemaClassInv == ASSUME IInv, work # <<>>, SemaClass PROVE IInv'
<1>1. CASE Reject
  BY <1>1, RejectInv DEF SemaClass
<1>2. CASE ~Reject
  <2>1. /\ pass = "sema" /\ Current[1] = "class" /\ work' = Tail(work)
        /\ UNCHANGED <<program, words, bodies, left, pass, at, open, scopes,
                       jumps, emitted, made>>
    BY <1>2 DEF SemaClass
  <2>2. /\ at = 0 /\ Current \notin Bodies /\ Len(scopes) = 1
        /\ scopes \in Seq(Scope) /\ Globals(scopes[1], DOMAIN scopes[1])
    BY <2>1, Outside DEF IInv, LevelInv
  <2>3. ProgramInv' /\ WorkInv' /\ BodiesInv' /\ LevelInv' /\ TrackInv'
    BY <2>1, <2>2, NextVisit
  <2>4. EmitInv'
    BY <2>1, EmitKept DEF IInv, EmitInv
  <2>5. Checked(Current[2])
    <3> DEFINE d == Current[2]
               def == program[d]
    <3>1. /\ def.parent # None =>
               /\ def.parent \in Classes
               /\ \A k \in 2..Len(Lineage(def.name)) :
                    Lineage(def.name)[k] # def.name
          /\ \A i \in 1..Len(def.fields) :
               def.fields[i].array \/ Known(def.fields[i].init)
          /\ \A b, p \in Methods(def.name) :
               b = p \/ Signature(b).name # Signature(p).name
                     \/ Types(b) # Types(p)
      BY <1>2 DEF SemaClass
    <3>2. Sound(d)
      BY <3>1 DEF Sound
    <3>3. \A u : Known(u) => u \in {None} \cup DOMAIN scopes[1]
      BY <2>2 DEF Known, Exists
    <3> QED BY <3>1, <3>2, <3>3 DEF Checked, Inits
  <2>6. GlobalsInv'
    <3>1. Range(work) = {Current} \cup Range(work')
      BY <2>1, CurrentIs DEF IInv
    <3>2. ASSUME NEW d, <<"class", d, 0>> = Current PROVE Checked(d)'
      <4>1. d = Current[2]
        BY <3>2
      <4>2. Checked(d)
        BY <2>5, <4>1
      <4>3. /\ Sound(d)' <=> Sound(d)
            /\ Inits(d)' = Inits(d)
        BY <2>1, SameProgram
      <4> QED BY <2>1, <4>2, <4>3 DEF Checked
    <3> QED BY <2>1, <3>1, <3>2, GlobalsKept DEF IInv, GlobalsInv
  <2> QED BY <2>3, <2>4, <2>6 DEF IInv
<1> QED BY <1>1, <1>2
-----------------------------------------------------------------------------
(***************************************************************************)
(* The steps of the analyser in bodies.                                    *)
(***************************************************************************)
Now == [open |-> open, scopes |-> scopes]
After == [open |-> open', scopes |-> scopes']

LEMMA AnalysedIntro ==
  ASSUME program' = program, work' = work, NEW B, NEW st,
         bodies'[Current] = B, at' = Len(B) + 1, Trace(Current, B, st),
         st[Len(B) + 1] = After,
         Globals(st[1].scopes[1], DOMAIN scopes'[1])
  PROVE  Analysed'
<1>1. Current' = Current
  BY DEF Current
<1>2. Trace(Current, bodies[Current], st)' <=> Trace(Current, B, st)
  <2>1. \A b, C : Trace(b, C, st)' <=> Trace(b, C, st)
    BY SameProgram
  <2>2. Trace(Current, bodies[Current], st)' <=> Trace(Current, B, st)'
    BY <1>1 DEF Trace
  <2>3. Trace(Current, B, st)' <=> Trace(Current, B, st)
    BY <1>1, <2>1
  <2> QED BY <2>2, <2>3
<1> QED BY <1>1, <1>2 DEF Analysed, Globals, After

LEMMA SemaEnterInv == ASSUME IInv, work # <<>>, SemaEnter PROVE IInv'
<1> DEFINE B == BodyScope(Current, SemaFields(Current), FALSE)
<1>1. /\ pass = "sema" /\ at = 0 /\ IsBody(Current) /\ at' = 1
      /\ bodies' = With(bodies, Current, <<>>)
      /\ scopes' = Append(scopes, B)
      /\ UNCHANGED <<program, words, left, pass, work, open, jumps, emitted,
                     made>>
  BY DEF SemaEnter
<1>2. Typed /\ Current \in Visits /\ Current \in Bodies
  BY <1>1, ProgramTyped, CurrentIs DEF IInv, Bodies
<1>3. /\ open = <<>> /\ scopes \in Seq(Scope) /\ Len(scopes) = 1
      /\ Globals(scopes[1], DOMAIN scopes[1])
  BY <1>1 DEF IInv, LevelInv
<1>4. B \in Scope
  <2>1. SemaFields(Current) \in SUBSET GenFields(Current)
    BY <1>2, BodyFields
  <2> QED BY <1>2, <2>1, BodyScopeIs
<1>5. /\ scopes' \in Seq(Scope) /\ Len(scopes') = 2
      /\ scopes'[1] = scopes[1] /\ scopes'[2] = B
  <2> HIDE DEF B
  <2> QED BY <1>1, <1>3, <1>4
<1>6. /\ DOMAIN bodies' = DOMAIN bodies \cup {Current}
      /\ bodies'[Current] = <<>>
      /\ \A b \in DOMAIN bodies : b # Current => bodies'[b] = bodies[b]
  <2>1. LET w == With(bodies, Current, <<>>)
        IN  /\ DOMAIN w = DOMAIN bodies \cup {Current} /\ w[Current] = <<>>
            /\ \A b \in DOMAIN bodies : b # Current => w[b] = bodies[b]
    BY DEF With
  <2> QED BY <1>1, <2>1
<1> DEFINE st == [i \in 1..1 |-> After]
<1>7. After.open = <<>> /\ After.scopes = scopes' /\ st[1] = After
  <2>1. After.open = open' /\ After.scopes = scopes' /\ open' = <<>>
    BY <1>1, <1>3 DEF After
  <2>2. st[1] = After
    OBVIOUS
  <2> QED BY <2>1, <2>2
<1>8. After \in States
  <2>1. After \in State
    <3>1. open' = open /\ open \in Seq(Construct)
      BY <1>1 DEF IInv, LevelInv
    <3> QED BY <1>5, <3>1 DEF After, State
  <2>2. Level(After)
    BY <1>5, <1>7, SizeEmpty DEF Level
  <2> QED BY <2>1, <2>2 DEF States
<1>9. Trace(Current, <<>>, st) /\ Len(<<>>) = 0
  <2>1. Start(Current, st[1])
    BY <1>5, <1>7 DEF Start
  <2>2. st \in [1..1 -> States]
    BY <1>8
  <2> HIDE DEF st
  <2>3. <<>> \in Seq(States) /\ Len(<<>>) = 0 /\ 0 + 1 = 1 /\ 1..0 = {}
    OBVIOUS
  <2> QED BY <2>1, <2>2, <2>3 DEF Trace
<1> HIDE DEF st, B
<1>10. Analysed'
  <2>1. Globals(st[1].scopes[1], DOMAIN scopes'[1])
    BY <1>3, <1>5, <1>7
  <2> QED BY <1>1, <1>6, <1>7, <1>9, <2>1, AnalysedIntro
<1>11. ProgramInv'
  BY <1>1 DEF IInv, ProgramInv
<1>12. Current' = Current /\ Bodies' = Bodies /\ Visits' = Visits
  BY <1>1, SameProgram DEF Current
<1>13. WorkInv'
  BY <1>1, <1>2, <1>6, <1>12 DEF IInv, WorkInv
<1>14. BodiesInv'
  <2>1. \A b, t : Complete(b, t) /\ b \in DOMAIN bodies /\ b # Current
                    => Complete(b, t)'
    BY <1>1, <1>5, <1>6, CompleteKept
  <2>2. DOMAIN bodies' \subseteq Bodies
    BY <1>2, <1>6 DEF IInv, BodiesInv
  <2>3. Bodies \subseteq Range(work) \cup DOMAIN bodies'
    BY <1>1, <1>6 DEF IInv, BodiesInv
  <2>4. \A b \in DOMAIN bodies' : b = Current \/ \E t : Complete(b, t)'
    BY <1>1, <1>6, <2>1 DEF IInv, BodiesInv
  <2> QED BY <1>1, <1>10, <1>12, <2>2, <2>3, <2>4 DEF BodiesInv
<1>15. LevelInv'
  BY <1>1, <1>3, <1>5, SizeEmpty DEF LevelInv, Place
<1>16. TrackInv'
  BY <1>1 DEF IInv, TrackInv, jumps
<1>17. EmitInv'
  BY <1>1, EmitKept DEF IInv, EmitInv
<1>18. GlobalsInv'
  BY <1>1, <1>5, GlobalsKept DEF IInv, GlobalsInv
<1> QED BY <1>11, <1>13, <1>14, <1>15, <1>16, <1>17, <1>18 DEF IInv

LEMMA SemaLeaveInv == ASSUME IInv, work # <<>>, SemaLeave PROVE IInv'
<1>1. /\ pass = "sema" /\ at > 0 /\ open = <<>> /\ at' = 0
      /\ scopes' = PopScope(scopes) /\ work' = Tail(work)
      /\ UNCHANGED <<program, words, bodies, left, pass, open, jumps, emitted,
                     made>>
  BY DEF SemaLeave, InBody
<1>2. Current \in Bodies /\ Current \in DOMAIN bodies /\ Analysed
  BY <1>1 DEF IInv, WorkInv, BodiesInv
<1>3. /\ scopes \in Seq(Scope) /\ Len(scopes) = 2
      /\ Globals(scopes[1], DOMAIN scopes[1])
  BY <1>1, SizeEmpty DEF IInv, LevelInv, Place
<1>4. /\ scopes' \in Seq(Scope) /\ Len(scopes') = 1
      /\ scopes'[1] = scopes[1]
  <2>1. scopes # <<>>
    BY <1>3, OneLong
  <2>2. 1 \in 1..(Len(scopes) - 1) /\ Len(scopes) - 1 = 1
    BY <1>3
  <2>3. LET t == PopScope(scopes)
        IN  /\ t \in Seq(Scope) /\ Len(t) = Len(scopes) - 1
            /\ \A k \in 1..(Len(scopes) - 1) : t[k] = scopes[k]
    BY <1>3, <2>1, PopIs
  <2> QED BY <1>1, <2>2, <2>3
<1>5. \E st : Complete(Current, st)
  <2>1. PICK st : /\ Trace(Current, bodies[Current], st)
                  /\ st[at] = [open |-> open, scopes |-> scopes]
                  /\ Globals(st[1].scopes[1], DOMAIN scopes[1])
    BY <1>2 DEF Analysed
  <2>2. st[Len(bodies[Current]) + 1].open = <<>>
    BY <1>1, <1>2, <2>1 DEF Analysed
  <2> QED BY <2>1, <2>2 DEF Complete
<1>6. \A b, t : Complete(b, t) => Complete(b, t)'
  BY <1>1, <1>4, CompleteKept
<1>7. Bodies' = Bodies /\ Visits' = Visits
  BY <1>1, SameProgram
<1>8. ProgramInv'
  BY <1>1 DEF IInv, ProgramInv
<1>9. WorkInv'
  BY <1>1, <1>7, CurrentIs DEF IInv, WorkInv
<1>10. BodiesInv'
  <2>1. Bodies \subseteq Range(Tail(work)) \cup DOMAIN bodies
    BY <1>1, <1>2, CurrentIs DEF IInv, BodiesInv
  <2>2. \A b \in DOMAIN bodies : \E t : Complete(b, t)
    BY <1>1, <1>5 DEF IInv, BodiesInv
  <2> QED BY <1>1, <1>6, <1>7, <2>1, <2>2 DEF IInv, BodiesInv
<1>11. LevelInv'
  BY <1>1, <1>3, <1>4 DEF IInv, LevelInv
<1>12. TrackInv'
  BY <1>1 DEF IInv, TrackInv, jumps
<1>13. EmitInv'
  BY <1>1, EmitKept DEF IInv, EmitInv
<1>14. GlobalsInv'
  BY <1>1, <1>2, <1>4, BodyPassed, GlobalsKept DEF IInv, GlobalsInv
<1> QED BY <1>8, <1>9, <1>10, <1>11, <1>12, <1>13, <1>14 DEF IInv

\* A statement that is written leads from where the analyser is to where it
\* goes on.
LEMMA SemaWriteInv ==
  ASSUME IInv, pass = "sema", InBody, NEW item, NEW cost \in Nat,
         cost <= left, Write(item, cost), Step(at, item, Now, After),
         loopDepth' = Count(open', Sight(open'), Loops),
         loopOrSwitchDepth' = Count(open', Sight(open'), BreakKinds)
  PROVE  IInv'
<1>1. /\ at > 0 /\ at \in Nat /\ work # <<>> /\ at' = at + 1
      /\ bodies' = [bodies EXCEPT ![Current] = Append(@, item)]
      /\ left' = left - cost
      /\ UNCHANGED <<program, words, pass, work, breakTracker,
                     continueTracker, emitted, made>>
  BY DEF IInv, WorkInv, InBody, Write
<1>2. Current \in Bodies /\ Current \in DOMAIN bodies /\ Analysed
  BY <1>1 DEF IInv, WorkInv, BodiesInv
<1> DEFINE B == bodies[Current]
<1>3. PICK st : /\ Trace(Current, B, st) /\ st[at] = Now
                /\ Globals(st[1].scopes[1], DOMAIN scopes[1])
  BY <1>2 DEF Analysed, Now
<1>4. at = Len(B) + 1 /\ Len(B) \in Nat
  <2>1. PICK T : B \in Seq(T)
    BY <1>3 DEF Trace
  <2> QED BY <1>2, <2>1 DEF Analysed
<1>5. /\ DOMAIN bodies' = DOMAIN bodies /\ bodies'[Current] = Append(B, item)
      /\ \A b \in DOMAIN bodies : b # Current => bodies'[b] = bodies[b]
  BY <1>1, <1>2
<1> HIDE DEF B
<1>6. Now \in States
  <2>1. st \in [1..(Len(B) + 1) -> States]
    BY <1>3 DEF Trace
  <2> QED BY <1>1, <1>3, <1>4, <2>1
<1>7. After \in States /\ After.scopes[1] = Now.scopes[1]
  <2>1. After = [open |-> After.open, scopes |-> After.scopes]
    BY DEF After
  <2>2. StepOpen(at, item, Now, After) /\ StepScopes(at, item, Now, After)
    BY DEF Step
  <2>3. at \in Nat \ {0}
    BY <1>1
  <2> QED BY <1>6, <2>1, <2>2, <2>3, StepTyped
<1>8. /\ open' \in Seq(Construct) /\ scopes' \in Seq(Scope)
      /\ Len(scopes') = Size(open', Sight(open')) /\ scopes'[1] = scopes[1]
  BY <1>7 DEF States, State, Level, After, Now
<1>9. PICK ext : /\ Trace(Current, Append(B, item), ext)
                 /\ ext[Len(B) + 2] = After /\ ext[1] = st[1]
                 /\ Len(Append(B, item)) = Len(B) + 1
  BY <1>3, <1>4, <1>7, TraceExtend
<1>10. Analysed'
  <2>1. /\ at' = Len(Append(B, item)) + 1
        /\ ext[Len(Append(B, item)) + 1] = After
    BY <1>1, <1>4, <1>9
  <2>2. Globals(ext[1].scopes[1], DOMAIN scopes'[1])
    BY <1>3, <1>8, <1>9
  <2> QED BY <1>1, <1>5, <1>9, <2>1, <2>2, AnalysedIntro
<1>11. Current' = Current /\ Bodies' = Bodies /\ Visits' = Visits
  BY <1>1, SameProgram DEF Current
<1>12. ProgramInv'
  <2>1. PICK p \in Programs :
          /\ program = p.defs /\ left \in 0..p.items
          /\ words = [names |-> p.names, calls |-> p.calls,
                      fields |-> p.fields, args |-> p.args]
    BY DEF IInv, ProgramInv
  <2>2. left - cost \in 0..p.items
    BY <2>1, SemaCodegenAssumption
  <2> QED BY <1>1, <2>1, <2>2 DEF ProgramInv
<1>13. WorkInv'
  BY <1>1, <1>2, <1>5, <1>11 DEF IInv, WorkInv
<1>14. BodiesInv'
  <2>1. \A b, t : Complete(b, t) /\ b \in DOMAIN bodies /\ b # Current
                    => Complete(b, t)'
    BY <1>1, <1>5, <1>8, CompleteKept
  <2>2. \A b \in DOMAIN bodies : b = Current \/ \E t : Complete(b, t)
    BY DEF IInv, BodiesInv
  <2> QED BY <1>1, <1>5, <1>10, <1>11, <2>1, <2>2 DEF IInv, BodiesInv
<1>15. LevelInv'
  BY <1>1, <1>8 DEF IInv, LevelInv, Place
<1>16. TrackInv'
  BY <1>1 DEF IInv, TrackInv
<1>17. EmitInv'
  BY <1>1, EmitKept DEF IInv, EmitInv
<1>18. GlobalsInv'
  BY <1>1, <1>8, GlobalsKept DEF IInv, GlobalsInv
<1> QED BY <1>12, <1>13, <1>14, <1>15, <1>16, <1>17, <1>18 DEF IInv

LEMMA SemaAt ==
  ASSUME IInv, pass = "sema", InBody
  PROVE  /\ open \in Seq(Construct) /\ scopes \in Seq(Scope)
         /\ at \in Nat \ {0} /\ left \in Nat /\ words.names \subseteq Name
         /\ loopDepth = Count(open, Sight(open), Loops)
         /\ loopOrSwitchDepth = Count(open, Sight(open), BreakKinds)
         /\ Unseen <=> Strayed(open)
         /\ Now.open = open /\ Now.scopes = scopes
         /\ After.open = open' /\ After.scopes = scopes'
<1>1. at \in Nat \ {0}
  BY DEF IInv, WorkInv, InBody
<1>2. Unseen <=> Strayed(open)
  BY DEF Unseen, Strayed
<1>3. /\ Now.open = open /\ Now.scopes = scopes
      /\ After.open = open' /\ After.scopes = scopes'
  BY DEF Now, After
<1> QED BY <1>1, <1>2, <1>3, ProgramTyped DEF IInv, LevelInv, TrackInv

LEMMA BindsIs ==
  ASSUME NEW item, item.bound = Bound(item.use), Unseen \/ Known(item.use),
         item.op # "field"
  PROVE  StepBinds(item, Now)
<1>1. (Unseen <=> Strayed(Now.open)) /\ Now.scopes = scopes
  BY DEF Unseen, Strayed, Now
<1> QED BY <1>1 DEF StepBinds, Bound, Known

\* A statement that opens and declares nothing.
LEMMA SemaPlain ==
  ASSUME IInv, Analysing, NEW item, Write(item, 1),
         UNCHANGED <<open, scopes, loopDepth, loopOrSwitchDepth>>,
         item.op \in {"use", "jump", "call", "builtin", "field"},
         item.op = "use" => StepBinds(item, Now),
         item.op = "field" => item.of \in Classes,
         item.op = "jump" => Unseen \/ HasTarget(open, item.kind)
  PROVE  IInv'
<1>1. pass = "sema" /\ InBody /\ 1 <= left
  BY SemaAt DEF Analysing
<1> DEFINE x == Now
           y == After
<1>2. y.open = x.open /\ y.scopes = x.scopes
  BY <1>1, SemaAt
<1>3. item.op \notin Kinds /\ item.op \notin Naming
  BY KindsAre DEF Naming
<1>4. StepOpen(at, item, Now, After)
  BY <1>1, <1>2, <1>3, SemaAt DEF StepOpen, Opening
<1>5. StepScopes(at, item, Now, After)
  BY <1>2, <1>3, KindsAre DEF StepScopes, Scoped
<1>6. StepBinds(item, Now)
  BY DEF StepBinds, Using
<1>7. Step(at, item, Now, After)
  BY <1>4, <1>5, <1>6 DEF Step
<1>8. /\ loopDepth' = Count(open', Sight(open'), Loops)
      /\ loopOrSwitchDepth' = Count(open', Sight(open'), BreakKinds)
  BY <1>1, SemaAt
<1>9. 1 \in Nat
  OBVIOUS
<1> HIDE DEF x, y
<1> QED BY <1>1, <1>7, <1>8, <1>9, SemaWriteInv

LEMMA SemaUseInv ==
  ASSUME IInv, NEW n \in Uses, SemaUse(n)
  PROVE  IInv'
<1>1. CASE Reject
  BY <1>1, RejectInv DEF SemaUse, Analysing
<1>2. CASE ~Reject
  <2> DEFINE item == [op |-> "use", use |-> n, bound |-> Bound(n)]
  <2>1. /\ Analysing /\ Write(item, 1) /\ (Unseen \/ Known(n))
        /\ UNCHANGED <<open, scopes, loopDepth, loopOrSwitchDepth>>
    BY <1>2 DEF SemaUse
  <2>2. item.op = "use" /\ item.use = n /\ item.bound = Bound(n)
    OBVIOUS
  <2> HIDE DEF item
  <2>3. StepBinds(item, Now)
    BY <2>1, <2>2, BindsIs
  <2> QED BY <2>1, <2>2, <2>3, SemaPlain
<1> QED BY <1>1, <1>2

LEMMA SemaReturnInv ==
  ASSUME IInv, NEW u, SemaReturn(u)
  PROVE  IInv'
<1>1. CASE Reject
  BY <1>1, RejectInv DEF SemaReturn, Analysing
<1>2. CASE ~Reject
  <2> DEFINE item == [op |-> "use", use |-> u, bound |-> Bound(u)]
  <2>1. /\ Analysing /\ Write(item, 1) /\ (Unseen \/ Known(u))
        /\ UNCHANGED <<open, scopes, loopDepth, loopOrSwitchDepth>>
    BY <1>2 DEF SemaReturn
  <2>2. item.op = "use" /\ item.use = u /\ item.bound = Bound(u)
    OBVIOUS
  <2> HIDE DEF item
  <2>3. StepBinds(item, Now)
    BY <2>1, <2>2, BindsIs
  <2> QED BY <2>1, <2>2, <2>3, SemaPlain
<1> QED BY <1>1, <1>2

LEMMA SemaCallInv ==
  ASSUME IInv, NEW to, NEW m, NEW args, SemaCall(to, m, args)
  PROVE  IInv'
<1>1. CASE Reject
  BY <1>1, RejectInv DEF SemaCall, Analysing
<1>2. CASE ~Reject
  <2>1. PICK b : /\ Write([op |-> "call", to |-> to, name |-> m,
                           bound |-> b], 1)
                 /\ UNCHANGED <<open, scopes, loopDepth, loopOrSwitchDepth>>
    BY <1>2 DEF SemaCall
  <2> DEFINE item == [op |-> "call", to |-> to, name |-> m, bound |-> b]
  <2>2. Analysing /\ Write(item, 1)
    BY <2>1 DEF SemaCall
  <2>3. item.op = "call"
    OBVIOUS
  <2> HIDE DEF item
  <2> QED BY <2>1, <2>2, <2>3, SemaPlain
<1> QED BY <1>1, <1>2

LEMMA SemaBuiltinInv ==
  ASSUME IInv, NEW n, SemaBuiltin(n)
  PROVE  IInv'
<1> DEFINE item == [op |-> "builtin", use |-> n]
<1>1. /\ Analysing /\ Write(item, 1)
      /\ UNCHANGED <<open, scopes, loopDepth, loopOrSwitchDepth>>
  BY DEF SemaBuiltin
<1>2. item.op = "builtin"
  OBVIOUS
<1> HIDE DEF item
<1> QED BY <1>1, <1>2, SemaPlain

LEMMA SemaFieldInv ==
  ASSUME IInv, NEW field \in words.fields, SemaField(field[1], field[2])
  PROVE  IInv'
<1>1. CASE Reject
  BY <1>1, RejectInv DEF SemaField, Analysing
<1>2. CASE ~Reject
  <2> DEFINE item == [op |-> "field", of |-> field[1]]
  <2>1. /\ Analysing /\ Write(item, 1)
        /\ UNCHANGED <<open, scopes, loopDepth, loopOrSwitchDepth>>
    BY <1>2 DEF SemaField
  <2>2. item.op = "field" /\ item.of = field[1]
    OBVIOUS
  <2> HIDE DEF item
  <2>3. field[1] \in Classes
    <3>1. PICK p \in Programs : program = p.defs /\ words.fields = p.fields
      BY DEF IInv, ProgramInv
    <3>2. field \in p.fields
      BY <3>1
    <3>3. \E d \in 1..Len(p.defs) :
            p.defs[d].kind = "class" /\ p.defs[d].name = field[1]
      BY <3>2, SemaCodegenAssumption
    <3> QED BY <3>1, <3>3 DEF Classes, Defs
  <2> QED BY <2>1, <2>2, <2>3, SemaPlain
<1> QED BY <1>1, <1>2

\* A depth above zero counts a construct in sight.
LEMMA SemaJumpInv ==
  ASSUME IInv, NEW kind \in {"break", "continue"}, SemaJump(kind)
  PROVE  IInv'
<1>1. CASE Reject
  BY <1>1, RejectInv DEF SemaJump, Analysing
<1>2. CASE ~Reject
  <2> DEFINE item == [op |-> "jump", kind |-> kind]
             depth == IF kind = "break" THEN loopOrSwitchDepth ELSE loopDepth
  <2>1. /\ Analysing /\ Write(item, 1) /\ (Unseen \/ depth > 0)
        /\ UNCHANGED <<open, scopes, loopDepth, loopOrSwitchDepth>>
    BY <1>2 DEF SemaJump
  <2>2. depth = Count(open, Sight(open), Targets(kind)) /\ pass = "sema"
    BY <2>1, SemaAt DEF Analysing, Targets
  <2>3. item.op = "jump" /\ item.kind = kind
    OBVIOUS
  <2> HIDE DEF item, depth
  <2>4. ASSUME ~HasTarget(open, kind) PROVE depth = 0
    <3>1. Sight(open) \subseteq 1..Len(open)
      BY DEF Sight
    <3>2. Of(open, Sight(open), Targets(kind)) = {}
      BY <2>4, <3>1 DEF HasTarget, Of
    <3> QED BY <2>2, <3>2, FS_EmptySet DEF Count
  <2>5. Unseen \/ HasTarget(open, kind)
    BY <2>1, <2>4
  <2> QED BY <2>1, <2>3, <2>5, SemaPlain
<1> QED BY <1>1, <1>2

LEMMA SemaDeclInv ==
  ASSUME IInv, NEW n \in words.names, NEW u, SemaDecl(n, u)
  PROVE  IInv'
<1>1. CASE Reject
  BY <1>1, RejectInv DEF SemaDecl, Analysing
<1>2. CASE ~Reject
  <2> DEFINE item == [op |-> "decl", name |-> n, use |-> u, bound |-> Bound(u)]
  <2>1. /\ Analysing /\ Write(item, 1) /\ (Unseen \/ Known(u))
        /\ scopes' = IF Unseen THEN scopes ELSE Add(scopes, n, Local, FALSE)
        /\ UNCHANGED <<open, loopDepth, loopOrSwitchDepth>>
    BY <1>2 DEF SemaDecl
  <2>2. /\ item.op = "decl" /\ item.use = u /\ item.bound = Bound(u)
        /\ item.name = n
    OBVIOUS
  <2> HIDE DEF item
  <2>3. pass = "sema" /\ InBody /\ 1 <= left
    BY <2>1, SemaAt DEF Analysing
  <2>4. StepBinds(item, Now)
    BY <2>1, <2>2, BindsIs
  <2>5. StepOpen(at, item, Now, After)
    BY <2>1, <2>2, <2>3, SemaAt, KindsAre DEF StepOpen, Opening
  <2>6. StepScopes(at, item, Now, After)
    BY <2>1, <2>2, <2>3, SemaAt
       DEF StepScopes, Scoped, Declared, Local
  <2>7. /\ loopDepth' = Count(open', Sight(open'), Loops)
        /\ loopOrSwitchDepth' = Count(open', Sight(open'), BreakKinds)
    BY <2>1, <2>3, SemaAt
  <2>8. Step(at, item, Now, After) /\ 1 \in Nat
    BY <2>4, <2>5, <2>6 DEF Step
  <2> QED BY <2>1, <2>3, <2>7, <2>8, SemaWriteInv
<1> QED BY <1>1, <1>2

\* The depths count what is opened.
LEMMA SemaDepths ==
  ASSUME IInv, pass = "sema", InBody, NEW kind \in Kinds,
         open' = Opened(kind),
         IF Unseen THEN UNCHANGED <<loopDepth, loopOrSwitchDepth>>
         ELSE /\ loopDepth' = loopDepth + IF kind \in Loops THEN 1 ELSE 0
              /\ loopOrSwitchDepth' = loopOrSwitchDepth +
                                      IF kind \in BreakKinds THEN 1 ELSE 0
  PROVE  /\ loopDepth' = Count(open', Sight(open'), Loops)
         /\ loopOrSwitchDepth' = Count(open', Sight(open'), BreakKinds)
         /\ open' = Append(open, [kind |-> kind, pos |-> at])
         /\ [kind |-> kind, pos |-> at] \in Construct
<1> DEFINE c == [kind |-> kind, pos |-> at]
<1>1. open' = Append(open, c) /\ c.kind = kind /\ c \in Construct
  BY SemaAt DEF Opened, Construct
<1> HIDE DEF c
<1>2. Strayed(open') <=> (Unseen \/ kind = "stray")
  BY <1>1, SemaAt, SightAppend
<1>3. \A K : /\ Count(open, Sight(open), K) \in Nat
             /\ Count(open', Sight(open'), K) = Count(open, Sight(open), K) +
                  IF Strayed(open') THEN 0 ELSE One(c, K)
  BY <1>1, SemaAt, SightCount
<1>4. kind = "stray" => kind \notin Loops /\ kind \notin BreakKinds
  BY KindsAre
<1>5. loopDepth' = Count(open', Sight(open'), Loops)
  BY <1>1, <1>2, <1>3, <1>4, SemaAt DEF One
<1>6. loopOrSwitchDepth' = Count(open', Sight(open'), BreakKinds)
  BY <1>1, <1>2, <1>3, <1>4, SemaAt DEF One
<1> QED BY <1>1, <1>5, <1>6 DEF c

LEMMA SemaOpenInv ==
  ASSUME IInv, NEW kind \in {"if", "stray", "while", "switch"},
         SemaOpen(kind, IF kind \in Loops THEN 1 ELSE 0,
                  IF kind \in BreakKinds THEN 1 ELSE 0)
  PROVE  IInv'
<1> DEFINE item == [op |-> kind]
           loop == IF kind \in Loops THEN 1 ELSE 0
           either == IF kind \in BreakKinds THEN 1 ELSE 0
<1> HIDE DEF loop, either
<1>1. /\ Analysing /\ Write(item, 1) /\ open' = Opened(kind)
      /\ IF Unseen THEN UNCHANGED <<scopes, loopDepth, loopOrSwitchDepth>>
         ELSE /\ scopes' = IF kind = "stray" THEN scopes ELSE PushScope(scopes)
              /\ loopDepth' = loopDepth + loop
              /\ loopOrSwitchDepth' = loopOrSwitchDepth + either
  BY DEF SemaOpen, loop, either
<1>2. item.op = kind
  OBVIOUS
<1> HIDE DEF item
<1>3. pass = "sema" /\ InBody /\ 1 <= left
  BY <1>1, SemaAt DEF Analysing
<1>4. /\ loopDepth' = Count(open', Sight(open'), Loops)
      /\ loopOrSwitchDepth' = Count(open', Sight(open'), BreakKinds)
      /\ open' = Append(open, [kind |-> kind, pos |-> at])
  BY <1>1, <1>3, SemaDepths, KindsAre DEF loop, either
<1>5. StepBinds(item, Now)
  BY <1>2 DEF StepBinds, Using
<1>6. StepOpen(at, item, Now, After)
  BY <1>2, <1>3, <1>4, SemaAt, KindsAre DEF StepOpen, Opening
<1>7. StepScopes(at, item, Now, After)
  BY <1>1, <1>2, <1>3, SemaAt, KindsAre DEF StepScopes, Scoped, Naming
<1>8. Step(at, item, Now, After) /\ 1 \in Nat
  BY <1>5, <1>6, <1>7 DEF Step
<1> QED BY <1>1, <1>3, <1>4, <1>8, SemaWriteInv

LEMMA SemaLoopInv ==
  ASSUME IInv, NEW kind \in ForKinds, NEW n \in words.names, NEW u,
         SemaLoop(kind, n, u)
  PROVE  IInv'
<1>1. CASE Reject
  BY <1>1, RejectInv DEF SemaLoop, Analysing
<1>2. CASE ~Reject
  <2> DEFINE item == [op |-> kind, name |-> n, use |-> u, bound |-> Bound(u)]
  <2>1. /\ Analysing /\ Write(item, 1) /\ (Unseen \/ Known(u))
        /\ open' = Opened(kind)
        /\ IF Unseen THEN UNCHANGED <<scopes, loopDepth, loopOrSwitchDepth>>
           ELSE /\ scopes' = PushScope(Add(PushScope(scopes), n, Local, FALSE))
                /\ loopDepth' = loopDepth + 1
                /\ loopOrSwitchDepth' = loopOrSwitchDepth + 1
    BY <1>2 DEF SemaLoop
  <2>2. /\ item.op = kind /\ item.use = u /\ item.bound = Bound(u)
        /\ item.name = n
    OBVIOUS
  <2> HIDE DEF item
  <2>3. pass = "sema" /\ InBody /\ 1 <= left
    BY <2>1, SemaAt DEF Analysing
  <2>4. StepBinds(item, Now)
    BY <2>1, <2>2, KindsAre, BindsIs
  <2>5. /\ loopDepth' = Count(open', Sight(open'), Loops)
        /\ loopOrSwitchDepth' = Count(open', Sight(open'), BreakKinds)
        /\ open' = Append(open, [kind |-> kind, pos |-> at])
    BY <2>1, <2>3, SemaDepths, KindsAre
  <2>6. StepOpen(at, item, Now, After)
    BY <2>2, <2>3, <2>5, SemaAt, KindsAre DEF StepOpen, Opening
  <2>7. StepScopes(at, item, Now, After)
    BY <2>1, <2>2, <2>3, SemaAt, KindsAre
       DEF StepScopes, Scoped, Declared, Local
  <2>8. Step(at, item, Now, After) /\ 1 \in Nat
    BY <2>4, <2>6, <2>7 DEF Step
  <2> QED BY <2>1, <2>3, <2>5, <2>8, SemaWriteInv
<1> QED BY <1>1, <1>2

LEMMA SemaCaseInv == ASSUME IInv, SemaCase PROVE IInv'
<1> DEFINE item == [op |-> "case"]
<1>1. /\ Analysing /\ Write(item, 1) /\ open # <<>>
      /\ scopes' = IF Unseen THEN scopes ELSE PushScope(PopScope(scopes))
      /\ UNCHANGED <<open, loopDepth, loopOrSwitchDepth>>
  BY DEF SemaCase
<1>2. item.op = "case"
  OBVIOUS
<1> HIDE DEF item
<1>3. pass = "sema" /\ InBody /\ 1 <= left
  BY <1>1, SemaAt DEF Analysing
<1>4. /\ loopDepth' = Count(open', Sight(open'), Loops)
      /\ loopOrSwitchDepth' = Count(open', Sight(open'), BreakKinds)
  BY <1>1, <1>3, SemaAt
<1>5. StepBinds(item, Now)
  BY <1>2 DEF StepBinds, Using
<1>6. StepOpen(at, item, Now, After)
  BY <1>1, <1>2, <1>3, SemaAt, KindsAre DEF StepOpen, Opening
<1>7. StepScopes(at, item, Now, After)
  BY <1>1, <1>2, <1>3, SemaAt, KindsAre DEF StepScopes, Scoped, Naming
<1>8. Step(at, item, Now, After) /\ 1 \in Nat
  BY <1>5, <1>6, <1>7 DEF Step
<1> QED BY <1>1, <1>3, <1>4, <1>8, SemaWriteInv

LEMMA SemaCloseInv == ASSUME IInv, SemaClose PROVE IInv'
<1> DEFINE item == [op |-> "close"]
           c == Last(open)
<1>1. /\ pass = "sema" /\ InBody /\ open # <<>> /\ Write(item, 0)
      /\ open' = Front(open)
      /\ IF Unseen THEN UNCHANGED <<scopes, loopDepth, loopOrSwitchDepth>>
         ELSE /\ scopes' = Drop(scopes, Scopes(c.kind))
              /\ loopDepth' = loopDepth - IF c.kind \in Loops THEN 1 ELSE 0
              /\ loopOrSwitchDepth' = loopOrSwitchDepth -
                   IF c.kind \in BreakKinds THEN 1 ELSE 0
  BY DEF SemaClose, BreakKinds
<1>2. item.op = "close"
  OBVIOUS
<1> HIDE DEF item, c
<1>3. 0 <= left /\ 0 \in Nat
  BY <1>1, SemaAt
<1>4. open' \in Seq(Construct) /\ c \in Construct /\ open = Append(open', c)
  BY <1>1, SemaAt, FrontLast DEF c
<1>5. \A K : /\ Count(open', Sight(open'), K) \in Nat
             /\ Count(open, Sight(open), K) = Count(open', Sight(open'), K) +
                  IF Unseen THEN 0 ELSE One(c, K)
  <2>1. LET p == Append(open', c)
        IN  \A K : /\ Count(open', Sight(open'), K) \in Nat
                   /\ Count(p, Sight(p), K) = Count(open', Sight(open'), K) +
                        IF Strayed(p) THEN 0 ELSE One(c, K)
    BY <1>4, SightCount
  <2>2. Unseen <=> Strayed(open)
    BY <1>1, SemaAt
  <2> QED BY <1>4, <2>1, <2>2
<1>6. /\ loopDepth' = Count(open', Sight(open'), Loops)
      /\ loopOrSwitchDepth' = Count(open', Sight(open'), BreakKinds)
  BY <1>1, <1>5, SemaAt DEF One
<1>7. StepBinds(item, Now)
  BY <1>2 DEF StepBinds, Using
<1>8. StepOpen(at, item, Now, After)
  BY <1>1, <1>2, SemaAt, KindsAre DEF StepOpen, Opening
<1>9. StepScopes(at, item, Now, After)
  BY <1>1, <1>2, SemaAt, KindsAre DEF StepScopes, Scoped, Naming, c
<1>10. Step(at, item, Now, After)
  BY <1>7, <1>8, <1>9 DEF Step
<1> QED BY <1>1, <1>3, <1>6, <1>10, SemaWriteInv

LEMMA TracksEmpty == \A K : Tracks(<<>>, <<>>, K)
<1> TAKE K
<1>1. 1..Len(<<>>) = {} /\ Len(<<>>) = 0 /\ <<>> \in Seq(Nat \ {0})
  OBVIOUS
<1>2. Count(<<>>, {}, K) = 0
  BY SizeEmpty
<1> QED BY <1>1, <1>2 DEF Tracks

LEMMA SemaEndInv == ASSUME IInv, SemaEnd PROVE IInv'
<1> DEFINE key(d) == Mangled(<<"func", d, 0>>)
           named(name) == {d \in Defs("func") : key(d) = name}
           F == {key(d) : d \in Defs("func")}
<1>1. /\ pass = "sema" /\ work = <<>> /\ pass' = "codegen"
      /\ work' = CodegenWork
      /\ functions' = [name \in F |-> <<"func", Max(named(name)), 0>>]
      /\ UNCHANGED <<program, words, bodies, left, at, open, scopes, jumps,
                     layouts, made>>
  BY DEF SemaEnd
<1>2. at = 0 /\ open = <<>> /\ Typed
  BY <1>1, ProgramTyped DEF IInv, WorkInv, LevelInv
<1>3. Len(program) \in Nat
  BY <1>2 DEF Typed
<1>4. /\ Classes' = Classes /\ Bodies' = Bodies /\ Visits' = Visits
      /\ \A b : Mangled(b)' = Mangled(b)
  BY <1>1, SameProgram
<1>5. \A b, t : Complete(b, t) => Complete(b, t)'
  BY <1>1, CompleteKept
<1>6. ProgramInv'
  BY <1>1 DEF IInv, ProgramInv
<1>7. WorkInv'
  BY <1>1, <1>2, <1>4, CodegenWorkType DEF IInv, WorkInv, Passes
<1>8. BodiesInv'
  <2>1. Range(work) = {}
    BY <1>1 DEF Range
  <2> QED BY <1>1, <1>2, <1>4, <1>5, <2>1 DEF IInv, BodiesInv
<1>9. LevelInv'
  BY <1>1, <1>2 DEF IInv, LevelInv
<1>10. TrackInv'
  <2>1. loopDepth = 0 /\ loopOrSwitchDepth = 0
    BY <1>1, <1>2, SizeEmpty DEF IInv, TrackInv
  <2>2. breakTracker = <<>> /\ continueTracker = <<>>
    BY <1>1 DEF IInv, TrackInv
  <2> QED BY <1>1, <1>2, <2>1, <2>2, TracksEmpty DEF TrackInv, jumps
<1>11. EmitInv'
  <2>1. ASSUME NEW name \in F
        PROVE  Mangled(<<"func", Max(named(name)), 0>>) = name
    <3>1. named(name) # {} /\ named(name) \in SUBSET (1..Len(program))
      BY DefsIn
    <3>2. Max(named(name)) \in named(name)
      BY <1>3, <3>1, GreatestNumber
    <3> QED BY <3>2
  <2> HIDE DEF named, F
  <2>2. \A name \in DOMAIN functions' : Mangled(functions'[name]) = name
    BY <1>1, <2>1
  <2> QED BY <1>1, <1>4, <2>2 DEF IInv, EmitInv, JumpsMeetTarget
<1>12. GlobalsInv'
  <2>1. Range(work) = {}
    BY <1>1 DEF Range
  <2>2. \A d : Checked(d) <=> Checked(d)'
    BY <1>1, SameProgram DEF Checked
  <2> QED BY <1>1, <2>1, <2>2, SameProgram DEF IInv, GlobalsInv
<1> QED BY <1>6, <1>7, <1>8, <1>9, <1>10, <1>11, <1>12 DEF IInv
-----------------------------------------------------------------------------
(***************************************************************************)
(* The steps of the generator outside bodies.                              *)
(***************************************************************************)
LEMMA GenClassInv == ASSUME IInv, work # <<>>, GenClass PROVE IInv'
<1>1. /\ pass = "codegen" /\ Current[1] = "class" /\ work' = Tail(work)
      /\ layouts' = layouts \cup {program[Current[2]].name} /\ made' = {}
      /\ UNCHANGED <<program, words, bodies, left, pass, at, open, scopes,
                     jumps, functions>>
  BY DEF GenClass
<1>2. /\ at = 0 /\ Current \notin Bodies /\ Len(scopes) = 1
      /\ scopes \in Seq(Scope) /\ Globals(scopes[1], DOMAIN scopes[1])
      /\ Current[2] \in 1..Len(program) /\ program[Current[2]].kind = "class"
  BY <1>1, Outside DEF IInv, LevelInv
<1>3. ProgramInv' /\ WorkInv' /\ BodiesInv' /\ LevelInv' /\ TrackInv'
  BY <1>1, <1>2, NextVisit
<1>4. program[Current[2]].name \in Classes
  BY <1>2 DEF Classes, Defs
<1>5. EmitInv'
  BY <1>1, <1>4, SameProgram DEF IInv, EmitInv, JumpsMeetTarget
<1>6. GlobalsInv'
  BY <1>1, GlobalsKept DEF IInv, GlobalsInv
<1> QED BY <1>3, <1>5, <1>6 DEF IInv

LEMMA GenGlobalInv == ASSUME IInv, work # <<>>, GenGlobal PROVE IInv'
<1> DEFINE n == program[Current[2]].name
           f == scopes[1]
           g == [f EXCEPT ![n].reg = TRUE]
<1>1. /\ pass = "codegen" /\ Current[1] \in {"var", "enum"}
      /\ work' = Tail(work) /\ made' = {}
      /\ scopes' = [scopes EXCEPT ![1][n].reg = TRUE]
      /\ UNCHANGED <<program, words, bodies, left, pass, at, open, jumps,
                     emitted>>
  BY DEF GenGlobal
<1>2. /\ at = 0 /\ Current \notin Bodies /\ Len(scopes) = 1
      /\ scopes \in Seq(Scope) /\ Globals(f, DOMAIN f) /\ f \in Scope
  BY <1>1, Outside DEF IInv, LevelInv
<1>3. scopes' = [scopes EXCEPT ![1] = g]
  BY <1>1
<1> HIDE DEF n, f
<1>4. /\ DOMAIN g = DOMAIN f /\ g \in Scope
      /\ \A m \in DOMAIN g : g[m].decl = f[m].decl
  <2>1. DOMAIN f \subseteq Name /\ f \in [DOMAIN f -> Entry]
    BY <1>2, ScopeIs
  <2>2. DOMAIN g = DOMAIN f
    OBVIOUS
  <2>3. ASSUME NEW m \in DOMAIN f
        PROVE  g[m] \in Entry /\ g[m].decl = f[m].decl
    <3>1. f[m] \in Entry
      BY <2>1
    <3>2. CASE m = n
      <4>1. g[m] = [f[m] EXCEPT !.reg = TRUE]
        BY <3>2
      <4> QED BY <3>1, <4>1 DEF Entry
    <3>3. CASE m # n
      BY <3>1, <3>3
    <3> QED BY <3>2, <3>3
  <2>4. g = [m \in DOMAIN f |-> g[m]]
    OBVIOUS
  <2> HIDE DEF g
  <2>5. g \in [DOMAIN g -> Entry]
    BY <2>2, <2>3, <2>4
  <2> QED BY <2>1, <2>2, <2>3, <2>5, ScopeIs
<1> HIDE DEF g
<1>5. scopes' \in Seq(Scope) /\ Len(scopes') = 1 /\ scopes'[1] = g
  BY <1>2, <1>3, <1>4
<1>6. /\ Globals(scopes'[1], DOMAIN scopes'[1])
      /\ DOMAIN scopes[1] \subseteq DOMAIN scopes'[1]
  BY <1>2, <1>4, <1>5 DEF Globals, f
<1>7. ProgramInv' /\ WorkInv' /\ BodiesInv' /\ LevelInv' /\ TrackInv'
  BY <1>1, <1>2, <1>5, <1>6, NextVisit
<1>8. EmitInv'
  BY <1>1, SameProgram DEF IInv, EmitInv, emitted, JumpsMeetTarget
<1>9. GlobalsInv'
  <2>1. DOMAIN scopes'[1] = DOMAIN scopes[1]
    BY <1>4, <1>5 DEF f
  <2> QED BY <1>1, <2>1, GlobalsKept DEF IInv, GlobalsInv
<1> QED BY <1>7, <1>8, <1>9 DEF IInv

LEMMA GenEnterInv == ASSUME IInv, work # <<>>, GenEnter PROVE IInv'
<1> DEFINE B == BodyScope(Current, GenFields(Current), TRUE)
<1>1. /\ pass = "codegen" /\ at = 0 /\ IsBody(Current) /\ at' = 1
      /\ functions' = IF Current[1] = "method"
                      THEN With(functions, Mangled(Current), Current)
                      ELSE functions
      /\ scopes' = Append(scopes, B) /\ made' = {}
      /\ UNCHANGED <<program, words, bodies, left, pass, work, open, jumps,
                     layouts>>
  BY DEF GenEnter
<1>2. /\ Typed /\ Current \in Bodies /\ Current \in DOMAIN bodies
      /\ \E st : Complete(Current, st)
  <2>1. Typed /\ Current \in Bodies
    BY <1>1, ProgramTyped, CurrentIs DEF IInv, Bodies
  <2> QED BY <1>1, <2>1 DEF IInv, BodiesInv
<1>3. /\ open = <<>> /\ scopes \in Seq(Scope) /\ Len(scopes) = 1
      /\ Globals(scopes[1], DOMAIN scopes[1])
  BY <1>1 DEF IInv, LevelInv
<1>4. B \in Scope
  BY <1>2, BodyScopeIs
<1> HIDE DEF B
<1>5. /\ scopes' \in Seq(Scope) /\ Len(scopes') = 2
      /\ scopes'[1] = scopes[1]
  <2>1. scopes' = Append(scopes, B)
    BY <1>1
  <2> QED BY <1>3, <1>4, <2>1
<1>6. Current' = Current /\ Bodies' = Bodies /\ Visits' = Visits
  BY <1>1, SameProgram DEF Current
<1>7. Followed'
  <2>1. Len(bodies[Current]) \in Nat
    <3>1. PICK st : Complete(Current, st)
      BY <1>2
    <3>2. PICK T : bodies[Current] \in Seq(T)
      BY <3>1 DEF Complete, Trace
    <3> QED BY <3>2
  <2>2. ASSUME NEW st, Complete(Current, st)' PROVE st[1].open = <<>>
    BY <2>2 DEF Complete, Trace, Start
  <2> QED BY <1>1, <1>3, <1>6, <2>1, <2>2 DEF Followed
<1>8. ProgramInv'
  BY <1>1 DEF IInv, ProgramInv
<1>9. WorkInv'
  BY <1>1, <1>2, <1>6 DEF IInv, WorkInv
<1>10. BodiesInv'
  <2>1. \A b, t : Complete(b, t) => Complete(b, t)'
    BY <1>1, <1>5, CompleteKept
  <2> QED BY <1>1, <1>6, <1>7, <2>1 DEF IInv, BodiesInv
<1>11. LevelInv'
  BY <1>1, <1>3, <1>5, SizeEmpty DEF LevelInv, Place
<1>12. TrackInv'
  BY <1>1 DEF IInv, TrackInv, jumps
<1>13. EmitInv'
  <2>1. Classes' = Classes /\ \A b : Mangled(b)' = Mangled(b)
    BY <1>1, SameProgram
  <2>2. \A name \in DOMAIN functions' : Mangled(functions'[name]) = name
    BY <1>1 DEF IInv, EmitInv, With
  <2> QED BY <1>1, <2>1, <2>2 DEF IInv, EmitInv, JumpsMeetTarget
<1>14. GlobalsInv'
  BY <1>1, <1>5, GlobalsKept DEF IInv, GlobalsInv
<1> QED BY <1>8, <1>9, <1>10, <1>11, <1>12, <1>13, <1>14 DEF IInv

LEMMA GenLeaveInv == ASSUME IInv, work # <<>>, GenLeave PROVE IInv'
<1>1. /\ pass = "codegen" /\ at > 0 /\ at > Len(bodies[Current]) /\ at' = 0
      /\ scopes' = PopScope(scopes) /\ work' = Tail(work) /\ made' = {}
      /\ UNCHANGED <<program, words, bodies, left, pass, open, jumps, emitted>>
  BY DEF GenLeave, InBody
<1>2. /\ Current \in Bodies /\ Current \in DOMAIN bodies /\ Followed
      /\ at \in Nat
  BY <1>1 DEF IInv, WorkInv, BodiesInv
<1>3. open = <<>>
  <2>1. PICK st : Complete(Current, st)
    BY <1>1, <1>2 DEF IInv, BodiesInv
  <2>2. PICK T : bodies[Current] \in Seq(T)
    BY <2>1 DEF Complete, Trace
  <2>3. at = Len(bodies[Current]) + 1
    BY <1>1, <1>2, <2>2 DEF Followed
  <2> QED BY <1>2, <2>1, <2>3 DEF Followed, Complete
<1>4. /\ scopes \in Seq(Scope) /\ Len(scopes) = 2
      /\ Globals(scopes[1], DOMAIN scopes[1])
  BY <1>1, <1>3, SizeEmpty DEF IInv, LevelInv, Place
<1>5. /\ scopes' \in Seq(Scope) /\ Len(scopes') = 1
      /\ scopes'[1] = scopes[1]
  <2>1. scopes # <<>>
    BY <1>4, OneLong
  <2>2. 1 \in 1..(Len(scopes) - 1) /\ Len(scopes) - 1 = 1
    BY <1>4
  <2>3. LET t == PopScope(scopes)
        IN  /\ t \in Seq(Scope) /\ Len(t) = Len(scopes) - 1
            /\ \A k \in 1..(Len(scopes) - 1) : t[k] = scopes[k]
    BY <1>4, <2>1, PopIs
  <2> QED BY <1>1, <2>2, <2>3
<1>6. \A b, t : Complete(b, t) => Complete(b, t)'
  BY <1>1, <1>5, CompleteKept
<1>7. Bodies' = Bodies /\ Visits' = Visits
  BY <1>1, SameProgram
<1>8. ProgramInv'
  BY <1>1 DEF IInv, ProgramInv
<1>9. WorkInv'
  BY <1>1, <1>7, CurrentIs DEF IInv, WorkInv, GenLeave
<1>10. BodiesInv'
  BY <1>1, <1>6, <1>7 DEF IInv, BodiesInv
<1>11. LevelInv'
  BY <1>1, <1>3, <1>4, <1>5 DEF IInv, LevelInv
<1>12. TrackInv'
  BY <1>1 DEF IInv, TrackInv, jumps
<1>13. EmitInv'
  BY <1>1, SameProgram DEF IInv, EmitInv, emitted, JumpsMeetTarget
<1>14. GlobalsInv'
  BY <1>1, <1>5, GlobalsKept DEF IInv, GlobalsInv
<1> QED BY <1>8, <1>9, <1>10, <1>11, <1>12, <1>13, <1>14 DEF IInv

LEMMA StoppedInv ==
  ASSUME IInv, pass = "codegen", made' = {},
         \/ pass' = "abort"
         \/ pass' = "done" /\ work = <<>>,
         UNCHANGED <<program, words, bodies, left, work, at, open, scopes,
                     jumps, emitted>>
  PROVE  IInv'
<1>1. Current' = Current /\ Bodies' = Bodies /\ Visits' = Visits
  BY SameProgram DEF Current
<1>2. \A b, t : Complete(b, t) <=> Complete(b, t)'
  <2>1. \A b, B, t : Trace(b, B, t)' <=> Trace(b, B, t)
    BY SameProgram
  <2>2. ASSUME NEW b, NEW t PROVE Complete(b, t) <=> Complete(b, t)'
    <3>1. Trace(b, bodies[b], t)' <=> Trace(b, bodies[b], t)'
      OBVIOUS
    <3>2. Trace(b, bodies[b], t)' <=> Trace(b, bodies[b], t)
      BY <2>1 DEF Trace
    <3> QED BY <3>2 DEF Complete, Globals
  <2> QED BY <2>2
<1>3. ProgramInv'
  BY DEF IInv, ProgramInv
<1>4. WorkInv'
  BY <1>1 DEF IInv, WorkInv, Passes
<1>5. at > 0 => (Followed <=> Followed')
  BY <1>1, <1>2 DEF Followed
<1>6. BodiesInv'
  BY <1>1, <1>2, <1>5 DEF IInv, BodiesInv
<1>7. LevelInv'
  BY DEF IInv, LevelInv, Place
<1>8. TrackInv'
  BY DEF IInv, TrackInv, jumps
<1>9. EmitInv'
  BY SameProgram DEF IInv, EmitInv, emitted, JumpsMeetTarget
<1>10. GlobalsInv'
  <2>1. \A d : Checked(d) <=> Checked(d)'
    BY SameProgram DEF Checked
  <2> QED BY <2>1, SameProgram DEF IInv, GlobalsInv
<1> QED BY <1>3, <1>4, <1>6, <1>7, <1>8, <1>9, <1>10 DEF IInv

LEMMA AbortInv == ASSUME IInv, pass = "codegen", Abort PROVE IInv'
BY StoppedInv DEF Abort

LEMMA GenEndInv == ASSUME IInv, GenEnd PROVE IInv'
BY StoppedInv DEF GenEnd
-----------------------------------------------------------------------------
(***************************************************************************)
(* The steps of the generator in bodies.                                   *)
(***************************************************************************)
\* A trace tells what the next statement does.
LEMMA Following ==
  ASSUME IInv, pass = "codegen", InBody, at <= Len(bodies[Current])
  PROVE  /\ at \in Nat \ {0} /\ at \in 1..Len(bodies[Current])
         /\ Current \in Bodies /\ Current \in DOMAIN bodies
         /\ open \in Seq(Construct) /\ scopes \in Seq(Scope)
         /\ Len(scopes) = Size(open, 1..Len(open)) /\ Len(scopes) >= 2
         /\ Tracks(breakTracker, open, BreakKinds)
         /\ Tracks(continueTracker, open, Loops)
         /\ Item.op \in {"close", "case"} => open # <<>>
         /\ Item.op = "jump" => Unseen \/ HasTarget(open, Item.kind)
         /\ Item.op \in Naming => Item.name \in Name
         /\ \E st : Complete(Current, st)
         /\ \A st : Complete(Current, st) =>
              /\ st[at] \in States /\ st[at + 1] \in States
              /\ st[at].open = open
              /\ st[at + 1].open = Opening(at, Item, open)
              /\ Step(at, Item, st[at], st[at + 1])
<1>1. /\ at \in Nat \ {0} /\ Current \in Bodies /\ Current \in DOMAIN bodies
      /\ Followed /\ open \in Seq(Construct) /\ scopes \in Seq(Scope)
      /\ Len(scopes) = Size(open, 1..Len(open))
      /\ \E st : Complete(Current, st)
      /\ Tracks(breakTracker, open, BreakKinds)
      /\ Tracks(continueTracker, open, Loops)
  BY DEF IInv, WorkInv, BodiesInv, LevelInv, TrackInv, Place, InBody
<1>2. Len(scopes) >= 2
  <2>1. [kind |-> "if", pos |-> 1] \in Construct
    BY KindsAre DEF Construct
  <2> QED BY <1>1, <2>1, SizeAppend
<1> DEFINE B == bodies[Current]
<1>3. Len(B) \in Nat /\ at \in 1..Len(B)
  <2>1. PICK st : Complete(Current, st)
    BY <1>1
  <2>2. PICK T : B \in Seq(T)
    BY <2>1 DEF Complete, Trace
  <2> QED BY <1>1, <2>2
<1>4. ASSUME NEW st, Complete(Current, st)
      PROVE  /\ st[at] \in States /\ st[at + 1] \in States
             /\ st[at].open = open
             /\ Step(at, Item, st[at], st[at + 1])
  <2>1. /\ st \in [1..(Len(B) + 1) -> States]
        /\ \A i \in 1..Len(B) : Step(i, B[i], st[i], st[i + 1])
    BY <1>4 DEF Complete, Trace
  <2>2. st[at].open = open
    BY <1>1, <1>4 DEF Followed
  <2>3. at \in 1..(Len(B) + 1) /\ at + 1 \in 1..(Len(B) + 1)
    BY <1>3
  <2>4. Item = B[at]
    BY DEF Item
  <2> HIDE DEF B
  <2> QED BY <1>3, <2>1, <2>2, <2>3, <2>4
<1>5. ASSUME NEW st, Complete(Current, st)
      PROVE  /\ st[at + 1].open = Opening(at, Item, open)
             /\ Item.op \in {"close", "case"} => open # <<>>
             /\ Item.op = "jump" => Unseen \/ HasTarget(open, Item.kind)
             /\ Item.op \in Naming => Item.name \in Name
  BY <1>4, <1>5 DEF Step, StepOpen, StepScopes, Unseen, Strayed
<1> QED BY <1>1, <1>2, <1>3, <1>4, <1>5

LEMMA GenStepInv ==
  ASSUME IInv, pass = "codegen", InBody, at <= Len(bodies[Current]), Done,
         open' = Opening(at, Item, open),
         scopes' \in Seq(Scope), scopes'[1] = scopes[1],
         Len(scopes') = Size(open', 1..Len(open')),
         UNCHANGED <<loopDepth, loopOrSwitchDepth>>,
         Tracks(breakTracker', open', BreakKinds),
         Tracks(continueTracker', open', Loops),
         JumpsMeetTarget'
  PROVE  IInv'
<1>1. /\ at' = at + 1
      /\ UNCHANGED <<program, words, bodies, left, pass, work, emitted>>
  BY DEF Done
<1>2. /\ at \in 1..Len(bodies[Current]) /\ at \in Nat \ {0}
      /\ Current \in Bodies /\ Current \in DOMAIN bodies
      /\ open \in Seq(Construct) /\ (Item.op = "close" => open # <<>>)
  BY Following
<1>3. Current' = Current /\ Bodies' = Bodies /\ Visits' = Visits
  BY <1>1, SameProgram DEF Current
<1>4. \A b, t : Complete(b, t) <=> Complete(b, t)'
  <2>1. \A b, B, t : Trace(b, B, t)' <=> Trace(b, B, t)
    BY <1>1, SameProgram
  <2>2. ASSUME NEW b, NEW t PROVE Complete(b, t) <=> Complete(b, t)'
    <3>1. Trace(b, bodies[b], t)' <=> Trace(b, bodies[b], t)
      BY <1>1, <2>1 DEF Trace
    <3> QED BY <1>1, <3>1 DEF Complete, Globals
  <2> QED BY <2>2
<1>5. ProgramInv'
  BY <1>1 DEF IInv, ProgramInv
<1>6. WorkInv'
  BY <1>1, <1>2, <1>3 DEF IInv, WorkInv
<1>7. Followed'
  <2>1. Len(bodies[Current]) \in Nat
    <3>1. PICK st : Complete(Current, st)
      BY Following
    <3>2. PICK T : bodies[Current] \in Seq(T)
      BY <3>1 DEF Complete, Trace
    <3> QED BY <3>2
  <2>2. at + 1 <= Len(bodies[Current]) + 1
    BY <1>2, <2>1
  <2>3. \A st : Complete(Current, st) => st[at + 1].open = open'
    BY Following
  <2> QED BY <1>1, <1>3, <1>4, <2>2, <2>3 DEF Followed
<1>8. BodiesInv'
  BY <1>1, <1>3, <1>4, <1>7 DEF IInv, BodiesInv
<1>9. LevelInv'
  <2>1. open' \in Seq(Construct)
    BY <1>2, OpeningTyped
  <2>2. Place' = 1..Len(open')
    BY <1>1 DEF Place
  <2> QED BY <1>1, <1>2, <2>1, <2>2 DEF IInv, LevelInv
<1>10. TrackInv'
  BY <1>1 DEF IInv, TrackInv
<1>11. EmitInv'
  <2>1. Classes' = Classes /\ \A b : Mangled(b)' = Mangled(b)
    BY <1>1, SameProgram
  <2> QED BY <1>1, <2>1 DEF IInv, EmitInv, emitted
<1>12. GlobalsInv'
  BY <1>1, GlobalsKept DEF IInv, GlobalsInv
<1> QED BY <1>5, <1>6, <1>8, <1>9, <1>10, <1>11, <1>12 DEF IInv

LEMMA NoJumps ==
  ASSUME \A m \in made' : m.is # "jump"
  PROVE  JumpsMeetTarget'
BY DEF JumpsMeetTarget

LEMMA ResolvedIs == \A s, n, want, how : \A m \in Resolved(s, n, want, how) :
                      m.is = "use"
BY DEF Resolved

LEMMA GenStay ==
  ASSUME IInv, NEW op, op \notin Kinds \cup {"close"}, Generating(op), Done,
         UNCHANGED <<open, scopes, jumps>>, JumpsMeetTarget'
  PROVE  IInv'
<1>1. /\ pass = "codegen" /\ InBody /\ at <= Len(bodies[Current])
      /\ Item.op = op
  BY DEF Generating
<1>2. Opening(at, Item, open) = open
  BY <1>1 DEF Opening
<1>3. scopes' \in Seq(Scope) /\ Len(scopes') = Size(open', 1..Len(open'))
  BY <1>1, Following
<1>4. /\ Tracks(breakTracker', open', BreakKinds)
      /\ Tracks(continueTracker', open', Loops)
      /\ UNCHANGED <<loopDepth, loopOrSwitchDepth>>
  BY <1>1, Following DEF jumps
<1> QED BY <1>1, <1>2, <1>3, <1>4, GenStepInv

LEMMA GenUseInv == ASSUME IInv, GenUse PROVE IInv'
<1>1. CASE Abort
  BY <1>1, AbortInv DEF GenUse, Generating
<1>2. CASE ~Abort
  <2>1. /\ Generating("use") /\ Done /\ UNCHANGED <<open, scopes, jumps>>
        /\ made' = Resolved(scopes, Item.use, Item.bound, "plain")
    BY <1>2 DEF GenUse
  <2>2. JumpsMeetTarget'
    BY <2>1, ResolvedIs, NoJumps
  <2> QED BY <2>1, <2>2, GenStay, KindsAre
<1> QED BY <1>1, <1>2

\* What resolves nothing.
LEMMA GenQuietInv == ASSUME IInv, GenBuiltin \/ GenField PROVE IInv'
<1>1. CASE Abort
  BY <1>1, AbortInv DEF GenBuiltin, GenField, Generating
<1>2. CASE ~Abort
  <2>1. /\ Generating("builtin") \/ Generating("field")
        /\ Done /\ UNCHANGED <<open, scopes, jumps>> /\ made' = {}
    BY <1>2 DEF GenBuiltin, GenField
  <2>2. JumpsMeetTarget'
    BY <2>1, NoJumps
  <2> QED BY <2>1, <2>2, GenStay, KindsAre
<1> QED BY <1>1, <1>2

LEMMA GenCallOrNewInv == ASSUME IInv, GenCallOrNew PROVE IInv'
<1>1. CASE Abort
  BY <1>1, AbortInv DEF GenCallOrNew, Generating
<1>2. CASE ~Abort
  <2>1. Generating("call") /\ Done /\ UNCHANGED <<open, scopes, jumps>>
    BY <1>2 DEF GenCallOrNew
  <2>2. PICK got, inits :
          made' = {[is |-> "call", to |-> Item.to, want |-> Item.bound,
                    got |-> got]}
                  \cup UNION {Resolved(scopes, f.init, scopes[1][f.init].decl,
                                        "field") : f \in inits}
    BY <1>2 DEF GenCallOrNew
  <2>3. \A m \in made' : m.is # "jump"
    BY <2>2, ResolvedIs
  <2>4. JumpsMeetTarget'
    BY <2>3, NoJumps
  <2> QED BY <2>1, <2>4, GenStay, KindsAre
<1> QED BY <1>1, <1>2

LEMMA GenJumpInv == ASSUME IInv, GenJump PROVE IInv'
<1> DEFINE K == Targets(Item.kind)
           t == IF Item.kind = "break" THEN breakTracker ELSE continueTracker
           k == Innermost(open, K)
           want == IF k = 0 THEN 0 ELSE open[k].pos
           got == IF t = <<>> THEN 0 ELSE Last(t)
<1>1. Generating("jump") /\ Done /\ UNCHANGED <<open, scopes, jumps>>
  BY DEF GenJump
<1>2. made' = {[is |-> "jump", want |-> want, got |-> got]}
  BY DEF GenJump, Targets, BreakKinds, Innermost
<1>3. /\ open \in Seq(Construct) /\ Tracks(t, open, K)
      /\ Unseen \/ HasTarget(open, Item.kind)
  <2>1. /\ pass = "codegen" /\ InBody /\ at <= Len(bodies[Current])
        /\ Item.op = "jump"
    BY <1>1 DEF Generating
  <2> QED BY <2>1, Following DEF Targets
<1> HIDE DEF t, k
<1>4. /\ k = 0 <=> t = <<>>
      /\ k # 0 => Last(t) = open[k].pos /\ open[k].pos # 0
  BY <1>3, TracksLast DEF k
<1>5. k = 0 => ~HasTarget(open, Item.kind)
  BY <1>3, InnermostIs DEF k, HasTarget
<1>6. want = got /\ (got = 0 => Unseen)
  BY <1>3, <1>4, <1>5
<1> HIDE DEF want, got
<1>7. Unseen' <=> Unseen
  BY <1>1 DEF Unseen
<1>8. JumpsMeetTarget'
  BY <1>2, <1>6, <1>7 DEF JumpsMeetTarget
<1> QED BY <1>1, <1>8, GenStay, KindsAre

LEMMA GenDeclInv == ASSUME IInv, GenDecl PROVE IInv'
<1> DEFINE s == Add(scopes, Item.name, Local, TRUE)
<1>1. CASE Abort
  BY <1>1, AbortInv DEF GenDecl, Generating
<1>2. CASE ~Abort
  <2>1. /\ Generating("decl") /\ Done /\ UNCHANGED <<open, jumps>>
        /\ scopes' = s
        /\ made' = Resolved(s, Item.use, Item.bound, "initialiser")
    BY <1>2 DEF GenDecl
  <2> HIDE DEF s
  <2>2. JumpsMeetTarget'
    BY <2>1, ResolvedIs, NoJumps
  <2>3. /\ pass = "codegen" /\ InBody /\ at <= Len(bodies[Current])
        /\ Item.op = "decl"
    BY <2>1 DEF Generating
  <2>4. /\ scopes \in Seq(Scope) /\ Len(scopes) >= 2 /\ Item.name \in Name
        /\ Len(scopes) = Size(open, 1..Len(open)) /\ at \in Nat
    BY <2>3, Following DEF Naming
  <2>5. s \in Seq(Scope) /\ Len(s) = Len(scopes) /\ s[1] = scopes[1]
    <3>1. Local \in Declaration
      BY <2>4, LocalDeclared DEF LocalIs, Local
    <3>2. scopes # <<>> /\ 1 \in 1..Len(scopes) /\ 1 # Len(scopes)
      BY <2>4, Below
    <3> QED BY <2>4, <3>1, <3>2, AddIs, ZenonT(40) DEF s
  <2>6. Opening(at, Item, open) = open
    BY <2>3, KindsAre DEF Opening
  <2>7. /\ Tracks(breakTracker', open', BreakKinds)
        /\ Tracks(continueTracker', open', Loops)
        /\ UNCHANGED <<loopDepth, loopOrSwitchDepth>>
    BY <2>1, <2>3, Following DEF jumps
  <2> QED BY <2>1, <2>2, <2>3, <2>4, <2>5, <2>6, <2>7, GenStepInv
<1> QED BY <1>1, <1>2

LEMMA GenCaseInv == ASSUME IInv, GenCase PROVE IInv'
<1> DEFINE a == PopScope(scopes)
<1>1. /\ Generating("case") /\ Done /\ UNCHANGED <<open, jumps>>
      /\ scopes' = PushScope(a) /\ made' = {}
  BY DEF GenCase
<1>2. JumpsMeetTarget'
  BY <1>1, NoJumps
<1>3. /\ pass = "codegen" /\ InBody /\ at <= Len(bodies[Current])
      /\ Item.op = "case"
  BY <1>1 DEF Generating
<1>4. /\ scopes \in Seq(Scope) /\ Len(scopes) >= 2 /\ Len(scopes) \in Nat
      /\ Len(scopes) = Size(open, 1..Len(open))
  BY <1>3, Following
<1>5. a \in Seq(Scope) /\ Len(a) = Len(scopes) - 1 /\ a[1] = scopes[1]
  BY <1>4, Below, PopIs
<1> HIDE DEF a
<1>6. LET t == PushScope(a)
      IN  t \in Seq(Scope) /\ Len(t) = Len(a) + 1 /\ t[1] = a[1]
  <2>1. 1 \in 1..Len(a)
    BY <1>4, <1>5
  <2> QED BY <1>5, <2>1, PushIs
<1>7. /\ scopes' \in Seq(Scope) /\ Len(scopes') = Len(scopes)
      /\ scopes'[1] = scopes[1]
  BY <1>1, <1>4, <1>5, <1>6
<1>8. Opening(at, Item, open) = open
  BY <1>3, KindsAre DEF Opening
<1>9. /\ Tracks(breakTracker', open', BreakKinds)
      /\ Tracks(continueTracker', open', Loops)
      /\ UNCHANGED <<loopDepth, loopOrSwitchDepth>>
  BY <1>1, <1>3, Following DEF jumps
<1> QED BY <1>1, <1>2, <1>3, <1>4, <1>7, <1>8, <1>9, GenStepInv

LEMMA GenOpened ==
  ASSUME IInv, NEW kind \in Kinds, Generating(kind), Done,
         open' = Opened(kind), scopes' \in Seq(Scope),
         scopes'[1] = scopes[1], Len(scopes') = Len(scopes) + Scopes(kind),
         breakTracker' = IF kind \in BreakKinds THEN Append(breakTracker, at)
                         ELSE breakTracker,
         continueTracker' = IF kind \in Loops THEN Append(continueTracker, at)
                            ELSE continueTracker,
         UNCHANGED <<loopDepth, loopOrSwitchDepth>>,
         \A m \in made' : m.is # "jump"
  PROVE  IInv'
<1> DEFINE c == [kind |-> kind, pos |-> at]
<1>1. /\ pass = "codegen" /\ InBody /\ at <= Len(bodies[Current])
      /\ Item.op = kind
  BY DEF Generating
<1>2. /\ at \in Nat \ {0} /\ open \in Seq(Construct)
      /\ Len(scopes) = Size(open, 1..Len(open))
      /\ Tracks(breakTracker, open, BreakKinds)
      /\ Tracks(continueTracker, open, Loops)
  BY <1>1, Following
<1>3. /\ open' = Append(open, c) /\ open' = Opening(at, Item, open)
      /\ c \in Construct /\ c.kind = kind /\ c.pos = at
  BY <1>1, <1>2 DEF Opened, Opening, Construct
<1> HIDE DEF c
<1>4. Len(scopes') = Size(open', 1..Len(open'))
  BY <1>2, <1>3, SizeAppend
<1>5. /\ Tracks(breakTracker', open', BreakKinds)
      /\ Tracks(continueTracker', open', Loops)
  <2>1. LET p == Append(open, c)
        IN  /\ Tracks(IF c.kind \in BreakKinds THEN Append(breakTracker, c.pos)
                      ELSE breakTracker, p, BreakKinds)
            /\ Tracks(IF c.kind \in Loops THEN Append(continueTracker, c.pos)
                      ELSE continueTracker, p, Loops)
    BY <1>2, <1>3, TracksAppend
  <2> QED BY <1>3, <2>1
<1>6. JumpsMeetTarget'
  BY NoJumps
<1> QED BY <1>1, <1>3, <1>4, <1>5, <1>6, GenStepInv

LEMMA GenOpenInv ==
  ASSUME IInv, NEW kind \in {"if", "stray", "while", "switch"},
         NEW breaks, NEW continues,
         breaks = IF kind \in BreakKinds THEN <<at>> ELSE <<>>,
         continues = IF kind \in Loops THEN <<at>> ELSE <<>>,
         GenOpen(kind, breaks, continues)
  PROVE  IInv'
<1>1. /\ Generating(kind) /\ Done /\ open' = Opened(kind) /\ made' = {}
      /\ scopes' = PushScope(scopes)
      /\ breakTracker' = breakTracker \o breaks
      /\ continueTracker' = continueTracker \o continues
      /\ UNCHANGED <<loopDepth, loopOrSwitchDepth>>
  BY DEF GenOpen
<1>2. /\ pass = "codegen" /\ InBody /\ at <= Len(bodies[Current])
  BY <1>1 DEF Generating
<1>3. /\ at \in Nat \ {0} /\ scopes \in Seq(Scope) /\ Len(scopes) >= 2
      /\ breakTracker \in Seq(Nat \ {0}) /\ continueTracker \in Seq(Nat \ {0})
  BY <1>2, Following DEF Tracks
<1>4. /\ breakTracker' = IF kind \in BreakKinds THEN Append(breakTracker, at)
                         ELSE breakTracker
      /\ continueTracker' = IF kind \in Loops THEN Append(continueTracker, at)
                            ELSE continueTracker
  <2>1. \A t \in Seq(Nat \ {0}) : t \o <<>> = t /\ t \o <<at>> = Append(t, at)
    BY <1>3
  <2> QED BY <1>1, <1>3, <2>1
<1>5. Scopes(kind) = 1 /\ kind \in Kinds
  BY KindsAre DEF Scopes
<1>6. /\ scopes' \in Seq(Scope) /\ Len(scopes') = Len(scopes) + Scopes(kind)
      /\ scopes'[1] = scopes[1]
  BY <1>1, <1>3, <1>5, PushIs, Below
<1>7. \A m \in made' : m.is # "jump"
  BY <1>1
<1> QED BY <1>1, <1>4, <1>5, <1>6, <1>7, GenOpened

LEMMA GenLoopInv ==
  ASSUME IInv, NEW kind \in ForKinds, GenLoop(kind)
  PROVE  IInv'
<1> DEFINE a == PushScope(scopes)
           s == Add(a, Item.name, Local, TRUE)
<1>1. CASE Abort
  BY <1>1, AbortInv DEF GenLoop, Generating
<1>2. CASE ~Abort
  <2>1. /\ Generating(kind) /\ Done /\ open' = Opened(kind)
        /\ scopes' = PushScope(s)
        /\ breakTracker' = Append(breakTracker, at)
        /\ continueTracker' = Append(continueTracker, at)
        /\ made' = Resolved(s, Item.use, Item.bound, "initialiser")
        /\ UNCHANGED <<loopDepth, loopOrSwitchDepth>>
    BY <1>2 DEF GenLoop
  <2> HIDE DEF s
  <2>2. \A m \in made' : m.is # "jump"
    BY <2>1, ResolvedIs
  <2>3. /\ pass = "codegen" /\ InBody /\ at <= Len(bodies[Current])
        /\ Item.op = kind
    BY <2>1 DEF Generating
  <2>4. /\ scopes \in Seq(Scope) /\ Len(scopes) >= 2 /\ Len(scopes) \in Nat
        /\ Item.name \in Name /\ at \in Nat
    BY <2>3, Following, KindsAre DEF Naming
  <2>5. /\ a \in Seq(Scope) /\ Len(a) = Len(scopes) + 1 /\ a[1] = scopes[1]
        /\ a # <<>>
    BY <2>4, PushIs, Below
  <2> HIDE DEF a
  <2>6. s \in Seq(Scope) /\ Len(s) = Len(a) /\ s[1] = a[1]
    <3>1. Local \in Declaration
      BY <2>4, LocalDeclared DEF LocalIs, Local
    <3>2. 1 \in 1..Len(a) /\ 1 # Len(a)
      BY <2>4, <2>5
    <3> QED BY <2>4, <2>5, <3>1, <3>2, AddIs, ZenonT(40) DEF s
  <2>7. LET t == PushScope(s)
        IN  t \in Seq(Scope) /\ Len(t) = Len(s) + 1 /\ t[1] = s[1]
    <3>1. 1 \in 1..Len(s)
      BY <2>4, <2>5, <2>6
    <3> QED BY <2>6, <3>1, PushIs
  <2>8. Scopes(kind) = 2 /\ kind \in Kinds /\ kind \in Loops
        /\ kind \in BreakKinds
    BY KindsAre DEF Scopes
  <2>9. /\ scopes' \in Seq(Scope) /\ Len(scopes') = Len(scopes) + Scopes(kind)
        /\ scopes'[1] = scopes[1]
    BY <2>1, <2>4, <2>5, <2>6, <2>7, <2>8
  <2> QED BY <2>1, <2>2, <2>8, <2>9, GenOpened
<1> QED BY <1>1, <1>2

LEMMA GenCloseInv == ASSUME IInv, GenClose PROVE IInv'
<1> DEFINE c == Last(open)
           k == Scopes(c.kind)
<1>1. /\ Generating("close") /\ Done /\ open' = Front(open)
      /\ scopes' = Drop(scopes, k)
      /\ breakTracker' = IF c.kind \in BreakKinds THEN Front(breakTracker)
                         ELSE breakTracker
      /\ continueTracker' = IF c.kind \in Loops THEN Front(continueTracker)
                            ELSE continueTracker
      /\ UNCHANGED <<loopDepth, loopOrSwitchDepth>>
  BY DEF GenClose, BreakKinds
<1>2. \A m \in made' : m.is # "jump"
  BY ResolvedIs DEF GenClose
<1>3. /\ pass = "codegen" /\ InBody /\ at <= Len(bodies[Current])
      /\ Item.op = "close"
  BY <1>1 DEF Generating
<1>4. /\ open \in Seq(Construct) /\ open # <<>> /\ scopes \in Seq(Scope)
      /\ Len(scopes) = Size(open, 1..Len(open)) /\ Len(scopes) \in Nat
      /\ Tracks(breakTracker, open, BreakKinds)
      /\ Tracks(continueTracker, open, Loops)
  BY <1>3, Following
<1>5. /\ open' = Opening(at, Item, open)
      /\ Tracks(breakTracker', open', BreakKinds)
      /\ Tracks(continueTracker', open', Loops)
  <2>1. open' = Opening(at, Item, open)
    BY <1>1, <1>3, KindsAre DEF Opening
  <2>2. /\ Tracks(IF c.kind \in BreakKinds THEN Front(breakTracker)
                  ELSE breakTracker, Front(open), BreakKinds)
        /\ Tracks(IF c.kind \in Loops THEN Front(continueTracker)
                  ELSE continueTracker, Front(open), Loops)
    BY <1>4, TracksFront
  <2> QED BY <1>1, <2>1, <2>2
<1>6. /\ open' \in Seq(Construct) /\ c \in Construct
      /\ open = Append(open', c)
  BY <1>1, <1>4, FrontLast
<1> HIDE DEF c
<1>7. /\ Len(scopes) = Size(open', 1..Len(open')) + k /\ k \in {1, 2}
      /\ Size(open', 1..Len(open')) \in Nat
      /\ Size(open', 1..Len(open')) >= 2
  <2>1. LET p == Append(open', c)
        IN  /\ Size(p, 1..Len(p)) = Size(open', 1..Len(open')) + k
            /\ k \in {1, 2} /\ Size(open', 1..Len(open')) \in Nat
            /\ Size(open', 1..Len(open')) >= 2
    BY <1>6, SizeAppend
  <2> QED BY <1>4, <1>6, <2>1
<1> HIDE DEF k
<1>8. /\ scopes' \in Seq(Scope) /\ Len(scopes') = Size(open', 1..Len(open'))
      /\ scopes'[1] = scopes[1]
  <2>1. /\ k \in Nat /\ k <= Len(scopes) /\ 1 \in 1..(Len(scopes) - k)
        /\ Len(scopes) - k = Size(open', 1..Len(open'))
    BY <1>4, <1>7
  <2>2. LET t == Drop(scopes, k)
        IN  /\ t \in Seq(Scope) /\ Len(t) = Len(scopes) - k
            /\ \A i \in 1..(Len(scopes) - k) : t[i] = scopes[i]
    BY <1>4, <2>1, DropIs
  <2> QED BY <1>1, <2>1, <2>2
<1>9. JumpsMeetTarget'
  BY <1>2, NoJumps
<1> QED BY <1>1, <1>3, <1>5, <1>8, <1>9, GenStepInv
-----------------------------------------------------------------------------
(***************************************************************************)
(* What holds in every state.                                              *)
(***************************************************************************)
LEMMA SemaStepInv ==
  ASSUME IInv, work # <<>>, pass = "sema",
         \/ SemaVar \/ SemaClass \/ SemaEnter \/ SemaLeave
         \/ \E n \in Uses : SemaUse(n)
         \/ \E n \in words.names : \E u \in Operand(n) : SemaDecl(n, u)
         \/ SemaIf \/ SemaStray \/ SemaWhile \/ SemaSwitch
         \/ \E n \in words.names : \E u \in Operand(n) : SemaFor(n, u)
         \/ \E n, u \in words.names : SemaForIn(n, u)
         \/ SemaCase \/ SemaClose
         \/ \E kind \in {"break", "continue"} : SemaJump(kind)
         \/ \E u \in {None} \cup Uses : SemaReturn(u)
         \/ \E call \in words.calls : SemaCall(call[1], call[2], call[3])
         \/ \E n \in words.args : SemaBuiltin(n)
         \/ \E field \in words.fields : SemaField(field[1], field[2])
  PROVE  IInv'
<1>1. CASE SemaVar \/ SemaClass \/ SemaEnter \/ SemaLeave
  BY <1>1, SemaVarInv, SemaClassInv, SemaEnterInv, SemaLeaveInv
<1>2. CASE SemaIf \/ SemaStray \/ SemaWhile \/ SemaSwitch
  BY <1>2, SemaOpenInv, KindsAre DEF SemaIf, SemaStray, SemaWhile, SemaSwitch
<1>3. CASE \E n \in words.names : \E u \in Operand(n) : SemaFor(n, u)
  BY <1>3, SemaLoopInv, KindsAre DEF SemaFor
<1>4. CASE \E n, u \in words.names : SemaForIn(n, u)
  BY <1>4, SemaLoopInv, KindsAre DEF SemaForIn
<1>5. CASE SemaCase \/ SemaClose
  BY <1>5, SemaCaseInv, SemaCloseInv
<1>6. CASE \E n \in Uses : SemaUse(n)
  BY <1>6, SemaUseInv
<1>7. CASE \E n \in words.names : \E u \in Operand(n) : SemaDecl(n, u)
  BY <1>7, SemaDeclInv
<1>8. CASE \E kind \in {"break", "continue"} : SemaJump(kind)
  BY <1>8, SemaJumpInv
<1>9. CASE \E u \in {None} \cup Uses : SemaReturn(u)
  BY <1>9, SemaReturnInv
<1>10. CASE \E call \in words.calls : SemaCall(call[1], call[2], call[3])
  BY <1>10, SemaCallInv
<1>11. CASE \/ \E n \in words.args : SemaBuiltin(n)
            \/ \E field \in words.fields : SemaField(field[1], field[2])
  BY <1>11, SemaBuiltinInv, SemaFieldInv
<1> QED BY <1>1, <1>2, <1>3, <1>4, <1>5, <1>6, <1>7, <1>8, <1>9, <1>10, <1>11

LEMMA GenActionInv ==
  ASSUME IInv, work # <<>>,
         \/ GenClass \/ GenGlobal \/ GenEnter \/ GenLeave
         \/ GenUse \/ GenDecl \/ GenIf \/ GenStray \/ GenWhile \/ GenSwitch
         \/ GenFor \/ GenForIn \/ GenCase \/ GenClose \/ GenJump
         \/ GenCallOrNew \/ GenBuiltin \/ GenField
  PROVE  IInv'
<1>1. CASE GenClass \/ GenGlobal \/ GenEnter \/ GenLeave
  BY <1>1, GenClassInv, GenGlobalInv, GenEnterInv, GenLeaveInv
<1>2. CASE GenIf \/ GenStray \/ GenWhile \/ GenSwitch
  BY <1>2, GenOpenInv, KindsAre DEF GenIf, GenStray, GenWhile, GenSwitch
<1>3. CASE GenFor \/ GenForIn
  BY <1>3, GenLoopInv, KindsAre DEF GenFor, GenForIn
<1>4. CASE GenUse \/ GenDecl \/ GenCase \/ GenClose
  BY <1>4, GenUseInv, GenDeclInv, GenCaseInv, GenCloseInv
<1>5. CASE GenJump \/ GenCallOrNew
  BY <1>5, GenJumpInv, GenCallOrNewInv
<1>6. CASE GenBuiltin \/ GenField
  BY <1>6, GenQuietInv
<1> QED BY <1>1, <1>2, <1>3, <1>4, <1>5, <1>6

LEMMA StutterInv == ASSUME IInv, UNCHANGED vars PROVE IInv'
<1>1. /\ UNCHANGED <<program, words, bodies, left, pass, work, at, open,
                     scopes, functions, layouts, made>>
      /\ UNCHANGED <<loopDepth, loopOrSwitchDepth, breakTracker,
                     continueTracker>>
  BY DEF vars, jumps, emitted
<1>2. /\ Current' = Current /\ Bodies' = Bodies /\ Visits' = Visits
      /\ Classes' = Classes /\ \A b : Mangled(b)' = Mangled(b)
  BY <1>1, SameProgram DEF Current
<1>3. \A b, B, t : Trace(b, B, t)' <=> Trace(b, B, t)
  BY <1>1, SameProgram
<1>4. \A b, t : Complete(b, t)' <=> Complete(b, t)
  <2>1. ASSUME NEW b, NEW t PROVE Complete(b, t)' <=> Complete(b, t)
    <3>1. Trace(b, bodies[b], t)' <=> Trace(b, bodies[b], t)
      BY <1>1, <1>3 DEF Trace
    <3> QED BY <1>1, <3>1 DEF Complete, Globals
  <2> QED BY <2>1
<1>5. Analysed' <=> Analysed
  <2>1. ASSUME NEW t PROVE Trace(Current, bodies[Current], t)'
                           <=> Trace(Current, bodies[Current], t)
    BY <1>1, <1>2, <1>3 DEF Trace
  <2> QED BY <1>1, <1>2, <2>1 DEF Analysed, Globals
<1>6. Followed' <=> Followed
  BY <1>1, <1>2, <1>4 DEF Followed
<1>7. ProgramInv' /\ WorkInv' /\ LevelInv' /\ TrackInv'
  BY <1>1, <1>2 DEF IInv, ProgramInv, WorkInv, LevelInv, TrackInv, Place
<1>8. BodiesInv'
  BY <1>1, <1>2, <1>4, <1>5, <1>6 DEF IInv, BodiesInv
<1>9. EmitInv'
  BY <1>1, <1>2 DEF IInv, EmitInv, JumpsMeetTarget, Unseen
<1>10. GlobalsInv'
  BY <1>1, GlobalsKept DEF IInv, GlobalsInv
<1> QED BY <1>7, <1>8, <1>9, <1>10 DEF IInv

LEMMA NextInv == ASSUME IInv, [Next]_vars PROVE IInv'
<1>1. CASE UNCHANGED vars
  BY <1>1, StutterInv
<1>2. CASE CollectGlobals \/ SemaEnd \/ GenEnd
  BY <1>2, CollectInv, SemaEndInv, GenEndInv
<1>3. CASE /\ work # <<>>
           /\ \/ GenClass \/ GenGlobal \/ GenEnter \/ GenLeave
              \/ GenUse \/ GenDecl \/ GenIf \/ GenStray \/ GenWhile
              \/ GenSwitch \/ GenFor \/ GenForIn \/ GenCase \/ GenClose
              \/ GenJump \/ GenCallOrNew \/ GenBuiltin \/ GenField
  BY <1>3, GenActionInv
<1>4. CASE /\ work # <<>>
           /\ \/ SemaVar \/ SemaClass \/ SemaEnter \/ SemaLeave
              \/ \E n \in Uses : SemaUse(n)
              \/ \E n \in words.names : \E u \in Operand(n) : SemaDecl(n, u)
              \/ SemaIf \/ SemaStray \/ SemaWhile \/ SemaSwitch
              \/ \E n \in words.names : \E u \in Operand(n) : SemaFor(n, u)
              \/ \E n, u \in words.names : SemaForIn(n, u)
              \/ SemaCase \/ SemaClose
              \/ \E kind \in {"break", "continue"} : SemaJump(kind)
              \/ \E u \in {None} \cup Uses : SemaReturn(u)
              \/ \E call \in words.calls : SemaCall(call[1], call[2], call[3])
              \/ \E n \in words.args : SemaBuiltin(n)
              \/ \E field \in words.fields : SemaField(field[1], field[2])
  <2>1. pass = "sema"
    BY <1>4 DEF SemaVar, SemaClass, SemaEnter, SemaLeave, SemaUse, SemaDecl,
       SemaIf, SemaStray, SemaWhile, SemaSwitch, SemaOpen, SemaFor, SemaForIn,
       SemaLoop, SemaCase, SemaClose, SemaJump, SemaReturn, SemaCall,
       SemaBuiltin, SemaField, Analysing
  <2> QED BY <1>4, <2>1, SemaStepInv
<1> QED BY <1>1, <1>2, <1>3, <1>4 DEF Next

LEMMA InvOK == Spec => []IInv
<1>1. Init => IInv
  BY InitInv
<1>2. IInv /\ [Next]_vars => IInv'
  BY NextInv
<1> QED BY <1>1, <1>2, PTL DEF Spec

LEMMA DeclKinds ==
  ASSUME NEW d \in Declaration PROVE d[1] \in Decl
BY DEF Declaration, Decl

LEMMA IInvTypeOK == ASSUME IInv PROVE TypeOK
<1>1. \E p \in Programs : program = p.defs /\ left \in 0..p.items
  BY DEF IInv, ProgramInv
<1>2. at > 0 => pass = "abort" \/ at <= Len(bodies[Current]) + 1
  <2>1. SUFFICES ASSUME at > 0, pass # "abort"
                 PROVE  at <= Len(bodies[Current]) + 1
    OBVIOUS
  <2>2. at \in Nat
    BY DEF IInv, WorkInv
  <2>3. CASE pass = "sema"
    BY <2>1, <2>2, <2>3 DEF IInv, BodiesInv, Analysed
  <2>4. CASE pass # "sema"
    BY <2>1, <2>4 DEF IInv, WorkInv, BodiesInv, Followed, Passes
  <2> QED BY <2>3, <2>4
<1>3. ASSUME NEW k \in 1..Len(scopes), NEW n \in DOMAIN scopes[k]
      PROVE  scopes[k][n].decl[1] \in Decl /\ scopes[k][n].reg \in BOOLEAN
  <2>1. scopes[k] \in Scope
    BY DEF IInv, LevelInv
  <2>2. scopes[k][n] \in Entry
    BY <2>1, ScopeIs
  <2>3. /\ scopes[k][n].decl \in Declaration
        /\ scopes[k][n].reg \in BOOLEAN
    BY <2>2 DEF Entry
  <2> QED BY <2>3, DeclKinds
<1>4. /\ open \in Seq(Construct) /\ Loops \subseteq BreakKinds
      /\ Sight(open) \in SUBSET (1..Len(open))
      /\ (1..Len(open)) \in SUBSET (1..Len(open)) /\ Len(open) \in Nat
  BY DEF IInv, LevelInv, BreakKinds, Sight
<1>5. loopDepth \in 0..loopOrSwitchDepth /\ loopOrSwitchDepth <= Len(open)
  <2>1. CASE pass = "sema"
    <3> DEFINE loops == Count(open, Sight(open), Loops)
               breaks == Count(open, Sight(open), BreakKinds)
    <3>1. /\ loops \in Nat /\ breaks \in Nat /\ loops <= breaks
          /\ breaks <= Len(open)
      BY <1>4, CountType, CountMonotone
    <3>2. loopDepth = loops /\ loopOrSwitchDepth = breaks
      BY <2>1 DEF IInv, TrackInv
    <3> HIDE DEF loops, breaks
    <3> QED BY <3>1, <3>2
  <2>2. CASE pass # "sema"
    BY <1>4, <2>2 DEF IInv, TrackInv
  <2> QED BY <2>1, <2>2
<1>6. Len(continueTracker) <= Len(breakTracker)
  <2>1. CASE pass \in {"collect", "sema", "rejected"}
    <3>1. continueTracker = breakTracker /\ breakTracker = <<>>
      BY <2>1 DEF IInv, TrackInv
    <3> QED BY <3>1
  <2>2. CASE pass \in {"codegen", "done", "abort"}
    <3>1. /\ Len(continueTracker) = Count(open, 1..Len(open), Loops)
          /\ Len(breakTracker) = Count(open, 1..Len(open), BreakKinds)
      BY <2>2 DEF IInv, TrackInv, Tracks
    <3>2. Count(open, 1..Len(open), Loops)
            <= Count(open, 1..Len(open), BreakKinds)
      BY <1>4, CountMonotone
    <3> QED BY <3>1, <3>2
  <2> QED BY <2>1, <2>2 DEF IInv, WorkInv, Passes
<1> QED BY <1>1, <1>2, <1>3, <1>5, <1>6
        DEF TypeOK, IInv, WorkInv, Passes, EmitInv

LEMMA IInvScopesMatch == ASSUME IInv PROVE ScopesMatch
<1>1. Seen = Place
  <2>1. pass = "sema" => Seen = Sight(open)
    BY DEF Seen, Sight
  <2> QED BY <2>1 DEF Seen, Place
<1>2. /\ open \in Seq(Construct)
      /\ Len(scopes) = IF at > 0 THEN Size(open, Place) ELSE 1
      /\ at = 0 => open = <<>>
  BY DEF IInv, LevelInv
<1>3. {k \in Seen : Scopes(open[k].kind) = 2} = Of(open, Place, ForKinds)
  BY <1>1 DEF Of, Scopes, ForKinds
<1>4. CASE at > 0
  <2> DEFINE loops == {k \in Seen : Scopes(open[k].kind) = 2}
  <2>1. Len(scopes) = 2 + Cardinality(Seen) + Cardinality(loops)
    BY <1>1, <1>2, <1>3, <1>4 DEF Size, Count
  <2>2. ~(at = 0)
    BY <1>4
  <2> HIDE DEF loops
  <2>3. Len(scopes) = (IF at > 0 THEN 2 ELSE 1) + Cardinality(Seen)
                        + Cardinality(loops)
    BY <1>4, <2>1
  <2> QED BY <2>2, <2>3 DEF ScopesMatch, loops
<1>5. CASE at = 0
  <2>1. open = <<>> /\ Len(scopes) = 1
    BY <1>2, <1>5
  <2>2. Place = {} /\ Of(open, Place, ForKinds) = {}
    BY <2>1, SizeEmpty DEF Place, Of
  <2>3. Cardinality({}) = 0
    BY FS_EmptySet
  <2>4. loopOrSwitchDepth = 0
    BY <2>1, SizeEmpty DEF IInv, TrackInv
  <2>5. breakTracker = <<>> /\ continueTracker = <<>>
    <3>1. CASE pass \in {"codegen", "done", "abort"}
      <4>1. ASSUME NEW K, NEW t, Tracks(t, <<>>, K) PROVE t = <<>>
        <5>1. 1..Len(<<>>) = {} /\ Count(<<>>, {}, K) = 0
          BY SizeEmpty
        <5>2. t \in Seq(Nat \ {0}) /\ Len(t) = 0
          BY <4>1, <5>1 DEF Tracks
        <5> QED BY <5>2, EmptySeq
      <4> QED BY <2>1, <3>1, <4>1 DEF IInv, TrackInv
    <3>2. CASE pass \in {"collect", "sema", "rejected"}
      BY <3>2 DEF IInv, TrackInv
    <3> QED BY <3>1, <3>2 DEF IInv, WorkInv, Passes
  <2>6. Len(scopes) = 1 + Cardinality(Seen) +
          Cardinality({k \in Seen : Scopes(open[k].kind) = 2})
    BY <1>1, <1>3, <2>1, <2>2, <2>3
  <2> QED BY <1>5, <2>1, <2>4, <2>5, <2>6 DEF ScopesMatch
<1>6. at \in Nat
  BY DEF IInv, WorkInv
<1> QED BY <1>4, <1>5, <1>6

\* Each pass keeps to its types, the depths and trackers agree with each
\* other, and what is emitted is found under its own name: analyze of
\* SemanticAnalyzer and generate of CodeGen.
THEOREM TypeCorrect == Spec => []TypeOK
BY InvOK, IInvTypeOK, PTL

\* The scopes, the analyser's loopDepth and loopOrSwitchDepth and the
\* generator's trackers follow the constructs that are open, in every program
\* that the analyser accepts: nothing of a body is left behind it.
THEOREM ScopesFollow == Spec => []ScopesMatch
BY InvOK, IInvScopesMatch, PTL

\* genBreakStmt and genContinueStmt jump to the innermost loop or switch, and
\* to none only in a block the analyser does not see.
THEOREM JumpsReach == Spec => []JumpsMeetTarget
<1>1. IInv => JumpsMeetTarget
  BY DEF IInv, EmitInv
<1> QED BY <1>1, InvOK, PTL
-----------------------------------------------------------------------------
(***************************************************************************)
(* Names.  The generator's scopes hold what the analyser's held, with the  *)
(* same declarations; beside that, the first scope of a method holds the   *)
(* fields it inherits.  c is the class of the method.                      *)
(***************************************************************************)
Shared(f, h) == \A n \in DOMAIN h : n \in DOMAIN f /\ f[n].decl = h[n].decl
Inherited(f, h, c) ==
  \A n \in DOMAIN f : n \in DOMAIN h \/ (f[n].decl[1] = "field"
                                         /\ f[n].decl[3] # c)
Alike(f, h) == Shared(f, h) /\ \A n \in DOMAIN f : n \in DOMAIN h
Corr(s, g, c) ==
  /\ Globals(g[1], DOMAIN s[1])
  /\ Len(g) <= Len(s)
  /\ Shared(s[2], g[2]) /\ Inherited(s[2], g[2], c)
  /\ \A k \in 3..Len(g) : Alike(s[k], g[k])

\* Whatever is in a scope of a body has its register.
Registered(s) == \A k \in 2..Len(s) : \A n \in DOMAIN s[k] : s[k][n].reg

LEMMA CorrOver ==
  ASSUME NEW s \in Seq(Scope), NEW t \in Seq(Scope), NEW g \in Seq(Scope),
         NEW c, Corr(s, g, c), Len(g) >= 2, Len(g) <= Len(t),
         \A k \in 1..Len(g) : t[k] = s[k]
  PROVE  Corr(t, g, c)
<1>1. 1 \in 1..Len(g) /\ 2 \in 1..Len(g)
      /\ \A k \in 3..Len(g) : k \in 1..Len(g)
  OBVIOUS
<1> QED BY <1>1 DEF Corr

LEMMA CorrPush ==
  ASSUME NEW s \in Seq(Scope), NEW g \in Seq(Scope), NEW c, Corr(s, g, c),
         Len(g) >= 2, Len(s) = Len(g)
  PROVE  Corr(PushScope(s), PushScope(g), c)
<1> DEFINE t == PushScope(s)
           h == PushScope(g)
           l == Len(g)
<1>1. /\ l \in Nat /\ Len(t) = l + 1 /\ Len(h) = l + 1
      /\ t[l + 1] = <<>> /\ h[l + 1] = <<>>
      /\ \A k \in 1..l : t[k] = s[k] /\ h[k] = g[k]
  BY PushIs
<1> HIDE DEF t, h
<1>2. 1 \in 1..l /\ 2 \in 1..l
      /\ \A k \in 3..(l + 1) : (k \in 3..l /\ k \in 1..l) \/ k = l + 1
  BY <1>1
<1>3. Alike(<<>>, <<>>)
  BY EmptyScope DEF Alike, Shared
<1>4. \A k \in 3..(l + 1) : Alike(t[k], h[k])
  BY <1>1, <1>2, <1>3 DEF Corr
<1>5. Corr(t, h, c)
  BY <1>1, <1>2, <1>4 DEF Corr
<1> QED BY <1>5 DEF t, h

LEMMA CorrDrop ==
  ASSUME NEW s \in Seq(Scope), NEW g \in Seq(Scope), NEW c, Corr(s, g, c),
         Len(s) = Len(g), NEW n \in Nat, n + 2 <= Len(g)
  PROVE  Corr(Drop(s, n), Drop(g, n), c)
<1> DEFINE t == Drop(s, n)
           h == Drop(g, n)
           l == Len(g) - n
<1>1. /\ l \in Nat /\ l >= 2 /\ Len(t) = l /\ Len(h) = l
      /\ \A k \in 1..l : t[k] = s[k] /\ h[k] = g[k]
  <2>1. l \in Nat /\ l >= 2 /\ n <= Len(g)
    OBVIOUS
  <2>2. LET u == Drop(s, n)
        IN  Len(u) = Len(s) - n /\ \A k \in 1..(Len(s) - n) : u[k] = s[k]
    BY <2>1, DropIs
  <2>3. LET u == Drop(g, n)
        IN  Len(u) = Len(g) - n /\ \A k \in 1..(Len(g) - n) : u[k] = g[k]
    BY <2>1, DropIs
  <2> QED BY <2>1, <2>2, <2>3
<1> HIDE DEF t, h
<1>2. 1 \in 1..l /\ 2 \in 1..l
      /\ \A k \in 3..l : k \in 3..Len(g) /\ k \in 1..l
  BY <1>1
<1> HIDE DEF l
<1>3. Corr(t, h, c)
  BY <1>1, <1>2 DEF Corr
<1> QED BY <1>3 DEF t, h

LEMMA CorrAdd ==
  ASSUME NEW s \in Seq(Scope), NEW g \in Seq(Scope), NEW c, Corr(s, g, c),
         Len(s) = Len(g), Len(g) >= 2, NEW n \in Name,
         NEW d \in Declaration, NEW a \in BOOLEAN, NEW b \in BOOLEAN
  PROVE  Corr(Add(s, n, d, a), Add(g, n, d, b), c)
<1> DEFINE t == Add(s, n, d, a)
           h == Add(g, n, d, b)
           l == Len(g)
<1>1. l \in Nat /\ s # <<>> /\ g # <<>>
  BY Below
<1>2. /\ Len(t) = l
      /\ \A k \in 1..l : k # l => t[k] = s[k]
      /\ DOMAIN t[l] = DOMAIN s[l] \cup {n}
      /\ t[l][n] = [decl |-> d, reg |-> a]
      /\ \A m \in DOMAIN s[l] : m # n => t[l][m] = s[l][m]
  <2>1. LET u == Add(s, n, d, a)
        IN  /\ Len(u) = Len(s)
            /\ \A k \in 1..Len(s) : k # Len(s) => u[k] = s[k]
            /\ DOMAIN u[Len(s)] = DOMAIN s[Len(s)] \cup {n}
            /\ u[Len(s)][n] = [decl |-> d, reg |-> a]
            /\ \A m \in DOMAIN s[Len(s)] :
                 m # n => u[Len(s)][m] = s[Len(s)][m]
    BY <1>1, AddIs
  <2> QED BY <2>1
<1>3. /\ Len(h) = l
      /\ \A k \in 1..l : k # l => h[k] = g[k]
      /\ DOMAIN h[l] = DOMAIN g[l] \cup {n}
      /\ h[l][n] = [decl |-> d, reg |-> b]
      /\ \A m \in DOMAIN g[l] : m # n => h[l][m] = g[l][m]
  <2>1. LET u == Add(g, n, d, b)
        IN  /\ Len(u) = Len(g)
            /\ \A k \in 1..Len(g) : k # Len(g) => u[k] = g[k]
            /\ DOMAIN u[Len(g)] = DOMAIN g[Len(g)] \cup {n}
            /\ u[Len(g)][n] = [decl |-> d, reg |-> b]
            /\ \A m \in DOMAIN g[Len(g)] :
                 m # n => u[Len(g)][m] = g[Len(g)][m]
    BY <1>1, AddIs
  <2> QED BY <2>1
<1> HIDE DEF t, h
<1>4. t[l][n].decl = d /\ h[l][n].decl = d
  BY <1>2, <1>3
<1>5. Shared(s[l], g[l]) => Shared(t[l], h[l])
  BY <1>2, <1>3, <1>4 DEF Shared
<1>6. Inherited(s[l], g[l], c) => Inherited(t[l], h[l], c)
  BY <1>2, <1>3 DEF Inherited
<1>7. Alike(s[l], g[l]) => Alike(t[l], h[l])
  BY <1>2, <1>3, <1>5 DEF Alike
<1>8. t[1] = s[1] /\ h[1] = g[1]
  BY <1>1, <1>2, <1>3
<1>9. Shared(t[2], h[2]) /\ Inherited(t[2], h[2], c)
  <2>1. l # 2 => t[2] = s[2] /\ h[2] = g[2]
    BY <1>1, <1>2, <1>3
  <2> QED BY <1>5, <1>6, <2>1 DEF Corr
<1>10. ASSUME NEW k \in 3..l PROVE Alike(t[k], h[k])
  <2>1. k # l => t[k] = s[k] /\ h[k] = g[k]
    BY <1>1, <1>2, <1>3
  <2> QED BY <1>7, <2>1 DEF Corr
<1>11. Corr(t, h, c)
  BY <1>1, <1>2, <1>3, <1>8, <1>9, <1>10 DEF Corr
<1> QED BY <1>11 DEF t, h

\* The innermost scope with a name is where it is found.
LEMMA FoundAt ==
  ASSUME NEW s \in Seq(Scope), NEW n, NEW k \in 1..Len(s),
         n \in DOMAIN s[k], \A i \in (k+1)..Len(s) : n \notin DOMAIN s[i]
  PROVE  Exists(s, n) /\ Found(s, n) = k /\ Get(s, n) = s[k][n]
<1>1. Exists(s, n)
  BY DEF Exists
<1> DEFINE f == Found(s, n)
<1>2. /\ f \in 1..Len(s) /\ n \in DOMAIN s[f] /\ Get(s, n) = s[f][n]
      /\ \A i \in 1..Len(s) : n \in DOMAIN s[i] => i <= f
  BY <1>1, GetIs
<1> HIDE DEF f
<1>3. f = k
  BY <1>2
<1> QED BY <1>1, <1>2, <1>3 DEF f

LEMMA GetPush ==
  ASSUME NEW s \in Seq(Scope), NEW n
  PROVE  /\ Exists(PushScope(s), n) <=> Exists(s, n)
         /\ Exists(s, n) => Get(PushScope(s), n) = Get(s, n)
<1> DEFINE t == PushScope(s)
<1>1. /\ Len(s) \in Nat /\ Len(t) = Len(s) + 1 /\ t[Len(s) + 1] = <<>>
      /\ t \in Seq(Scope) /\ \A k \in 1..Len(s) : t[k] = s[k]
  BY PushIs
<1> HIDE DEF t
<1>2. n \notin DOMAIN t[Len(s) + 1]
  BY <1>1, EmptyScope
<1>3. ASSUME Exists(s, n) PROVE Exists(t, n) /\ Get(t, n) = Get(s, n)
  <2> DEFINE k == Found(s, n)
  <2>1. /\ k \in 1..Len(s) /\ n \in DOMAIN s[k] /\ Get(s, n) = s[k][n]
        /\ \A i \in 1..Len(s) : n \in DOMAIN s[i] => i <= k
    BY <1>3, GetIs
  <2> HIDE DEF k
  <2>2. k \in 1..Len(t) /\ n \in DOMAIN t[k]
    BY <1>1, <2>1
  <2>3. ASSUME NEW i \in (k+1)..Len(t) PROVE n \notin DOMAIN t[i]
    <3>1. i = Len(s) + 1 \/ (i \in 1..Len(s) /\ ~(i <= k))
      BY <1>1, <2>1
    <3> QED BY <1>1, <1>2, <2>1, <3>1
  <2> QED BY <1>1, <2>1, <2>2, <2>3, FoundAt
<1>4. Exists(t, n) => Exists(s, n)
  <2>1. \A k \in 1..Len(t) : k \in 1..Len(s) \/ k = Len(s) + 1
    BY <1>1
  <2> QED BY <1>1, <1>2, <2>1 DEF Exists
<1> QED BY <1>3, <1>4 DEF t

LEMMA GetAdd ==
  ASSUME NEW s \in Seq(Scope), s # <<>>, NEW m \in Name,
         NEW d \in Declaration, NEW n
  PROVE  LET t == Add(s, m, d, TRUE)
         IN  /\ n = m => /\ Exists(t, n) /\ Get(t, n).decl = d
             /\ n # m => /\ Exists(t, n) <=> Exists(s, n)
                         /\ Exists(s, n) => Get(t, n) = Get(s, n)
<1> DEFINE t == Add(s, m, d, TRUE)
           l == Len(s)
<1>1. l \in Nat /\ l # 0
  BY EmptySeq
<1>2. /\ t \in Seq(Scope) /\ Len(t) = l
      /\ \A k \in 1..l : k # l => t[k] = s[k]
      /\ DOMAIN t[l] = DOMAIN s[l] \cup {m}
      /\ t[l][m] = [decl |-> d, reg |-> TRUE]
      /\ \A i \in DOMAIN s[l] : i # m => t[l][i] = s[l][i]
  <2>1. LET u == Add(s, m, d, TRUE)
        IN  /\ u \in Seq(Scope) /\ Len(u) = Len(s)
            /\ \A k \in 1..Len(s) : k # Len(s) => u[k] = s[k]
            /\ DOMAIN u[Len(s)] = DOMAIN s[Len(s)] \cup {m}
            /\ u[Len(s)][m] = [decl |-> d, reg |-> TRUE]
            /\ \A i \in DOMAIN s[Len(s)] :
                 i # m => u[Len(s)][i] = s[Len(s)][i]
    BY AddIs, ZenonT(40)
  <2> QED BY <2>1
<1> HIDE DEF t
<1>3. CASE n = m
  <2>1. l \in 1..Len(t) /\ n \in DOMAIN t[l]
        /\ \A i \in (l+1)..Len(t) : n \notin DOMAIN t[i]
    BY <1>1, <1>2, <1>3
  <2>2. Exists(t, n) /\ Get(t, n) = t[l][n]
    BY <1>2, <2>1, FoundAt
  <2>3. t[l][n].decl = d
    BY <1>2, <1>3
  <2>4. Exists(t, n) /\ Get(t, n).decl = d
    BY <2>2, <2>3
  <2> QED BY <1>3, <2>4 DEF t
<1>4. CASE n # m
  <2>1. \A k \in 1..l : n \in DOMAIN t[k] <=> n \in DOMAIN s[k]
    BY <1>2, <1>4
  <2>2. \A k \in 1..l : n \in DOMAIN s[k] => t[k][n] = s[k][n]
    BY <1>2, <1>4
  <2>3. Exists(t, n) <=> Exists(s, n)
    BY <1>2, <2>1 DEF Exists
  <2>4. ASSUME Exists(s, n) PROVE Get(t, n) = Get(s, n)
    <3> DEFINE k == Found(s, n)
    <3>1. /\ k \in 1..Len(s) /\ n \in DOMAIN s[k] /\ Get(s, n) = s[k][n]
          /\ \A i \in 1..Len(s) : n \in DOMAIN s[i] => i <= k
      BY <2>4, GetIs
    <3> HIDE DEF k
    <3>2. /\ k \in 1..Len(t) /\ n \in DOMAIN t[k] /\ t[k][n] = s[k][n]
          /\ \A i \in (k+1)..Len(t) : n \notin DOMAIN t[i]
      BY <1>1, <1>2, <2>1, <2>2, <3>1
    <3>3. Get(t, n) = t[k][n]
      BY <1>2, <3>2, FoundAt
    <3> QED BY <3>1, <3>2, <3>3
  <2> QED BY <1>4, <2>3, <2>4 DEF t
<1> QED BY <1>3, <1>4

\* The generator finds what the analyser found, or an inherited field.
LEMMA CorrGet ==
  ASSUME NEW s \in Seq(Scope), NEW g \in Seq(Scope), NEW c, Corr(s, g, c),
         Len(s) = Len(g), Len(g) >= 2, NEW n, Exists(g, n),
         Globals(s[1], DOMAIN s[1])
  PROVE  /\ Exists(s, n)
         /\ \/ Get(s, n).decl = Get(g, n).decl
            \/ Get(s, n).decl[1] = "field" /\ Get(s, n).decl[3] # c
<1> DEFINE j == Found(g, n)
           k == Found(s, n)
           l == Len(g)
<1>1. /\ j \in 1..l /\ n \in DOMAIN g[j] /\ Get(g, n) = g[j][n]
      /\ \A i \in 1..l : n \in DOMAIN g[i] => i <= j
  BY GetIs
<1>2. l \in Nat /\ 1 \in 1..l /\ 2 \in 1..l
      /\ \A i \in 1..l : i \in {1, 2} \/ i \in 3..l
  OBVIOUS
<1> HIDE DEF j, l
<1>3. n \in DOMAIN s[j] /\ s[j][n].decl = g[j][n].decl
  BY <1>1, <1>2 DEF Corr, Globals, Shared, Alike, l
<1>4. Exists(s, n)
  BY <1>1, <1>3 DEF Exists, l
<1>5. /\ k \in 1..l /\ n \in DOMAIN s[k] /\ Get(s, n) = s[k][n]
      /\ \A i \in 1..l : n \in DOMAIN s[i] => i <= k
  BY <1>4, GetIs DEF l
<1> HIDE DEF k
<1>6. j <= k
  BY <1>1, <1>3, <1>5
<1>7. CASE k = j
  BY <1>1, <1>3, <1>4, <1>5, <1>7
<1>8. CASE k # j
  <2>1. k \in 2..l /\ n \notin DOMAIN g[k]
    BY <1>1, <1>2, <1>5, <1>6, <1>8
  <2>2. k = 2
    BY <1>2, <1>5, <2>1 DEF Corr, Alike, l
  <2>3. s[k][n].decl[1] = "field" /\ s[k][n].decl[3] # c
    BY <1>5, <2>1, <2>2 DEF Corr, Inherited
  <2> QED BY <1>4, <1>5, <2>3
<1> QED BY <1>7, <1>8
-----------------------------------------------------------------------------
(***************************************************************************)
(* The variables of the loops that are open, and the registers.            *)
(***************************************************************************)
LEMMA SizeSubset ==
  ASSUME NEW o \in Seq(Construct), NEW T \in SUBSET (1..Len(o)),
         NEW S \in SUBSET T
  PROVE  /\ Size(o, S) \in Nat /\ Size(o, S) <= Size(o, T)
         /\ S # T => Size(o, S) < Size(o, T)
<1>1. /\ S \in SUBSET (1..Len(o))
      /\ Of(o, S, ForKinds) \subseteq Of(o, T, ForKinds)
  BY DEF Of
<1>2. /\ IsFiniteSet(T) /\ Cardinality(T) \in Nat /\ Cardinality(S) \in Nat
      /\ IsFiniteSet(Of(o, T, ForKinds))
      /\ Count(o, T, ForKinds) \in Nat /\ Count(o, S, ForKinds) \in Nat
  BY <1>1, CountType
<1>3. Count(o, S, ForKinds) <= Count(o, T, ForKinds)
  BY <1>1, <1>2, FS_Subset DEF Count
<1>4. /\ Cardinality(S) <= Cardinality(T)
      /\ Cardinality(T) = Cardinality(S) => T = S
  BY <1>2, FS_Subset
<1> QED BY <1>2, <1>3, <1>4 DEF Size

LEMMA SizeUpTo ==
  ASSUME NEW o \in Seq(Construct), NEW k \in 1..Len(o)
  PROVE  /\ Size(o, 1..k) \in Nat /\ Size(o, 1..k) <= Size(o, 1..Len(o))
         /\ Size(o, 1..k) >= 3
         /\ Size(o, 1..Len(o)) \in Nat
<1>1. /\ (1..Len(o)) \in SUBSET (1..Len(o)) /\ (1..k) \in SUBSET (1..Len(o))
      /\ {} \in SUBSET (1..k) /\ {} # 1..k
  <2>1. Len(o) \in Nat /\ k \in 1..k
    OBVIOUS
  <2>2. \A i \in 1..k : i \in 1..Len(o)
    BY <2>1
  <2> QED BY <2>1, <2>2
<1>2. /\ Size(o, 1..Len(o)) \in Nat /\ Size(o, 1..k) \in Nat
      /\ Size(o, 1..k) <= Size(o, 1..Len(o)) /\ Size(o, {}) < Size(o, 1..k)
  BY <1>1, SizeSubset
<1>3. Size(o, {}) = 2
  <2>1. Of(o, {}, ForKinds) = {}
    BY DEF Of
  <2>2. Cardinality({}) = 0
    BY FS_EmptySet
  <2>3. Count(o, {}, ForKinds) = 0
    BY <2>1, <2>2 DEF Count
  <2> QED BY <2>2, <2>3 DEF Size
<1> QED BY <1>2, <1>3

LEMMA SizeSame ==
  ASSUME NEW o \in Seq(Construct), NEW c \in Construct, NEW k \in 1..Len(o)
  PROVE  Size(Append(o, c), 1..k) = Size(o, 1..k)
BY CountSame DEF Size

\* In a stray block the generator has more scopes than the analyser.
LEMMA SizeStrayed ==
  ASSUME NEW o \in Seq(Construct)
  PROVE  /\ Size(o, Sight(o)) <= Size(o, 1..Len(o))
         /\ Strayed(o) => Size(o, Sight(o)) < Size(o, 1..Len(o))
         /\ ~Strayed(o) => Size(o, Sight(o)) = Size(o, 1..Len(o))
<1>1. (1..Len(o)) \in SUBSET (1..Len(o)) /\ Sight(o) \in SUBSET (1..Len(o))
  BY DEF Sight
<1>2. Strayed(o) => Sight(o) # 1..Len(o)
  BY DEF Sight, Strayed
<1>3. ~Strayed(o) => Sight(o) = 1..Len(o)
  BY DEF Sight, Strayed
<1> QED BY <1>1, <1>2, <1>3, SizeSubset

VarAt(s, j, i, n) == n \in DOMAIN s[j] /\ s[j][n].decl = <<"local", i, 0>>
LoopVars(o, s, B) ==
  \A k \in 1..Len(o) : o[k].kind \in ForKinds =>
    VarAt(s, Size(o, 1..k) - 1, o[k].pos, B[o[k].pos].name)

LEMMA VarsKept ==
  ASSUME NEW o \in Seq(Construct), NEW s, NEW t, NEW B, LoopVars(o, s, B),
         \A j \in 1..(Size(o, 1..Len(o)) - 1) : t[j] = s[j]
  PROVE  LoopVars(o, t, B)
<1>1. ASSUME NEW k \in 1..Len(o)
      PROVE  t[Size(o, 1..k) - 1] = s[Size(o, 1..k) - 1]
  <2>1. Size(o, 1..k) - 1 \in 1..(Size(o, 1..Len(o)) - 1)
    BY SizeUpTo
  <2> QED BY <2>1
<1> QED BY <1>1 DEF LoopVars, VarAt

LEMMA VarsAppend ==
  ASSUME NEW o \in Seq(Construct), NEW c \in Construct, NEW s, NEW B,
         LoopVars(o, s, B),
         c.kind \in ForKinds =>
           VarAt(s, Size(o, 1..Len(o)) + 1, c.pos, B[c.pos].name)
  PROVE  LoopVars(Append(o, c), s, B)
<1> DEFINE p == Append(o, c)
<1>1. /\ Len(o) \in Nat /\ Len(p) = Len(o) + 1 /\ p[Len(o) + 1] = c
      /\ \A k \in 1..Len(o) : p[k] = o[k]
      /\ \A k \in 1..Len(p) : k \in 1..Len(o) \/ k = Len(o) + 1
  OBVIOUS
<1>2. \A k \in 1..Len(o) : Size(p, 1..k) = Size(o, 1..k)
  BY SizeSame
<1>3. c.kind \in ForKinds =>
        Size(p, 1..Len(p)) - 1 = Size(o, 1..Len(o)) + 1
  <2>1. LET q == Append(o, c)
        IN  /\ Size(q, 1..Len(q)) = Size(o, 1..Len(o)) + Scopes(c.kind)
            /\ Size(o, 1..Len(o)) \in Nat
    BY SizeAppend
  <2>2. c.kind \in ForKinds => Scopes(c.kind) = 2
    BY DEF ForKinds, Scopes
  <2> QED BY <2>1, <2>2
<1> HIDE DEF p
<1>4. LoopVars(p, s, B)
  BY <1>1, <1>2, <1>3 DEF LoopVars
<1> QED BY <1>4 DEF p

LEMMA VarsFront ==
  ASSUME NEW o \in Seq(Construct), o # <<>>, NEW s, NEW B, LoopVars(o, s, B)
  PROVE  LoopVars(Front(o), s, B)
<1> DEFINE f == Front(o)
           c == Last(o)
<1>1. /\ f \in Seq(Construct) /\ c \in Construct /\ o = Append(f, c)
      /\ Len(f) \in Nat /\ Len(o) = Len(f) + 1
      /\ \A k \in 1..Len(f) : f[k] = o[k]
  BY FrontLast
<1> HIDE DEF f, c
<1>2. \A k \in 1..Len(f) : Size(o, 1..k) = Size(f, 1..k) /\ k \in 1..Len(o)
  BY <1>1, SizeSame
<1>3. LoopVars(f, s, B)
  BY <1>1, <1>2 DEF LoopVars
<1> QED BY <1>3 DEF f

LEMMA RegisteredPush ==
  ASSUME NEW s \in Seq(Scope), Registered(s)
  PROVE  Registered(PushScope(s))
<1> DEFINE t == PushScope(s)
<1>1. /\ Len(s) \in Nat /\ Len(t) = Len(s) + 1 /\ t[Len(s) + 1] = <<>>
      /\ \A k \in 1..Len(s) : t[k] = s[k]
  BY PushIs
<1> HIDE DEF t
<1>2. \A k \in 2..Len(t) :
        (k \in 2..Len(s) /\ k \in 1..Len(s)) \/ k = Len(s) + 1
  BY <1>1
<1>3. Registered(t)
  BY <1>1, <1>2, EmptyScope DEF Registered
<1> QED BY <1>3 DEF t

LEMMA RegisteredDrop ==
  ASSUME NEW s \in Seq(Scope), Registered(s), NEW n \in Nat, n <= Len(s)
  PROVE  Registered(Drop(s, n))
<1> DEFINE t == Drop(s, n)
<1>1. /\ Len(s) \in Nat /\ Len(t) = Len(s) - n
      /\ \A k \in 1..(Len(s) - n) : t[k] = s[k]
  BY DropIs
<1> HIDE DEF t
<1>2. \A k \in 2..Len(t) : k \in 2..Len(s) /\ k \in 1..(Len(s) - n)
  BY <1>1
<1>3. Registered(t)
  BY <1>1, <1>2 DEF Registered
<1> QED BY <1>3 DEF t

LEMMA RegisteredAdd ==
  ASSUME NEW s \in Seq(Scope), s # <<>>, Registered(s), NEW n \in Name,
         NEW d \in Declaration
  PROVE  Registered(Add(s, n, d, TRUE))
<1> DEFINE t == Add(s, n, d, TRUE)
<1>1. /\ Len(t) = Len(s)
      /\ \A k \in 1..Len(s) : k # Len(s) => t[k] = s[k]
      /\ DOMAIN t[Len(s)] = DOMAIN s[Len(s)] \cup {n}
      /\ t[Len(s)][n] = [decl |-> d, reg |-> TRUE]
      /\ \A m \in DOMAIN s[Len(s)] : m # n => t[Len(s)][m] = s[Len(s)][m]
  BY AddIs, ZenonT(40)
<1> HIDE DEF t
<1>2. \A k \in 2..Len(s) : k \in 1..Len(s)
  OBVIOUS
<1>3. ASSUME NEW k \in 2..Len(t), NEW m \in DOMAIN t[k] PROVE t[k][m].reg
  <2>1. CASE k # Len(s)
    BY <1>1, <1>2, <1>3, <2>1 DEF Registered
  <2>2. CASE k = Len(s)
    <3>1. CASE m = n
      BY <1>1, <2>2, <3>1
    <3>2. CASE m # n
      BY <1>1, <1>3, <2>2, <3>2 DEF Registered
    <3> QED BY <3>1, <3>2
  <2> QED BY <2>1, <2>2
<1>4. Registered(t)
  BY <1>3 DEF Registered
<1> QED BY <1>4 DEF t

LEMMA PopDrop ==
  ASSUME NEW s \in Seq(Scope)
  PROVE  PopScope(s) = Drop(s, 1)
BY DEF PopScope, Front, Drop

\* What the generator makes of its scopes s at a statement.
Registering(s, n, i) == Add(s, n, <<"local", i, 0>>, TRUE)
Grown(i, item, o, s) ==
  IF item.op = "decl" THEN Registering(s, item.name, i)
  ELSE IF item.op \in {"if", "stray", "while", "switch"} THEN PushScope(s)
  ELSE IF item.op \in ForKinds
       THEN PushScope(Registering(PushScope(s), item.name, i))
  ELSE IF item.op = "case" THEN PushScope(PopScope(s))
  ELSE IF item.op = "close" THEN Drop(s, Scopes(Last(o).kind))
  ELSE s

LEMMA RegisteringIs ==
  ASSUME NEW s \in Seq(Scope), s # <<>>, NEW n \in Name, NEW i \in Nat
  PROVE  LET t == Registering(s, n, i)
         IN  /\ t \in Seq(Scope) /\ Len(t) = Len(s) /\ t # <<>>
             /\ \A k \in 1..Len(s) : k # Len(s) => t[k] = s[k]
             /\ VarAt(t, Len(s), i, n)
             /\ Registered(s) => Registered(t)
<1> DEFINE d == <<"local", i, 0>>
<1>1. d \in Declaration
  BY LocalDeclared DEF LocalIs
<1> HIDE DEF d
<1>2. Registering(s, n, i) = Add(s, n, d, TRUE)
  BY DEF Registering, d
<1>3. LET t == Add(s, n, d, TRUE)
      IN  /\ t \in Seq(Scope) /\ Len(t) = Len(s) /\ t # <<>>
          /\ \A k \in 1..Len(s) : k # Len(s) => t[k] = s[k]
          /\ DOMAIN t[Len(s)] = DOMAIN s[Len(s)] \cup {n}
          /\ t[Len(s)][n] = [decl |-> d, reg |-> TRUE]
  BY <1>1, AddIs, ZenonT(40)
<1>4. Registered(s) => Registered(Add(s, n, d, TRUE))
  BY <1>1, RegisteredAdd
<1> DEFINE t == Add(s, n, d, TRUE)
<1>7. /\ DOMAIN t[Len(s)] = DOMAIN s[Len(s)] \cup {n}
      /\ t[Len(s)][n] = [decl |-> d, reg |-> TRUE]
  BY <1>3
<1> HIDE DEF t
<1>5. n \in DOMAIN t[Len(s)] /\ t[Len(s)][n].decl = d
  BY <1>7
<1>6. VarAt(t, Len(s), i, n)
  BY <1>5 DEF VarAt, d
<1> QED BY <1>2, <1>3, <1>4, <1>6 DEF t

LEMMA GetRegistering ==
  ASSUME NEW s \in Seq(Scope), s # <<>>, NEW m \in Name, NEW i \in Nat, NEW n
  PROVE  /\ n = m => /\ Exists(Registering(s, m, i), n)
                     /\ Get(Registering(s, m, i), n).decl = <<"local", i, 0>>
         /\ n # m => /\ Exists(Registering(s, m, i), n) <=> Exists(s, n)
                     /\ Exists(s, n) =>
                          Get(Registering(s, m, i), n) = Get(s, n)
<1> DEFINE d == <<"local", i, 0>>
<1>1. d \in Declaration
  BY LocalDeclared DEF LocalIs
<1> HIDE DEF d
<1>2. LET t == Add(s, m, d, TRUE)
      IN  /\ n = m => /\ Exists(t, n) /\ Get(t, n).decl = d
          /\ n # m => /\ Exists(t, n) <=> Exists(s, n)
                      /\ Exists(s, n) => Get(t, n) = Get(s, n)
  BY <1>1, GetAdd
<1>3. Registering(s, m, i) = Add(s, m, d, TRUE)
  BY DEF Registering, d
<1> QED BY <1>2, <1>3 DEF d

\* How far a construct that ends takes the scopes back.
LEMMA Closing ==
  ASSUME NEW o \in Seq(Construct), o # <<>>, NEW s \in Seq(Scope),
         Len(s) = Size(o, 1..Len(o))
  PROVE  LET n == Scopes(Last(o).kind)
         IN  n \in {1, 2} /\ n + 2 <= Len(s) /\ Len(s) \in Nat
<1>1. /\ Front(o) \in Seq(Construct) /\ Last(o) \in Construct
      /\ o = Append(Front(o), Last(o))
  BY FrontLast
<1> DEFINE f == Front(o)
           c == Last(o)
<1> HIDE DEF f, c
<1>2. LET p == Append(f, c)
      IN  /\ Size(p, 1..Len(p)) = Size(f, 1..Len(f)) + Scopes(c.kind)
          /\ Size(f, 1..Len(f)) \in Nat /\ Size(f, 1..Len(f)) >= 2
          /\ Scopes(c.kind) \in {1, 2}
  BY <1>1, SizeAppend DEF f, c
<1>3. o = Append(f, c)
  BY <1>1 DEF f, c
<1>4. /\ Len(s) = Size(f, 1..Len(f)) + Scopes(c.kind)
      /\ Size(f, 1..Len(f)) \in Nat /\ Size(f, 1..Len(f)) >= 2
      /\ Scopes(c.kind) \in {1, 2}
  BY <1>2, <1>3
<1>5. LET n == Scopes(c.kind)
      IN  n \in {1, 2} /\ n + 2 <= Len(s) /\ Len(s) \in Nat
  BY <1>4
<1> QED BY <1>5 DEF c

LEMMA GrownIs ==
  ASSUME NEW i \in Nat \ {0}, NEW item, NEW o \in Seq(Construct),
         NEW s \in Seq(Scope), Len(s) = Size(o, 1..Len(o)), Len(s) >= 2,
         item.op \in Naming => item.name \in Name,
         item.op \in {"close", "case"} => o # <<>>
  PROVE  LET t == Grown(i, item, o, s)
         IN  /\ \A k \in 1..Len(t) : k < Len(s) => t[k] = s[k]
             /\ item.op \in ForKinds => VarAt(t, Len(s) + 1, i, item.name)
             /\ Registered(s) => Registered(t)
<1> DEFINE t == Grown(i, item, o, s)
           l == Len(s)
<1>1. l \in Nat /\ s # <<>>
  BY Below
<1>2. CASE item.op = "decl"
  <2>1. t = Registering(s, item.name, i) /\ item.name \in Name
    BY <1>2 DEF Grown, Naming
  <2>2. LET u == Registering(s, item.name, i)
        IN  /\ Len(u) = Len(s)
            /\ \A k \in 1..Len(s) : k # Len(s) => u[k] = s[k]
            /\ Registered(s) => Registered(u)
    BY <1>1, <2>1, RegisteringIs
  <2> QED BY <1>1, <1>2, <2>1, <2>2 DEF ForKinds
<1>3. CASE item.op \in {"if", "stray", "while", "switch"}
  <2>1. t = PushScope(s)
    BY <1>3 DEF Grown
  <2>2. LET u == PushScope(s)
        IN  /\ Len(u) = Len(s) + 1 /\ \A k \in 1..Len(s) : u[k] = s[k]
            /\ Registered(s) => Registered(u)
    BY PushIs, RegisteredPush
  <2> QED BY <1>1, <1>3, <2>1, <2>2 DEF ForKinds
<1>4. CASE item.op \in ForKinds
  <2> DEFINE a == PushScope(s)
             b == Registering(a, item.name, i)
  <2>1. t = PushScope(b) /\ item.name \in Name
    BY <1>4 DEF Grown, Naming, ForKinds
  <2>2. /\ a \in Seq(Scope) /\ Len(a) = l + 1 /\ a # <<>>
        /\ \A k \in 1..l : a[k] = s[k]
        /\ Registered(s) => Registered(a)
    BY PushIs, RegisteredPush
  <2> HIDE DEF a, l
  <2>3. LET u == Registering(a, item.name, i)
        IN  /\ u \in Seq(Scope) /\ Len(u) = Len(a)
            /\ \A k \in 1..Len(a) : k # Len(a) => u[k] = a[k]
            /\ VarAt(u, Len(a), i, item.name)
            /\ Registered(a) => Registered(u)
    BY <2>1, <2>2, RegisteringIs
  <2>4. /\ b \in Seq(Scope) /\ Len(b) = l + 1
        /\ \A k \in 1..l : b[k] = s[k]
        /\ VarAt(b, l + 1, i, item.name)
        /\ Registered(s) => Registered(b)
    BY <1>1, <2>2, <2>3
  <2> HIDE DEF b
  <2>5. LET u == PushScope(b)
        IN  /\ Len(u) = Len(b) + 1 /\ \A k \in 1..Len(b) : u[k] = b[k]
            /\ Registered(b) => Registered(u)
    BY <2>4, PushIs, RegisteredPush
  <2>6. /\ Len(t) = l + 2 /\ \A k \in 1..(l + 1) : t[k] = b[k]
        /\ Registered(s) => Registered(t)
    BY <1>1, <2>1, <2>4, <2>5
  <2> HIDE DEF t
  <2>7. VarAt(t, l + 1, i, item.name)
    BY <1>1, <2>4, <2>6 DEF VarAt
  <2> QED BY <1>1, <2>4, <2>6, <2>7 DEF l, t
<1>5. CASE item.op = "case"
  <2> DEFINE a == PopScope(s)
  <2>1. t = PushScope(a)
    BY <1>5, KindsAre DEF Grown
  <2>2. /\ a \in Seq(Scope) /\ Len(a) = l - 1
        /\ \A k \in 1..(l - 1) : a[k] = s[k]
    BY <1>1, PopIs
  <2>3. Registered(s) => Registered(a)
    BY <1>1, PopDrop, RegisteredDrop
  <2> HIDE DEF a
  <2>4. LET u == PushScope(a)
        IN  /\ Len(u) = Len(a) + 1 /\ \A k \in 1..Len(a) : u[k] = a[k]
            /\ Registered(a) => Registered(u)
    BY <2>2, PushIs, RegisteredPush
  <2> QED BY <1>1, <1>5, <2>1, <2>2, <2>3, <2>4, KindsAre, SMTT(20)
<1>6. CASE item.op = "close"
  <2> DEFINE n == Scopes(Last(o).kind)
  <2>1. t = Drop(s, n)
    BY <1>6, KindsAre DEF Grown
  <2>2. n \in {1, 2} /\ n + 2 <= l
    BY <1>6, Closing
  <2> HIDE DEF n
  <2>4. n \in Nat /\ n <= Len(s)
    BY <1>1, <2>2
  <2>5. LET u == Drop(s, n)
        IN  /\ Len(u) = Len(s) - n
            /\ \A k \in 1..(Len(s) - n) : u[k] = s[k]
    BY <2>4, DropIs
  <2>6. Registered(s) => Registered(Drop(s, n))
    BY <2>4, RegisteredDrop
  <2>3. LET u == Drop(s, n)
        IN  /\ Len(u) = Len(s) - n
            /\ \A k \in 1..(Len(s) - n) : u[k] = s[k]
            /\ Registered(s) => Registered(u)
    BY <2>5, <2>6
  <2> QED BY <1>1, <1>6, <2>1, <2>2, <2>3, KindsAre
<1>7. CASE item.op \notin Kinds \cup {"decl", "case", "close"}
  BY <1>7, KindsAre DEF Grown
<1> QED BY <1>2, <1>3, <1>4, <1>5, <1>6, <1>7, KindsAre

\* The generator's scopes stay like the analyser's.
LEMMA CorrDeclared ==
  ASSUME NEW s \in Seq(Scope), NEW g \in Seq(Scope), NEW c, Corr(s, g, c),
         Len(s) = Len(g), Len(g) >= 2, NEW n \in Name, NEW i \in Nat
  PROVE  Corr(Registering(s, n, i), Declared(g, n, i), c)
<1> DEFINE d == <<"local", i, 0>>
<1>1. d \in Declaration
  BY LocalDeclared DEF LocalIs
<1> HIDE DEF d
<1>2. Corr(Add(s, n, d, TRUE), Add(g, n, d, FALSE), c)
  BY <1>1, CorrAdd
<1> QED BY <1>2 DEF Registering, Declared, d

LEMMA CorrStep ==
  ASSUME NEW i \in Nat \ {0}, NEW item, NEW x \in States, NEW y \in States,
         NEW s \in Seq(Scope), NEW t \in Seq(Scope), NEW c,
         Step(i, item, x, y), Corr(s, x.scopes, c),
         Len(s) = Size(x.open, 1..Len(x.open)), t = Grown(i, item, x.open, s),
         Len(t) = Size(y.open, 1..Len(y.open))
  PROVE  Corr(t, y.scopes, c)
<1> DEFINE o == x.open
           p == y.open
           g == x.scopes
           h == y.scopes
<1>1. /\ o \in Seq(Construct) /\ g \in Seq(Scope) /\ Len(g) = Size(o, Sight(o))
      /\ p \in Seq(Construct) /\ h \in Seq(Scope) /\ Len(h) = Size(p, Sight(p))
  BY DEF States, State, Level
<1>2. /\ item.op \in Naming => item.name \in Name
      /\ item.op \in {"close", "case"} => o # <<>>
      /\ h = IF Strayed(o) THEN g ELSE Scoped(i, item, x)
  BY DEF Step, StepOpen, StepScopes
<1>3. Corr(s, g, c) /\ Len(s) = Size(o, 1..Len(o)) /\ t = Grown(i, item, o, s)
      /\ Len(t) = Size(p, 1..Len(p))
  OBVIOUS
<1> HIDE DEF o, p, h
<1>4. Len(g) \in Nat /\ Len(g) >= 2 /\ Len(g) <= Len(s) /\ Len(s) >= 2
  BY <1>1, <1>3, SightSize, SizeStrayed
<1>5. CASE Strayed(o)
  <2>1. h = g /\ Len(g) < Len(s) /\ Len(g) <= Len(t)
    BY <1>1, <1>2, <1>3, <1>5, SizeStrayed
  <2>5. LET u == Grown(i, item, o, s)
        IN  /\ \A k \in 1..Len(u) : k < Len(s) => u[k] = s[k]
            /\ item.op \in ForKinds => VarAt(u, Len(s) + 1, i, item.name)
            /\ Registered(s) => Registered(u)
    <3> HIDE DEF g
    <3>1. /\ item.op \in Naming => item.name \in Name
          /\ item.op \in {"close", "case"} => o # <<>>
      BY <1>2
    <3> QED BY <1>1, <1>3, <1>4, <3>1, GrownIs
  <2>2. \A k \in 1..Len(t) : k < Len(s) => t[k] = s[k]
    BY <1>3, <2>5
  <2>3. \A k \in 1..Len(g) : t[k] = s[k]
    BY <1>4, <2>1, <2>2
  <2>4. Corr(t, g, c)
    BY <1>1, <1>3, <1>4, <2>1, <2>3, CorrOver
  <2> QED BY <2>1, <2>4 DEF h
<1>6. CASE ~Strayed(o)
  <2>1. Len(s) = Len(g) /\ h = Scoped(i, item, x)
    BY <1>1, <1>2, <1>3, <1>6, SizeStrayed
  <2>2. g # <<>> /\ s # <<>>
    BY <1>1, <1>4, Below
  <2>3. CASE item.op = "decl"
    <3>1. h = Declared(g, item.name, i) /\ t = Registering(s, item.name, i)
      BY <1>3, <2>1, <2>3 DEF Scoped, Grown
    <3>2. item.name \in Name
      BY <1>2, <2>3 DEF Naming
    <3> QED BY <1>1, <1>3, <1>4, <2>1, <3>1, <3>2, CorrDeclared DEF h
  <2>4. CASE item.op \in {"if", "while", "switch"}
    <3>1. h = PushScope(g) /\ t = PushScope(s)
      BY <1>3, <2>1, <2>4 DEF Scoped, Grown
    <3> QED BY <1>1, <1>3, <1>4, <2>1, <3>1, CorrPush DEF h
  <2>5. CASE item.op = "stray"
    <3>1. h = g /\ t = PushScope(s)
      BY <1>3, <2>1, <2>5, KindsAre DEF Scoped, Grown
    <3>2. Len(t) = Len(s) + 1 /\ \A k \in 1..Len(s) : t[k] = s[k]
      BY <3>1, PushIs
    <3>3. Corr(t, g, c)
      BY <1>1, <1>3, <1>4, <2>1, <3>2, CorrOver, SMTT(20)
    <3> QED BY <3>1, <3>3 DEF h
  <2>6. CASE item.op \in ForKinds
    <3> DEFINE a == PushScope(s)
               e == PushScope(g)
               b == Registering(a, item.name, i)
               f == Declared(e, item.name, i)
    <3>1. h = PushScope(f) /\ t = PushScope(b) /\ item.name \in Name
      BY <1>2, <1>3, <2>1, <2>6 DEF Scoped, Grown, ForKinds, Naming
    <3>2. Corr(a, e, c)
      BY <1>1, <1>3, <1>4, <2>1, CorrPush
    <3>3. /\ a \in Seq(Scope) /\ e \in Seq(Scope) /\ a # <<>> /\ e # <<>>
          /\ Len(a) = Len(e) /\ Len(e) >= 2
      <4>1. LET u == PushScope(s)
            IN  u \in Seq(Scope) /\ Len(u) = Len(s) + 1 /\ u # <<>>
        BY PushIs
      <4>2. LET u == PushScope(g)
            IN  u \in Seq(Scope) /\ Len(u) = Len(g) + 1 /\ u # <<>>
        BY <1>1, PushIs
      <4> QED BY <1>4, <2>1, <4>1, <4>2
    <3> HIDE DEF a, e
    <3>4. Corr(b, f, c)
      BY <3>1, <3>2, <3>3, CorrDeclared
    <3>5. b \in Seq(Scope) /\ Len(b) = Len(a)
      BY <3>1, <3>3, RegisteringIs
    <3>6. f \in Seq(Scope) /\ Len(f) = Len(e)
      BY <3>1, <3>3, DeclaredIs, ZenonT(40)
    <3> HIDE DEF b, f
    <3>7. Corr(PushScope(b), PushScope(f), c)
      BY <3>3, <3>4, <3>5, <3>6, CorrPush
    <3> QED BY <3>1, <3>7 DEF h
  <2>7. CASE item.op = "case"
    <3> DEFINE a == Drop(s, 1)
               e == Drop(g, 1)
    <3>1. h = PushScope(e) /\ t = PushScope(a)
      BY <1>1, <1>3, <2>1, <2>7, PopDrop, KindsAre DEF Scoped, Grown
    <3>2. Len(s) >= 3
      <4>1. o # <<>> /\ Len(o) \in 1..Len(o)
        BY <1>1, <1>2, <2>7, FrontLast
      <4> QED BY <1>1, <1>3, <4>1, SizeUpTo
    <3>3. Corr(a, e, c)
      BY <1>1, <1>3, <1>4, <2>1, <3>2, CorrDrop
    <3>4. a \in Seq(Scope) /\ Len(a) = Len(s) - 1
      BY <1>4, <3>2, DropIs
    <3>5. e \in Seq(Scope) /\ Len(e) = Len(g) - 1
      <4>1. 1 \in Nat /\ 1 <= Len(g)
        BY <1>4
      <4>2. LET u == Drop(g, 1)
            IN  u \in Seq(Scope) /\ Len(u) = Len(g) - 1
        BY <1>1, <4>1, DropIs
      <4> QED BY <4>2
    <3> HIDE DEF a, e
    <3>6. Corr(PushScope(a), PushScope(e), c)
      BY <1>4, <2>1, <3>2, <3>3, <3>4, <3>5, CorrPush
    <3> QED BY <3>1, <3>6 DEF h
  <2>8. CASE item.op = "close"
    <3> DEFINE n == Scopes(Last(o).kind)
    <3>1. h = Drop(g, n) /\ t = Drop(s, n)
      BY <1>3, <2>1, <2>8, KindsAre DEF Scoped, Grown, o
    <3>2. n \in {1, 2} /\ n + 2 <= Len(s)
      BY <1>1, <1>2, <1>3, <2>8, Closing
    <3> HIDE DEF n
    <3>3. Corr(Drop(s, n), Drop(g, n), c)
      BY <1>1, <1>3, <2>1, <3>2, CorrDrop
    <3> QED BY <3>1, <3>3 DEF h
  <2>9. CASE item.op \notin Kinds \cup {"decl", "case", "close"}
    <3>1. h = g /\ t = s
      BY <1>3, <2>1, <2>9, KindsAre DEF Scoped, Grown
    <3> QED BY <1>3, <3>1 DEF h
  <2> QED BY <2>3, <2>4, <2>5, <2>6, <2>7, <2>8, <2>9, KindsAre
<1> QED BY <1>5, <1>6
-----------------------------------------------------------------------------
(***************************************************************************)
(* The invariant of the names.  A global without a register is still to be *)
(* visited, and the run block comes last.                                  *)
(***************************************************************************)
Pending(n) ==
  \E w \in Range(work) : w[1] \in {"var", "enum"} /\ program[w[2]].name = n
RegistersDue == \A n \in DOMAIN scopes[1] : scopes[1][n].reg \/ Pending(n)
RunLast == \A i \in 1..(Len(work) - 1) : work[i] # Run

BodyNames ==
  /\ Registered(scopes) /\ LoopVars(open, scopes, bodies[Current])
  /\ \A st : Complete(Current, st) =>
       Corr(scopes, st[at].scopes, ClassOf(Current))

\* Where the generator aborts, at a field by the layouts there are.
AbortsAt ==
  \/ Unseen
  \/ Item.op \in Using /\ Item.use \in Dotted
  \/ Item.op = "builtin" /\ (Item.use = None \/ Missing(scopes, Item.use))
  \/ /\ Item.op = "call"
     /\ \E f \in Initialised(Item.to) :
          Missing(scopes, f.init) /\ (f.array \/ f.init \in Dotted)
  \/ Item.op = "field" /\ Item.of \in Classes \ layouts
AbortsNamed == pass = "abort" => AbortsAt

NamesInv ==
  /\ pass = "codegen" => /\ RegistersDue /\ RunLast
                         /\ at > 0 => BodyNames
  /\ NamesAgree /\ AbortsNamed

LEMMA CompleteSame ==
  ASSUME program' = program, bodies' = bodies, scopes'[1] = scopes[1]
  PROVE  \A b, st : Complete(b, st)' <=> Complete(b, st)
<1>1. ASSUME NEW b, NEW st PROVE Complete(b, st)' <=> Complete(b, st)
  <2>1. \A B : Trace(b, B, st)' <=> Trace(b, B, st)
    BY SameProgram
  <2>2. Trace(b, bodies[b], st)' <=> Trace(b, bodies[b], st)
    BY <2>1 DEF Trace
  <2> QED BY <2>2 DEF Complete, Globals
<1> QED BY <1>1

LEMMA SameNames ==
  ASSUME program' = program
  PROVE  /\ Dotted' = Dotted /\ (\A c : Initialised(c)' = Initialised(c))
         /\ (\A b : ClassOf(b)' = ClassOf(b))
<1>1. Dotted' = Dotted /\ \A b : ClassOf(b)' = ClassOf(b)
  BY DEF Dotted, Defs, ClassOf
<1>2. ASSUME NEW c PROVE Initialised(c)' = Initialised(c)
  <2>1. Lineage(c)' = Lineage(c)
    BY DEF Lineage, Parent, Classes, ClassDef, Defs
  <2> QED BY <2>1 DEF Initialised, FieldDefs, ClassDef, Defs
<1> QED BY <1>1, <1>2

\* A statement that the generator comes through.
LEMMA NamesStep ==
  ASSUME IInv, IInv', NamesInv, pass = "codegen", InBody,
         at <= Len(bodies[Current]), Done,
         open' = Opening(at, Item, open),
         scopes' = Grown(at, Item, open, scopes), NamesAgree'
  PROVE  NamesInv'
<1> DEFINE B == bodies[Current]
           t == Grown(at, Item, open, scopes)
<1>1. /\ at' = at + 1
      /\ UNCHANGED <<program, words, bodies, left, pass, work, emitted>>
  BY DEF Done
<1>2. /\ at \in Nat \ {0} /\ open \in Seq(Construct) /\ scopes \in Seq(Scope)
      /\ Len(scopes) = Size(open, 1..Len(open)) /\ Len(scopes) >= 2
      /\ Len(scopes) \in Nat
      /\ Item.op \in {"close", "case"} => open # <<>>
      /\ Item.op \in Naming => Item.name \in Name
  BY Following
<1>3. /\ open' \in Seq(Construct) /\ scopes' \in Seq(Scope)
      /\ Len(scopes') = Size(open', 1..Len(open'))
  BY <1>1, <1>2 DEF IInv, LevelInv, Place
<1>4. Current' = Current
  BY <1>1 DEF Current
<1>5. BodyNames
  BY <1>2 DEF NamesInv
<1>6. /\ \A k \in 1..Len(scopes') : k < Len(scopes) => scopes'[k] = scopes[k]
      /\ Item.op \in ForKinds => VarAt(scopes', Len(scopes) + 1, at, Item.name)
      /\ Registered(scopes')
  <2>1. /\ \A k \in 1..Len(t) : k < Len(scopes) => t[k] = scopes[k]
        /\ Item.op \in ForKinds => VarAt(t, Len(scopes) + 1, at, Item.name)
        /\ Registered(scopes) => Registered(t)
    BY <1>2, GrownIs
  <2> QED BY <1>5, <2>1 DEF BodyNames
<1>7. scopes'[1] = scopes[1]
  <2>1. Len(scopes') \in Nat /\ Len(scopes') >= 2
    BY <1>1, <1>2, <1>3, SizeStrayed, SightSize
  <2> QED BY <1>2, <1>6, <2>1
<1>8. RegistersDue'
  BY <1>1, <1>2, <1>7 DEF NamesInv, RegistersDue, Pending
<1>9. RunLast'
  BY <1>1 DEF NamesInv, RunLast
<1>10. LoopVars(open', scopes', B)
  <2>1. ASSUME NEW q \in Seq(Construct), LoopVars(q, scopes, B),
               Size(q, 1..Len(q)) \in Nat,
               Size(q, 1..Len(q)) <= Len(scopes),
               Size(q, 1..Len(q)) <= Len(scopes')
        PROVE  LoopVars(q, scopes', B)
    <3>1. \A j \in 1..(Size(q, 1..Len(q)) - 1) :
            j \in 1..Len(scopes') /\ j < Len(scopes)
      BY <1>2, <2>1
    <3> QED BY <1>6, <2>1, <3>1, VarsKept
  <2>2. LoopVars(open, scopes, B)
    BY <1>5 DEF BodyNames
  <2>3. CASE Item.op \in Kinds
    <3> DEFINE c == [kind |-> Item.op, pos |-> at]
    <3>1. c \in Construct /\ open' = Append(open, c)
      BY <1>2, <2>3, OpeningTyped
    <3>2. Len(scopes) <= Len(scopes')
      <4> HIDE DEF c
      <4>1. LET p == Append(open, c)
            IN  /\ Size(p, 1..Len(p))
                     = Size(open, 1..Len(open)) + Scopes(c.kind)
                /\ Scopes(c.kind) \in {1, 2}
        BY <1>2, <3>1, SizeAppend
      <4> QED BY <1>2, <1>3, <3>1, <4>1
    <3>3. LoopVars(open, scopes', B)
      BY <1>2, <2>1, <2>2, <3>2
    <3>4. c.kind = Item.op /\ c.pos = at /\ B[at].name = Item.name
      BY DEF Item
    <3> HIDE DEF c
    <3>5. LoopVars(Append(open, c), scopes', B)
      BY <1>2, <1>6, <3>1, <3>3, <3>4, VarsAppend
    <3> QED BY <3>1, <3>5
  <2>4. CASE Item.op = "close"
    <3>1. open' = Front(open) /\ open # <<>>
      BY <1>2, <2>4, OpeningTyped
    <3>2. LoopVars(Front(open), scopes, B)
      BY <1>2, <2>2, <3>1, VarsFront
    <3>3. Size(open', 1..Len(open')) \in Nat
          /\ Size(open', 1..Len(open')) <= Len(scopes)
      <4> DEFINE c == Last(open)
      <4>1. c \in Construct /\ open = Append(open', c)
        BY <1>2, <3>1, FrontLast
      <4> HIDE DEF c
      <4>2. LET p == Append(open', c)
            IN  /\ Size(p, 1..Len(p))
                     = Size(open', 1..Len(open')) + Scopes(c.kind)
                /\ Size(open', 1..Len(open')) \in Nat
                /\ Scopes(c.kind) \in {1, 2}
        BY <1>3, <4>1, SizeAppend
      <4>3. Size(open, 1..Len(open))
              = Size(open', 1..Len(open')) + Scopes(c.kind)
        BY <4>1, <4>2
      <4> QED BY <1>2, <4>2, <4>3
    <3> QED BY <1>3, <2>1, <3>1, <3>2, <3>3
  <2>5. CASE Item.op \notin Kinds \cup {"close"}
    <3>1. open' = open
      BY <1>2, <2>5, OpeningTyped
    <3> QED BY <1>2, <1>3, <2>1, <2>2, <3>1
  <2> QED BY <2>3, <2>4, <2>5
<1>11. ASSUME NEW st, Complete(Current, st)
       PROVE  Corr(scopes', st[at + 1].scopes, ClassOf(Current))
  <2>1. /\ st[at] \in States /\ st[at + 1] \in States /\ st[at].open = open
        /\ st[at + 1].open = open' /\ Step(at, Item, st[at], st[at + 1])
    BY <1>11, Following
  <2>2. Corr(scopes, st[at].scopes, ClassOf(Current))
    BY <1>5, <1>11 DEF BodyNames
  <2> HIDE DEF Step
  <2> QED BY <1>2, <1>3, <2>1, <2>2, CorrStep
<1>12. BodyNames'
  <2>1. \A b, st : Complete(b, st)' <=> Complete(b, st)
    BY <1>1, <1>7, CompleteSame
  <2>2. ClassOf(Current)' = ClassOf(Current)
    BY <1>1, <1>4, SameNames
  <2> QED BY <1>1, <1>4, <1>6, <1>10, <1>11, <2>1, <2>2 DEF BodyNames
<1>13. AbortsNamed'
  BY <1>1 DEF AbortsNamed
<1> QED BY <1>1, <1>8, <1>9, <1>12, <1>13 DEF NamesInv

\* What the analyser bound a name to, the generator finds.
LEMMA UseFound ==
  ASSUME IInv, NamesInv, pass = "codegen", InBody,
         at <= Len(bodies[Current]), Item.op \in Using, Item.use # None,
         ~Unseen
  PROVE  /\ Exists(scopes, Item.use)
         /\ \/ Get(scopes, Item.use).decl = Item.bound
            \/ /\ Get(scopes, Item.use).decl[1] = "field"
               /\ Get(scopes, Item.use).decl[3] # ClassOf(Current)
<1> DEFINE n == Item.use
<1>1. PICK st : Complete(Current, st)
  BY Following
<1> DEFINE x == st[at]
<1>2. /\ at \in Nat \ {0} /\ open \in Seq(Construct) /\ scopes \in Seq(Scope)
      /\ Len(scopes) = Size(open, 1..Len(open)) /\ Len(scopes) >= 2
      /\ x \in States /\ x.open = open /\ Step(at, Item, x, st[at + 1])
  BY <1>1, Following
<1>3. Corr(scopes, x.scopes, ClassOf(Current))
  BY <1>1, <1>2 DEF NamesInv, BodyNames
<1> HIDE DEF x
<1>4. ~Strayed(x.open)
  BY <1>2 DEF Unseen, Strayed
<1>5. Exists(x.scopes, n) /\ Item.bound = Get(x.scopes, n).decl
  BY <1>2, <1>4 DEF Step, StepBinds
<1>6. x.scopes \in Seq(Scope) /\ Len(x.scopes) = Len(scopes)
  <2>1. x.scopes \in Seq(Scope) /\ Len(x.scopes) = Size(open, Sight(open))
    BY <1>2 DEF States, State, Level
  <2> QED BY <1>2, <1>4, <2>1, SizeStrayed
<1>7. Globals(scopes[1], DOMAIN scopes[1])
  BY DEF IInv, LevelInv
<1> HIDE DEF n
<1>8. /\ Exists(scopes, n)
      /\ \/ Get(scopes, n).decl = Get(x.scopes, n).decl
         \/ /\ Get(scopes, n).decl[1] = "field"
            /\ Get(scopes, n).decl[3] # ClassOf(Current)
  BY <1>2, <1>3, <1>5, <1>6, <1>7, CorrGet
<1> QED BY <1>5, <1>8 DEF n

\* In a block the analyser does not see nothing is bound.
LEMMA UseUnseen ==
  ASSUME IInv, pass = "codegen", InBody, at <= Len(bodies[Current]),
         Item.op \in Using, Item.use = None \/ Unseen
  PROVE  Item.bound = None
<1>1. PICK st : Complete(Current, st)
  BY Following
<1>2. st[at].open = open /\ Step(at, Item, st[at], st[at + 1])
  BY <1>1, Following
<1> QED BY <1>2 DEF Step, StepBinds, Unseen, Strayed

\* What has no register is a global, and no longer so in the run block.
LEMMA Unregistered ==
  ASSUME IInv, NamesInv, pass = "codegen", InBody,
         NEW s \in Seq(Scope), s[1] = scopes[1], Registered(s),
         NEW n, Exists(s, n), ~Get(s, n).reg
  PROVE  Get(s, n).decl[1] = "global" /\ Current # Run
<1> DEFINE k == Found(s, n)
<1>1. k \in 1..Len(s) /\ n \in DOMAIN s[k] /\ Get(s, n) = s[k][n]
  BY GetIs
<1> HIDE DEF k
<1>2. k = 1
  BY <1>1 DEF Registered
<1>3. Get(s, n) = scopes[1][n] /\ n \in DOMAIN scopes[1]
  BY <1>1, <1>2
<1>4. scopes[1][n].decl = <<"global", n, 0>>
  BY <1>3 DEF IInv, LevelInv, Globals
<1>5. Pending(n)
  BY <1>3 DEF NamesInv, RegistersDue
<1>6. Current # Run
  <2>1. SUFFICES ASSUME Current = Run PROVE FALSE
    OBVIOUS
  <2>2. work \in Seq(Visits) /\ work # <<>> /\ work[1] = Run
    BY <2>1 DEF InBody, IInv, WorkInv, Current
  <2>3. Len(work) \in Nat /\ Len(work) # 0
    BY <2>2, EmptySeq
  <2>4. Len(work) = 1
    <3>1. \A i \in 1..(Len(work) - 1) : work[i] # Run
      BY DEF NamesInv, RunLast
    <3>2. 1 \notin 1..(Len(work) - 1)
      BY <2>2, <3>1
    <3>3. \A l \in Nat : l # 0 /\ 1 \notin 1..(l - 1) => l = 1
      OBVIOUS
    <3> QED BY <2>3, <3>2, <3>3
  <2>5. PICK w \in Range(work) : w[1] \in {"var", "enum"}
    BY <1>5 DEF Pending
  <2>6. w = Run
    BY <2>2, <2>4, <2>5 DEF Range
  <2> QED BY <2>5, <2>6 DEF Run
<1> QED BY <1>3, <1>4, <1>6

\* An abort at one of the places named.
LEMMA AbortsAtSame ==
  ASSUME UNCHANGED <<program, bodies, work, at, open, scopes, layouts>>
  PROVE  AbortsAt' <=> AbortsAt
<1>1. /\ Item' = Item /\ Dotted' = Dotted /\ (Unseen' <=> Unseen)
      /\ Classes' = Classes /\ \A c : Initialised(c)' = Initialised(c)
  BY SameNames, SameProgram DEF Item, Current, Unseen
<1>2. Initialised(Item.to)' = Initialised(Item.to)
  BY <1>1 DEF Initialised
<1>3. ASSUME NEW n PROVE Missing(scopes, n)' <=> Missing(scopes, n)
  BY <1>1 DEF Missing
<1> QED BY <1>1, <1>2, <1>3 DEF AbortsAt

LEMMA AbortNames ==
  ASSUME IInv', Abort, AbortsAt
  PROVE  NamesInv'
<1>1. /\ pass' = "abort" /\ made' = {}
      /\ UNCHANGED <<program, bodies, work, at, open, scopes, layouts>>
  BY DEF Abort, emitted
<1>2. NamesAgree'
  BY <1>1 DEF NamesAgree
<1>3. AbortsNamed'
  BY <1>1, AbortsAtSame DEF AbortsNamed
<1> QED BY <1>1, <1>2, <1>3 DEF NamesInv

LEMMA MissingUse ==
  ASSUME IInv, NamesInv, pass = "codegen", InBody,
         at <= Len(bodies[Current]), Item.op \in Using,
         NEW s, Missing(s, Item.use),
         Exists(scopes, Item.use) => Exists(s, Item.use)
  PROVE  AbortsAt
<1>2. Item.use # None /\ (Item.use \in Dotted \/ ~Exists(s, Item.use))
  BY DEF Missing
<1>3. ~Unseen => Exists(scopes, Item.use)
  BY <1>2, UseFound
<1> QED BY <1>2, <1>3 DEF AbortsAt
-----------------------------------------------------------------------------
(***************************************************************************)
(* The steps of the generator in bodies, again.                            *)
(***************************************************************************)
\* What a statement resolves its name to, in scopes s that may hold its own
\* variable.
LEMMA AgreeIntro ==
  ASSUME IInv, NamesInv, pass = "codegen", InBody,
         at <= Len(bodies[Current]), Item.op \in Using, Done,
         NEW s \in Seq(Scope), s[1] = scopes[1], Registered(s), NEW how,
         ~Missing(s, Item.use),
         \/ how = "initialiser" /\ Get(s, Item.use).decl = Local
         \/ Exists(scopes, Item.use) =>
              Get(s, Item.use) = Get(scopes, Item.use),
         made' = Resolved(s, Item.use, Item.bound, how)
  PROVE  NamesAgree'
<1> DEFINE n == Item.use
<1>1. /\ at' = at + 1 /\ at \in Nat /\ Current' = Current
      /\ program' = program
  BY Following DEF Done, Current
<1>2. CASE None \in {n, Item.bound}
  <2>1. made' = {}
    BY <1>2 DEF Resolved
  <2> QED BY <2>1 DEF NamesAgree
<1>3. CASE None \notin {n, Item.bound}
  <2>1. ~Unseen
    BY <1>3, UseUnseen
  <2>2. Exists(s, n)
    BY <1>3 DEF Missing
  <2>3. \/ Get(s, n).decl = Item.bound
        \/ how = "initialiser" /\ Get(s, n).decl = Local
        \/ /\ Get(s, n).decl[1] = "field"
           /\ Get(s, n).decl[3] # ClassOf(Current)
    BY <1>3, <2>1, UseFound
  <2>4. ~Get(s, n).reg => Get(s, n).decl[1] = "global" /\ Current # Run
    BY <2>2, Unregistered
  <2>5. ClassOf(Current)' = ClassOf(Current)
    BY <1>1, SameNames
  <2>6. Local = <<"local", at' - 1, 0>>
    BY <1>1 DEF Local
  <2> DEFINE m == [is |-> "use", want |-> Item.bound, got |-> Get(s, n).decl,
                   reg |-> Get(s, n).reg, how |-> how]
  <2>7. made' = {m}
    BY <1>3 DEF Resolved
  <2>8. /\ m.got = Get(s, n).decl /\ m.want = Item.bound
        /\ m.reg = Get(s, n).reg /\ m.how = how
    OBVIOUS
  <2> HIDE DEF m, n
  <2>9. /\ \/ m.got = m.want
           \/ m.how = "initialiser" /\ m.got = <<"local", at' - 1, 0>>
           \/ m.got[1] = "field" /\ m.got[3] # ClassOf(Current)'
           \/ m.how = "field"
        /\ ~m.reg => m.got[1] = "global" /\ Current' # Run
    BY <1>1, <2>3, <2>4, <2>5, <2>6, <2>8
  <2> QED BY <2>7, <2>9 DEF NamesAgree, Run
<1> QED BY <1>2, <1>3

LEMMA NoNames ==
  ASSUME \A m \in made' : m.is # "use"
  PROVE  NamesAgree'
BY DEF NamesAgree

LEMMA GenUseNames ==
  ASSUME IInv, IInv', NamesInv, GenUse
  PROVE  NamesInv'
<1>1. /\ pass = "codegen" /\ InBody /\ at <= Len(bodies[Current])
      /\ Item.op = "use"
  BY DEF GenUse, Generating
<1>2. Item.op \in Using
  BY <1>1 DEF Using
<1>3. CASE Missing(scopes, Item.use)
  BY <1>1, <1>2, <1>3, MissingUse, AbortNames DEF GenUse
<1>4. CASE ~Missing(scopes, Item.use)
  <2>1. /\ Done /\ UNCHANGED <<open, scopes, jumps>>
        /\ made' = Resolved(scopes, Item.use, Item.bound, "plain")
    BY <1>4 DEF GenUse
  <2>2. scopes \in Seq(Scope) /\ Registered(scopes)
    BY <1>1 DEF IInv, LevelInv, NamesInv, BodyNames, InBody
  <2>3. NamesAgree'
    BY <1>1, <1>2, <1>4, <2>1, <2>2, AgreeIntro
  <2>4. /\ open' = Opening(at, Item, open)
        /\ scopes' = Grown(at, Item, open, scopes)
    BY <1>1, <2>1, KindsAre DEF Opening, Grown
  <2> QED BY <1>1, <2>1, <2>3, <2>4, NamesStep
<1> QED BY <1>3, <1>4

LEMMA QuietNames ==
  ASSUME IInv, IInv', NamesInv, pass = "codegen", InBody,
         at <= Len(bodies[Current]), Item.op \in {"builtin", "field"}, Done,
         made' = {}, UNCHANGED <<open, scopes, jumps>>
  PROVE  NamesInv'
<1>1. NamesAgree'
  BY NoNames
<1>2. open' = Opening(at, Item, open) /\ scopes' = Grown(at, Item, open, scopes)
  BY KindsAre DEF Opening, Grown
<1> QED BY <1>1, <1>2, NamesStep

LEMMA GenBuiltinNames ==
  ASSUME IInv, IInv', NamesInv, GenBuiltin
  PROVE  NamesInv'
<1>1. /\ pass = "codegen" /\ InBody /\ at <= Len(bodies[Current])
      /\ Item.op = "builtin"
  BY DEF GenBuiltin, Generating
<1>2. CASE (Item.use = None \/ Missing(scopes, Item.use)) /\ Abort
  BY <1>1, <1>2, AbortNames DEF AbortsAt
<1>3. CASE Done /\ made' = {} /\ UNCHANGED <<open, scopes, jumps>>
  BY <1>1, <1>3, QuietNames
<1> QED BY <1>2, <1>3 DEF GenBuiltin

LEMMA GenFieldNames ==
  ASSUME IInv, IInv', NamesInv, GenField
  PROVE  NamesInv'
<1>1. /\ pass = "codegen" /\ InBody /\ at <= Len(bodies[Current])
      /\ Item.op = "field"
  BY DEF GenField, Generating
<1>2. CASE Item.of \notin layouts /\ Abort
  <2>1. PICK st : Complete(Current, st)
    BY <1>1, Following
  <2>2. Item.of \in Classes
    BY <1>1, <2>1, Following DEF Step, StepBinds
  <2> QED BY <1>1, <1>2, <2>2, AbortNames DEF AbortsAt
<1>3. CASE Done /\ made' = {} /\ UNCHANGED <<open, scopes, jumps>>
  BY <1>1, <1>3, QuietNames
<1> QED BY <1>2, <1>3 DEF GenField

LEMMA GenDeclNames ==
  ASSUME IInv, IInv', NamesInv, GenDecl
  PROVE  NamesInv'
<1> DEFINE s == Registering(scopes, Item.name, at)
<1>1. /\ pass = "codegen" /\ InBody /\ at <= Len(bodies[Current])
      /\ Item.op = "decl" /\ s = Add(scopes, Item.name, Local, TRUE)
  BY DEF GenDecl, Generating, Registering, Local
<1>2. /\ Item.op \in Using /\ Item.name \in Name /\ at \in Nat
      /\ scopes \in Seq(Scope) /\ Len(scopes) >= 2
  BY <1>1, Following DEF Using, Naming
<1>3. /\ scopes # <<>> /\ 1 \in 1..Len(scopes) /\ 1 # Len(scopes)
      /\ Registered(scopes)
  BY <1>1, <1>2, Below DEF NamesInv, BodyNames, InBody
<1>4. s \in Seq(Scope) /\ s[1] = scopes[1] /\ Registered(s)
  BY <1>2, <1>3, RegisteringIs
<1>5. /\ Item.use = Item.name =>
           Exists(s, Item.use) /\ Get(s, Item.use).decl = Local
      /\ Item.use # Item.name =>
           /\ Exists(s, Item.use) <=> Exists(scopes, Item.use)
           /\ Exists(scopes, Item.use) =>
                Get(s, Item.use) = Get(scopes, Item.use)
  BY <1>2, <1>3, GetRegistering DEF Local
<1>6. CASE Missing(s, Item.use)
  <2>1. Abort
    BY <1>1, <1>6 DEF GenDecl
  <2> QED BY <1>1, <1>2, <1>5, <1>6, <2>1, MissingUse, AbortNames
<1>7. CASE ~Missing(s, Item.use)
  <2>1. /\ Done /\ UNCHANGED <<open, jumps>> /\ scopes' = s
        /\ made' = Resolved(s, Item.use, Item.bound, "initialiser")
    BY <1>1, <1>7 DEF GenDecl
  <2> HIDE DEF s
  <2>2. NamesAgree'
    BY <1>1, <1>2, <1>4, <1>5, <1>7, <2>1, AgreeIntro
  <2>3. /\ open' = Opening(at, Item, open)
        /\ scopes' = Grown(at, Item, open, scopes)
    BY <1>1, <2>1, KindsAre DEF Opening, Grown, s
  <2> QED BY <1>1, <2>1, <2>2, <2>3, NamesStep
<1> QED BY <1>6, <1>7

LEMMA GenOpenNames ==
  ASSUME IInv, IInv', NamesInv,
         NEW kind \in {"if", "stray", "while", "switch"},
         NEW breaks, NEW continues, GenOpen(kind, breaks, continues)
  PROVE  NamesInv'
<1>1. /\ pass = "codegen" /\ InBody /\ at <= Len(bodies[Current])
      /\ Item.op = kind /\ Done /\ open' = Opened(kind) /\ made' = {}
      /\ scopes' = PushScope(scopes)
  BY DEF GenOpen, Generating
<1>2. NamesAgree'
  BY <1>1, NoNames
<1>3. /\ open' = Opening(at, Item, open)
      /\ scopes' = Grown(at, Item, open, scopes)
  BY <1>1, KindsAre DEF Opened, Opening, Grown
<1> QED BY <1>1, <1>2, <1>3, NamesStep

LEMMA GenCaseNames ==
  ASSUME IInv, IInv', NamesInv, GenCase
  PROVE  NamesInv'
<1>1. /\ pass = "codegen" /\ InBody /\ at <= Len(bodies[Current])
      /\ Item.op = "case" /\ Done /\ UNCHANGED <<open, jumps>> /\ made' = {}
      /\ scopes' = PushScope(PopScope(scopes))
  BY DEF GenCase, Generating
<1>2. NamesAgree'
  BY <1>1, NoNames
<1>3. /\ open' = Opening(at, Item, open)
      /\ scopes' = Grown(at, Item, open, scopes)
  BY <1>1, KindsAre DEF Opening, Grown
<1> QED BY <1>1, <1>2, <1>3, NamesStep

LEMMA GenJumpNames ==
  ASSUME IInv, IInv', NamesInv, GenJump
  PROVE  NamesInv'
<1>1. /\ pass = "codegen" /\ InBody /\ at <= Len(bodies[Current])
      /\ Item.op = "jump" /\ Done /\ UNCHANGED <<open, scopes, jumps>>
  BY DEF GenJump, Generating
<1>2. PICK want, got : made' = {[is |-> "jump", want |-> want, got |-> got]}
  BY DEF GenJump
<1>3. NamesAgree'
  BY <1>2, NoNames
<1>4. /\ open' = Opening(at, Item, open)
      /\ scopes' = Grown(at, Item, open, scopes)
  BY <1>1, KindsAre DEF Opening, Grown
<1> QED BY <1>1, <1>3, <1>4, NamesStep

LEMMA GenLoopNames ==
  ASSUME IInv, IInv', NamesInv, NEW kind \in ForKinds, GenLoop(kind)
  PROVE  NamesInv'
<1> DEFINE a == PushScope(scopes)
           s == Registering(a, Item.name, at)
<1>1. /\ pass = "codegen" /\ InBody /\ at <= Len(bodies[Current])
      /\ Item.op = kind /\ s = Add(a, Item.name, Local, TRUE)
  BY DEF GenLoop, Generating, Registering, Local
<1>2. /\ Item.op \in Using /\ Item.name \in Name /\ at \in Nat
      /\ scopes \in Seq(Scope) /\ Len(scopes) >= 2
  BY <1>1, Following, KindsAre DEF Using, Naming
<1>3. Registered(scopes)
  BY <1>1 DEF NamesInv, BodyNames, InBody
<1>4. /\ a \in Seq(Scope) /\ Len(a) = Len(scopes) + 1 /\ a # <<>>
      /\ a[1] = scopes[1] /\ Registered(a)
  BY <1>2, <1>3, PushIs, Below, RegisteredPush
<1>5. LET n == Item.use
      IN  /\ Exists(a, n) <=> Exists(scopes, n)
          /\ Exists(scopes, n) => Get(a, n) = Get(scopes, n)
  BY <1>2, GetPush
<1> HIDE DEF a
<1>6. s \in Seq(Scope) /\ s[1] = scopes[1] /\ Registered(s)
  <2>1. 1 \in 1..Len(a) /\ 1 # Len(a)
    BY <1>2, <1>4
  <2> QED BY <1>2, <1>4, <2>1, RegisteringIs
<1>7. /\ Item.use = Item.name =>
           Exists(s, Item.use) /\ Get(s, Item.use).decl = Local
      /\ Item.use # Item.name =>
           /\ Exists(s, Item.use) <=> Exists(a, Item.use)
           /\ Exists(a, Item.use) => Get(s, Item.use) = Get(a, Item.use)
  BY <1>2, <1>4, GetRegistering DEF Local
<1>8. CASE Missing(s, Item.use)
  <2>1. Abort
    BY <1>1, <1>8 DEF GenLoop, a
  <2> QED BY <1>1, <1>2, <1>5, <1>7, <1>8, <2>1, MissingUse, AbortNames
<1>9. CASE ~Missing(s, Item.use)
  <2>1. /\ Done /\ open' = Opened(kind) /\ scopes' = PushScope(s)
        /\ made' = Resolved(s, Item.use, Item.bound, "initialiser")
    BY <1>1, <1>9 DEF GenLoop, a
  <2> HIDE DEF s
  <2>2. NamesAgree'
    BY <1>1, <1>2, <1>5, <1>6, <1>7, <1>9, <2>1, AgreeIntro
  <2>3. /\ open' = Opening(at, Item, open)
        /\ scopes' = Grown(at, Item, open, scopes)
    BY <1>1, <2>1, KindsAre DEF Opened, Opening, Grown, s, a
  <2> QED BY <1>1, <2>1, <2>2, <2>3, NamesStep
<1> QED BY <1>8, <1>9

\* A for finds the variable that it updates.
LEMMA GenCloseNames ==
  ASSUME IInv, IInv', NamesInv, GenClose
  PROVE  NamesInv'
<1> DEFINE c == Last(open)
           k == Scopes(c.kind)
           outer == Drop(scopes, k - 1)
           n == bodies[Current][c.pos].name
           want == <<"local", c.pos, 0>>
<1>1. /\ pass = "codegen" /\ InBody /\ at <= Len(bodies[Current])
      /\ Item.op = "close" /\ Done /\ open' = Front(open)
      /\ scopes' = Drop(scopes, k)
      /\ made' = IF c.kind # "for" \/ Unseen THEN {}
                 ELSE Resolved(outer, n, want, "update")
  BY DEF GenClose, Generating
<1>2. /\ open \in Seq(Construct) /\ open # <<>> /\ scopes \in Seq(Scope)
      /\ Len(scopes) = Size(open, 1..Len(open)) /\ Len(scopes) \in Nat
      /\ Len(scopes) >= 2 /\ at \in Nat
  BY <1>1, Following
<1>3. Registered(scopes) /\ LoopVars(open, scopes, bodies[Current])
  BY <1>1 DEF NamesInv, BodyNames, InBody
<1>4. NamesAgree'
  <2>1. CASE made' = {}
    BY <2>1 DEF NamesAgree
  <2>2. CASE made' # {}
    <3>1. c.kind = "for" /\ made' = Resolved(outer, n, want, "update")
      BY <1>1, <2>2
    <3>2. k = 2
      BY <3>1 DEF Scopes
    <3>3. /\ outer \in Seq(Scope) /\ Len(outer) = Len(scopes) - 1
          /\ \A j \in 1..(Len(scopes) - 1) : outer[j] = scopes[j]
      <4>1. LET u == Drop(scopes, 1)
            IN  /\ u \in Seq(Scope) /\ Len(u) = Len(scopes) - 1
                /\ \A j \in 1..(Len(scopes) - 1) : u[j] = scopes[j]
        <5>1. 1 \in Nat /\ 1 <= Len(scopes)
          BY <1>2
        <5> QED BY <1>2, <5>1, DropIs
      <4> QED BY <3>2, <4>1
    <3>4. /\ n \in DOMAIN scopes[Len(scopes) - 1]
          /\ scopes[Len(scopes) - 1][n].decl = want
      <4>1. Len(open) \in 1..Len(open) /\ open[Len(open)] = c
        <5>1. Len(open) \in Nat \ {0} /\ Last(open) = open[Len(open)]
          BY <1>2, FrontLast
        <5> QED BY <5>1
      <4>2. VarAt(scopes, Len(scopes) - 1, c.pos, n)
        BY <1>2, <1>3, <3>1, <4>1, KindsAre DEF LoopVars
      <4> QED BY <4>2 DEF VarAt
    <3>5. Len(scopes) >= 3
      <4>1. Len(open) \in 1..Len(open)
        BY <1>2, FrontLast
      <4> QED BY <1>2, <4>1, SizeUpTo
    <3> HIDE DEF outer, want, n, k, c
    <3> DEFINE l == Len(outer)
    <3>6. /\ l \in 1..Len(outer) /\ n \in DOMAIN outer[l]
          /\ \A j \in (l + 1)..Len(outer) : n \notin DOMAIN outer[j]
          /\ l \in 2..Len(scopes) /\ outer[l] = scopes[l]
          /\ scopes[l][n].decl = want
      BY <1>2, <3>3, <3>4, <3>5
    <3>7. Exists(outer, n) /\ Get(outer, n) = outer[l][n]
      BY <3>3, <3>6, FoundAt
    <3>8. Get(outer, n).decl = want /\ Get(outer, n).reg
      BY <1>3, <3>6, <3>7 DEF Registered
    <3> DEFINE m == [is |-> "use", want |-> want, got |-> Get(outer, n).decl,
                     reg |-> Get(outer, n).reg, how |-> "update"]
    <3>9. made' = {m}
      BY <2>2, <3>1 DEF Resolved
    <3>10. m.got = m.want /\ m.reg
      BY <3>8
    <3> HIDE DEF m
    <3> QED BY <3>9, <3>10 DEF NamesAgree
  <2> QED BY <2>1, <2>2
<1>5. /\ open' = Opening(at, Item, open)
      /\ scopes' = Grown(at, Item, open, scopes)
  BY <1>1, KindsAre DEF Opening, Grown
<1> QED BY <1>1, <1>4, <1>5, NamesStep

\* The initialisers of the fields of a class and its ancestors are None or
\* globals: the analyser has been through all classes.
LEMMA InitialisersFound ==
  ASSUME IInv, pass = "codegen", NEW c \in Classes, NEW f \in Initialised(c)
  PROVE  f.init # None /\ (~f.array => Exists(scopes, f.init))
<1> DEFINE n == f.init
<1>5. n # None
  BY DEF Initialised
<1> SUFFICES ASSUME ~f.array PROVE Exists(scopes, n)
  BY <1>5
<1>1. Typed
  BY ProgramTyped DEF IInv
<1>2. PICK k \in Range(Lineage(c)) : n \in Inits(ClassDef(k))
  <2>1. PICK k \in Range(Lineage(c)) : f \in FieldDefs(k)
    BY DEF Initialised
  <2> DEFINE fs == program[ClassDef(k)].fields
  <2>2. PICK i \in 1..Len(fs) : f = fs[i]
    <3>1. k \in Classes
      BY <1>1, LineageIs DEF Typed, Range
    <3>2. fs \in Seq(FieldDef)
      BY <1>1, <3>1, ClassDefIs, DefinitionIs, DefsIn
    <3>3. f \in Range(fs)
      BY <2>1 DEF FieldDefs
    <3> HIDE DEF fs
    <3> QED BY <3>2, <3>3 DEF Range
  <2>3. n \in Inits(ClassDef(k))
    BY <2>2 DEF Inits
  <2> QED BY <2>3
<1>3. k \in Classes
  BY <1>1, LineageIs DEF Typed, Range
<1>4. Checked(ClassDef(k))
  BY <1>1, <1>3, ClassDefIs DEF IInv, GlobalsInv
<1>6. n \in DOMAIN scopes[1]
  BY <1>2, <1>4, <1>5 DEF Checked
<1>7. 1 \in 1..Len(scopes)
  <2>1. Len(scopes) \in Nat /\ Len(scopes) >= 1
    BY SightSize, SizeStrayed DEF IInv, LevelInv, Place, WorkInv
  <2> QED BY <2>1
<1> QED BY <1>5, <1>6, <1>7 DEF Exists

LEMMA GenCallOrNewNames ==
  ASSUME IInv, IInv', NamesInv, GenCallOrNew
  PROVE  NamesInv'
<1>1. /\ pass = "codegen" /\ InBody /\ at <= Len(bodies[Current])
      /\ Item.op = "call"
  BY DEF GenCallOrNew, Generating
<1>2. PICK inits :
        /\ inits \in {{}, Initialised(Item.to)}
        /\ inits # {} => Item.to \in layouts
        /\ IF \E f \in inits : Missing(scopes, f.init) THEN Abort
           ELSE /\ Done /\ UNCHANGED <<open, scopes, jumps>>
                /\ \E got :
                     made' =
                       {[is |-> "call", to |-> Item.to, want |-> Item.bound,
                         got |-> got]}
                       \cup UNION {Resolved(scopes, f.init,
                                            scopes[1][f.init].decl, "field") :
                                     f \in {g \in inits : ~g.array}}
  BY DEF GenCallOrNew
<1>3. inits # {} => Item.to \in Classes
  BY <1>2 DEF IInv, EmitInv
<1>4. \A f \in inits : ~f.array => Exists(scopes, f.init)
  BY <1>1, <1>2, <1>3, InitialisersFound
<1>5. CASE \E f \in inits : Missing(scopes, f.init)
  <2>1. PICK f \in inits : /\ Missing(scopes, f.init)
                           /\ f.array \/ f.init \in Dotted
    BY <1>4, <1>5 DEF Missing
  <2>2. AbortsAt
    BY <1>1, <1>2, <2>1 DEF AbortsAt
  <2> QED BY <1>2, <1>5, <2>2, AbortNames
<1>6. CASE ~\E f \in inits : Missing(scopes, f.init)
  <2>1. Done /\ UNCHANGED <<open, scopes, jumps>>
    BY <1>2, <1>6
  <2>2. PICK got :
          made' = {[is |-> "call", to |-> Item.to, want |-> Item.bound,
                    got |-> got]}
                  \cup UNION {Resolved(scopes, f.init,
                                       scopes[1][f.init].decl, "field") :
                                f \in {g \in inits : ~g.array}}
    BY <1>2, <1>6
  <2>3. /\ scopes \in Seq(Scope) /\ Registered(scopes) /\ Current' = Current
    BY <1>1, <2>1
       DEF IInv, LevelInv, NamesInv, BodyNames, InBody, Done, Current
  <2>4. ASSUME NEW m \in made', m.is = "use"
        PROVE  m.how = "field" /\ (~m.reg => m.got[1] = "global"
                                             /\ Current # Run)
    <3>1. PICK f \in inits : /\ ~f.array
                             /\ m \in Resolved(scopes, f.init,
                                               scopes[1][f.init].decl, "field")
      BY <2>2, <2>4
    <3> DEFINE n == f.init
    <3>2. /\ m.how = "field" /\ m.got = Get(scopes, n).decl
          /\ m.reg = Get(scopes, n).reg
      BY <3>1 DEF Resolved
    <3>4. Exists(scopes, n)
      BY <1>4, <3>1
    <3> HIDE DEF n
    <3>3. ~Get(scopes, n).reg => /\ Get(scopes, n).decl[1] = "global"
                                 /\ Current # Run
      BY <1>1, <2>3, <3>4, Unregistered
    <3> QED BY <3>2, <3>3
  <2>5. NamesAgree'
    BY <2>3, <2>4 DEF NamesAgree, Run
  <2>6. /\ open' = Opening(at, Item, open)
        /\ scopes' = Grown(at, Item, open, scopes)
    BY <1>1, <2>1, KindsAre DEF Opening, Grown
  <2> QED BY <1>1, <2>1, <2>5, <2>6, NamesStep
<1> QED BY <1>5, <1>6
-----------------------------------------------------------------------------
(***************************************************************************)
(* The steps between bodies, again.                                        *)
(***************************************************************************)
\* A step to another visit outside bodies.
LEMMA NamesNext ==
  ASSUME IInv, NamesInv, pass = "codegen", work # <<>>,
         work' = Tail(work), made' = {}, at' = 0,
         UNCHANGED <<program, pass>>,
         DOMAIN scopes'[1] = DOMAIN scopes[1],
         \A n \in DOMAIN scopes[1] :
           scopes[1][n].reg => scopes'[1][n].reg,
         Current[1] \in {"var", "enum"} =>
           LET n == program[Current[2]].name
           IN  n \in DOMAIN scopes[1] => scopes'[1][n].reg
  PROVE  NamesInv'
<1>1. Range(work) = {Current} \cup Range(work')
  BY CurrentIs DEF IInv
<1>2. ASSUME NEW n \in DOMAIN scopes[1], Pending(n)
      PROVE  scopes'[1][n].reg \/ Pending(n)'
  <2>1. PICK w \in Range(work) :
          w[1] \in {"var", "enum"} /\ program[w[2]].name = n
    BY <1>2 DEF Pending
  <2>2. CASE w = Current
    BY <2>1, <2>2
  <2>3. CASE w # Current
    BY <1>1, <2>1, <2>3 DEF Pending
  <2> QED BY <2>2, <2>3
<1>3. RegistersDue'
  BY <1>2 DEF NamesInv, RegistersDue
<1>4. RunLast'
  <2>1. work \in Seq(Visits) /\ Len(work) \in Nat /\ Len(work) # 0
    BY EmptySeq DEF IInv, WorkInv
  <2>2. /\ Len(work') = Len(work) - 1
        /\ \A i \in 1..(Len(work) - 1) : work'[i] = work[i + 1]
    BY <2>1
  <2>3. \A i \in 1..(Len(work) - 1) : work[i] # Run
    BY DEF NamesInv, RunLast
  <2>4. \A i \in 1..(Len(work') - 1) : work'[i] # Run
    BY <2>1, <2>2, <2>3
  <2> QED BY <2>4 DEF RunLast, Run
<1>5. NamesAgree' /\ AbortsNamed'
  BY DEF NamesAgree, AbortsNamed
<1> QED BY <1>3, <1>4, <1>5 DEF NamesInv

LEMMA GenClassNames ==
  ASSUME IInv, NamesInv, work # <<>>, GenClass
  PROVE  NamesInv'
<1>1. /\ pass = "codegen" /\ Current[1] = "class" /\ work' = Tail(work)
      /\ made' = {} /\ UNCHANGED <<program, pass, at, scopes>>
  BY DEF GenClass
<1>2. at = 0
  BY <1>1, Outside
<1> QED BY <1>1, <1>2, NamesNext

\* The global that is generated gets its register.
LEMMA GenGlobalNames ==
  ASSUME IInv, NamesInv, work # <<>>, GenGlobal
  PROVE  NamesInv'
<1> DEFINE n == program[Current[2]].name
           f == scopes[1]
           g == [f EXCEPT ![n].reg = TRUE]
<1>1. /\ pass = "codegen" /\ Current[1] \in {"var", "enum"}
      /\ work' = Tail(work) /\ made' = {}
      /\ scopes' = [scopes EXCEPT ![1][n].reg = TRUE]
      /\ UNCHANGED <<program, pass, at>>
  BY DEF GenGlobal
<1>2. at = 0 /\ Len(scopes) = 1 /\ scopes \in Seq(Scope) /\ f \in Scope
  BY <1>1, Outside DEF IInv, LevelInv
<1>3. scopes' = [scopes EXCEPT ![1] = g]
  BY <1>1
<1> HIDE DEF n, f
<1>4. DOMAIN g = DOMAIN f
  OBVIOUS
<1>5. f \in [DOMAIN f -> Entry]
  BY <1>2, ScopeIs
<1>6. \A m \in DOMAIN f : m # n => g[m] = f[m]
  OBVIOUS
<1>7. n \in DOMAIN f => g[n].reg
  <2>1. SUFFICES ASSUME n \in DOMAIN f PROVE g[n].reg
    OBVIOUS
  <2>2. g[n] = [f[n] EXCEPT !.reg = TRUE] /\ f[n] \in Entry
    BY <1>5, <2>1
  <2> QED BY <2>2 DEF Entry
<1> HIDE DEF g
<1>8. scopes'[1] = g
  BY <1>2, <1>3
<1> QED BY <1>1, <1>2, <1>4, <1>6, <1>7, <1>8, NamesNext DEF n, f

LEMMA GenLeaveNames ==
  ASSUME IInv, NamesInv, work # <<>>, GenLeave
  PROVE  NamesInv'
<1>1. /\ pass = "codegen" /\ at > 0 /\ at' = 0 /\ work' = Tail(work)
      /\ scopes' = PopScope(scopes) /\ made' = {}
      /\ UNCHANGED <<program, pass>>
  BY DEF GenLeave, InBody
<1>2. Current[1] \notin {"var", "enum"}
  BY <1>1 DEF IInv, WorkInv, Bodies, IsBody
<1>3. /\ open \in Seq(Construct) /\ scopes \in Seq(Scope)
      /\ Len(scopes) = Size(open, 1..Len(open))
  BY <1>1 DEF IInv, LevelInv, Place
<1>4. Len(scopes) \in Nat /\ Len(scopes) >= 2
  BY <1>3, SizeStrayed, SightSize
<1>5. scopes'[1] = scopes[1]
  BY <1>1, <1>3, <1>4, Below
<1> QED BY <1>1, <1>2, <1>5, NamesNext

\* The first scope of a body: what the generator has more is inherited.
LEMMA FirstScopes ==
  ASSUME Typed, NEW b \in Bodies
  PROVE  LET f == BodyScope(b, GenFields(b), TRUE)
             h == BodyScope(b, SemaFields(b), FALSE)
         IN  /\ f \in Scope /\ \A n \in DOMAIN f : f[n].reg
             /\ Shared(f, h) /\ Inherited(f, h, ClassOf(b))
<1> DEFINE f == BodyScope(b, GenFields(b), TRUE)
           h == BodyScope(b, SemaFields(b), FALSE)
           decl(n) == IF n \in BodyParams(b) THEN <<"param", n, 0>>
                      ELSE <<"field", n, FieldOwner(ClassOf(b), n)>>
<1>1. /\ f \in Scope /\ DOMAIN f = BodyParams(b) \cup GenFields(b)
      /\ \A n \in DOMAIN f : f[n].reg = TRUE /\ f[n].decl = decl(n)
  <2>1. GenFields(b) \in SUBSET GenFields(b) /\ TRUE \in BOOLEAN
    OBVIOUS
  <2>2. f \in Scope
    BY <2>1, BodyScopeIs
  <2>3. /\ DOMAIN f = BodyParams(b) \cup GenFields(b)
        /\ \A n \in DOMAIN f : f[n].reg = TRUE /\ f[n].decl = decl(n)
    BY DEF BodyScope, BodyParams
  <2> QED BY <2>2, <2>3
<1>2. /\ DOMAIN h = BodyParams(b) \cup SemaFields(b)
      /\ \A n \in DOMAIN h : h[n].decl = decl(n)
  BY DEF BodyScope, BodyParams
<1> HIDE DEF f, h
<1>3. SemaFields(b) \subseteq GenFields(b)
  BY BodyFields
<1>4. ASSUME NEW n \in DOMAIN f, n \notin DOMAIN h
      PROVE  f[n].decl[1] = "field" /\ f[n].decl[3] # ClassOf(b)
  <2>1. /\ n \in GenFields(b) /\ n \notin BodyParams(b)
        /\ n \notin SemaFields(b)
    BY <1>1, <1>2, <1>4
  <2>2. ClassOf(b) \in Classes /\ n \in AllFields(ClassOf(b))
    BY <2>1, BodyFields
  <2>3. ClassOf(b) # None
    BY <2>2, ClassesNamed, NoneIsNoName
  <2>4. n \notin Fields(ClassOf(b))
    BY <2>1, <2>3 DEF SemaFields
  <2>5. FieldOwner(ClassOf(b), n) # ClassOf(b)
    BY <2>2, <2>4, FieldOwnerIs
  <2>6. f[n].decl = <<"field", n, FieldOwner(ClassOf(b), n)>>
    BY <1>1, <2>1
  <2> QED BY <2>5, <2>6
<1>5. Shared(f, h)
  BY <1>1, <1>2, <1>3 DEF Shared
<1> QED BY <1>1, <1>4, <1>5 DEF Inherited, f, h

LEMMA AppendIs ==
  ASSUME NEW T, NEW s \in Seq(T), NEW e \in T
  PROVE  /\ Len(Append(s, e)) = Len(s) + 1
         /\ \A k \in 1..Len(s) : Append(s, e)[k] = s[k]
         /\ Append(s, e)[Len(s) + 1] = e
BY AppendProperties

LEMMA GenEnterNames ==
  ASSUME IInv, NamesInv, work # <<>>, GenEnter
  PROVE  NamesInv'
<1> DEFINE f == BodyScope(Current, GenFields(Current), TRUE)
<1>1. /\ pass = "codegen" /\ at = 0 /\ IsBody(Current) /\ at' = 1
      /\ scopes' = Append(scopes, f) /\ made' = {}
      /\ UNCHANGED <<program, bodies, pass, work, open>>
  BY DEF GenEnter
<1>2. Typed /\ Current \in Bodies
  BY <1>1, ProgramTyped, CurrentIs DEF IInv, Bodies
<1>3. open = <<>> /\ scopes \in Seq(Scope) /\ Len(scopes) = 1
  BY <1>1 DEF IInv, LevelInv
<1>4. f \in Scope /\ \A n \in DOMAIN f : f[n].reg
  BY <1>2, FirstScopes
<1>5. \A st : Start(Current, st[1]) =>
        /\ Shared(f, st[1].scopes[2])
        /\ Inherited(f, st[1].scopes[2], ClassOf(Current))
  BY <1>2, FirstScopes DEF Start
<1> HIDE DEF f
<1>6. Len(scopes') = 2 /\ scopes'[1] = scopes[1] /\ scopes'[2] = f
  <2>1. scopes' = Append(scopes, f) /\ f \in Scope
    BY <1>1, <1>4
  <2>2. /\ Len(Append(scopes, f)) = Len(scopes) + 1
        /\ \A k \in 1..Len(scopes) : Append(scopes, f)[k] = scopes[k]
        /\ Append(scopes, f)[Len(scopes) + 1] = f
    <3>1. scopes \in Seq(Scope)
      BY <1>3
    <3> QED BY <2>1, <3>1, AppendIs
  <2>3. 1 \in 1..Len(scopes) /\ Len(scopes) + 1 = 2
    BY <1>3
  <2> QED BY <2>1, <2>2, <2>3
<1>7. Current' = Current /\ ClassOf(Current)' = ClassOf(Current)
  BY <1>1, SameNames DEF Current
<1>8. RegistersDue' /\ RunLast'
  BY <1>1, <1>6 DEF NamesInv, RegistersDue, RunLast, Pending, Run
<1>9. Registered(scopes')
  BY <1>4, <1>6 DEF Registered
<1>10. LoopVars(open', scopes', bodies'[Current'])
  BY <1>1, <1>3 DEF LoopVars
<1>11. ASSUME NEW st, Complete(Current, st)'
       PROVE  Corr(scopes', st[1].scopes, ClassOf(Current))
  <2>1. Complete(Current, st)
    BY <1>1, <1>6, <1>7, <1>11, CompleteSame
  <2>2. /\ Start(Current, st[1]) /\ Len(st[1].scopes) = 2
        /\ Globals(st[1].scopes[1], DOMAIN scopes[1])
    BY <2>1 DEF Complete, Trace, Start
  <2>3. /\ Shared(f, st[1].scopes[2])
        /\ Inherited(f, st[1].scopes[2], ClassOf(Current))
    BY <1>5, <2>2
  <2>4. 3..Len(st[1].scopes) = {}
    BY <2>2
  <2> QED BY <1>6, <2>2, <2>3, <2>4 DEF Corr
<1>12. BodyNames'
  BY <1>1, <1>7, <1>9, <1>10, <1>11 DEF BodyNames
<1>13. NamesAgree' /\ AbortsNamed'
  BY <1>1 DEF NamesAgree, AbortsNamed
<1> QED BY <1>8, <1>12, <1>13 DEF NamesInv

\* The generator's work ends with the run block, and has all globals in it.
LEMMA CodegenWorkIs ==
  ASSUME Typed
  PROVE  /\ \A i \in 1..(Len(CodegenWork) - 1) : CodegenWork[i] # Run
         /\ \A d \in Defs("var") \cup Defs("enum") :
              <<program[d].kind, d, 0>> \in Range(CodegenWork)
<1> DEFINE part(k) == Visit(ClassDef(ClassOrder[k]))
           parts == [k \in 1..Len(ClassOrder) |-> part(k)]
           classes == FlattenSeq(parts)
           funcs == VisitOnly({"func"})
           globals == VisitOnly({"var", "enum"})
<1>1. ASSUME NEW d \in 1..Len(program), NEW w \in Range(Visit(d))
      PROVE  w # Run
  <2>1. w[1] \in {"var", "enum", "func", "class", "method"}
    BY VisitIs, DefinitionIs
  <2> QED BY <2>1 DEF Run
<1>2. /\ \A k \in 1..Len(ClassOrder) : ClassOrder[k] \in Classes
      /\ Len(ClassOrder) \in Nat
  BY ClassOrderType
<1>3. \A k \in 1..Len(ClassOrder) :
        ClassDef(ClassOrder[k]) \in 1..Len(program)
  BY <1>2, ClassDefIs, DefsIn
<1>4. \A k \in 1..Len(ClassOrder) :
        part(k) \in Seq(Visits) /\ Run \notin Range(part(k))
  BY <1>1, <1>3, VisitIs
<1>5. CodegenWork = classes \o funcs \o globals \o <<Run>>
  BY DEF CodegenWork
<1> HIDE DEF part
<1>6. /\ parts \in Seq(Seq(Visits)) /\ Len(parts) = Len(ClassOrder)
      /\ \A k \in 1..Len(parts) : parts[k] = part(k)
  BY <1>2, <1>4
<1> HIDE DEF parts
<1>7. classes \in Seq(Visits) /\ Run \notin Range(classes)
  BY <1>4, <1>6, FlattenRange
<1>8. /\ funcs \in Seq(Visits) /\ Run \notin Range(funcs)
      /\ globals \in Seq(Visits) /\ Run \notin Range(globals)
  BY <1>1, VisitOnlyIs
<1>9. ASSUME NEW d \in Defs("var") \cup Defs("enum")
      PROVE  <<program[d].kind, d, 0>> \in Range(globals)
  <2>1. d \in 1..Len(program) /\ program[d].kind \in {"var", "enum"}
    BY DefsIn
  <2>2. <<program[d].kind, d, 0>> \in Range(Visit(d))
    BY <2>1, VisitIs
  <2> QED BY <2>1, <2>2, VisitOnlyIs
<1> HIDE DEF classes, funcs, globals
<1> DEFINE most == classes \o funcs
           before == most \o globals
<1>10. most \in Seq(Visits) /\ Range(most) = Range(classes) \cup Range(funcs)
  BY <1>7, <1>8, RangeOfConcat
<1> HIDE DEF most
<1>11. /\ before \in Seq(Visits)
       /\ Range(before) = Range(most) \cup Range(globals)
  BY <1>8, <1>10, RangeOfConcat
<1>12. CodegenWork = before \o <<Run>>
  BY <1>5 DEF most
<1> HIDE DEF before
<1>13. /\ Len(before) \in Nat /\ Len(before \o <<Run>>) = Len(before) + 1
       /\ \A i \in 1..Len(before) : (before \o <<Run>>)[i] = before[i]
       /\ Range(before \o <<Run>>) = Range(before) \cup {Run}
  <2>1. before \in Seq(Visits) /\ <<Run>> \in Seq(Visits)
    BY <1>11, RunIs
  <2>2. Range(before \o <<Run>>) = Range(before) \cup {Run}
    <3>1. Range(before \o <<Run>>) = Range(before) \cup Range(<<Run>>)
      BY <2>1, RangeOfConcat, ZenonT(40)
    <3> QED BY <3>1, RunIs
  <2>3. Len(<<Run>>) = 1
    OBVIOUS
  <2>4. /\ Len(before \o <<Run>>) = Len(before) + Len(<<Run>>)
        /\ \A i \in 1..(Len(before) + Len(<<Run>>)) :
             (before \o <<Run>>)[i] =
               IF i <= Len(before) THEN before[i]
               ELSE <<Run>>[i - Len(before)]
    BY <2>1, ConcatProperties
  <2> QED BY <2>1, <2>2, <2>3, <2>4
<1>14. \A i \in 1..Len(before) : before[i] \in Range(before)
  BY DEF Range
<1>15. Run \notin Range(before)
  BY <1>7, <1>8, <1>10, <1>11
<1>16. ASSUME NEW i \in 1..(Len(CodegenWork) - 1) PROVE CodegenWork[i] # Run
  BY <1>12, <1>13, <1>14, <1>15
<1> QED BY <1>9, <1>11, <1>12, <1>13, <1>16

\* The generator begins: all globals are still to come.
LEMMA SemaEndNames ==
  ASSUME IInv, SemaEnd
  PROVE  NamesInv'
<1>1. /\ pass = "sema" /\ work = <<>> /\ pass' = "codegen"
      /\ work' = CodegenWork /\ UNCHANGED <<program, at, scopes, made>>
  BY DEF SemaEnd
<1>2. Typed /\ at = 0 /\ made = {} /\ DOMAIN scopes[1] \subseteq GlobalNames
  BY <1>1, ProgramTyped DEF IInv, WorkInv, EmitInv, GlobalsInv
<1>3. ASSUME NEW n \in DOMAIN scopes[1]
      PROVE  Pending(n)'
  <2>1. PICK d \in Defs("var") \cup Defs("enum") : program[d].name = n
    BY <1>2 DEF GlobalNames
  <2>2. program[d].kind \in {"var", "enum"}
    BY <2>1, DefsIn
  <2> DEFINE w == <<program[d].kind, d, 0>>
  <2>3. w \in Range(work') /\ w[1] \in {"var", "enum"} /\ w[2] = d
    BY <1>1, <1>2, <2>2, CodegenWorkIs
  <2> HIDE DEF w
  <2> QED BY <1>1, <2>1, <2>3 DEF Pending
<1>4. RunLast'
  <2>1. \A i \in 1..(Len(work') - 1) : work'[i] # Run
    BY <1>1, <1>2, CodegenWorkIs
  <2> QED BY <2>1 DEF RunLast, Run
<1> QED BY <1>1, <1>2, <1>3, <1>4
        DEF NamesInv, RegistersDue, NamesAgree, AbortsNamed

\* Before and behind the generator nothing is resolved.
LEMMA NothingMade ==
  ASSUME IInv', \/ pass' \in {"collect", "sema", "rejected"}
                \/ pass' = "done" /\ made' = {}
  PROVE  NamesInv'
<1>1. made' = {}
  BY DEF IInv, EmitInv
<1> QED BY <1>1 DEF NamesInv, NamesAgree, AbortsNamed

LEMMA StutterNames == ASSUME NamesInv, UNCHANGED vars PROVE NamesInv'
<1>1. UNCHANGED <<program, bodies, pass, work, at, open, scopes, layouts,
                  made>>
  BY DEF vars, emitted
<1>2. /\ Current' = Current /\ ClassOf(Current)' = ClassOf(Current)
      /\ bodies'[Current'] = bodies[Current]
      /\ \A b, st : Complete(b, st)' <=> Complete(b, st)
  BY <1>1, SameNames, CompleteSame DEF Current
<1>3. /\ RegistersDue' <=> RegistersDue
      /\ RunLast' <=> RunLast
  BY <1>1 DEF RegistersDue, RunLast, Pending, Run
<1>4. BodyNames => BodyNames'
  <2>1. Registered(scopes') <=> Registered(scopes)
    BY <1>1
  <2>2. LoopVars(open', scopes', bodies'[Current'])
          <=> LoopVars(open, scopes, bodies[Current])
    BY <1>1, <1>2
  <2>3. ASSUME BodyNames, NEW st, Complete(Current, st)'
        PROVE  Corr(scopes', st[at'].scopes, ClassOf(Current)')
    <3>1. Complete(Current, st)
      BY <1>2, <2>3
    <3> QED BY <1>1, <1>2, <2>3, <3>1 DEF BodyNames
  <2> QED BY <1>1, <1>2, <2>1, <2>2, <2>3 DEF BodyNames
<1>5. NamesAgree => NamesAgree'
  BY <1>1, <1>2 DEF NamesAgree, Run
<1>6. AbortsNamed => AbortsNamed'
  BY <1>1, AbortsAtSame DEF AbortsNamed
<1> QED BY <1>1, <1>3, <1>4, <1>5, <1>6 DEF NamesInv
-----------------------------------------------------------------------------
(***************************************************************************)
(* Names in every state.                                                   *)
(***************************************************************************)
LEMMA GenActionNames ==
  ASSUME IInv, IInv', NamesInv, work # <<>>,
         \/ GenClass \/ GenGlobal \/ GenEnter \/ GenLeave
         \/ GenUse \/ GenDecl \/ GenIf \/ GenStray \/ GenWhile \/ GenSwitch
         \/ GenFor \/ GenForIn \/ GenCase \/ GenClose \/ GenJump
         \/ GenCallOrNew \/ GenBuiltin \/ GenField
  PROVE  NamesInv'
<1>1. CASE GenClass \/ GenGlobal \/ GenEnter \/ GenLeave
  BY <1>1, GenClassNames, GenGlobalNames, GenEnterNames, GenLeaveNames
<1>2. CASE GenIf \/ GenStray \/ GenWhile \/ GenSwitch
  BY <1>2, GenOpenNames DEF GenIf, GenStray, GenWhile, GenSwitch
<1>3. CASE GenFor \/ GenForIn
  BY <1>3, GenLoopNames, KindsAre DEF GenFor, GenForIn
<1>4. CASE GenUse \/ GenDecl \/ GenCase \/ GenClose
  BY <1>4, GenUseNames, GenDeclNames, GenCaseNames, GenCloseNames
<1>5. CASE GenJump \/ GenCallOrNew
  BY <1>5, GenJumpNames, GenCallOrNewNames
<1>6. CASE GenBuiltin \/ GenField
  BY <1>6, GenBuiltinNames, GenFieldNames
<1> QED BY <1>1, <1>2, <1>3, <1>4, <1>5, <1>6

\* The analyser stays the analyser, or rejects.
LEMMA SemaPass ==
  ASSUME \/ SemaVar \/ SemaClass \/ SemaEnter \/ SemaLeave
         \/ \E n \in Uses : SemaUse(n)
         \/ \E n \in words.names : \E u \in Operand(n) : SemaDecl(n, u)
         \/ SemaIf \/ SemaStray \/ SemaWhile \/ SemaSwitch
         \/ \E n \in words.names : \E u \in Operand(n) : SemaFor(n, u)
         \/ \E n, u \in words.names : SemaForIn(n, u)
         \/ SemaCase \/ SemaClose
         \/ \E kind \in {"break", "continue"} : SemaJump(kind)
         \/ \E u \in {None} \cup Uses : SemaReturn(u)
         \/ \E call \in words.calls : SemaCall(call[1], call[2], call[3])
         \/ \E n \in words.args : SemaBuiltin(n)
         \/ \E field \in words.fields : SemaField(field[1], field[2])
  PROVE  pass' \in {"sema", "rejected"}
<1>1. ASSUME pass = "sema", NEW item, NEW cost, Write(item, cost)
      PROVE  pass' = "sema"
  BY <1>1 DEF Write
<1>2. CASE SemaVar \/ SemaClass \/ SemaEnter \/ SemaLeave
  BY <1>2 DEF SemaVar, SemaClass, SemaEnter, SemaLeave, Reject
<1>3. CASE SemaIf \/ SemaStray \/ SemaWhile \/ SemaSwitch
  BY <1>1, <1>3 DEF SemaIf, SemaStray, SemaWhile, SemaSwitch, SemaOpen,
     Analysing
<1>4. CASE \/ \E n \in words.names : \E u \in Operand(n) : SemaFor(n, u)
           \/ \E n, u \in words.names : SemaForIn(n, u)
  BY <1>1, <1>4 DEF SemaFor, SemaForIn, SemaLoop, Analysing, Reject
<1>5. CASE SemaCase \/ SemaClose
  BY <1>1, <1>5 DEF SemaCase, SemaClose, Analysing
<1>6. CASE \/ \E n \in Uses : SemaUse(n)
           \/ \E n \in words.names : \E u \in Operand(n) : SemaDecl(n, u)
  BY <1>1, <1>6 DEF SemaUse, SemaDecl, Analysing, Reject
<1>7. CASE \/ \E kind \in {"break", "continue"} : SemaJump(kind)
           \/ \E u \in {None} \cup Uses : SemaReturn(u)
  BY <1>1, <1>7 DEF SemaJump, SemaReturn, Analysing, Reject
<1>8. CASE \E call \in words.calls : SemaCall(call[1], call[2], call[3])
  BY <1>1, <1>8 DEF SemaCall, Analysing, Reject
<1>9. CASE \/ \E n \in words.args : SemaBuiltin(n)
           \/ \E field \in words.fields : SemaField(field[1], field[2])
  BY <1>1, <1>9 DEF SemaBuiltin, SemaField, Analysing, Reject
<1> QED BY <1>2, <1>3, <1>4, <1>5, <1>6, <1>7, <1>8, <1>9

LEMMA NamesNextInv ==
  ASSUME IInv, IInv', NamesInv, [Next]_vars
  PROVE  NamesInv'
<1>1. CASE UNCHANGED vars
  BY <1>1, StutterNames
<1>2. CASE CollectGlobals \/ GenEnd
  <2>1. \/ pass' \in {"collect", "sema", "rejected"}
        \/ pass' = "done" /\ made' = {}
    BY <1>2 DEF CollectGlobals, GenEnd, Reject
  <2> QED BY <2>1, NothingMade
<1>3. CASE SemaEnd
  BY <1>3, SemaEndNames
<1>4. CASE /\ work # <<>>
           /\ \/ GenClass \/ GenGlobal \/ GenEnter \/ GenLeave
              \/ GenUse \/ GenDecl \/ GenIf \/ GenStray \/ GenWhile
              \/ GenSwitch \/ GenFor \/ GenForIn \/ GenCase \/ GenClose
              \/ GenJump \/ GenCallOrNew \/ GenBuiltin \/ GenField
  BY <1>4, GenActionNames
<1>5. CASE \/ SemaVar \/ SemaClass \/ SemaEnter \/ SemaLeave
           \/ \E n \in Uses : SemaUse(n)
           \/ \E n \in words.names : \E u \in Operand(n) : SemaDecl(n, u)
           \/ SemaIf \/ SemaStray \/ SemaWhile \/ SemaSwitch
           \/ \E n \in words.names : \E u \in Operand(n) : SemaFor(n, u)
           \/ \E n, u \in words.names : SemaForIn(n, u)
           \/ SemaCase \/ SemaClose
           \/ \E kind \in {"break", "continue"} : SemaJump(kind)
           \/ \E u \in {None} \cup Uses : SemaReturn(u)
           \/ \E call \in words.calls : SemaCall(call[1], call[2], call[3])
           \/ \E n \in words.args : SemaBuiltin(n)
           \/ \E field \in words.fields : SemaField(field[1], field[2])
  BY <1>5, SemaPass, NothingMade
<1> QED BY <1>1, <1>2, <1>3, <1>4, <1>5 DEF Next

LEMMA NamesOK == Spec => []NamesInv
<1>1. Init => NamesInv
  BY DEF Init, NamesInv, NamesAgree, AbortsNamed
<1>2. IInv /\ IInv' /\ NamesInv /\ [Next]_vars => NamesInv'
  BY NamesNextInv
<1> QED BY <1>1, <1>2, InvOK, PTL DEF Spec

\* The generator, with its own order and its own scopes, finds for each name
\* the declaration that checkIdentifier found, but in the three places named
\* there, and finds it with its register, but a global in a function.
THEOREM NamesResolve == Spec => []NamesAgree
<1>1. NamesInv => NamesAgree
  BY DEF NamesInv
<1> QED BY <1>1, NamesOK, PTL

-----------------------------------------------------------------------------
(***************************************************************************)
(* Sequences in which some things come behind others: where <<x, y>> is in *)
(* N, and y neither in R nor in front of x, s is not led.                  *)
(***************************************************************************)
Led(s, R, N) ==
  \A i \in 1..Len(s) : \A y :
    <<s[i], y>> \in N => y \in R \/ \E k \in 1..(i-1) : s[k] = y

LEMMA LedConcat ==
  ASSUME NEW T, NEW s \in Seq(T), NEW t \in Seq(T), NEW R, NEW N,
         Led(s, R, N), Led(t, R \cup Range(s), N)
  PROVE  Led(s \o t, R, N)
<1> DEFINE q == s \o t
<1>1. /\ Len(s) \in Nat /\ Len(t) \in Nat /\ Len(q) = Len(s) + Len(t)
      /\ \A i \in 1..(Len(s) + Len(t)) :
           q[i] = IF i <= Len(s) THEN s[i] ELSE t[i - Len(s)]
  BY ConcatProperties
<1> HIDE DEF q
<1>2. \A k \in 1..Len(s) : k \in 1..(Len(s) + Len(t)) /\ q[k] = s[k]
  BY <1>1
<1>3. ASSUME NEW i \in 1..Len(q), NEW y, <<q[i], y>> \in N, y \notin R
      PROVE  \E k \in 1..(i-1) : q[k] = y
  <2>1. CASE i <= Len(s)
    <3>1. i \in 1..Len(s) /\ q[i] = s[i]
      BY <1>1, <2>1
    <3>2. PICK k \in 1..(i-1) : s[k] = y
      BY <1>3, <3>1 DEF Led
    <3>3. k \in 1..Len(s)
      BY <3>1
    <3> QED BY <1>2, <3>2, <3>3
  <2>2. CASE ~(i <= Len(s))
    <3> DEFINE j == i - Len(s)
    <3>1. j \in 1..Len(t) /\ q[i] = t[j] /\ i \in Nat
      BY <1>1, <2>2
    <3>2. CASE \E k \in 1..(j-1) : t[k] = y
      <4>1. PICK k \in 1..(j-1) : t[k] = y
        BY <3>2
      <4>2. /\ Len(s) + k \in 1..(i-1) /\ ~(Len(s) + k <= Len(s))
            /\ Len(s) + k \in 1..(Len(s) + Len(t)) /\ Len(s) + k - Len(s) = k
        BY <1>1, <3>1
      <4>3. q[Len(s) + k] = y
        BY <1>1, <4>1, <4>2
      <4> QED BY <4>2, <4>3
    <3>3. CASE y \in Range(s)
      <4>1. PICK k \in 1..Len(s) : s[k] = y
        BY <3>3 DEF Range
      <4>2. k \in 1..(i-1)
        BY <1>1, <2>2, <3>1
      <4> QED BY <1>2, <4>1, <4>2
    <3>4. y \in R \cup Range(s) \/ \E k \in 1..(j-1) : t[k] = y
      <4> HIDE DEF j
      <4> QED BY <1>3, <3>1 DEF Led
    <3> QED BY <1>3, <3>2, <3>3, <3>4
  <2> QED BY <2>1, <2>2
<1>4. Led(q, R, N)
  BY <1>3 DEF Led
<1> QED BY <1>4 DEF q

\* With one thing more in front, the rest of a led sequence is led.
LEMMA LedTail ==
  ASSUME NEW T, NEW s \in Seq(T), s # <<>>, NEW R, NEW N, Led(s, R, N)
  PROVE  Led(Tail(s), R \cup {Head(s)}, N)
<1> DEFINE q == Tail(s)
<1>1. /\ Len(s) \in Nat \ {0} /\ Len(q) = Len(s) - 1 /\ Head(s) = s[1]
      /\ \A i \in 1..Len(q) : q[i] = s[i+1]
  BY EmptySeq, HeadTailProperties
<1> HIDE DEF q
<1>2. ASSUME NEW i \in 1..Len(q), NEW y, <<q[i], y>> \in N, y \notin R,
             y # Head(s)
      PROVE  \E k \in 1..(i-1) : q[k] = y
  <2>1. i + 1 \in 1..Len(s) /\ q[i] = s[i+1] /\ i + 1 - 1 = i /\ i \in Nat
    BY <1>1
  <2> DEFINE j == i + 1
  <2>2. j \in 1..Len(s) /\ <<s[j], y>> \in N
    BY <1>2, <2>1
  <2>3. j - 1 = i
    BY <2>1
  <2> HIDE DEF j
  <2>4. PICK k \in 1..i : s[k] = y
    BY <1>2, <2>2, <2>3 DEF Led
  <2>5. k # 1
    BY <1>1, <1>2, <2>4
  <2>6. k - 1 \in 1..(i-1) /\ k - 1 \in 1..Len(q) /\ (k - 1) + 1 = k
    BY <1>1, <2>1, <2>5
  <2>7. q[k - 1] = s[k]
    BY <1>1, <2>6
  <2> QED BY <2>4, <2>6, <2>7
<1>3. Led(q, R \cup {Head(s)}, N)
  BY <1>2 DEF Led
<1> QED BY <1>3 DEF q

LEMMA LedBoth ==
  ASSUME NEW T, NEW s \in Seq(T), NEW t \in Seq(T), NEW R, NEW N,
         Led(s, R, N), \A Q : Led(t, Q, N)
  PROVE  /\ s \o t \in Seq(T) /\ Led(s \o t, R, N)
         /\ Range(s) \subseteq Range(s \o t)
<1>1. s \o t \in Seq(T)
  BY ConcatProperties
<1>2. Led(t, R \cup Range(s), N)
  OBVIOUS
<1>3. Led(s \o t, R, N)
  BY <1>2, LedConcat
<1>4. Range(s \o t) = Range(s) \cup Range(t)
  BY RangeOfConcat
<1> QED BY <1>1, <1>3, <1>4

LEMMA LedMore ==
  ASSUME NEW s, NEW R, NEW Q, NEW N, Led(s, R, N),
         \A i \in 1..Len(s) : \A y \in R : <<s[i], y>> \in N => y \in Q
  PROVE  Led(s, Q, N)
BY DEF Led

\* What is in the first n of some sequences.
Ahead(seqs, n) == UNION {Range(seqs[j]) : j \in 1..n}

LEMMA FlatLed ==
  ASSUME NEW T, NEW seqs \in Seq(Seq(T)), NEW R, NEW N,
         \A i \in 1..Len(seqs) : Led(seqs[i], R \cup Ahead(seqs, i - 1), N)
  PROVE  Led(FlattenSeq(seqs), R, N)
<1>1. CASE Len(seqs) = 0
  <2>1. FlattenSeq(seqs) = <<>>
    BY <1>1, FlattenIs
  <2> QED BY <2>1 DEF Led
<1>2. CASE Len(seqs) # 0
  <2>1. PICK flat : /\ FlattenSeq(seqs) = flat[Len(seqs)]
                    /\ Flat(seqs, Len(seqs), flat)
    BY <1>2, FlattenIs
  <2> DEFINE Good(n) ==
               /\ flat[n] \in Seq(T)
               /\ Range(flat[n]) = Ahead(seqs, n)
               /\ Led(flat[n], R, N)
             S == {n \in Nat : n + 1 <= Len(seqs) => Good(n + 1)}
  <2>2. 0 \in S
    <3>1. Len(seqs) \in Nat /\ 1 \in 1..Len(seqs)
      BY <1>2
    <3>2. flat[1] = seqs[1] /\ seqs[1] \in Seq(T)
      BY <2>1, <3>1 DEF Flat
    <3>3. Ahead(seqs, 1) = Range(seqs[1])
      BY DEF Ahead
    <3>4. Ahead(seqs, 1 - 1) = {}
      BY DEF Ahead
    <3>5. Led(seqs[1], R, N)
      <4>1. Led(seqs[1], R \cup Ahead(seqs, 1 - 1), N)
        BY <3>1
      <4>2. R \cup Ahead(seqs, 1 - 1) = R
        BY <3>4
      <4> QED BY <4>1, <4>2
    <3>6. Good(1)
      BY <3>2, <3>3, <3>5
    <3> QED BY <3>6
  <2>3. ASSUME NEW n \in S PROVE n + 1 \in S
    <3>1. SUFFICES ASSUME n + 1 + 1 <= Len(seqs) PROVE Good(n + 1 + 1)
      OBVIOUS
    <3> DEFINE m == n + 1
               q == m + 1
    <3>2. /\ m \in Nat /\ q \in 1..Len(seqs) /\ q # 1
          /\ q - 1 = m /\ m <= Len(seqs) /\ 1..q = (1..m) \cup {q}
      BY <3>1
    <3>3. Good(m)
      BY <3>2
    <3> HIDE DEF m, q
    <3>4. flat[q] = flat[m] \o seqs[q] /\ seqs[q] \in Seq(T)
      <4>1. \A i \in 1..Len(seqs) :
              flat[i] = IF i = 1 THEN seqs[i] ELSE flat[i-1] \o seqs[i]
        BY <2>1 DEF Flat
      <4>2. flat[q] = IF q = 1 THEN seqs[q] ELSE flat[q-1] \o seqs[q]
        BY <3>2, <4>1
      <4>3. flat[q] = flat[m] \o seqs[q]
        BY <3>2, <4>2
      <4> QED BY <3>2, <4>3
    <3>5. Led(seqs[q], R \cup Range(flat[m]), N)
      <4>1. Led(seqs[q], R \cup Ahead(seqs, q - 1), N)
        BY <3>2
      <4> QED BY <3>2, <3>3, <4>1
    <3>6. flat[m] \in Seq(T) /\ Led(flat[m], R, N)
      BY <3>3
    <3>7. Led(flat[m] \o seqs[q], R, N)
      BY <3>4, <3>5, <3>6, LedConcat
    <3>8. /\ flat[q] \in Seq(T)
          /\ Range(flat[q]) = Range(flat[m]) \cup Range(seqs[q])
      BY <3>4, <3>6, RangeOfConcat
    <3>9. Ahead(seqs, q) = Ahead(seqs, m) \cup Range(seqs[q])
      BY <3>2 DEF Ahead
    <3>10. Good(q)
      BY <3>3, <3>4, <3>7, <3>8, <3>9
    <3> QED BY <3>10 DEF m, q
  <2>4. S = Nat
    BY <2>2, <2>3, Induction
  <2>5. Len(seqs) - 1 \in S /\ Len(seqs) - 1 + 1 = Len(seqs)
    <3>1. Len(seqs) \in Nat /\ Len(seqs) - 1 \in Nat
      BY <1>2
    <3> HIDE DEF S
    <3> QED BY <2>4, <3>1
  <2>6. Good(Len(seqs))
    BY <2>5
  <2> QED BY <2>1, <2>6
<1> QED BY <1>1, <1>2
-----------------------------------------------------------------------------
(***************************************************************************)
(* The order of the classes: all of them, each behind its parent.          *)
(***************************************************************************)
AllSound == \A d \in Defs("class") : Sound(d)

\* No class is its own ancestor.
LEMMA NoReturn ==
  ASSUME Typed, AllSound, NEW c \in Classes,
         NEW i \in 1..Len(Lineage(c)), NEW j \in 1..Len(Lineage(c)), i < j
  PROVE  Lineage(c)[i] # Lineage(c)[j]
<1> DEFINE s == Lineage(c)
           e == s[i]
           t == Lineage(e)
           n == Len(program)
<1>1. SUFFICES ASSUME s[i] = s[j] PROVE FALSE
  OBVIOUS
<1>2. /\ s \in Seq(Classes) /\ Len(s) <= n + 1 /\ n \in Nat
      /\ \A k \in 1..(Len(s) - 1) : s[k+1] = Parent(s[k])
  BY LineageIs DEF Typed
<1>3. e \in Classes
  BY <1>2
<1>4. /\ t \in Seq(Classes) /\ t # <<>> /\ t[1] = e
      /\ \A k \in 1..(Len(t) - 1) : t[k+1] = Parent(t[k])
      /\ Len(t) = n + 1 \/ Parent(Last(t)) \notin Classes
  BY <1>2, <1>3, LineageIs
<1>5. /\ Len(t) \in Nat \ {0} /\ Last(t) = t[Len(t)] /\ Len(s) \in Nat
      /\ i \in Nat \ {0} /\ j \in Nat \ {0}
      /\ i <= Len(s) /\ j <= Len(s) /\ i < j
  BY <1>2, <1>4, EmptySeq DEF Last
<1>6. e = s[i] /\ e = s[j]
  BY <1>1
<1>7. program[ClassDef(e)].name = e /\ ClassDef(e) \in Defs("class")
  BY <1>3, ClassDefIs
<1>8. \A k \in 2..Len(t) : Parent(e) = None \/ t[k] # e
  BY <1>7 DEF AllSound, Sound, Parent
<1> HIDE DEF s, e, t, n
<1> DEFINE S == {k \in Nat : k + 1 <= Len(t) /\ i + k <= Len(s) =>
                               t[k+1] = s[i+k]}
<1>9. S = Nat
  <2>1. 0 \in S
    <3>1. 0 + 1 = 1 /\ i + 0 = i
      BY <1>5
    <3>2. t[1] = s[i]
      BY <1>4, <1>6
    <3> QED BY <3>1, <3>2
  <2>2. ASSUME NEW k \in S PROVE k + 1 \in S
    <3>1. SUFFICES ASSUME k + 1 + 1 <= Len(t), i + (k + 1) <= Len(s)
                   PROVE  t[k+1+1] = s[i+(k+1)]
      OBVIOUS
    <3>2. /\ k \in Nat /\ k + 1 \in 1..(Len(t) - 1)
          /\ i + k \in 1..(Len(s) - 1)
          /\ k + 1 <= Len(t) /\ i + k <= Len(s) /\ i + (k + 1) = (i + k) + 1
      BY <1>5, <3>1
    <3>3. t[k+1] = s[i+k]
      BY <3>2
    <3>4. t[k+1+1] = Parent(t[k+1]) /\ s[(i+k)+1] = Parent(s[i+k])
      BY <1>2, <1>4, <3>2
    <3> QED BY <3>2, <3>3, <3>4
  <2> QED BY <2>1, <2>2, Induction
<1>10. Len(t) > j - i
  <2>1. SUFFICES ASSUME Len(t) <= j - i PROVE FALSE
    BY <1>5
  <2>2. Len(t) # n + 1
    BY <1>2, <1>5, <2>1
  <2> DEFINE k == Len(t) - 1
             l == i + k
  <2>3. /\ k \in Nat /\ k + 1 = Len(t) /\ l \in 1..(Len(s) - 1)
        /\ l <= Len(s) /\ l + 1 \in 1..Len(s)
    BY <1>5, <2>1
  <2>4. t[k+1] = s[l]
    <3> HIDE DEF k
    <3>1. k \in S
      BY <1>9, <2>3
    <3> QED BY <2>3, <3>1
  <2>5. Last(t) = s[l]
    BY <1>5, <2>3, <2>4
  <2> HIDE DEF k, l
  <2>6. s[l+1] = Parent(s[l]) /\ s[l+1] \in Classes
    BY <1>2, <2>3
  <2> QED BY <1>4, <2>2, <2>5, <2>6
<1>11. t[j-i+1] = e /\ j - i + 1 \in 2..Len(t)
  <2>1. /\ j - i \in Nat /\ i + (j - i) = j /\ j <= Len(s)
        /\ j - i + 1 <= Len(t) /\ j - i + 1 \in 2..Len(t)
    BY <1>5, <1>10
  <2> DEFINE k == j - i
  <2> HIDE DEF k
  <2>2. k \in S
    BY <1>9, <2>1 DEF k
  <2>3. t[k+1] = s[i+k]
    BY <2>1, <2>2 DEF k
  <2> QED BY <1>6, <2>1, <2>3 DEF k
<1>12. Parent(e) = None
  BY <1>8, <1>11
<1>13. s[i+1] = None /\ s[i+1] \in Classes
  <2>1. i \in 1..(Len(s) - 1) /\ i + 1 \in 1..Len(s)
    BY <1>5
  <2>2. s[i+1] = Parent(s[i]) /\ s[i+1] \in Classes
    BY <1>2, <2>1
  <2>3. Parent(s[i]) = None
    BY <1>6, <1>12
  <2> QED BY <2>2, <2>3
<1> QED BY <1>13, ClassesNamed, NoneIsNoName

\* So a lineage goes on to a class without a parent in the program.
LEMMA LineageEnds ==
  ASSUME Typed, AllSound, NEW c \in Classes
  PROVE  Parent(Last(Lineage(c))) \notin Classes
<1> DEFINE s == Lineage(c)
           n == Len(program)
<1>1. /\ s \in Seq(Classes) /\ n \in Nat
      /\ Len(s) = n + 1 \/ Parent(Last(s)) \notin Classes
  BY LineageIs DEF Typed
<1>2. SUFFICES ASSUME Len(s) = n + 1 PROVE FALSE
  BY <1>1
<1>3. \A i \in 1..(n+1) : s[i] \in Classes
  BY <1>1, <1>2
<1>4. \A i \in 1..(n+1), j \in 1..(n+1) : i < j => s[i] # s[j]
  BY <1>2, NoReturn
<1> HIDE DEF s
<1> DEFINE f == [i \in 1..(n+1) |-> ClassDef(s[i])]
<1>5. \A i \in 1..(n+1) : /\ ClassDef(s[i]) \in 1..n
                          /\ program[ClassDef(s[i])].name = s[i]
  BY <1>3, ClassDefIs, DefsIn
<1>6. f \in [1..(n+1) -> 1..n]
  BY <1>5
<1> HIDE DEF n
<1>7. /\ IsFiniteSet(1..n) /\ IsFiniteSet(1..(n+1))
      /\ Cardinality(1..n) < Cardinality(1..(n+1))
  <2>1. Cardinality(1..n) = n /\ Cardinality(1..(n+1)) = n + 1
    BY <1>1, FS_Interval
  <2>2. IsFiniteSet(1..n) /\ IsFiniteSet(1..(n+1))
    BY <1>1, FS_Interval
  <2> QED BY <1>1, <2>1, <2>2
<1>8. \E x, y \in 1..(n+1) : x # y /\ f[x] = f[y]
  <2> DEFINE A == 1..(n+1)
             B == 1..n
  <2>1. /\ IsFiniteSet(A) /\ IsFiniteSet(B) /\ f \in [A -> B]
        /\ Cardinality(B) < Cardinality(A)
    BY <1>6, <1>7
  <2> HIDE DEF A, B, f
  <2>2. \E x, y \in A : x # y /\ f[x] = f[y]
    BY <2>1, FS_PigeonHole
  <2> QED BY <2>2 DEF A
<1>9. PICK x \in 1..(n+1), y \in 1..(n+1) : x # y /\ f[x] = f[y]
  BY <1>8
<1>10. s[x] = s[y]
  BY <1>5, <1>9
<1>11. x < y \/ y < x
  BY <1>1, <1>9
<1> QED BY <1>4, <1>10, <1>11

Ancestry(c) == Reverse(Lineage(c))
LEMMA AncestryIs ==
  ASSUME Typed, AllSound, NEW c \in Classes
  PROVE  LET a == Ancestry(c)
         IN  /\ a \in Seq(Classes) /\ c \in Range(a)
             /\ \A k \in 1..Len(a) : Parent(a[k]) \in Classes =>
                  k # 1 /\ a[k-1] = Parent(a[k])
<1> DEFINE s == Lineage(c)
           a == Ancestry(c)
           l == Len(s)
<1>1. /\ s \in Seq(Classes) /\ s # <<>> /\ s[1] = c
      /\ \A k \in 1..(l - 1) : s[k+1] = Parent(s[k])
      /\ Parent(Last(s)) \notin Classes
  BY LineageIs, LineageEnds DEF Typed
<1>2. l \in Nat \ {0} /\ Last(s) = s[l]
  BY <1>1, EmptySeq DEF Last
<1>3. a = [i \in 1..l |-> s[(l - i) + 1]]
  BY DEF Reverse, Ancestry
<1> HIDE DEF s, a, l
<1>4. \A i \in 1..l : (l - i) + 1 \in 1..l
  BY <1>2
<1>5. l = Len(s)
  BY DEF l
<1>6. a \in Seq(Classes) /\ Len(a) = l /\ \A i \in 1..l : a[i] = s[(l - i) + 1]
  BY <1>1, <1>2, <1>3, <1>4, <1>5, SMTT(20)
<1>7. c \in Range(a)
  <2>1. l \in 1..l /\ (l - l) + 1 = 1
    BY <1>2
  <2>2. a[l] = c
    BY <1>1, <1>6, <2>1
  <2> QED BY <1>6, <2>1, <2>2 DEF Range
<1>8. ASSUME NEW k \in 1..l, Parent(a[k]) \in Classes
      PROVE  k # 1 /\ a[k-1] = Parent(a[k])
  <2>1. k # 1
    <3>1. (l - 1) + 1 = l /\ 1 \in 1..l
      BY <1>2
    <3>2. a[1] = Last(s)
      BY <1>2, <1>6, <3>1
    <3> QED BY <1>1, <1>8, <3>2
  <2> DEFINE i == (l - k) + 1
  <2>2. /\ i \in 1..(l - 1) /\ k - 1 \in 1..l /\ (l - (k - 1)) + 1 = i + 1
        /\ k \in 1..l
    BY <1>2, <2>1
  <2>3. a[k] = s[i]
    BY <1>6
  <2> HIDE DEF i
  <2>4. a[k-1] = s[i+1] /\ s[i+1] = Parent(s[i])
    BY <1>1, <1>6, <2>2
  <2> QED BY <2>1, <2>3, <2>4
<1> QED BY <1>6, <1>7, <1>8 DEF a

Parents == {e \in Classes \X Classes : e[2] = Parent(e[1])}

LEMMA ClassOrderIs ==
  ASSUME Typed, AllSound
  PROVE  Classes \subseteq Range(ClassOrder) /\ Led(ClassOrder, {}, Parents)
<1> DEFINE anc(d) == Ancestry(program[d].name)
           before(d) ==
             UNION {Range(anc(e)) : e \in Defs("class") \cap 1..(d - 1)}
           only(c, S) == IF c \in S THEN <<c>> ELSE <<>>
           emit(d, k) == only(anc(d)[k], Classes \ before(d))
           parts(d) == [k \in 1..Len(anc(d)) |-> emit(d, k)]
           part(d) == IF d \in Defs("class") THEN FlattenSeq(parts(d))
                      ELSE <<>>
           seqs == [d \in 1..Len(program) |-> part(d)]
<1>1. ClassOrder = FlattenSeq(seqs)
  BY DEF ClassOrder, Ancestry
<1>2. \A d \in Defs("class") :
        /\ anc(d) \in Seq(Classes) /\ program[d].name \in Range(anc(d))
        /\ d \in 1..Len(program)
        /\ \A k \in 1..Len(anc(d)) : Parent(anc(d)[k]) \in Classes =>
             k # 1 /\ anc(d)[k-1] = Parent(anc(d)[k])
  <2> TAKE d \in Defs("class")
  <2>1. program[d].name \in Classes /\ d \in 1..Len(program)
    BY DefsIn DEF Classes
  <2> HIDE DEF anc
  <2>2. LET a == Ancestry(program[d].name)
        IN  /\ a \in Seq(Classes) /\ program[d].name \in Range(a)
            /\ \A k \in 1..Len(a) : Parent(a[k]) \in Classes =>
                 k # 1 /\ a[k-1] = Parent(a[k])
    BY <2>1, AncestryIs
  <2> QED BY <2>1, <2>2 DEF anc
<1> HIDE DEF anc, before
<1>3. ASSUME NEW d \in Defs("class")
      PROVE  /\ parts(d) \in Seq(Seq(Classes)) /\ Len(parts(d)) = Len(anc(d))
             /\ \A k \in 1..Len(anc(d)) :
                  parts(d)[k] = IF anc(d)[k] \in before(d) THEN <<>>
                                ELSE <<anc(d)[k]>>
  <2>1. \A k \in 1..Len(anc(d)) :
          /\ anc(d)[k] \in Classes /\ emit(d, k) \in Seq(Classes)
          /\ emit(d, k) = IF anc(d)[k] \in before(d) THEN <<>>
                          ELSE <<anc(d)[k]>>
    BY <1>2
  <2>2. Len(anc(d)) \in Nat
    BY <1>2
  <2> HIDE DEF emit
  <2> QED BY <2>1, <2>2
<1> HIDE DEF parts
<1>4. ASSUME NEW d \in Defs("class")
      PROVE  /\ part(d) \in Seq(Classes)
             /\ \A x \in Range(anc(d)) : x \notin before(d) =>
                                           x \in Range(part(d))
  <2>1. part(d) \in Seq(Classes) /\ part(d) = FlattenSeq(parts(d))
    BY <1>3, FlattenRange
  <2>2. ASSUME NEW x \in Range(anc(d)), x \notin before(d)
        PROVE  x \in Range(FlattenSeq(parts(d)))
    <3>1. PICK k \in 1..Len(anc(d)) : anc(d)[k] = x
      BY <1>2 DEF Range
    <3>2. parts(d)[k] = <<x>> /\ k \in 1..Len(parts(d))
      BY <1>3, <2>2, <3>1
    <3>3. x \in Range(parts(d)[k])
      BY <3>2 DEF Range
    <3> QED BY <1>3, <3>2, <3>3, FlattenRange
  <2> QED BY <2>1, <2>2
<1> HIDE DEF part
<1>5. /\ seqs \in Seq(Seq(Classes)) /\ Len(seqs) = Len(program)
      /\ Len(program) \in Nat
      /\ \A d \in 1..Len(program) : seqs[d] = part(d)
  <2>1. Len(program) \in Nat
    BY DEF Typed
  <2>2. \A d \in 1..Len(program) : part(d) \in Seq(Classes)
    <3>1. \A d : d \notin Defs("class") => part(d) = <<>>
      BY DEF part
    <3>2. <<>> \in Seq(Classes)
      OBVIOUS
    <3>3. \A d \in Defs("class") : part(d) \in Seq(Classes)
      BY <1>4
    <3> QED BY <3>1, <3>2, <3>3
  <2> QED BY <2>1, <2>2
<1> HIDE DEF seqs
<1>6. ASSUME NEW d \in Defs("class"), NEW x \in Range(anc(d))
      PROVE  \E e \in 1..d : e \in 1..Len(program) /\ x \in Range(seqs[e])
  <2> DEFINE S == {e \in Defs("class") : x \in Range(anc(e))}
  <2>1. S \in SUBSET Nat /\ d \in S
    BY <1>2, <1>5
  <2>2. PICK e \in S : \A f \in S : e <= f
    BY <2>1, LeastNumber
  <2>3. x \notin before(e)
    <3>1. ASSUME NEW f \in Defs("class") \cap 1..(e - 1)
          PROVE  x \notin Range(anc(f))
      <4>1. e \in Nat /\ f \in Nat /\ ~(e <= f)
        BY <2>1, <2>2
      <4> QED BY <2>2, <4>1
    <3> QED BY <3>1 DEF before
  <2>4. x \in Range(part(e)) /\ e \in 1..Len(program)
    BY <1>2, <1>4, <2>2, <2>3
  <2>5. e \in 1..d
    BY <2>1, <2>2, <2>4
  <2> QED BY <1>5, <2>4, <2>5
<1>7. ASSUME NEW d \in Defs("class")
      PROVE  before(d) \subseteq Ahead(seqs, d - 1)
  <2> SUFFICES ASSUME NEW x \in before(d) PROVE x \in Ahead(seqs, d - 1)
    OBVIOUS
  <2>1. PICK e \in Defs("class") \cap 1..(d - 1) : x \in Range(anc(e))
    BY DEF before
  <2>2. PICK f \in 1..e : x \in Range(seqs[f])
    BY <1>6, <2>1
  <2>3. f \in 1..(d - 1)
    BY <1>2, <1>5, <2>1
  <2> QED BY <2>2, <2>3 DEF Ahead
<1>8. ASSUME NEW d \in Defs("class")
      PROVE  Led(part(d), Ahead(seqs, d - 1), Parents)
  <2> DEFINE R == Ahead(seqs, d - 1)
             p == parts(d)
             a == anc(d)
  <2>1. /\ p \in Seq(Seq(Classes)) /\ Len(p) = Len(a)
        /\ \A k \in 1..Len(a) :
             p[k] = IF a[k] \in before(d) THEN <<>> ELSE <<a[k]>>
    BY <1>3
  <2>2. \A k \in 1..Len(a) : Parent(a[k]) \in Classes =>
          k # 1 /\ a[k-1] = Parent(a[k])
    BY <1>2
  <2>3. before(d) \subseteq R
    BY <1>7
  <2>4. Len(a) \in Nat
    BY <1>2
  <2>5. part(d) = FlattenSeq(p)
    BY DEF part
  <2> HIDE DEF R, p, a
  <2>6. ASSUME NEW k \in 1..Len(p)
        PROVE  Led(p[k], R \cup Ahead(p, k - 1), Parents)
    <3>1. CASE a[k] \in before(d)
      <4>1. p[k] = <<>>
        BY <2>1, <3>1
      <4> QED BY <4>1 DEF Led
    <3>2. CASE a[k] \notin before(d)
      <4>1. p[k] = <<a[k]>>
        BY <2>1, <3>2
      <4>2. ASSUME NEW y, <<a[k], y>> \in Parents
            PROVE  y \in R \cup Ahead(p, k - 1)
        <5>1. y = Parent(a[k]) /\ y \in Classes
          BY <4>2 DEF Parents
        <5>2. k # 1 /\ a[k-1] = y
          BY <2>1, <2>2, <5>1
        <5>3. k - 1 \in 1..Len(a) /\ k - 1 \in 1..(k - 1)
          BY <2>1, <2>4, <5>2
        <5>4. CASE y \in before(d)
          BY <2>3, <5>4
        <5>5. CASE y \notin before(d)
          <6>1. p[k-1] = <<y>>
            BY <2>1, <5>2, <5>3, <5>5
          <6>2. y \in Range(p[k-1])
            BY <6>1 DEF Range
          <6> QED BY <5>3, <6>2 DEF Ahead
        <5> QED BY <5>4, <5>5
      <4>3. Len(<<a[k]>>) = 1 /\ <<a[k]>>[1] = a[k]
        OBVIOUS
      <4> QED BY <4>1, <4>2, <4>3 DEF Led
    <3> QED BY <3>1, <3>2
  <2>7. Led(FlattenSeq(p), R, Parents)
    BY <2>1, <2>6, FlatLed
  <2> QED BY <2>5, <2>7 DEF R
<1>9. \A d \in 1..Len(seqs) : Led(seqs[d], {} \cup Ahead(seqs, d - 1), Parents)
  <2> TAKE d \in 1..Len(seqs)
  <2>1. CASE d \in Defs("class")
    <3>1. seqs[d] = part(d) /\ {} \cup Ahead(seqs, d - 1) = Ahead(seqs, d - 1)
      BY <1>5
    <3> QED BY <1>8, <2>1, <3>1
  <2>2. CASE d \notin Defs("class")
    <3>1. seqs[d] = <<>>
      BY <1>5, <2>2 DEF part
    <3> QED BY <3>1 DEF Led
  <2> QED BY <2>1, <2>2
<1>10. Led(ClassOrder, {}, Parents)
  BY <1>1, <1>5, <1>9, FlatLed
<1>11. ASSUME NEW c \in Classes PROVE c \in Range(ClassOrder)
  <2>1. PICK d \in Defs("class") : program[d].name = c
    BY DEF Classes
  <2>2. c \in Range(anc(d))
    BY <1>2, <2>1
  <2>3. \E e \in 1..Len(seqs) : c \in Range(seqs[e])
    BY <1>5, <1>6, <2>2
  <2> QED BY <1>1, <1>5, <2>3, FlattenRange
<1> QED BY <1>10, <1>11

\* A visit to a method comes behind that of its class, and this behind that of
\* its parent.
Behind ==
  {e \in Visits \X Visits :
     \/ e[1][1] = "method" /\ e[2] = <<"class", e[1][2], 0>>
     \/ /\ e[1][1] = "class" /\ program[e[1][2]].parent \in Classes
        /\ e[2] = <<"class", ClassDef(program[e[1][2]].parent), 0>>}

LEMMA LedPlain ==
  ASSUME NEW s, NEW R, \A i \in 1..Len(s) : s[i][1] \notin {"method", "class"}
  PROVE  Led(s, R, Behind)
BY DEF Led, Behind

LEMMA OneClass ==
  ASSUME Typed, Distinct, NEW d \in Defs("class")
  PROVE  /\ program[d].name \in Classes /\ ClassDef(program[d].name) = d
         /\ Parent(program[d].name) = program[d].parent
<1>1. program[d].name \in Classes
  BY DEF Classes
<1> DEFINE e == ClassDef(program[d].name)
<1>2. e \in Defs("class") /\ program[e].name = program[d].name
  BY <1>1, ClassDefIs
<1> HIDE DEF e
<1>3. program[d].kind = "class" /\ program[e].kind = "class"
  BY <1>2, DefsIn
<1>4. d = e
  BY <1>2, <1>3 DEF Distinct
<1> QED BY <1>1, <1>4 DEF e, Parent

LEMMA VisitLed ==
  ASSUME Typed, NEW d \in Defs("class"), NEW R,
         program[d].parent \in Classes =>
           <<"class", ClassDef(program[d].parent), 0>> \in R
  PROVE  Led(Visit(d), R, Behind)
<1> DEFINE v == <<"class", d, 0>>
           t == MethodsOf(d)
<1>1. d \in 1..Len(program) /\ program[d].kind = "class"
  BY DefsIn
<1>2. /\ t = [j \in MethodNumbers(d) |-> <<"method", d, j>>]
      /\ Len(program[d].methods) \in Nat
  BY <1>1, DefinitionIs DEF MethodsOf, MethodNumbers
<1>3. v \in Visits /\ \A j \in MethodNumbers(d) : <<"method", d, j>> \in Visits
  <2>1. v \in Visits
    BY <1>1 DEF Visits
  <2>2. ASSUME NEW j \in MethodNumbers(d) PROVE <<"method", d, j>> \in Visits
    <3>1. j \in Nat
      BY <1>2 DEF MethodNumbers
    <3> QED BY <3>1 DEF Visits
  <2> QED BY <2>1, <2>2
<1>4. t \in Seq(Visits) /\ \A i \in 1..Len(t) : t[i] = <<"method", d, i>>
  BY <1>2, <1>3 DEF MethodNumbers
<1>5. <<v>> \in Seq(Visits) /\ Len(<<v>>) = 1 /\ <<v>>[1] = v
      /\ Range(<<v>>) = {v}
  BY <1>3 DEF Range
<1>6. Visit(d) = <<v>> \o t
  BY <1>1 DEF Visit
<1>7. Led(<<v>>, R, Behind)
  <2>1. ASSUME NEW y, <<v, y>> \in Behind PROVE y \in R
    BY <2>1 DEF Behind
  <2> HIDE DEF v
  <2> QED BY <1>5, <2>1 DEF Led
<1>8. Led(t, R \cup Range(<<v>>), Behind)
  <2>1. ASSUME NEW i \in 1..Len(t), NEW y, <<t[i], y>> \in Behind
        PROVE  y = v
    <3>1. t[i] = <<"method", d, i>>
      BY <1>4
    <3> HIDE DEF t
    <3> QED BY <2>1, <3>1 DEF Behind
  <2> HIDE DEF v, t
  <2> QED BY <1>5, <2>1 DEF Led
<1> DEFINE s == <<v>>
<1>9. s \in Seq(Visits) /\ Led(s, R, Behind) /\ Led(t, R \cup Range(s), Behind)
  BY <1>5, <1>7, <1>8
<1>10. Visit(d) = s \o t
  BY <1>6
<1> HIDE DEF s, t
<1> QED BY <1>4, <1>9, <1>10, LedConcat

LEMMA CodegenWorkLed ==
  ASSUME Typed, AllSound, Distinct
  PROVE  /\ Led(CodegenWork, {}, Behind)
         /\ \A b \in Bodies : b[1] = "method" => b \in Range(CodegenWork)
         /\ \A d \in Defs("class") : <<"class", d, 0>> \in Range(CodegenWork)
<1> DEFINE part(k) == Visit(ClassDef(ClassOrder[k]))
           parts == [k \in 1..Len(ClassOrder) |-> part(k)]
           classes == FlattenSeq(parts)
           funcs == VisitOnly({"func"})
           globals == VisitOnly({"var", "enum"})
<1>1. /\ \A k \in 1..Len(ClassOrder) : ClassOrder[k] \in Classes
      /\ Len(ClassOrder) \in Nat
  BY ClassOrderType
<1>2. \A k \in 1..Len(ClassOrder) :
        /\ ClassDef(ClassOrder[k]) \in Defs("class")
        /\ ClassDef(ClassOrder[k]) \in 1..Len(program)
        /\ program[ClassDef(ClassOrder[k])].name = ClassOrder[k]
  BY <1>1, ClassDefIs, DefsIn
<1>3. \A k \in 1..Len(ClassOrder) : part(k) \in Seq(Visits)
  BY <1>2, VisitIs
<1>4. CodegenWork = classes \o funcs \o globals \o <<Run>>
  BY DEF CodegenWork
<1>5. /\ parts \in Seq(Seq(Visits)) /\ Len(parts) = Len(ClassOrder)
      /\ \A k \in 1..Len(ClassOrder) :
           parts[k] = Visit(ClassDef(ClassOrder[k]))
  <2> HIDE DEF part
  <2>1. /\ parts \in Seq(Seq(Visits)) /\ Len(parts) = Len(ClassOrder)
        /\ \A k \in 1..Len(ClassOrder) : parts[k] = part(k)
    BY <1>1, <1>3
  <2> QED BY <2>1 DEF part
<1> HIDE DEF parts
<1>6. ASSUME NEW k \in 1..Len(parts)
      PROVE  Led(parts[k], {} \cup Ahead(parts, k - 1), Behind)
  <2> DEFINE d == ClassDef(ClassOrder[k])
             R == {} \cup Ahead(parts, k - 1)
  <2>1. /\ d \in Defs("class") /\ parts[k] = Visit(d)
        /\ program[d].name = ClassOrder[k] /\ k \in 1..Len(ClassOrder)
    BY <1>2, <1>5
  <2>2. ASSUME program[d].parent \in Classes
        PROVE  <<"class", ClassDef(program[d].parent), 0>> \in R
    <3> DEFINE p == program[d].parent
    <3>1. <<ClassOrder[k], p>> \in Parents
      <4>1. Parent(program[d].name) = p
        BY <2>1, OneClass
      <4> QED BY <1>1, <2>1, <2>2, <4>1 DEF Parents
    <3>2. Led(ClassOrder, {}, Parents)
      BY ClassOrderIs
    <3>3. PICK j \in 1..(k - 1) : ClassOrder[j] = p
      <4> HIDE DEF p, d
      <4>1. p \in {} \/ \E j \in 1..(k - 1) : ClassOrder[j] = p
        BY <2>1, <3>1, <3>2 DEF Led
      <4> QED BY <4>1
    <3>4. j \in 1..Len(ClassOrder)
      BY <1>1, <2>1
    <3> DEFINE e == ClassDef(p)
    <3>5. parts[j] = Visit(e) /\ e \in 1..Len(program)
          /\ program[e].kind = "class"
      BY <1>2, <1>5, <3>3, <3>4, DefsIn
    <3>6. <<"class", e, 0>> \in Range(parts[j])
      <4> HIDE DEF e
      <4> QED BY <3>5, VisitIs
    <3> QED BY <3>3, <3>6 DEF Ahead
  <2> HIDE DEF d, R
  <2>3. Led(Visit(d), R, Behind)
    BY <2>1, <2>2, VisitLed
  <2> QED BY <2>1, <2>3 DEF R
<1>7. classes \in Seq(Visits) /\ Led(classes, {}, Behind)
  BY <1>5, <1>6, FlatLed, FlattenRange
<1>8. ASSUME NEW kinds \in {{"func"}, {"var", "enum"}},
             NEW w \in Range(VisitOnly(kinds))
      PROVE  w[1] \notin {"method", "class"}
  <2>1. PICK d \in 1..Len(program) :
          program[d].kind \in kinds /\ w \in Range(Visit(d))
    BY <1>8, VisitOnlyIs
  <2>2. program[d].kind \notin {"method", "class"}
    BY <2>1
  <2>3. w = <<program[d].kind, d, 0>>
    BY <2>1, <2>2, VisitIs
  <2> QED BY <2>2, <2>3
<1>9. /\ funcs \in Seq(Visits) /\ globals \in Seq(Visits)
      /\ \A i \in 1..Len(funcs) : funcs[i] \in Range(funcs)
      /\ \A i \in 1..Len(globals) : globals[i] \in Range(globals)
  <2>1. funcs \in Seq(Visits) /\ globals \in Seq(Visits)
    BY VisitOnlyIs
  <2> HIDE DEF funcs, globals
  <2> QED BY <2>1 DEF Range
<1>10. \A R : Led(funcs, R, Behind) /\ Led(globals, R, Behind)
  <2>1. /\ \A i \in 1..Len(funcs) : funcs[i][1] \notin {"method", "class"}
        /\ \A i \in 1..Len(globals) : globals[i][1] \notin {"method", "class"}
    BY <1>8, <1>9
  <2> HIDE DEF funcs, globals
  <2> QED BY <2>1, LedPlain
<1>11. <<Run>> \in Seq(Visits) /\ \A R : Led(<<Run>>, R, Behind)
  <2>1. \A i \in 1..Len(<<Run>>) : <<Run>>[i][1] \notin {"method", "class"}
    BY DEF Run
  <2> QED BY <2>1, LedPlain, RunIs
<1>12. ASSUME NEW b \in Bodies, b[1] = "method"
       PROVE  b \in Range(classes)
  <2> DEFINE d == b[2]
  <2>1. /\ d \in Defs("class") /\ b[3] \in MethodNumbers(d)
        /\ b = <<"method", d, b[3]>> /\ d \in 1..Len(program)
        /\ program[d].kind = "class"
    BY <1>12, BodyIs, DefsIn DEF Run
  <2>2. program[d].name \in Classes /\ ClassDef(program[d].name) = d
    BY <2>1, OneClass
  <2>3. PICK k \in 1..Len(ClassOrder) : ClassOrder[k] = program[d].name
    <3>1. program[d].name \in Range(ClassOrder)
      BY <2>2, ClassOrderIs
    <3> QED BY <1>1, <3>1, ClassOrderType DEF Range
  <2>4. parts[k] = Visit(d) /\ k \in 1..Len(parts)
    BY <1>5, <2>2, <2>3
  <2>5. b \in Range(Visit(d))
    BY <2>1, VisitIs
  <2> QED BY <1>5, <2>4, <2>5, FlattenRange
<1>17. ASSUME NEW d \in Defs("class")
       PROVE  <<"class", d, 0>> \in Range(classes)
  <2>1. d \in 1..Len(program) /\ program[d].kind = "class"
    BY DefsIn
  <2>2. program[d].name \in Classes /\ ClassDef(program[d].name) = d
    BY OneClass
  <2>3. PICK k \in 1..Len(ClassOrder) : ClassOrder[k] = program[d].name
    <3>1. program[d].name \in Range(ClassOrder)
      BY <2>2, ClassOrderIs
    <3> QED BY <1>1, <3>1, ClassOrderType DEF Range
  <2>4. parts[k] = Visit(d) /\ k \in 1..Len(parts)
    BY <1>5, <2>2, <2>3
  <2> DEFINE w == <<"class", d, 0>>
  <2>5. w \in Range(Visit(d))
    BY <2>1, VisitIs
  <2> HIDE DEF w
  <2>6. w \in Range(classes)
    BY <1>5, <2>4, <2>5, FlattenRange
  <2> QED BY <2>6 DEF w
<1> HIDE DEF classes, funcs, globals
<1> DEFINE most == classes \o funcs
           before == most \o globals
<1>13. /\ most \in Seq(Visits) /\ Led(most, {}, Behind)
       /\ Range(classes) \subseteq Range(most)
  BY <1>7, <1>9, <1>10, LedBoth
<1>14. CodegenWork = before \o <<Run>>
  BY <1>4
<1> HIDE DEF most
<1>15. /\ before \in Seq(Visits) /\ Led(before, {}, Behind)
       /\ Range(most) \subseteq Range(before)
  BY <1>9, <1>10, <1>13, LedBoth
<1> HIDE DEF before
<1>16. /\ Led(before \o <<Run>>, {}, Behind)
       /\ Range(before) \subseteq Range(before \o <<Run>>)
  <2> DEFINE r == <<Run>>
  <2>1. r \in Seq(Visits) /\ \A R : Led(r, R, Behind)
    BY <1>11
  <2> HIDE DEF r
  <2>2. /\ Led(before \o r, {}, Behind)
        /\ Range(before) \subseteq Range(before \o r)
    BY <1>15, <2>1, LedBoth
  <2> QED BY <2>2 DEF r
<1> QED BY <1>12, <1>13, <1>14, <1>15, <1>16, <1>17
-----------------------------------------------------------------------------
(***************************************************************************)
(* What the generator finds of the methods that are emitted.               *)
(***************************************************************************)
LEMMA NoBodyIs == ASSUME Typed PROVE NoBody \notin Bodies
<1>1. NoBody[1] = None /\ None \notin {"run", "func", "method"}
  BY DEF NoBody, None
<1>2. \A b \in Bodies : b[1] \in {"run", "func", "method"}
  BY BodyIs
<1> QED BY <1>1, <1>2

LEMMA MethodIs ==
  ASSUME Typed, NEW c \in Classes, NEW b \in Methods(c)
  PROVE  b \in Bodies /\ b[1] = "method" /\ ClassOf(b) = c
<1> DEFINE d == ClassDef(c)
<1>1. d \in Defs("class") /\ program[d].name = c
  BY ClassDefIs
<1>2. PICK j \in 1..Len(program[d].methods) : b = <<"method", d, j>>
  BY DEF Methods
<1>3. program[d].methods \in Seq(MethodDef)
  BY <1>1, DefinitionIs, DefsIn
<1>4. j \in Nat
  BY <1>2, <1>3
<1> HIDE DEF d
<1>5. b[1] = "method" /\ b[2] = d /\ b[3] = j
  BY <1>2
<1>6. b \in Visits
  BY <1>1, <1>2, <1>4 DEF Visits, MethodNumbers
<1> QED BY <1>1, <1>5, <1>6 DEF Bodies, IsBody, ClassOf

LEMMA MethodOf ==
  ASSUME Typed, Distinct, NEW b \in Bodies, ClassOf(b) # None
  PROVE  /\ b[1] = "method" /\ b \in Methods(ClassOf(b))
         /\ ClassOf(b) \in Classes /\ ClassDef(ClassOf(b)) = b[2]
         /\ b[2] \in Defs("class")
<1>1. b[1] = "method" /\ ClassOf(b) \in Classes
      /\ ClassOf(b) = program[b[2]].name
  BY ClassOfIs
<1>2. /\ b[2] \in Defs("class") /\ b[3] \in MethodNumbers(b[2])
      /\ b = <<"method", b[2], b[3]>>
  BY <1>1, BodyIs DEF Run
<1>3. ClassDef(ClassOf(b)) = b[2]
  BY <1>1, <1>2, OneClass
<1> QED BY <1>1, <1>2, <1>3 DEF Methods, MethodNumbers

\* The function that is found under a name is of that name.
FunctionsAre ==
  \A name \in DOMAIN functions : functions[name] \in Bodies \ {Run}
LEMMA EmittedIs ==
  ASSUME Typed, EmitInv, FunctionsAre, NEW c, NEW m, NEW ts,
         Emitted(c, m, ts) # NoBody
  PROVE  LET got == Emitted(c, m, ts)
         IN  /\ MangleOverload(c, m, ts) \in DOMAIN functions
             /\ got \in Bodies /\ got # Run
             /\ Mangled(got) = MangleOverload(c, m, ts)
             /\ ClassOf(got) = c /\ Signature(got).name = m
<1> DEFINE name == MangleOverload(c, m, ts)
           got == Emitted(c, m, ts)
<1>1. name \in DOMAIN functions /\ got = functions[name]
  BY DEF Emitted
<1>2. got \in Bodies /\ got # Run /\ Mangled(got) = name
  BY <1>1 DEF FunctionsAre, EmitInv
<1> HIDE DEF got
<1>3. ClassOf(got) = c /\ Signature(got).name = m
  BY <1>2 DEF Mangled, MangleOverload
<1> QED BY <1>1, <1>2, <1>3 DEF got

\* How a call reaches its target, as CallsMeetTarget has it.
Reaches(got, want) ==
  \/ got = want \/ want \in Range(Tail(work))
  \/ /\ got # NoBody /\ Types(got) # Types(want)
     /\ \A i \in {2, 3} : Mangled(got)[i] = Mangled(want)[i]
LEMMA MethodReached ==
  ASSUME Typed, AllSound, Distinct, EmitInv, FunctionsAre,
         NEW c \in Classes, c \in layouts, NEW m,
         NEW want \in InheritedMethods(c, m),
         Mangled(want) \in DOMAIN functions, ClassOf(want) \in layouts
  PROVE  LET got == FindMethod(c, m, Types(want))
         IN  got # NoBody /\ Reaches(got, want)
<1> DEFINE s == Lineage(c)
           ts == Types(want)
           I == {i \in 1..Len(s) : Has(s[i], m, ts)}
<1>1. s \in Seq(Classes) /\ Len(s) \in Nat
  BY LineageIs DEF Typed
<1>2. PICK i \in 1..Len(s) :
        /\ want \in Methods(s[i]) /\ Signature(want).name = m
        /\ \A j \in 1..(i-1) : \A h \in Methods(s[j]) :
             Signature(h).name = m => Types(h) # Types(want)
  BY DEF InheritedMethods
<1> HIDE DEF s
<1>3. s[i] \in Classes
  BY <1>1
<1>4. want \in Bodies /\ ClassOf(want) = s[i]
  BY <1>2, <1>3, MethodIs
<1>5. Mangled(want) = MangleOverload(s[i], m, ts)
  BY <1>2, <1>4 DEF Mangled
<1>6. i \in I
  <2>1. Emitted(s[i], m, ts) = functions[Mangled(want)]
    BY <1>5 DEF Emitted
  <2>2. Emitted(s[i], m, ts) # NoBody
    BY <2>1, NoBodyIs DEF FunctionsAre
  <2> QED BY <1>4, <2>2 DEF Has
<1> DEFINE j == Min(I)
<1>7. j \in I /\ j <= i
  BY <1>1, <1>6, SmallestNumber
<1> DEFINE got == FindMethod(c, m, ts)
<1>8. got = Emitted(s[j], m, ts)
  <2>1. Nearest(c, LAMBDA k : Has(k, m, ts)) = j
    BY <1>6 DEF Nearest, SelectInSeq, s
  <2>2. j # 0
    BY <1>7
  <2> HIDE DEF j
  <2> QED BY <2>1, <2>2 DEF FindMethod, s
<1> HIDE DEF ts, I, j
<1>9. j \in 1..Len(s) /\ Has(s[j], m, ts)
  BY <1>7 DEF I
<1>10. /\ got # NoBody /\ got \in Bodies
       /\ Mangled(got) = MangleOverload(s[j], m, ts)
       /\ ClassOf(got) = s[j] /\ Signature(got).name = m
  BY <1>8, <1>9, EmittedIs DEF Has
<1> HIDE DEF got
<1>11. s[j] \in Classes /\ got \in Methods(s[j])
  <2>1. s[j] \in Classes
    BY <1>1, <1>9
  <2>2. ClassOf(got) # None
    BY <1>10, <2>1, ClassesNamed, NoneIsNoName
  <2> QED BY <1>10, <2>1, <2>2, MethodOf
<1>12. CASE Types(got) = ts
  <2>1. j = i
    <3>1. j \in 1..(i-1) => Types(got) # Types(want)
      BY <1>2, <1>10, <1>11
    <3>2. j \in 1..(i-1) \/ j = i
      BY <1>1, <1>7, <1>9
    <3> QED BY <1>12, <3>1, <3>2 DEF ts
  <2>2. ClassDef(s[i]) \in Defs("class") /\ program[ClassDef(s[i])].name = s[i]
    BY <1>3, ClassDefIs
  <2>3. Sound(ClassDef(s[i]))
    BY <2>2 DEF AllSound
  <2>4. \A b, p \in Methods(s[i]) :
          b = p \/ Signature(b).name # Signature(p).name \/ Types(b) # Types(p)
    BY <2>2, <2>3 DEF Sound
  <2>5. got = want
    BY <1>2, <1>10, <1>11, <1>12, <2>1, <2>4 DEF ts
  <2> QED BY <1>10, <2>5 DEF Reaches, got, ts
<1>13. CASE Types(got) # ts
  <2>1. \A k \in {2, 3} : Mangled(got)[k] = Mangled(want)[k]
    BY <1>5, <1>10 DEF MangleOverload
  <2> QED BY <1>10, <1>13, <2>1 DEF Reaches, got, ts
<1> QED BY <1>12, <1>13

\* Of the methods of a name that a class has or inherits, one is not hidden.
LEMMA Inherits ==
  ASSUME Typed, NEW c \in Classes, NEW m, NEW i \in 1..Len(Lineage(c)),
         NEW b \in Methods(Lineage(c)[i]), Signature(b).name = m
  PROVE  InheritedMethods(c, m) # {}
<1> DEFINE s == Lineage(c)
           own(k) == {h \in Methods(k) : Signature(h).name = m}
           I == {k \in 1..Len(s) : own(s[k]) # {}}
<1>1. s \in Seq(Classes) /\ Len(s) \in Nat
  BY LineageIs DEF Typed
<1>2. i \in I
  OBVIOUS
<1>3. Min(I) \in I /\ \A k \in I : Min(I) <= k
  BY <1>1, <1>2, SmallestNumber
<1> DEFINE j == Min(I)
<1>4. j \in 1..Len(s) /\ own(s[j]) # {}
  BY <1>3
<1>5. \A k \in 1..(j-1) : own(s[k]) = {}
  <2>1. \A k \in I : j <= k
    BY <1>3
  <2> HIDE DEF j, own
  <2>2. ASSUME NEW k \in 1..(j-1) PROVE k \in 1..Len(s) /\ ~(j <= k)
    BY <1>1, <1>4
  <2> QED BY <2>1, <2>2
<1>6. PICK h : h \in own(s[j])
  BY <1>4
<1> HIDE DEF j, I
<1>7. \A k \in 1..(j-1) : \A g \in own(s[k]) : Types(g) # Types(h)
  BY <1>5
<1>8. h \in InheritedMethods(c, m)
  <2>1. h \in {p \in own(s[j]) : \A k \in 1..(j-1) : \A g \in own(s[k]) :
                 Types(g) # Types(p)}
    BY <1>6, <1>7
  <2> QED BY <1>4, <2>1 DEF InheritedMethods
<1> QED BY <1>8

\* A call of a function by its name, where no method has it.
LEMMA FunctionReached ==
  ASSUME Typed, Distinct, EmitInv, FunctionsAre, NEW d \in Defs("func"),
         Mangled(<<"func", d, 0>>) \in DOMAIN functions
  PROVE  LET want == <<"func", d, 0>>
         IN  Reaches(Emitted(None, program[d].name, Types(want)), want)
<1> DEFINE want == <<"func", d, 0>>
           ts == Types(want)
           m == program[d].name
           got == Emitted(None, m, ts)
<1>1. ClassOf(want) = None /\ Signature(want).name = m
  BY DEF ClassOf, Signature
<1>2. Mangled(want) = MangleOverload(None, m, ts)
  BY <1>1 DEF Mangled
<1>3. got = functions[Mangled(want)]
  BY <1>2 DEF Emitted
<1>4. got # NoBody
  BY <1>3, NoBodyIs DEF FunctionsAre
<1>5. /\ got \in Bodies /\ got # Run /\ Mangled(got) = Mangled(want)
      /\ ClassOf(got) = None /\ Signature(got).name = m
  BY <1>2, <1>4, EmittedIs
<1> HIDE DEF got
<1>6. got[2] \in Defs("func") /\ got = <<"func", got[2], 0>>
  <2>1. got[1] # "method"
    BY <1>5, ClassOfIs
  <2> QED BY <1>5, <2>1, BodyIs
<1>7. CASE Types(got) = ts
  <2> DEFINE e == got[2]
  <2>1. got = <<"func", e, 0>> /\ e \in Defs("func")
    BY <1>6
  <2>2. program[e].name = m
    BY <1>5, <2>1 DEF Signature
  <2>3. program[e].kind = program[d].kind
    BY <2>1, DefsIn
  <2> HIDE DEF e
  <2>4. Types(<<"func", e, 0>>) = Types(<<"func", d, 0>>)
    BY <1>7, <2>1
  <2>5. e = d
    BY <2>1, <2>2, <2>3, <2>4 DEF Distinct
  <2> QED BY <2>1, <2>5 DEF Reaches, got
<1>8. CASE Types(got) # ts
  BY <1>4, <1>5, <1>8 DEF Reaches, got
<1> QED BY <1>7, <1>8
-----------------------------------------------------------------------------
(***************************************************************************)
(* What the analyser may have resolved a call to, from a body of class     *)
(* `from'.                                                                 *)
(***************************************************************************)
CalledNew(item) ==
  /\ item.name = Ctor /\ item.to \in Classes
  /\ \/ item.bound[1] = "class"
     \/ item.bound \in InheritedMethods(item.to, item.name)
CalledMethod(item) ==
  /\ item.name # Ctor /\ item.to \in Classes
  /\ item.bound \in InheritedMethods(item.to, item.name)
CalledSuper(item, from) ==
  /\ item.name # Ctor /\ item.to = "super"
  /\ from # None /\ Parent(from) \in Classes
  /\ item.bound \in InheritedMethods(Parent(from), item.name)
CalledOwn(item, from) ==
  /\ item.name # Ctor /\ item.to = "unqualified" /\ from # None
  /\ item.bound \in InheritedMethods(from, item.name)
CalledFunction(item, from) ==
  /\ item.name # Ctor /\ item.to = "unqualified"
  /\ \E d \in Defs("func") :
       item.bound = <<"func", d, 0>> /\ program[d].name = item.name
  /\ from = None \/ InheritedMethods(from, item.name) = {}
Called(item, from) ==
  \/ CalledNew(item) \/ CalledMethod(item) \/ CalledSuper(item, from)
  \/ CalledOwn(item, from) \/ CalledFunction(item, from)

LEMMA ResolveIs ==
  \A S, args : ResolveOverload(S, args) \subseteq S
BY DEF ResolveOverload

\* The constructors of a class are those that it does not hide.
LEMMA ConstructorsIs ==
  ASSUME Typed, NEW c \in Classes
  PROVE  Constructors(c) \subseteq InheritedMethods(c, Ctor)
<1> DEFINE s == Lineage(c)
           own(k) == {b \in Methods(k) : Signature(b).name = Ctor}
           I == {k \in 1..Len(s) : own(s[k]) # {}}
<1>1. s \in Seq(Classes) /\ Len(s) \in Nat
  BY LineageIs DEF Typed
<1>2. Nearest(c, LAMBDA k : own(k) # {}) = IF I = {} THEN 0 ELSE Min(I)
  BY DEF Nearest, SelectInSeq
<1>3. SUFFICES ASSUME Constructors(c) # {}
               PROVE  Constructors(c) \subseteq InheritedMethods(c, Ctor)
  OBVIOUS
<1>4. I # {}
  BY <1>2, <1>3 DEF Constructors
<1> DEFINE j == Min(I)
<1>5. j \in I /\ \A k \in I : j <= k
  BY <1>1, <1>4, SmallestNumber
<1>6. Constructors(c) = own(s[j])
  <2>1. j # 0
    BY <1>5
  <2> HIDE DEF I
  <2> QED BY <1>2, <1>4, <2>1 DEF Constructors
<1>7. \A k \in 1..(j-1) : own(s[k]) = {}
  <2>1. j \in 1..Len(s) /\ \A k \in I : j <= k
    BY <1>5
  <2> HIDE DEF j, own
  <2>2. ASSUME NEW k \in 1..(j-1) PROVE k \in 1..Len(s) /\ ~(j <= k)
    BY <1>1, <2>1
  <2> QED BY <2>1, <2>2
<1>8. j \in 1..Len(s)
  BY <1>5
<1> HIDE DEF j, I
<1> QED BY <1>6, <1>7, <1>8 DEF InheritedMethods

\* What checkCallExpr, checkSuperCall and checkNewExpr resolve a call to.
LEMMA TargetCalled ==
  ASSUME Typed, NEW from \in Classes \cup {None},
         NEW to, NEW m, NEW args, NEW want,
         \/ to \in {"super", "unqualified"} /\ m # Ctor
         \/ to \in Classes,
         want \in CASE m = Ctor -> CheckNew(to, args)
                    [] to = "super" -> CheckSuper(m, args, from)
                    [] OTHER -> CheckCall(to, m, args, from)
  PROVE  Called([op |-> "call", to |-> to, name |-> m, bound |-> want], from)
<1> DEFINE item == [op |-> "call", to |-> to, name |-> m, bound |-> want]
<1>1. item.to = to /\ item.name = m /\ item.bound = want
  OBVIOUS
<1> HIDE DEF item
<1>2. "super" \notin Classes /\ "unqualified" \notin Classes
  BY DefinitionIs, DefsIn DEF Classes, Typed, Definition
<1>3. CASE m = Ctor
  <2>1. to \in Classes
    BY <1>3
  <2>2. want \in CheckNew(to, args)
    BY <1>2, <1>3, <2>1
  <2>3. want[1] = "class" \/ want \in Constructors(to)
    BY <2>2, ResolveIs DEF CheckNew
  <2> QED BY <1>1, <1>3, <2>1, <2>3, ConstructorsIs DEF Called, CalledNew
<1>4. CASE m # Ctor /\ to = "super"
  <2>1. want \in CheckSuper(m, args, from)
    BY <1>4
  <2>2. /\ from # None /\ Parent(from) \in Classes
        /\ want \in ResolveOverload(InheritedMethods(Parent(from), m), args)
    BY <2>1, ClassesNamed, NoneIsNoName DEF CheckSuper
  <2> QED BY <1>1, <1>4, <2>2, ResolveIs DEF Called, CalledSuper
<1>5. CASE m # Ctor /\ to \in Classes
  <2>1. to # "super" /\ to # "unqualified"
    BY <1>2, <1>5
  <2>2. want \in CheckCall(to, m, args, from)
    BY <1>5, <2>1
  <2>3. want \in ResolveOverload(InheritedMethods(to, m), args)
    BY <2>1, <2>2 DEF CheckCall
  <2> QED BY <1>1, <1>5, <2>3, ResolveIs DEF Called, CalledMethod
<1>6. CASE m # Ctor /\ to = "unqualified"
  <2> DEFINE own == IF from = None THEN {} ELSE InheritedMethods(from, m)
             free == {<<"func", d, 0>> :
                        d \in {e \in Defs("func") : program[e].name = m}}
  <2>1. want \in CheckCall(to, m, args, from)
    BY <1>6
  <2>2. want \in ResolveOverload(IF own # {} THEN own ELSE free, args)
    BY <1>6, <2>1 DEF CheckCall
  <2>3. want \in IF own # {} THEN own ELSE free
    BY <2>2, ResolveIs
  <2>4. CASE own # {}
    BY <1>1, <1>6, <2>3, <2>4 DEF Called, CalledOwn
  <2>5. CASE own = {}
    <3>1. \E d \in Defs("func") :
            want = <<"func", d, 0>> /\ program[d].name = m
      BY <2>3, <2>5
    <3> QED BY <1>1, <1>6, <2>5, <3>1 DEF Called, CalledFunction
  <2> QED BY <2>4, <2>5
<1> QED BY <1>3, <1>4, <1>5, <1>6 DEF item

\* The calls of all bodies.
CallsIn(B, from) ==
  \A i \in 1..Len(B) : B[i].op = "call" => Called(B[i], from)
CallsBound == \A b \in DOMAIN bodies : CallsIn(bodies[b], ClassOf(b))
LEMMA SameCalls ==
  ASSUME program' = program
  PROVE  /\ \A item, from : Called(item, from)' <=> Called(item, from)
         /\ \A B, from : CallsIn(B, from)' <=> CallsIn(B, from)
         /\ \A b : ClassOf(b)' = ClassOf(b)
         /\ \A c : Parent(c)' = Parent(c) /\ ClassDef(c)' = ClassDef(c)
         /\ Behind' = Behind
<1>1. /\ \A kind : Defs(kind)' = Defs(kind)
      /\ Classes' = Classes /\ Visits' = Visits
  BY SameProgram
<1>2. /\ \A b : ClassOf(b)' = ClassOf(b) /\ Types(b)' = Types(b)
      /\ \A b : Signature(b)' = Signature(b)
  BY DEF ClassOf, Types, Signature
<1>3. \A c : Methods(c)' = Methods(c) /\ Parent(c)' = Parent(c)
             /\ ClassDef(c)' = ClassDef(c)
  BY DEF Methods, Parent, ClassDef, Defs
<1>4. \A c : Lineage(c)' = Lineage(c)
  BY DEF Lineage, Parent, Classes, ClassDef, Defs
<1>5. ASSUME NEW c, NEW m
      PROVE  InheritedMethods(c, m)' = InheritedMethods(c, m)
  BY <1>2, <1>3, <1>4 DEF InheritedMethods
<1>6. ASSUME NEW item, NEW from
      PROVE  Called(item, from)' <=> Called(item, from)
  <2>1. CalledNew(item)' <=> CalledNew(item)
    BY <1>1, <1>5 DEF CalledNew
  <2>2. CalledMethod(item)' <=> CalledMethod(item)
    BY <1>1, <1>5 DEF CalledMethod
  <2>3. CalledSuper(item, from)' <=> CalledSuper(item, from)
    BY <1>1, <1>3, <1>5 DEF CalledSuper
  <2>4. CalledOwn(item, from)' <=> CalledOwn(item, from)
    BY <1>5 DEF CalledOwn
  <2>5. CalledFunction(item, from)' <=> CalledFunction(item, from)
    BY <1>1, <1>5 DEF CalledFunction
  <2> QED BY <2>1, <2>2, <2>3, <2>4, <2>5 DEF Called
<1>7. \A B, from : CallsIn(B, from)' <=> CallsIn(B, from)
  BY <1>6 DEF CallsIn
<1>8. Behind' = Behind
  BY <1>1, <1>3 DEF Behind
<1> QED BY <1>2, <1>3, <1>6, <1>7, <1>8

LEMMA CallsBoundKept ==
  ASSUME program' = program, CallsBound,
         \A b \in DOMAIN bodies' :
           \/ b \in DOMAIN bodies /\ bodies'[b] = bodies[b]
           \/ CallsIn(bodies'[b], ClassOf(b))
  PROVE  CallsBound'
<1>1. /\ \A B, from : CallsIn(B, from)' <=> CallsIn(B, from)
      /\ \A b : ClassOf(b)' = ClassOf(b)
  BY SameCalls
<1>2. ASSUME NEW b \in DOMAIN bodies'
      PROVE  CallsIn(bodies'[b], ClassOf(b))
  BY DEF CallsBound
<1> QED BY <1>1, <1>2 DEF CallsBound, CallsIn

LEMMA WriteCalls ==
  ASSUME IInv, CallsBound, pass = "sema", InBody, NEW item, NEW cost,
         Write(item, cost),
         item.op = "call" => Called(item, ClassOf(Current))
  PROVE  CallsBound'
<1> DEFINE B == bodies[Current]
           c == ClassOf(Current)
<1>1. /\ program' = program /\ Current \in DOMAIN bodies
      /\ bodies' = [bodies EXCEPT ![Current] = Append(B, item)]
  BY DEF Write, IInv, WorkInv, InBody
<1>2. PICK T : B \in Seq(T)
  BY DEF IInv, BodiesInv, InBody, Analysed, Trace
<1>3. CallsIn(B, c)
  BY <1>1 DEF CallsBound
<1> HIDE DEF B, c
<1> DEFINE U == T \cup {item}
           E == Append(B, item)
<1>4. B \in Seq(U) /\ item \in U
  BY <1>2
<1>5. /\ Len(E) = Len(B) + 1 /\ \A k \in 1..Len(B) : E[k] = B[k]
      /\ E[Len(B) + 1] = item
  <2> HIDE DEF U
  <2> QED BY <1>4, AppendIs
<1>6. /\ bodies'[Current] = E
      /\ \A b \in DOMAIN bodies : b # Current => bodies'[b] = bodies[b]
      /\ DOMAIN bodies' = DOMAIN bodies
  BY <1>1
<1> HIDE DEF E, U
<1>7. Len(B) \in Nat
  BY <1>2
<1>8. item.op = "call" => Called(item, c)
  BY DEF c
<1>9. CallsIn(E, c)
  <2>1. ASSUME NEW i \in 1..Len(E), E[i].op = "call" PROVE Called(E[i], c)
    <3>1. CASE i \in 1..Len(B)
      BY <1>3, <1>5, <2>1, <3>1 DEF CallsIn
    <3>2. CASE i = Len(B) + 1
      BY <1>5, <1>8, <2>1, <3>2
    <3> QED BY <1>5, <1>7, <3>1, <3>2
  <2> QED BY <2>1 DEF CallsIn
<1>10. ASSUME NEW b \in DOMAIN bodies'
       PROVE  \/ b \in DOMAIN bodies /\ bodies'[b] = bodies[b]
              \/ CallsIn(bodies'[b], ClassOf(b))
  <2>1. CASE b = Current
    BY <1>6, <1>9, <2>1 DEF c
  <2>2. CASE b # Current
    BY <1>6, <2>2
  <2> QED BY <2>1, <2>2
<1> QED BY <1>1, <1>10, CallsBoundKept

\* Only SemaCall writes a call.
LEMMA SemaCallCalls ==
  ASSUME IInv, CallsBound, NEW call \in words.calls,
         SemaCall(call[1], call[2], call[3]), ~Reject
  PROVE  CallsBound'
<1> DEFINE from == ClassOf(Current)
           to == call[1]
           m == call[2]
           args == call[3]
           target == CASE m = Ctor -> CheckNew(to, args)
                       [] to = "super" -> CheckSuper(m, args, from)
                       [] OTHER -> CheckCall(to, m, args, from)
           want == CHOOSE b \in target : TRUE
           item == [op |-> "call", to |-> to, name |-> m, bound |-> want]
<1>1. /\ pass = "sema" /\ InBody /\ target # {} /\ Write(item, 1)
  BY DEF SemaCall, Analysing
<1>2. want \in target
  BY <1>1
<1>3. \/ to \in {"super", "unqualified"} /\ m # Ctor
      \/ to \in Classes
  <2>1. PICK p \in Programs : program = p.defs /\ words.calls = p.calls
    BY DEF IInv, ProgramInv
  <2>2. call \in p.calls
    BY <2>1
  <2>3. \/ call[1] \in {"super", "unqualified"} /\ call[2] # Ctor
        \/ \E d \in 1..Len(p.defs) :
             p.defs[d].kind = "class" /\ p.defs[d].name = call[1]
    BY <2>2, SemaCodegenAssumption
  <2> QED BY <2>1, <2>3 DEF Classes, Defs
<1>4. Typed /\ from \in Classes \cup {None}
  <2>1. Typed /\ Current \in Bodies
    BY <1>1, ProgramTyped DEF IInv, WorkInv, InBody
  <2> QED BY <2>1, ClassOfIs
<1> HIDE DEF from, to, m, args, want
<1>5. Called(item, from)
  BY <1>2, <1>3, <1>4, TargetCalled
<1> HIDE DEF item, target
<1> QED BY <1>1, <1>5, WriteCalls DEF from

LEMMA SemaCalls ==
  ASSUME IInv, CallsBound, work # <<>>,
         \/ SemaVar \/ SemaClass \/ SemaEnter \/ SemaLeave
         \/ \E n \in Uses : SemaUse(n)
         \/ \E n \in words.names : \E u \in Operand(n) : SemaDecl(n, u)
         \/ SemaIf \/ SemaStray \/ SemaWhile \/ SemaSwitch
         \/ \E n \in words.names : \E u \in Operand(n) : SemaFor(n, u)
         \/ \E n, u \in words.names : SemaForIn(n, u)
         \/ SemaCase \/ SemaClose
         \/ \E kind \in {"break", "continue"} : SemaJump(kind)
         \/ \E u \in {None} \cup Uses : SemaReturn(u)
         \/ \E call \in words.calls : SemaCall(call[1], call[2], call[3])
         \/ \E n \in words.args : SemaBuiltin(n)
         \/ \E field \in words.fields : SemaField(field[1], field[2])
  PROVE  CallsBound' /\ UNCHANGED <<program, emitted>>
<1> DEFINE Keep == CallsBound' /\ UNCHANGED <<program, emitted>>
<1> SUFFICES Keep
  OBVIOUS
<1>1. ASSUME pass = "sema", InBody, NEW item, NEW cost, Write(item, cost),
             item.op # "call"
      PROVE  Keep
  BY <1>1, WriteCalls DEF Write
<1>2. CASE Reject
  <2>1. program' = program /\ bodies' = << >> /\ UNCHANGED emitted
    BY <1>2 DEF Reject
  <2>2. DOMAIN bodies' = {}
    BY <2>1, EmptyScope
  <2> QED BY <2>1, <2>2, CallsBoundKept
<1> HIDE DEF Keep
<1>3. CASE SemaVar \/ SemaClass \/ SemaLeave
  <2>1. CASE ~Reject
    <3>1. UNCHANGED <<program, bodies, emitted>>
      BY <1>3, <2>1 DEF SemaVar, SemaClass, SemaLeave
    <3> QED BY <3>1, CallsBoundKept DEF Keep
  <2> QED BY <1>2, <2>1
<1>4. CASE SemaEnter
  <2>1. /\ bodies' = With(bodies, Current, <<>>)
        /\ UNCHANGED <<program, emitted>>
    BY <1>4 DEF SemaEnter
  <2>2. \A c : CallsIn(<<>>, c)
    BY DEF CallsIn
  <2>3. ASSUME NEW b \in DOMAIN bodies'
        PROVE  \/ b \in DOMAIN bodies /\ bodies'[b] = bodies[b]
               \/ CallsIn(bodies'[b], ClassOf(b))
    BY <2>1, <2>2 DEF With
  <2> QED BY <2>1, <2>3, CallsBoundKept DEF Keep
<1>5. CASE SemaIf \/ SemaStray \/ SemaWhile \/ SemaSwitch
  <2>1. ASSUME NEW kind \in {"if", "stray", "while", "switch"},
               NEW x, NEW y, SemaOpen(kind, x, y)
        PROVE  Keep
    <3>1. pass = "sema" /\ InBody /\ Write([op |-> kind], 1)
      BY <2>1 DEF SemaOpen, Analysing
    <3>2. [op |-> kind].op # "call"
      OBVIOUS
    <3> QED BY <1>1, <3>1, <3>2
  <2> QED BY <1>5, <2>1 DEF SemaIf, SemaStray, SemaWhile, SemaSwitch
<1>6. CASE \/ \E n \in words.names : \E u \in Operand(n) : SemaFor(n, u)
           \/ \E n, u \in words.names : SemaForIn(n, u)
  <2>1. ASSUME NEW kind \in ForKinds, NEW n, NEW u, SemaLoop(kind, n, u)
        PROVE  Keep
    <3> DEFINE item == [op |-> kind, name |-> n, use |-> u,
                        bound |-> Bound(u)]
    <3>1. item.op # "call"
      BY KindsAre
    <3>2. Reject \/ (pass = "sema" /\ InBody /\ Write(item, 1))
      BY <2>1 DEF SemaLoop, Analysing
    <3> HIDE DEF item
    <3> QED BY <1>1, <1>2, <3>1, <3>2
  <2> QED BY <1>6, <2>1, KindsAre DEF SemaFor, SemaForIn
<1>7. CASE SemaCase \/ SemaClose
  <2>1. ASSUME NEW op \in {"case", "close"}, NEW cost, pass = "sema",
               InBody, Write([op |-> op], cost)
        PROVE  Keep
    <3>1. [op |-> op].op # "call"
      OBVIOUS
    <3> QED BY <1>1, <2>1, <3>1
  <2> QED BY <1>7, <2>1 DEF SemaCase, SemaClose, Analysing
<1>8. CASE \/ \E n \in Uses : SemaUse(n)
           \/ \E u \in {None} \cup Uses : SemaReturn(u)
  <2>1. PICK u : SemaUse(u) \/ SemaReturn(u)
    BY <1>8
  <2> DEFINE item == [op |-> "use", use |-> u, bound |-> Bound(u)]
  <2>2. item.op # "call"
    OBVIOUS
  <2>3. Reject \/ (pass = "sema" /\ InBody /\ Write(item, 1))
    BY <2>1 DEF SemaUse, SemaReturn, Analysing
  <2> HIDE DEF item
  <2> QED BY <1>1, <1>2, <2>2, <2>3
<1>9. CASE \E n \in words.names : \E u \in Operand(n) : SemaDecl(n, u)
  <2>1. PICK n, u : SemaDecl(n, u)
    BY <1>9
  <2> DEFINE item == [op |-> "decl", name |-> n, use |-> u,
                      bound |-> Bound(u)]
  <2>2. item.op # "call"
    OBVIOUS
  <2>3. Reject \/ (pass = "sema" /\ InBody /\ Write(item, 1))
    BY <2>1 DEF SemaDecl, Analysing
  <2> HIDE DEF item
  <2> QED BY <1>1, <1>2, <2>2, <2>3
<1>10. CASE \E kind \in {"break", "continue"} : SemaJump(kind)
  <2>1. PICK kind : SemaJump(kind)
    BY <1>10
  <2> DEFINE item == [op |-> "jump", kind |-> kind]
  <2>2. item.op # "call"
    OBVIOUS
  <2>3. Reject \/ (pass = "sema" /\ InBody /\ Write(item, 1))
    BY <2>1 DEF SemaJump, Analysing
  <2> HIDE DEF item
  <2> QED BY <1>1, <1>2, <2>2, <2>3
<1>11. CASE \E call \in words.calls : SemaCall(call[1], call[2], call[3])
  <2>1. PICK call \in words.calls : SemaCall(call[1], call[2], call[3])
    BY <1>11
  <2>2. CASE ~Reject
    <3>1. UNCHANGED <<program, emitted>>
      BY <2>1, <2>2 DEF SemaCall, Write
    <3> QED BY <2>1, <2>2, <3>1, SemaCallCalls DEF Keep
  <2> QED BY <1>2, <2>2
<1>12. CASE \/ \E n \in words.args : SemaBuiltin(n)
            \/ \E field \in words.fields : SemaField(field[1], field[2])
  <2>1. PICK n, c : SemaBuiltin(n) \/ SemaField(c, n)
    BY <1>12
  <2> DEFINE argument == [op |-> "builtin", use |-> n]
             field == [op |-> "field", of |-> c]
  <2>2. argument.op # "call" /\ field.op # "call"
    OBVIOUS
  <2>3. \/ Reject
        \/ /\ pass = "sema" /\ InBody
           /\ Write(argument, 1) \/ Write(field, 1)
    BY <2>1 DEF SemaBuiltin, SemaField, Analysing
  <2> HIDE DEF argument, field
  <2> QED BY <1>1, <1>2, <2>2, <2>3
<1> QED BY <1>3, <1>4, <1>5, <1>6, <1>7, <1>8, <1>9, <1>10, <1>11, <1>12
-----------------------------------------------------------------------------
(***************************************************************************)
(* The invariant of the calls.  A class has its layout before the visits   *)
(* to its methods and to the classes that inherit from it; a method that   *)
(* the generator is no longer to come to is emitted.                       *)
(***************************************************************************)
LaidOut == {<<"class", ClassDef(c), 0>> : c \in layouts}
ToCome == IF at > 0 THEN Tail(work) ELSE work
MethodsDue ==
  \A b \in Bodies : b[1] = "method" =>
    \/ b \in Range(ToCome)
    \/ Mangled(b) \in DOMAIN functions /\ ClassOf(b) \in layouts
FunctionsEmitted ==
  \A d \in Defs("func") : Mangled(<<"func", d, 0>>) \in DOMAIN functions
ParentsFirst ==
  \A c \in layouts : Parent(c) \in Classes => Parent(c) \in layouts
CallsInv ==
  /\ CallsBound /\ ParentsFirst /\ FunctionsAre
  /\ pass = "codegen" => /\ Led(work, LaidOut, Behind)
                         /\ MethodsDue /\ FunctionsEmitted
  /\ CallsMeetTarget

LEMMA NoCalls ==
  ASSUME \A m \in made' : m.is # "call"
  PROVE  CallsMeetTarget'
BY DEF CallsMeetTarget

LEMMA SameEmitted ==
  ASSUME program' = program
  PROVE  /\ layouts' = layouts => LaidOut' = LaidOut
         /\ layouts' = layouts /\ ParentsFirst => ParentsFirst'
         /\ functions' = functions /\ FunctionsAre => FunctionsAre'
         /\ FunctionsEmitted /\ DOMAIN functions \subseteq DOMAIN functions'
              => FunctionsEmitted'
<1>1. /\ Classes' = Classes /\ Bodies' = Bodies
      /\ \A kind : Defs(kind)' = Defs(kind)
      /\ \A b : Mangled(b)' = Mangled(b)
  BY SameProgram
<1>2. \A c : Parent(c)' = Parent(c) /\ ClassDef(c)' = ClassDef(c)
  BY SameCalls
<1>3. layouts' = layouts => LaidOut' = LaidOut
  BY <1>2 DEF LaidOut
<1>4. layouts' = layouts /\ ParentsFirst => ParentsFirst'
  BY <1>1, <1>2 DEF ParentsFirst
<1>5. functions' = functions /\ FunctionsAre => FunctionsAre'
  BY <1>1 DEF FunctionsAre
<1>6. FunctionsEmitted /\ DOMAIN functions \subseteq DOMAIN functions'
        => FunctionsEmitted'
  BY <1>1 DEF FunctionsEmitted
<1> QED BY <1>3, <1>4, <1>5, <1>6

LEMMA DueKept ==
  ASSUME MethodsDue, program' = program,
         DOMAIN functions \subseteq DOMAIN functions',
         layouts \subseteq layouts',
         \A b \in Bodies : b[1] = "method" /\ b \in Range(ToCome) =>
           \/ b \in Range(ToCome')
           \/ Mangled(b) \in DOMAIN functions' /\ ClassOf(b) \in layouts'
  PROVE  MethodsDue'
<1>1. Bodies' = Bodies /\ \A b : Mangled(b)' = Mangled(b)
  BY SameProgram
<1>2. \A b : ClassOf(b)' = ClassOf(b)
  BY SameCalls
<1>3. ASSUME NEW b \in Bodies, b[1] = "method"
      PROVE  \/ b \in Range(ToCome')
             \/ Mangled(b) \in DOMAIN functions' /\ ClassOf(b) \in layouts'
  BY <1>3 DEF MethodsDue
<1> HIDE DEF ToCome
<1> QED BY <1>1, <1>2, <1>3 DEF MethodsDue

\* A step that stays where it is, or ends the generator.
LEMMA CallsKept ==
  ASSUME CallsInv, UNCHANGED <<program, bodies, emitted>>, CallsMeetTarget',
         \/ pass' # "codegen"
         \/ /\ pass = "codegen" /\ work' = work
            /\ (at > 0) <=> (at' > 0)
  PROVE  CallsInv'
<1>1. CallsBound'
  BY CallsBoundKept DEF CallsInv
<1>2. functions' = functions /\ layouts' = layouts
  BY DEF emitted
<1>3. ParentsFirst' /\ FunctionsAre'
  BY <1>2, SameEmitted DEF CallsInv
<1>4. ASSUME pass' = "codegen"
      PROVE  Led(work, LaidOut, Behind)' /\ MethodsDue' /\ FunctionsEmitted'
  <2>1. pass = "codegen" /\ work' = work /\ ToCome' = ToCome
    BY <1>4 DEF ToCome
  <2>2. LaidOut' = LaidOut /\ Behind' = Behind /\ FunctionsEmitted'
    BY <1>2, <2>1, SameEmitted, SameCalls DEF CallsInv
  <2>3. MethodsDue'
    BY <1>2, <2>1, DueKept DEF CallsInv
  <2> QED BY <2>1, <2>2, <2>3 DEF CallsInv, Led
<1> QED BY <1>1, <1>3, <1>4 DEF CallsInv
-----------------------------------------------------------------------------
(***************************************************************************)
(* The visits of the generator.                                            *)
(***************************************************************************)
LEMMA LaidOutIs ==
  ASSUME Typed, layouts \subseteq Classes, NEW c \in Classes,
         <<"class", ClassDef(c), 0>> \in LaidOut
  PROVE  c \in layouts
<1>1. PICK k \in layouts : ClassDef(k) = ClassDef(c)
  BY DEF LaidOut
<1>2. program[ClassDef(k)].name = k /\ program[ClassDef(c)].name = c
  BY <1>1, ClassDefIs
<1> QED BY <1>1, <1>2

\* What must come before the next visit has come.
LEMMA HeadLed ==
  ASSUME IInv, CallsInv, pass = "codegen", work # <<>>, NEW c \in Classes,
         <<Current, <<"class", ClassDef(c), 0>>>> \in Behind
  PROVE  c \in layouts
<1> DEFINE y == <<"class", ClassDef(c), 0>>
<1>1. work \in Seq(Visits) /\ Len(work) \in Nat /\ 1 \in 1..Len(work)
      /\ work[1] = Current
  BY EmptySeq DEF IInv, WorkInv, Current
<1>2. Led(work, LaidOut, Behind) /\ <<work[1], y>> \in Behind
  BY <1>1 DEF CallsInv
<1> HIDE DEF y
<1>3. y \in LaidOut
  BY <1>1, <1>2 DEF Led
<1> QED BY <1>3, LaidOutIs, ProgramTyped DEF IInv, EmitInv, y

LEMMA CurrentLaidOut ==
  ASSUME IInv, CallsInv, pass = "codegen", work # <<>>, Current \in Bodies,
         ClassOf(Current) # None
  PROVE  ClassOf(Current) \in layouts /\ ClassOf(Current) \in Classes
<1> DEFINE c == ClassOf(Current)
<1>1. Typed /\ Distinct /\ Current \in Visits
  BY ProgramTyped, CurrentIs DEF IInv, GlobalsInv
<1>2. /\ Current[1] = "method" /\ c \in Classes /\ ClassDef(c) = Current[2]
      /\ Current[2] \in Defs("class")
  BY <1>1, MethodOf
<1>3. <<"class", Current[2], 0>> \in Visits
  BY <1>2, DefsIn DEF Visits
<1>4. <<Current, <<"class", Current[2], 0>>>> \in Behind
  BY <1>1, <1>2, <1>3 DEF Behind
<1> QED BY <1>2, <1>4, HeadLed

\* The next visit, behind one that is not to a class.
LEMMA LedOn ==
  ASSUME IInv, CallsInv, pass = "codegen", work # <<>>, Current[1] # "class"
  PROVE  Led(Tail(work), LaidOut, Behind)
<1>1. work \in Seq(Visits) /\ Led(work, LaidOut, Behind)
  BY DEF IInv, WorkInv, CallsInv
<1>2. Led(Tail(work), LaidOut \cup {Current}, Behind)
  BY <1>1, LedTail DEF Current
<1>3. \A x : <<x, Current>> \notin Behind
  BY DEF Behind
<1> DEFINE s == Tail(work)
<1> HIDE DEF s
<1>4. \A i \in 1..Len(s) : \A y \in LaidOut \cup {Current} :
        <<s[i], y>> \in Behind => y \in LaidOut
  BY <1>3
<1> QED BY <1>2, <1>4, LedMore DEF s

LEMMA GenClassCalls ==
  ASSUME IInv, CallsInv, work # <<>>, GenClass
  PROVE  CallsInv'
<1> DEFINE d == Current[2]
           c == program[d].name
<1>1. /\ pass = "codegen" /\ Current[1] = "class"
      /\ layouts' = layouts \cup {c} /\ work' = Tail(work) /\ made' = {}
      /\ UNCHANGED <<program, bodies, pass, at, functions>>
  BY DEF GenClass
<1>2. Typed /\ Distinct /\ Current \in Visits /\ at = 0
  BY <1>1, ProgramTyped, CurrentIs, Outside DEF IInv, GlobalsInv
<1>3. d \in Defs("class") /\ Current = <<"class", d, 0>>
  BY <1>1, <1>2, DefVisit DEF Defs
<1>4. c \in Classes /\ ClassDef(c) = d /\ Parent(c) = program[d].parent
  BY <1>2, <1>3, OneClass
<1> HIDE DEF d, c
<1>5. CallsBound' /\ FunctionsAre' /\ FunctionsEmitted'
  BY <1>1, CallsBoundKept, SameEmitted DEF CallsInv
<1>6. ParentsFirst'
  <2>1. ASSUME Parent(c) \in Classes PROVE Parent(c) \in layouts
    <3> DEFINE p == Parent(c)
    <3>1. ClassDef(p) \in Defs("class")
      BY <1>2, <2>1, ClassDefIs
    <3>2. <<"class", ClassDef(p), 0>> \in Visits
      BY <3>1, DefsIn DEF Visits
    <3>3. /\ Current[1] = "class" /\ program[Current[2]].parent = p
      BY <1>3, <1>4
    <3> HIDE DEF p
    <3>4. p \in Classes
      BY <2>1 DEF p
    <3>5. <<Current, <<"class", ClassDef(p), 0>>>> \in Behind
      BY <1>2, <3>2, <3>3, <3>4 DEF Behind
    <3>6. p \in layouts
      BY <1>1, <3>4, <3>5, HeadLed
    <3> QED BY <3>6 DEF p
  <2>2. Classes' = Classes /\ \A k : Parent(k)' = Parent(k)
    BY <1>1, SameProgram, SameCalls
  <2> QED BY <1>1, <2>1, <2>2 DEF CallsInv, ParentsFirst
<1>7. Led(work, LaidOut, Behind)'
  <2>1. work \in Seq(Visits) /\ Led(work, LaidOut, Behind)
    BY <1>1 DEF IInv, WorkInv, CallsInv
  <2>2. Led(Tail(work), LaidOut \cup {Current}, Behind)
    BY <2>1, LedTail DEF Current
  <2>3. Behind' = Behind /\ \A k : ClassDef(k)' = ClassDef(k)
    BY <1>1, SameCalls
  <2>4. LaidOut' = LaidOut \cup {Current}
    BY <1>1, <1>3, <1>4, <2>3 DEF LaidOut
  <2> QED BY <1>1, <2>2, <2>3, <2>4 DEF Led
<1>8. MethodsDue'
  <2>1. ToCome = work /\ ToCome' = Tail(work)
    BY <1>1, <1>2 DEF ToCome
  <2>2. Range(work) = {Current} \cup Range(Tail(work))
    BY CurrentIs DEF IInv
  <2> QED BY <1>1, <2>1, <2>2, DueKept DEF CallsInv
<1>9. CallsMeetTarget'
  BY <1>1, NoCalls
<1> QED BY <1>5, <1>6, <1>7, <1>8, <1>9 DEF CallsInv

\* A visit that lays out and emits nothing.
LEMMA CallsPassed ==
  ASSUME IInv, CallsInv, pass = "codegen", work # <<>>,
         Current[1] # "class", Current[1] = "method" => at > 0,
         UNCHANGED <<program, bodies, pass, emitted>>,
         work' = Tail(work), at' = 0, made' = {}
  PROVE  CallsInv'
<1>1. functions' = functions /\ layouts' = layouts
  BY DEF emitted
<1>2. /\ CallsBound' /\ ParentsFirst' /\ FunctionsAre' /\ FunctionsEmitted'
      /\ LaidOut' = LaidOut /\ Behind' = Behind
  BY <1>1, CallsBoundKept, SameEmitted, SameCalls DEF CallsInv
<1>3. Led(work, LaidOut, Behind)'
  BY <1>2, LedOn DEF Led
<1>4. MethodsDue'
  <2>1. ToCome' = Tail(work) /\ ToCome = IF at > 0 THEN Tail(work) ELSE work
    BY DEF ToCome
  <2>2. Range(work) = {Current} \cup Range(Tail(work))
    BY CurrentIs DEF IInv
  <2>3. ASSUME NEW b \in Bodies, b[1] = "method", b \in Range(ToCome)
        PROVE  b \in Range(ToCome')
    BY <2>1, <2>2, <2>3
  <2> QED BY <1>1, <2>3, DueKept DEF CallsInv
<1>5. CallsMeetTarget'
  BY NoCalls
<1> QED BY <1>2, <1>3, <1>4, <1>5 DEF CallsInv

LEMMA GenGlobalCalls ==
  ASSUME IInv, CallsInv, work # <<>>, GenGlobal
  PROVE  CallsInv'
<1>1. /\ pass = "codegen" /\ Current[1] \in {"var", "enum"}
      /\ work' = Tail(work) /\ made' = {}
      /\ UNCHANGED <<program, bodies, pass, at, emitted>>
  BY DEF GenGlobal
<1>2. at = 0
  BY <1>1, Outside
<1> QED BY <1>1, <1>2, CallsPassed

LEMMA GenLeaveCalls ==
  ASSUME IInv, CallsInv, work # <<>>, GenLeave
  PROVE  CallsInv'
<1>1. /\ pass = "codegen" /\ at > 0 /\ work' = Tail(work) /\ made' = {}
      /\ at' = 0 /\ UNCHANGED <<program, bodies, pass, emitted>>
  BY DEF GenLeave, InBody
<1>2. Current[1] # "class"
  BY <1>1 DEF IInv, WorkInv, Bodies, IsBody
<1> QED BY <1>1, <1>2, CallsPassed

\* A method is emitted when the generator enters its body.
LEMMA GenEnterCalls ==
  ASSUME IInv, CallsInv, work # <<>>, GenEnter
  PROVE  CallsInv'
<1>1. /\ pass = "codegen" /\ at = 0 /\ IsBody(Current) /\ at' = 1
      /\ functions' = IF Current[1] = "method"
                      THEN With(functions, Mangled(Current), Current)
                      ELSE functions
      /\ made' = {} /\ UNCHANGED <<program, bodies, pass, work, layouts>>
  BY DEF GenEnter
<1>2. Typed /\ Current \in Bodies
  BY <1>1, ProgramTyped, CurrentIs DEF IInv, Bodies
<1>3. /\ DOMAIN functions \subseteq DOMAIN functions'
      /\ Current[1] = "method" => Mangled(Current) \in DOMAIN functions'
      /\ \A name \in DOMAIN functions' :
           \/ name \in DOMAIN functions /\ functions'[name] = functions[name]
           \/ functions'[name] = Current /\ Current[1] = "method"
  BY <1>1 DEF With
<1>4. /\ CallsBound' /\ ParentsFirst' /\ FunctionsEmitted'
      /\ LaidOut' = LaidOut /\ Behind' = Behind
  BY <1>1, <1>3, CallsBoundKept, SameEmitted, SameCalls DEF CallsInv
<1>5. FunctionsAre'
  <2>1. Bodies' = Bodies /\ Run[1] # "method"
    BY <1>1, SameProgram DEF Run
  <2> QED BY <1>2, <1>3, <2>1 DEF CallsInv, FunctionsAre
<1>6. Led(work, LaidOut, Behind)'
  BY <1>1, <1>4 DEF CallsInv, Led
<1>7. MethodsDue'
  <2>1. ToCome = work /\ ToCome' = Tail(work)
    BY <1>1 DEF ToCome
  <2>2. Range(work) = {Current} \cup Range(Tail(work))
    BY CurrentIs DEF IInv
  <2>3. Current[1] = "method" => ClassOf(Current) \in layouts'
    BY <1>1, <1>2, ClassOfIs, CurrentLaidOut
  <2>4. ASSUME NEW b \in Bodies, b[1] = "method", b \in Range(ToCome)
        PROVE  \/ b \in Range(ToCome')
               \/ Mangled(b) \in DOMAIN functions' /\ ClassOf(b) \in layouts'
    BY <1>3, <2>1, <2>2, <2>3, <2>4
  <2> QED BY <1>1, <1>3, <2>4, DueKept DEF CallsInv
<1>8. CallsMeetTarget'
  BY <1>1, NoCalls
<1> QED BY <1>4, <1>5, <1>6, <1>7, <1>8 DEF CallsInv

\* The generator begins: the functions are declared, all methods to come.
LEMMA SemaEndCalls ==
  ASSUME IInv, CallsInv, SemaEnd
  PROVE  CallsInv'
<1> DEFINE key(d) == Mangled(<<"func", d, 0>>)
           named(name) == {d \in Defs("func") : key(d) = name}
           F == {key(d) : d \in Defs("func")}
<1>1. /\ pass = "sema" /\ work = <<>> /\ pass' = "codegen"
      /\ work' = CodegenWork
      /\ functions' = [name \in F |-> <<"func", Max(named(name)), 0>>]
      /\ UNCHANGED <<program, bodies, at, layouts, made>>
  BY DEF SemaEnd
<1>2. at = 0 /\ Typed /\ Distinct /\ AllSound
  <2>1. Range(work) = {}
    BY <1>1 DEF Range
  <2>2. at = 0
    BY <1>1 DEF IInv, WorkInv
  <2>3. Typed /\ Distinct
    BY <1>1, ProgramTyped DEF IInv, GlobalsInv
  <2>4. \A d \in Defs("class") : Checked(d)
    BY <1>1, <2>1 DEF IInv, GlobalsInv
  <2> QED BY <2>2, <2>3, <2>4 DEF AllSound, Checked
<1>3. Len(program) \in Nat
  BY <1>2 DEF Typed
<1>4. Bodies' = Bodies /\ (\A b : Mangled(b)' = Mangled(b))
      /\ Defs("func")' = Defs("func") /\ Behind' = Behind
  BY <1>1, SameProgram, SameCalls
<1>5. ASSUME NEW name \in F
      PROVE  <<"func", Max(named(name)), 0>> \in Bodies \ {Run}
  <2>1. named(name) # {} /\ named(name) \in SUBSET (1..Len(program))
    BY DefsIn
  <2>2. Max(named(name)) \in Defs("func")
    BY <1>3, <2>1, GreatestNumber
  <2> HIDE DEF named
  <2> QED BY <2>2, DefsIn DEF Bodies, Visits, IsBody, Run
<1>6. FunctionsAre'
  <2> HIDE DEF named, F
  <2> QED BY <1>1, <1>4, <1>5 DEF FunctionsAre
<1>7. FunctionsEmitted'
  BY <1>1, <1>4 DEF FunctionsEmitted
<1>8. CallsBound' /\ ParentsFirst'
  BY <1>1, CallsBoundKept, SameEmitted DEF CallsInv
<1>9. Led(work, LaidOut, Behind)'
  <2>1. Led(CodegenWork, {}, Behind)
    BY <1>2, CodegenWorkLed
  <2>2. Led(CodegenWork, LaidOut', Behind)
    BY <2>1, LedMore
  <2> QED BY <1>1, <1>4, <2>2 DEF Led
<1>10. MethodsDue'
  <2>1. ToCome' = CodegenWork
    BY <1>1, <1>2 DEF ToCome
  <2> QED BY <1>2, <1>4, <2>1, CodegenWorkLed DEF MethodsDue
<1>11. CallsMeetTarget'
  BY <1>1, NoCalls DEF IInv, EmitInv
<1> QED BY <1>6, <1>7, <1>8, <1>9, <1>10, <1>11 DEF CallsInv
-----------------------------------------------------------------------------
(***************************************************************************)
(* The calls of a body.                                                    *)
(***************************************************************************)
LEMMA InheritedIs ==
  ASSUME Typed, NEW c \in Classes, NEW m, NEW b \in InheritedMethods(c, m)
  PROVE  b \in Bodies /\ b[1] = "method"
<1>1. PICK i \in 1..Len(Lineage(c)) : b \in Methods(Lineage(c)[i])
  BY DEF InheritedMethods
<1>2. Lineage(c)[i] \in Classes
  <2> DEFINE s == Lineage(c)
  <2>1. s \in Seq(Classes)
    BY LineageIs DEF Typed
  <2> HIDE DEF s
  <2>2. \A k \in 1..Len(s) : s[k] \in Classes
    BY <2>1
  <2> QED BY <2>2 DEF s
<1> QED BY <1>1, <1>2, MethodIs

\* A method, once it is emitted, is reached through each class that has it.
LEMMA InheritedReached ==
  ASSUME IInv, CallsInv, pass = "codegen", InBody,
         NEW c \in Classes, c \in layouts, NEW m,
         NEW want \in InheritedMethods(c, m)
  PROVE  LET got == FindMethod(c, m, Types(want))
         IN  /\ Reaches(got, want)
             /\ got # NoBody \/ want \in Range(Tail(work))
<1>1. Typed /\ Distinct /\ AllSound /\ EmitInv /\ FunctionsAre
  BY ProgramTyped DEF IInv, GlobalsInv, CallsInv, AllSound, Checked
<1>2. want \in Bodies /\ want[1] = "method"
  BY <1>1, InheritedIs
<1>3. ToCome = Tail(work)
  BY DEF ToCome, InBody
<1>4. CASE want \in Range(Tail(work))
  BY <1>4 DEF Reaches
<1>5. CASE Mangled(want) \in DOMAIN functions /\ ClassOf(want) \in layouts
  BY <1>1, <1>5, MethodReached
<1> QED BY <1>2, <1>3, <1>4, <1>5 DEF CallsInv, MethodsDue

\* What an emitted method is found as, a class has or inherits.
LEMMA OwnedIs ==
  ASSUME IInv, CallsInv, pass = "codegen", NEW c \in Classes, NEW m, NEW ts,
         FindMethod(c, m, ts) # NoBody
  PROVE  InheritedMethods(c, m) # {}
<1> DEFINE s == Lineage(c)
           I == {i \in 1..Len(s) : Has(s[i], m, ts)}
<1>1. Typed /\ Distinct /\ EmitInv /\ FunctionsAre
  BY ProgramTyped DEF IInv, CallsInv, GlobalsInv
<1>2. s \in Seq(Classes) /\ Len(s) \in Nat
  BY <1>1, LineageIs DEF Typed
<1>3. Nearest(c, LAMBDA k : Has(k, m, ts)) = IF I = {} THEN 0 ELSE Min(I)
  BY DEF Nearest, SelectInSeq
<1>4. I # {}
  BY <1>3 DEF FindMethod
<1> DEFINE i == Min(I)
<1>5. i \in 1..Len(s) /\ Has(s[i], m, ts)
  <2>1. i \in I
    BY <1>2, <1>4, SmallestNumber
  <2> QED BY <2>1
<1> HIDE DEF i
<1> DEFINE b == Emitted(s[i], m, ts)
<1>6. b \in Bodies /\ ClassOf(b) = s[i] /\ Signature(b).name = m
  BY <1>1, <1>5, EmittedIs DEF Has
<1> HIDE DEF b, s
<1>7. s[i] \in Classes
  BY <1>2, <1>5
<1>8. b \in Methods(s[i])
  BY <1>1, <1>6, <1>7, MethodOf, ClassesNamed, NoneIsNoName
<1> QED BY <1>1, <1>5, <1>6, <1>8, Inherits DEF s

LEMMA CallReached ==
  ASSUME IInv, CallsInv, pass = "codegen", InBody,
         at <= Len(bodies[Current]), Item.op = "call"
  PROVE  LET from == ClassOf(Current)
             types == Types(Item.bound)
             got == CASE Item.name = Ctor -> GenNew(Item.to, Item.bound)
                      [] Item.to = "super" -> GenSuper(Item.name, types, from)
                      [] OTHER -> GenCall(Item.to, Item.name, types, from)
         IN  Reaches(got, Item.bound) \/ Item.to \in Classes \ layouts
<1> DEFINE from == ClassOf(Current)
           want == Item.bound
           types == Types(want)
           to == Item.to
           m == Item.name
           got == CASE m = Ctor -> GenNew(to, want)
                    [] to = "super" -> GenSuper(m, types, from)
                    [] OTHER -> GenCall(to, m, types, from)
<1>1. /\ Typed /\ Distinct /\ EmitInv /\ FunctionsAre /\ FunctionsEmitted
      /\ ParentsFirst
  BY ProgramTyped DEF IInv, CallsInv, GlobalsInv
<1>2. /\ at \in 1..Len(bodies[Current]) /\ Current \in DOMAIN bodies
      /\ Current \in Bodies /\ work # <<>>
  BY Following DEF InBody
<1>3. Called(Item, from)
  BY <1>2 DEF CallsInv, CallsBound, CallsIn, Item
<1>4. from # None => from \in layouts /\ from \in Classes
  BY <1>2, CurrentLaidOut
<1>5. "super" \notin Classes /\ "unqualified" \notin Classes
  BY <1>1, DefinitionIs, DefsIn DEF Classes, Typed, Definition
<1> HIDE DEF from, want, types, to, m
<1>6. /\ CalledNew(Item) => /\ m = Ctor /\ to \in Classes
                            /\ \/ want[1] = "class"
                               \/ want \in InheritedMethods(to, m)
      /\ CalledMethod(Item) => /\ m # Ctor /\ to \in Classes
                               /\ want \in InheritedMethods(to, m)
      /\ CalledSuper(Item, from) =>
           /\ m # Ctor /\ to = "super"
           /\ from # None /\ Parent(from) \in Classes
           /\ want \in InheritedMethods(Parent(from), m)
      /\ CalledOwn(Item, from) =>
           /\ m # Ctor /\ to = "unqualified" /\ from # None
           /\ want \in InheritedMethods(from, m)
      /\ CalledFunction(Item, from) =>
           /\ m # Ctor /\ to = "unqualified"
           /\ \E d \in Defs("func") :
                want = <<"func", d, 0>> /\ program[d].name = m
           /\ from = None \/ InheritedMethods(from, m) = {}
  BY DEF CalledNew, CalledMethod, CalledSuper, CalledOwn, CalledFunction,
         want, to, m
<1>7. CASE CalledNew(Item) /\ to \in layouts
  <2>1. m = Ctor /\ to \in Classes
        /\ (want[1] = "class" \/ want \in InheritedMethods(to, Ctor))
    BY <1>6, <1>7
  <2>2. got = GenNew(to, want)
    BY <1>5, <2>1
  <2>3. want[1] = "class" => Reaches(got, want)
    BY <1>7, <2>2 DEF GenNew, Reaches
  <2>4. ASSUME want[1] # "class" PROVE Reaches(got, want)
    <3>1. got = FindMethod(to, Ctor, Types(want))
      BY <1>7, <2>2, <2>4 DEF GenNew
    <3> QED BY <1>7, <2>1, <2>4, <3>1, InheritedReached
  <2>5. Reaches(got, want)
    BY <2>3, <2>4
  <2> QED BY <2>5 DEF got, to, m, want, types, from
<1>8. CASE CalledMethod(Item) /\ to \in layouts
  <2>1. /\ m # Ctor /\ to \in Classes /\ to # "super" /\ to # "unqualified"
        /\ want \in InheritedMethods(to, m)
    BY <1>5, <1>6, <1>8
  <2>2. got = FindMethod(to, m, Types(want))
    BY <2>1 DEF GenCall, types
  <2> QED BY <1>8, <2>1, <2>2, InheritedReached
          DEF got, to, m, want, types, from
<1>9. CASE CalledSuper(Item, from)
  <2>1. /\ m # Ctor /\ to = "super" /\ from # None /\ Parent(from) \in Classes
        /\ want \in InheritedMethods(Parent(from), m)
    BY <1>6, <1>9
  <2>2. got = FindMethod(Parent(from), m, Types(want))
    BY <2>1 DEF GenSuper, types
  <2>3. Parent(from) \in layouts
    BY <1>1, <1>4, <2>1 DEF ParentsFirst
  <2> QED BY <2>1, <2>2, <2>3, InheritedReached
          DEF got, to, m, want, types, from
<1> DEFINE owned == IF from = None THEN NoBody ELSE FindMethod(from, m, types)
<1>10. m # Ctor /\ to = "unqualified" =>
         got = IF owned # NoBody THEN owned ELSE Emitted(None, m, types)
  BY DEF GenCall
<1>11. CASE CalledOwn(Item, from)
  <2>1. /\ m # Ctor /\ to = "unqualified" /\ from # None
        /\ want \in InheritedMethods(from, m)
    BY <1>6, <1>11
  <2>2. /\ owned = FindMethod(from, m, Types(want))
        /\ got = IF owned # NoBody THEN owned ELSE Emitted(None, m, types)
    BY <1>10, <2>1 DEF types
  <2>3. /\ Reaches(owned, want)
        /\ owned # NoBody \/ want \in Range(Tail(work))
    BY <1>4, <2>1, <2>2, InheritedReached
  <2>4. Reaches(got, want)
    BY <2>2, <2>3 DEF Reaches
  <2> QED BY <2>4 DEF got, to, m, want, types, from
<1>12. CASE CalledFunction(Item, from)
  <2>1. m # Ctor /\ to = "unqualified"
        /\ (from = None \/ InheritedMethods(from, m) = {})
    BY <1>6, <1>12
  <2>2. PICK d \in Defs("func") :
          want = <<"func", d, 0>> /\ program[d].name = m
    BY <1>6, <1>12
  <2>3. owned = NoBody
    BY <1>4, <2>1, OwnedIs
  <2>4. got = Emitted(None, program[d].name, Types(want))
    BY <1>10, <2>1, <2>2, <2>3 DEF types
  <2>5. Mangled(<<"func", d, 0>>) \in DOMAIN functions
    BY <1>1 DEF FunctionsEmitted
  <2>6. Reaches(got, want)
    BY <1>1, <2>2, <2>4, <2>5, FunctionReached
  <2> QED BY <2>6 DEF got, to, m, want, types, from
<1>13. CASE (CalledNew(Item) \/ CalledMethod(Item)) /\ to \notin layouts
  BY <1>6, <1>13 DEF to
<1> QED BY <1>3, <1>7, <1>8, <1>9, <1>11, <1>12, <1>13 DEF Called

LEMMA ReachesSame ==
  ASSUME program' = program, work' = work
  PROVE  \A got, want : Reaches(got, want) =>
           \/ got = want \/ want \in Range(Tail(work))'
           \/ /\ got # NoBody /\ Types(got)' # Types(want)'
              /\ \A i \in {2, 3} : Mangled(got)'[i] = Mangled(want)'[i]
<1>1. \A b : Mangled(b)' = Mangled(b)
  BY SameProgram
<1>2. \A b : Types(b)' = Types(b)
  BY DEF Types, Signature
<1> QED BY <1>1, <1>2 DEF Reaches

LEMMA GenCallOrNewCalls ==
  ASSUME IInv, CallsInv, GenCallOrNew
  PROVE  CallsInv'
<1> DEFINE new == Item.name = Ctor
           from == ClassOf(Current)
           inits == IF new /\ Item.to \in layouts THEN Initialised(Item.to)
                    ELSE {}
           types == Types(Item.bound)
           got == CASE new -> GenNew(Item.to, Item.bound)
                    [] Item.to = "super" -> GenSuper(Item.name, types, from)
                    [] OTHER -> GenCall(Item.to, Item.name, types, from)
           call == [is |-> "call", to |-> Item.to, want |-> Item.bound,
                    got |-> got]
           R == UNION {Resolved(scopes, f.init, scopes[1][f.init].decl,
                                "field") : f \in {g \in inits : ~g.array}}
<1>1. /\ pass = "codegen" /\ InBody /\ at <= Len(bodies[Current])
      /\ Item.op = "call" /\ at \in Nat /\ at > 0
  BY DEF GenCallOrNew, Generating, InBody, IInv, WorkInv
<1>2. Reaches(got, Item.bound) \/ Item.to \in Classes \ layouts
  BY <1>1, CallReached
<1>3. Abort \/ (Done /\ made' = {call} \cup R)
  BY DEF GenCallOrNew
<1>4. \A m \in R : m.is # "call"
  BY ResolvedIs
<1> HIDE DEF got, R
<1>5. /\ call.to = Item.to /\ call.want = Item.bound /\ call.got = got
  OBVIOUS
<1> HIDE DEF call
<1>6. CASE Abort
  <2>1. /\ pass' = "abort" /\ made' = {}
        /\ UNCHANGED <<program, bodies, emitted>>
    BY <1>6 DEF Abort
  <2>2. CallsMeetTarget'
    BY <2>1, NoCalls
  <2> QED BY <2>1, <2>2, CallsKept
<1>7. CASE Done /\ made' = {call} \cup R
  <2>1. /\ UNCHANGED <<program, bodies, pass, work, emitted>>
        /\ at' = at + 1 /\ layouts' = layouts
    BY <1>7 DEF Done, emitted
  <2>2. Classes' = Classes
    BY <2>1, SameProgram
  <2>3. ASSUME NEW m \in made', m.is = "call"
        PROVE  \/ m.got = m.want
               \/ m.want \in Range(Tail(work))'
               \/ m.to \in Classes' \ layouts'
               \/ /\ m.got # NoBody /\ Types(m.got)' # Types(m.want)'
                  /\ \A i \in {2, 3} : Mangled(m.got)'[i] = Mangled(m.want)'[i]
    <3>1. m = call
      BY <1>4, <1>7, <2>3
    <3>2. \/ Reaches(m.got, m.want)
          \/ m.to \in Classes' \ layouts'
      BY <1>2, <1>5, <2>1, <2>2, <3>1
    <3> QED BY <2>1, <3>2, ReachesSame
  <2>4. CallsMeetTarget'
    BY <2>3 DEF CallsMeetTarget
  <2> QED BY <1>1, <2>1, <2>4, CallsKept
<1> QED BY <1>3, <1>6, <1>7

\* A statement that is no call.
LEMMA GenOtherCalls ==
  ASSUME IInv, CallsInv,
         \/ GenUse \/ GenDecl \/ GenIf \/ GenStray \/ GenWhile \/ GenSwitch
         \/ GenFor \/ GenForIn \/ GenCase \/ GenClose \/ GenJump
         \/ GenBuiltin \/ GenField
  PROVE  CallsInv'
<1> DEFINE Quiet == (Abort \/ Done) /\ \A m \in made' : m.is # "call"
<1>1. pass = "codegen" /\ InBody /\ at \in Nat /\ at > 0
  BY DEF GenUse, GenDecl, GenIf, GenStray, GenWhile, GenSwitch, GenFor,
         GenForIn, GenCase, GenClose, GenJump, GenOpen, GenLoop, GenBuiltin,
         GenField, Generating, InBody, IInv, WorkInv
<1>2. \A s, n, want, how : \A m \in Resolved(s, n, want, how) : m.is # "call"
  BY ResolvedIs
<1>3. Abort => Quiet
  BY DEF Abort
<1>4. ASSUME Done, NEW s, NEW n, NEW want, NEW how,
             made' = Resolved(s, n, want, how)
      PROVE  Quiet
  BY <1>2, <1>4
<1>5. Done /\ made' = {} => Quiet
  OBVIOUS
<1>6. ASSUME NEW m, Done, made' = {m}, m.is # "call" PROVE Quiet
  BY <1>6
<1> HIDE DEF Quiet
<1>7. Quiet
  <2>1. CASE GenUse
    BY <1>3, <1>4, <2>1 DEF GenUse
  <2>2. CASE GenDecl
    BY <1>3, <1>4, <2>2 DEF GenDecl
  <2>3. CASE GenFor \/ GenForIn
    BY <1>3, <1>4, <2>3 DEF GenFor, GenForIn, GenLoop
  <2>4. CASE GenIf \/ GenStray \/ GenWhile \/ GenSwitch
    BY <1>5, <2>4 DEF GenIf, GenStray, GenWhile, GenSwitch, GenOpen
  <2>5. CASE GenCase
    BY <1>5, <2>5 DEF GenCase
  <2>6. CASE GenClose
    <3>1. Done /\ \/ made' = {}
                  \/ \E s, n, want, how : made' = Resolved(s, n, want, how)
      BY <2>6 DEF GenClose
    <3> QED BY <1>4, <1>5, <3>1
  <2>7. CASE GenJump
    <3>1. PICK a, b : made' = {[is |-> "jump", want |-> a, got |-> b]}
      BY <2>7 DEF GenJump
    <3> DEFINE m == [is |-> "jump", want |-> a, got |-> b]
    <3>2. m.is # "call" /\ Done
      BY <2>7 DEF GenJump
    <3> HIDE DEF m
    <3> QED BY <1>6, <3>1, <3>2 DEF m
  <2>8. CASE GenBuiltin \/ GenField
    BY <1>3, <1>5, <2>8 DEF GenBuiltin, GenField
  <2> QED BY <2>1, <2>2, <2>3, <2>4, <2>5, <2>6, <2>7, <2>8
<1>8. CallsMeetTarget'
  BY <1>7, NoCalls DEF Quiet
<1>9. CASE Abort
  BY <1>8, <1>9, CallsKept DEF Abort
<1>10. CASE Done
  <2>1. /\ UNCHANGED <<program, bodies, pass, work, emitted>>
        /\ at' = at + 1
    BY <1>10 DEF Done
  <2> QED BY <1>1, <1>8, <2>1, CallsKept
<1> QED BY <1>7, <1>9, <1>10 DEF Quiet
-----------------------------------------------------------------------------
(***************************************************************************)
(* Calls in every state.                                                   *)
(***************************************************************************)
LEMMA StutterCalls == ASSUME CallsInv, UNCHANGED vars PROVE CallsInv'
<1>1. UNCHANGED <<program, bodies, layouts, functions, pass, work, at, made>>
  BY DEF vars, emitted
<1>2. CallsBound'
  BY <1>1, CallsBoundKept DEF CallsInv
<1>3. /\ ParentsFirst' /\ FunctionsAre' /\ LaidOut' = LaidOut
      /\ Behind' = Behind /\ (FunctionsEmitted => FunctionsEmitted')
  BY <1>1, SameEmitted, SameCalls DEF CallsInv
<1>4. pass = "codegen" => Led(work, LaidOut, Behind)' /\ MethodsDue'
  <2>1. ToCome' = ToCome
    BY <1>1 DEF ToCome
  <2> QED BY <1>1, <1>3, <2>1, DueKept DEF CallsInv, Led
<1>5. CallsMeetTarget'
  <2>1. /\ Classes' = Classes /\ \A b : Mangled(b)' = Mangled(b)
    BY <1>1, SameProgram
  <2>2. \A b : Types(b)' = Types(b)
    BY <1>1 DEF Types, Signature
  <2> QED BY <1>1, <2>1, <2>2 DEF CallsInv, CallsMeetTarget
<1> QED BY <1>1, <1>2, <1>3, <1>4, <1>5 DEF CallsInv

\* Before the generator there is nothing of its state yet.
LEMMA CallsBefore ==
  ASSUME IInv', CallsInv, CallsBound', UNCHANGED <<program, emitted>>,
         pass' \in {"collect", "sema", "rejected"}
  PROVE  CallsInv'
<1>1. ParentsFirst' /\ FunctionsAre'
  BY SameEmitted DEF CallsInv, emitted
<1>2. made' = {}
  BY DEF IInv, EmitInv
<1> QED BY <1>1, <1>2, NoCalls DEF CallsInv

LEMMA GenActionCalls ==
  ASSUME IInv, CallsInv, work # <<>>,
         \/ GenClass \/ GenGlobal \/ GenEnter \/ GenLeave
         \/ GenUse \/ GenDecl \/ GenIf \/ GenStray \/ GenWhile \/ GenSwitch
         \/ GenFor \/ GenForIn \/ GenCase \/ GenClose \/ GenJump
         \/ GenCallOrNew \/ GenBuiltin \/ GenField
  PROVE  CallsInv'
BY GenClassCalls, GenGlobalCalls, GenEnterCalls, GenLeaveCalls,
   GenOtherCalls, GenCallOrNewCalls

LEMMA CallsNextInv ==
  ASSUME IInv, IInv', CallsInv, [Next]_vars
  PROVE  CallsInv'
<1>1. CASE UNCHANGED vars
  BY <1>1, StutterCalls
<1>2. CASE CollectGlobals
  <2>1. CASE Reject
    <3>1. /\ bodies' = << >> /\ UNCHANGED <<program, emitted>>
          /\ pass' = "rejected"
      BY <2>1 DEF Reject
    <3>2. DOMAIN bodies' = {}
      BY <3>1, EmptyScope
    <3>3. CallsBound'
      BY <3>1, <3>2, CallsBoundKept DEF CallsInv
    <3> QED BY <3>1, <3>3, CallsBefore
  <2>2. CASE ~Reject
    <3>1. UNCHANGED <<program, bodies, emitted>> /\ pass' = "sema"
      BY <1>2, <2>2 DEF CollectGlobals
    <3>2. CallsBound'
      BY <3>1, CallsBoundKept DEF CallsInv
    <3> QED BY <3>1, <3>2, CallsBefore
  <2> QED BY <2>1, <2>2
<1>3. CASE SemaEnd
  BY <1>3, SemaEndCalls
<1>4. CASE GenEnd
  <2>1. /\ pass' = "done" /\ made' = {}
        /\ UNCHANGED <<program, bodies, emitted>>
    BY <1>4 DEF GenEnd
  <2>2. CallsMeetTarget'
    BY <2>1, NoCalls
  <2> QED BY <2>1, <2>2, CallsKept
<1>5. CASE /\ work # <<>>
           /\ \/ GenClass \/ GenGlobal \/ GenEnter \/ GenLeave
              \/ GenUse \/ GenDecl \/ GenIf \/ GenStray \/ GenWhile
              \/ GenSwitch \/ GenFor \/ GenForIn \/ GenCase \/ GenClose
              \/ GenJump \/ GenCallOrNew \/ GenBuiltin \/ GenField
  BY <1>5, GenActionCalls
<1>6. CASE /\ work # <<>>
           /\ \/ SemaVar \/ SemaClass \/ SemaEnter \/ SemaLeave
              \/ \E n \in Uses : SemaUse(n)
              \/ \E n \in words.names : \E u \in Operand(n) : SemaDecl(n, u)
              \/ SemaIf \/ SemaStray \/ SemaWhile \/ SemaSwitch
              \/ \E n \in words.names : \E u \in Operand(n) : SemaFor(n, u)
              \/ \E n, u \in words.names : SemaForIn(n, u)
              \/ SemaCase \/ SemaClose
              \/ \E kind \in {"break", "continue"} : SemaJump(kind)
              \/ \E u \in {None} \cup Uses : SemaReturn(u)
              \/ \E call \in words.calls : SemaCall(call[1], call[2], call[3])
              \/ \E n \in words.args : SemaBuiltin(n)
              \/ \E field \in words.fields : SemaField(field[1], field[2])
  <2>1. CallsBound' /\ UNCHANGED <<program, emitted>>
    BY <1>6, SemaCalls DEF CallsInv
  <2>2. pass' \in {"sema", "rejected"}
    BY <1>6, SemaPass
  <2> QED BY <2>1, <2>2, CallsBefore
<1> QED BY <1>1, <1>2, <1>3, <1>4, <1>5, <1>6 DEF Next

LEMMA CallsOK == Spec => []CallsInv
<1>1. Init => CallsInv
  <2>1. ASSUME Init
        PROVE  /\ DOMAIN bodies = {} /\ DOMAIN functions = {}
               /\ layouts = {} /\ made = {} /\ pass = "collect"
    BY <2>1, EmptyScope DEF Init
  <2> QED BY <2>1 DEF CallsInv, CallsBound, ParentsFirst, FunctionsAre,
          CallsMeetTarget
<1>2. IInv /\ IInv' /\ CallsInv /\ [Next]_vars => CallsInv'
  BY CallsNextInv
<1> QED BY <1>1, <1>2, InvOK, PTL DEF Spec

\* The generator looks for a method or constructor by its emitted name, class
\* by class, where the analyser chose among all overloads; and yet genCallExpr
\* and genNewExpr call what checkCallExpr and checkNewExpr chose, unless it is
\* still to be generated or shares its emitted name with an overload.
THEOREM CallsReach == Spec => []CallsMeetTarget
<1>1. CallsInv => CallsMeetTarget
  BY DEF CallsInv
<1> QED BY <1>1, CallsOK, PTL
-----------------------------------------------------------------------------
(***************************************************************************)
(* The classes to come: those without a layout.                            *)
(***************************************************************************)
ClassesDue ==
  \A d \in Defs("class") :
    program[d].name \in layouts \/ <<"class", d, 0>> \in Range(work)
LaterInv == pass \in {"codegen", "abort"} => ClassesDue

LEMMA LaterSame ==
  ASSUME ClassesDue, UNCHANGED <<program, work, layouts>>
  PROVE  ClassesDue'
BY DEF ClassesDue, Defs

LEMMA LaterPassed ==
  ASSUME IInv, ClassesDue, work # <<>>, program' = program,
         work' = Tail(work),
         \/ layouts' = layouts /\ Current[1] # "class"
         \/ layouts' = layouts \cup {program[Current[2]].name}
  PROVE  ClassesDue'
<1>1. Range(work) = {Current} \cup Range(work')
  BY CurrentIs DEF IInv
<1>2. ASSUME NEW d \in Defs("class")
      PROVE  program[d].name \in layouts' \/ <<"class", d, 0>> \in Range(work')
  <2>1. CASE <<"class", d, 0>> = Current
    BY <2>1
  <2>2. CASE <<"class", d, 0>> # Current
    BY <1>1, <2>2 DEF ClassesDue
  <2> QED BY <2>1, <2>2
<1>3. Defs("class")' = Defs("class")
  BY DEF Defs
<1> QED BY <1>2, <1>3 DEF ClassesDue

LEMMA SemaEndLater == ASSUME IInv, SemaEnd PROVE ClassesDue'
<1>1. /\ pass = "sema" /\ work = <<>> /\ work' = CodegenWork
      /\ program' = program
  BY DEF SemaEnd
<1>2. Typed /\ Distinct /\ AllSound
  <2>1. Range(work) = {}
    BY <1>1 DEF Range
  <2>2. \A d \in Defs("class") : Checked(d)
    BY <1>1, <2>1 DEF IInv, GlobalsInv
  <2> QED BY <1>1, <2>2, ProgramTyped DEF IInv, GlobalsInv, AllSound, Checked
<1>3. \A d \in Defs("class") : <<"class", d, 0>> \in Range(work')
  BY <1>1, <1>2, CodegenWorkLed
<1>4. Defs("class")' = Defs("class")
  BY <1>1 DEF Defs
<1> QED BY <1>3, <1>4 DEF ClassesDue

LEMMA GenLater ==
  ASSUME IInv, LaterInv, work # <<>>,
         \/ GenClass \/ GenGlobal \/ GenEnter \/ GenLeave
         \/ GenUse \/ GenDecl \/ GenIf \/ GenStray \/ GenWhile \/ GenSwitch
         \/ GenFor \/ GenForIn \/ GenCase \/ GenClose \/ GenJump
         \/ GenCallOrNew \/ GenBuiltin \/ GenField
  PROVE  ClassesDue'
<1>1. CASE GenClass
  BY <1>1, LaterPassed DEF GenClass, LaterInv
<1>2. CASE GenGlobal
  BY <1>2, LaterPassed DEF GenGlobal, LaterInv, emitted
<1>3. CASE GenLeave
  <2>1. Current[1] # "class"
    BY <1>3 DEF GenLeave, InBody, IInv, WorkInv, Bodies, IsBody
  <2> QED BY <1>3, <2>1, LaterPassed DEF GenLeave, LaterInv, emitted
<1>4. CASE GenEnter
  BY <1>4, LaterSame DEF GenEnter, LaterInv
<1>5. ASSUME pass = "codegen", Abort \/ Done PROVE ClassesDue'
  BY <1>5, LaterSame DEF Abort, Done, LaterInv, emitted
<1>6. CASE GenUse \/ GenDecl \/ GenFor \/ GenForIn
  BY <1>5, <1>6 DEF GenUse, GenDecl, GenFor, GenForIn, GenLoop, Generating
<1>7. CASE GenIf \/ GenStray \/ GenWhile \/ GenSwitch
  BY <1>5, <1>7 DEF GenIf, GenStray, GenWhile, GenSwitch, GenOpen, Generating
<1>8. CASE GenCase \/ GenClose \/ GenJump
  BY <1>5, <1>8 DEF GenCase, GenClose, GenJump, Generating
<1>9. CASE GenCallOrNew
  <2>1. pass = "codegen" /\ (Abort \/ Done)
    BY <1>9 DEF GenCallOrNew, Generating
  <2> QED BY <1>5, <2>1
<1>10. CASE GenBuiltin \/ GenField
  BY <1>5, <1>10 DEF GenBuiltin, GenField, Generating
<1> QED BY <1>1, <1>2, <1>3, <1>4, <1>6, <1>7, <1>8, <1>9, <1>10

LEMMA LaterNext ==
  ASSUME IInv, LaterInv, [Next]_vars
  PROVE  LaterInv'
<1>1. CASE UNCHANGED vars
  BY <1>1, LaterSame DEF vars, emitted, LaterInv
<1>2. CASE CollectGlobals \/ GenEnd
  BY <1>2 DEF CollectGlobals, GenEnd, Reject, LaterInv
<1>3. CASE SemaEnd
  BY <1>3, SemaEndLater DEF LaterInv
<1>4. CASE /\ work # <<>>
           /\ \/ GenClass \/ GenGlobal \/ GenEnter \/ GenLeave
              \/ GenUse \/ GenDecl \/ GenIf \/ GenStray \/ GenWhile
              \/ GenSwitch \/ GenFor \/ GenForIn \/ GenCase \/ GenClose
              \/ GenJump \/ GenCallOrNew \/ GenBuiltin \/ GenField
  BY <1>4, GenLater DEF LaterInv
<1>5. CASE \/ SemaVar \/ SemaClass \/ SemaEnter \/ SemaLeave
           \/ \E n \in Uses : SemaUse(n)
           \/ \E n \in words.names : \E u \in Operand(n) : SemaDecl(n, u)
           \/ SemaIf \/ SemaStray \/ SemaWhile \/ SemaSwitch
           \/ \E n \in words.names : \E u \in Operand(n) : SemaFor(n, u)
           \/ \E n, u \in words.names : SemaForIn(n, u)
           \/ SemaCase \/ SemaClose
           \/ \E kind \in {"break", "continue"} : SemaJump(kind)
           \/ \E u \in {None} \cup Uses : SemaReturn(u)
           \/ \E call \in words.calls : SemaCall(call[1], call[2], call[3])
           \/ \E n \in words.args : SemaBuiltin(n)
           \/ \E field \in words.fields : SemaField(field[1], field[2])
  BY <1>5, SemaPass DEF LaterInv
<1> QED BY <1>1, <1>2, <1>3, <1>4, <1>5 DEF Next

\* genIdentExpr and the others find all names of a program that the analyser
\* accepted: they abort only at an enum member, at what the analyser did not
\* look at, and at a field of an object whose class is still to be generated.
THEOREM AbortsOnlyUnseen == Spec => []AbortsUnseen
<1>1. Init => LaterInv
  BY DEF Init, LaterInv
<1>2. IInv /\ LaterInv /\ [Next]_vars => LaterInv'
  BY LaterNext
<1>3. NamesInv /\ LaterInv => AbortsUnseen
  <2> SUFFICES ASSUME AbortsAt, ClassesDue, pass = "abort" PROVE AbortsUnseen
    BY DEF NamesInv, AbortsNamed, LaterInv, AbortsUnseen
  <2>1. ASSUME Item.of \in Classes \ layouts
        PROVE  \E d \in Defs("class") :
                 program[d].name = Item.of /\ <<"class", d, 0>> \in Range(work)
    BY <2>1 DEF Classes, ClassesDue
  <2> QED BY <2>1 DEF AbortsAt, AbortsUnseen, Using
<1> QED BY <1>1, <1>2, <1>3, InvOK, NamesOK, PTL DEF Spec
=============================================================================
