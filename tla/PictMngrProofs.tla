--------------------------- MODULE PictMngrProofs ---------------------------
(***************************************************************************)
(* What the functions of the picture manager keep: the pool of picture     *)
(* buffers, the pool of motion vector buffers, the DPB and the display     *)
(* list stay whole (MngrInv), no picture that is to be output is lost and  *)
(* none overtakes another, whichever function runs.  The functions that    *)
(* run through a list are handled by the states between its elements: a    *)
(* statement about each of them is proved by looking at the first one that *)
(* breaks it.                                                              *)
(***************************************************************************)
EXTENDS PictMngr, FiniteSetTheorems, SequenceTheorems, TLAPS
-----------------------------------------------------------------------------
(* Numbers *)

\* A set of natural numbers that is not empty has a least element.
LEMMA MinIs ==
  ASSUME NEW S \in SUBSET Nat, S # {}
  PROVE  Min(S) \in S /\ \A x \in S : Min(S) <= x
  <1>1. PICK x \in S : \A y \in S : <<y, x>> \notin OpToRel(<, Nat)
    <2>1. IsWellFoundedOn(OpToRel(<, Nat), Nat)
      BY NatLessThanWellFounded
    <2> QED BY <2>1, WFMin
  <1>2. \A y \in S : x <= y
    <2>1. ASSUME NEW y \in S PROVE x <= y
      <3>1. ~(y < x)
        BY <1>1 DEF OpToRel
      <3> QED BY <3>1
    <2> QED BY <2>1
  <1> QED BY <1>2 DEF Min

\* Induction: what holds of 0 and goes from each number to the next holds up to n.
LEMMA UpTo ==
  ASSUME NEW n \in Nat, NEW S, 0 \in S, \A i \in 0 .. n : i \in S /\ i # n => i + 1 \in S
  PROVE  \A i \in 0 .. n : i \in S
  <1> DEFINE Bad == {i \in 0 .. n : i \notin S}
  <1> SUFFICES ASSUME Bad # {} PROVE FALSE
    OBVIOUS
  <1>1. Bad \in SUBSET Nat
    OBVIOUS
  <1>2. Min(Bad) \in Bad /\ \A x \in Bad : Min(Bad) <= x
    BY <1>1, MinIs
  <1> DEFINE m == Min(Bad)
  <1> HIDE DEF m
  <1>3. m \in 0 .. n /\ m \notin S /\ \A x \in Bad : m <= x
    BY <1>2 DEF m
  <1>4. m # 0
    BY <1>3
  <1>5. m - 1 \in 0 .. n /\ m - 1 # n
    BY <1>3, <1>4
  <1>6. m - 1 \in S
    BY <1>3, <1>5
  <1>7. (m - 1) + 1 \in S
    BY <1>5, <1>6
  <1> QED BY <1>3, <1>7
-----------------------------------------------------------------------------
(* Sequences, and how many of their elements are in a set *)

\* A sequence and the one with an element more at its end.
LEMMA SeqEnd ==
  ASSUME NEW S, NEW q \in Seq(S), NEW t \in S
  PROVE  /\ Len(q) \in Nat /\ DOMAIN q = 1 .. Len(q) /\ Append(q, t) \in Seq(S)
         /\ Len(Append(q, t)) = Len(q) + 1 /\ DOMAIN Append(q, t) = 1 .. Len(q) + 1
         /\ \A i \in 1 .. Len(q) : Append(q, t)[i] = q[i]
         /\ Append(q, t)[Len(q) + 1] = t
  BY AppendProperties, LenProperties

\* A sequence and the one without its head.
LEMMA SeqHead ==
  ASSUME NEW S, NEW q \in Seq(S), q # <<>>
  PROVE  /\ Len(q) \in Nat /\ Len(q) > 0 /\ DOMAIN q = 1 .. Len(q)
         /\ Head(q) = q[1] /\ Head(q) \in S
         /\ Tail(q) \in Seq(S) /\ Len(Tail(q)) = Len(q) - 1 /\ DOMAIN Tail(q) = 1 .. Len(q) - 1
         /\ \A i \in 1 .. Len(q) - 1 : Tail(q)[i] = q[i + 1]
  <1>1. Len(q) \in Nat /\ Len(q) > 0 /\ DOMAIN q = 1 .. Len(q)
    BY LenProperties, EmptySeq
  <1>2. /\ Head(q) = q[1] /\ Head(q) \in S
        /\ Tail(q) \in Seq(S) /\ Len(Tail(q)) = Len(q) - 1
    BY <1>1, HeadTailProperties
  <1> QED BY <1>1, <1>2, HeadTailProperties, LenProperties

\* A sequence and the one without one of its elements.
LEMMA SeqWithout ==
  ASSUME NEW S, NEW q \in Seq(S), NEW k \in 1 .. Len(q)
  PROVE  /\ RemoveAt(q, k) \in Seq(S) /\ Len(RemoveAt(q, k)) = Len(q) - 1
         /\ DOMAIN RemoveAt(q, k) = 1 .. Len(q) - 1
         /\ \A i \in 1 .. Len(q) - 1 : RemoveAt(q, k)[i] = q[IF i < k THEN i ELSE i + 1]
  <1> DEFINE a == SubSeq(q, 1, k - 1)
             b == SubSeq(q, k + 1, Len(q))
  <1>1. Len(q) \in Nat /\ \A i \in 1 .. Len(q) : q[i] \in S
    BY LenProperties, ElementOfSeq
  <1>2. /\ a \in Seq(S) /\ Len(a) = k - 1
        /\ \A i \in 1 .. k - 1 : a[i] = q[i]
    BY <1>1, SubSeqProperties
  <1>3. /\ b \in Seq(S) /\ Len(b) = Len(q) - k
        /\ \A i \in 1 .. Len(q) - k : b[i] = q[k + i]
    BY <1>1, SubSeqProperties
  <1> HIDE DEF a, b
  <1>4. /\ a \o b \in Seq(S) /\ Len(a \o b) = Len(q) - 1
        /\ \A i \in 1 .. Len(q) - 1 : (a \o b)[i] = IF i <= k - 1 THEN a[i] ELSE b[i - (k - 1)]
    BY <1>1, <1>2, <1>3, ConcatProperties
  <1>5. \A i \in 1 .. Len(q) - 1 : (a \o b)[i] = q[IF i < k THEN i ELSE i + 1]
    BY <1>1, <1>2, <1>3, <1>4
  <1>6. RemoveAt(q, k) = a \o b
    BY DEF RemoveAt, a, b
  <1>7. DOMAIN (a \o b) = 1 .. Len(q) - 1
    BY <1>4, LenProperties
  <1> QED BY <1>4, <1>5, <1>6, <1>7

\* The sequences whose elements are all in S.
LEMMA SeqIs ==
  ASSUME NEW S, NEW q
  PROVE  q \in Seq(S) <=> /\ Len(q) \in Nat /\ q \in [1 .. Len(q) -> S]
  BY LenProperties, SeqDef

Count(q, T) == Cardinality({i \in 1 .. Len(q) : q[i] \in T})

LEMMA OneIs == ASSUME NEW P PROVE One(P) \in {0, 1} /\ (P => One(P) = 1) /\ (~P => One(P) = 0)
  BY DEF One

LEMMA CountIs ==
  ASSUME NEW S, NEW q \in Seq(S), NEW T
  PROVE  /\ IsFiniteSet({i \in 1 .. Len(q) : q[i] \in T})
         /\ Count(q, T) \in 0 .. Len(q)
         /\ Count(q, T) = 0 <=> \A i \in 1 .. Len(q) : q[i] \notin T
         /\ (\A i, j \in 1 .. Len(q) : q[i] \in T /\ q[j] \in T => i = j) => Count(q, T) <= 1
         /\ \A i, j \in 1 .. Len(q) : q[i] \in T /\ q[j] \in T /\ i # j => Count(q, T) >= 2
  <1> DEFINE C == {i \in 1 .. Len(q) : q[i] \in T}
  <1>1. Len(q) \in Nat
    BY LenProperties
  <1>2. IsFiniteSet(1 .. Len(q)) /\ Cardinality(1 .. Len(q)) = Len(q)
    BY <1>1, FS_Interval
  <1>3. C \in SUBSET (1 .. Len(q))
    OBVIOUS
  <1>4. IsFiniteSet(C) /\ Cardinality(C) <= Len(q) /\ Cardinality(C) \in Nat
    BY <1>2, <1>3, FS_Subset, FS_CardinalityType
  <1>5. Cardinality(C) = 0 <=> C = {}
    BY <1>4, FS_EmptySet
  <1>6. ASSUME \A i, j \in 1 .. Len(q) : q[i] \in T /\ q[j] \in T => i = j
        PROVE  Cardinality(C) <= 1
    <2>1. CASE C = {}
      BY <2>1, <1>5
    <2>2. CASE C # {}
      <3>1. PICK e \in C : TRUE
        BY <2>2
      <3>2. C = {e}
        BY <3>1, <1>6
      <3>3. Cardinality({e}) = 1
        BY FS_Singleton
      <3> QED BY <3>2, <3>3
    <2> QED BY <2>1, <2>2
  <1>7. ASSUME NEW i \in 1 .. Len(q), NEW j \in 1 .. Len(q), q[i] \in T, q[j] \in T, i # j
        PROVE  Cardinality(C) >= 2
    <2>1. {i} \cup {j} \in SUBSET C
      BY <1>7
    <2>2. Cardinality({i} \cup {j}) = 2
      <3>1. IsFiniteSet({i}) /\ Cardinality({i}) = 1
        BY FS_Singleton
      <3>2. j \notin {i}
        BY <1>7
      <3>3. Cardinality({i} \cup {j}) = Cardinality({i}) + 1
        BY <3>1, <3>2, FS_AddElement
      <3>4. Cardinality({i} \cup {j}) = 1 + 1
        BY <3>1, <3>3
      <3> QED BY <3>4
    <2> QED BY <2>1, <2>2, <1>4, FS_Subset
  <1>8. Count(q, T) = Cardinality(C)
    BY DEF Count
  <1> HIDE DEF C
  <1>9. C = {} <=> \A i \in 1 .. Len(q) : q[i] \notin T
    BY DEF C
  <1> QED BY <1>1, <1>4, <1>5, <1>6, <1>7, <1>8, <1>9 DEF C

\* One more element, one more if it is in the set.
LEMMA CountEnd ==
  ASSUME NEW S, NEW q \in Seq(S), NEW t \in S, NEW T
  PROVE  Count(Append(q, t), T) = Count(q, T) + One(t \in T)
  <1> DEFINE r == Append(q, t)
             C == {i \in 1 .. Len(q) : q[i] \in T}
             D == {i \in 1 .. Len(r) : r[i] \in T}
  <1>1. /\ Len(q) \in Nat /\ Len(r) = Len(q) + 1
        /\ \A i \in 1 .. Len(q) : r[i] = q[i]
        /\ r[Len(q) + 1] = t
    BY SeqEnd
  <1>2. IsFiniteSet(C) /\ Cardinality(C) \in Nat
    BY CountIs, FS_CardinalityType
  <1> HIDE DEF r
  <1>3. CASE t \in T
    <2>1. D = C \cup {Len(q) + 1}
      BY <1>1, <1>3
    <2>2. Len(q) + 1 \notin C
      BY <1>1
    <2>3. Cardinality(D) = Cardinality(C) + 1
      BY <2>1, <2>2, <1>2, FS_AddElement
    <2> QED BY <2>3, <1>3 DEF Count, One, r
  <1>4. CASE t \notin T
    <2>1. D = C
      BY <1>1, <1>4
    <2>2. One(t \in T) = 0
      BY <1>4 DEF One
    <2>3. Count(Append(q, t), T) = Cardinality(D) /\ Count(q, T) = Cardinality(C)
      BY DEF Count, r
    <2> HIDE DEF C, D
    <2> QED BY <2>1, <2>2, <2>3, <1>2
  <1> QED BY <1>3, <1>4

\* One element less, one less if it was in the set.
LEMMA CountWithout ==
  ASSUME NEW S, NEW q \in Seq(S), NEW k \in 1 .. Len(q), NEW r \in Seq(S), NEW T,
         Len(r) = Len(q) - 1,
         \A i \in 1 .. Len(q) - 1 : r[i] = q[IF i < k THEN i ELSE i + 1]
  PROVE  Count(r, T) = Count(q, T) - One(q[k] \in T)
  <1> DEFINE C == {i \in 1 .. Len(q) : q[i] \in T}
             D == {i \in 1 .. Len(r) : r[i] \in T}
             B == C \ {k}
             f == [i \in D |-> IF i < k THEN i ELSE i + 1]
  <1>1. Len(q) \in Nat /\ k \in Nat
    BY LenProperties
  <1>2. IsFiniteSet(C) /\ Cardinality(C) \in Nat /\ IsFiniteSet(D)
    BY CountIs, FS_CardinalityType
  <1>3. f \in Bijection(D, B)
    <2>1. ASSUME NEW i \in D PROVE f[i] \in B
      <3>1. i \in 1 .. Len(q) - 1 /\ r[i] \in T
        BY <1>1
      <3>2. f[i] = IF i < k THEN i ELSE i + 1
        OBVIOUS
      <3>3. f[i] \in 1 .. Len(q) /\ f[i] # k
        BY <1>1, <3>1, <3>2
      <3>4. r[i] = q[f[i]]
        BY <3>1, <3>2
      <3> QED BY <3>1, <3>3, <3>4
    <2>2. ASSUME NEW i \in D, NEW j \in D, f[i] = f[j] PROVE i = j
      BY <1>1, <2>2
    <2>3. ASSUME NEW c \in B PROVE \E i \in D : f[i] = c
      <3>1. CASE c < k
        <4>1. c \in D /\ f[c] = c
          BY <3>1, <1>1
        <4> QED BY <4>1
      <3>2. CASE ~(c < k)
        <4>1. c - 1 \in 1 .. Len(r) /\ ~(c - 1 < k) /\ (c - 1) + 1 = c
          BY <3>2, <1>1
        <4>2. c - 1 \in D /\ f[c - 1] = c
          BY <4>1
        <4> QED BY <4>2
      <3> QED BY <3>1, <3>2
    <2>4. f \in [D -> B]
      BY <2>1
    <2> HIDE DEF f, B, D
    <2>5. f \in Injection(D, B)
      BY <2>4, <2>2 DEF Injection, IsInjective
    <2>6. f \in Surjection(D, B)
      BY <2>4, <2>3 DEF Surjection
    <2> QED BY <2>5, <2>6 DEF Bijection
  <1>4. Cardinality(B) = Cardinality(D)
    <2>1. ExistsBijection(D, B)
      BY <1>3 DEF ExistsBijection
    <2> QED BY <2>1, <1>2, FS_Bijection
  <1>5. Cardinality(B) = Cardinality(C) - One(k \in C)
    <2>1. Cardinality(C \ {k}) = IF k \in C THEN Cardinality(C) - 1 ELSE Cardinality(C)
      BY <1>2, FS_RemoveElement
    <2>2. (k \in C => One(k \in C) = 1) /\ (~(k \in C) => One(k \in C) = 0)
      BY DEF One
    <2> QED BY <1>2, <2>1, <2>2
  <1>6. k \in C <=> q[k] \in T
    OBVIOUS
  <1> QED BY <1>4, <1>5, <1>6 DEF Count, One

LEMMA CountHead ==
  ASSUME NEW S, NEW q \in Seq(S), q # <<>>, NEW T
  PROVE  Count(Tail(q), T) = Count(q, T) - One(Head(q) \in T)
  <1>1. /\ Len(q) \in Nat /\ Len(q) > 0 /\ Head(q) = q[1]
        /\ Tail(q) \in Seq(S) /\ Len(Tail(q)) = Len(q) - 1
        /\ \A i \in 1 .. Len(q) - 1 : Tail(q)[i] = q[i + 1]
    BY SeqHead
  <1>2. \A i \in 1 .. Len(q) - 1 : Tail(q)[i] = q[IF i < 1 THEN i ELSE i + 1]
    BY <1>1
  <1>3. 1 \in 1 .. Len(q)
    BY <1>1
  <1> DEFINE r == Tail(q)
  <1>4. /\ r \in Seq(S) /\ Len(r) = Len(q) - 1
        /\ \A i \in 1 .. Len(q) - 1 : r[i] = q[IF i < 1 THEN i ELSE i + 1]
    BY <1>1, <1>2
  <1> HIDE DEF r
  <1>5. Count(r, T) = Count(q, T) - One(q[1] \in T)
    BY <1>3, <1>4, CountWithout
  <1>6. Count(Tail(q), T) = Count(q, T) - One(q[1] \in T)
    BY <1>5 DEF r
  <1> QED BY <1>1, <1>6

\* The same places, the same number.
LEMMA CountSame ==
  ASSUME NEW q, NEW r, NEW T, NEW U, Len(r) = Len(q),
         \A i \in 1 .. Len(q) : q[i] \in T <=> r[i] \in U
  PROVE  Count(r, U) = Count(q, T)
  <1>1. {i \in 1 .. Len(q) : q[i] \in T} = {i \in 1 .. Len(r) : r[i] \in U}
    OBVIOUS
  <1> QED BY <1>1 DEF Count

LEMMA CountNone == ASSUME NEW T PROVE Count(<<>>, T) = 0
  <1>1. <<>> \in Seq({})
    BY EmptySeq
  <1>2. {i \in 1 .. Len(<<>>) : <<>>[i] \in T} = {}
    BY EmptySeq
  <1> QED BY <1>2, FS_EmptySet DEF Count
-----------------------------------------------------------------------------
(* The pool of picture buffers *)

LEMMA SlotsAre ==
  /\ PoolSize \in Nat /\ PoolSize > 0 /\ Slots = 0 .. PoolSize - 1 /\ Slots \subseteq Nat
  /\ IsFiniteSet(Slots) /\ Cardinality(Slots) = PoolSize
  /\ NoSlot = -1 /\ NoSlot \notin Slots
  <1>1. PoolSize \in Nat /\ PoolSize > 0 /\ Slots = 0 .. PoolSize - 1
    BY FrmBufPoolAssumption DEF Slots
  <1>2. IsFiniteSet(0 .. PoolSize - 1) /\ Cardinality(0 .. PoolSize - 1) = PoolSize
    BY <1>1, FS_Interval
  <1> QED BY <1>1, <1>2 DEF NoSlot

\* A list of distinct slots is no longer than the pool.
LEMMA DistinctSlots ==
  ASSUME NEW q \in Seq(Slots), \A i, j \in 1 .. Len(q) : q[i] = q[j] => i = j
  PROVE  Len(q) \in Nat /\ Len(q) <= PoolSize
  <1>1. Len(q) \in Nat /\ q \in [1 .. Len(q) -> Slots]
    BY LenProperties
  <1>2. q \in Injection(1 .. Len(q), Slots)
    BY <1>1 DEF Injection, IsInjective
  <1>3. Cardinality(1 .. Len(q)) <= Cardinality(Slots)
    BY <1>2, SlotsAre, FS_Injection
  <1>4. Cardinality(1 .. Len(q)) = Len(q)
    BY <1>1, FS_Interval
  <1> QED BY <1>1, <1>3, <1>4, SlotsAre

\* The list the slots are linked in is the FIFO.
LEMMA FifoIs ==
  ASSUME NEW p \in FrmBufPools, NEW q, Linked(p, q)
  PROVE  FifoSlots(p) = q
  <1> DEFINE Is(g) == g = [i \in Nat |-> IF i = 0 THEN p.head
                                         ELSE IF g[i - 1] = NoSlot THEN NoSlot
                                         ELSE p.next[g[i - 1]]]
             nth == CHOOSE g : Is(g)
             w == [i \in Nat |-> IF i < Len(q) THEN q[i + 1] ELSE NoSlot]
  <1>1. /\ q \in Seq(Slots) /\ Len(q) \in Nat /\ Len(q) <= PoolSize
        /\ \A i \in 1 .. Len(q) : q[i] \in Slots /\ q[i] # NoSlot
        /\ q = <<>> <=> Len(q) = 0
    BY DistinctSlots, ElementOfSeq, EmptySeq, SlotsAre DEF Linked
  <1>2. ASSUME NEW i \in Nat
        PROVE  w[i] = IF i = 0 THEN p.head ELSE IF w[i - 1] = NoSlot THEN NoSlot
                                                ELSE p.next[w[i - 1]]
    <2>1. CASE i = 0
      BY <1>1, <2>1 DEF Linked
    <2>2. CASE i # 0 /\ i < Len(q)
      <3>1. i \in 1 .. Len(q) /\ i # Len(q)
        BY <1>1, <2>2
      <3>2. p.next[q[i]] = q[i + 1]
        BY <3>1 DEF Linked
      <3>3. i - 1 \in Nat /\ w[i - 1] = q[i]
        BY <3>1, <1>1
      <3> QED BY <1>1, <2>2, <3>1, <3>2, <3>3
    <2>3. CASE i # 0 /\ i = Len(q)
      <3>1. i \in 1 .. Len(q)
        BY <1>1, <2>3
      <3>2. p.next[q[i]] = NoSlot
        BY <3>1, <2>3 DEF Linked
      <3>3. i - 1 \in Nat /\ w[i - 1] = q[i]
        BY <3>1, <1>1
      <3> QED BY <1>1, <2>3, <3>1, <3>2, <3>3
    <2>4. CASE i # 0 /\ i > Len(q)
      <3>1. i - 1 \in Nat /\ ~(i - 1 < Len(q)) /\ ~(i < Len(q))
        BY <1>1, <2>4
      <3> QED BY <3>1, <2>4
    <2> QED BY <1>1, <2>1, <2>2, <2>3, <2>4
  <1>3. Is(w)
    BY <1>2
  <1>4. Is(nth)
    BY <1>3
  <1>w. \A i \in Nat : w[i] = IF i < Len(q) THEN q[i + 1] ELSE NoSlot
    OBVIOUS
  <1> HIDE DEF nth, w
  <1>5. \A n \in Nat : nth[n] = w[n]
    <2> SUFFICES ASSUME NEW n \in Nat PROVE nth[n] = w[n]
      OBVIOUS
    <2> DEFINE S == {i \in Nat : nth[i] = w[i]}
    <2>1. 0 \in S
      BY <1>2, <1>4
    <2>2. ASSUME NEW i \in 0 .. n, i \in S PROVE i + 1 \in S
      <3>1. i + 1 \in Nat /\ i + 1 # 0 /\ (i + 1) - 1 = i
        OBVIOUS
      <3>2. nth[i + 1] = IF nth[i] = NoSlot THEN NoSlot ELSE p.next[nth[i]]
        BY <3>1, <1>4
      <3>3. w[i + 1] = IF w[i] = NoSlot THEN NoSlot ELSE p.next[w[i]]
        BY <3>1, <1>2
      <3> QED BY <3>1, <3>2, <3>3, <2>2
    <2> HIDE DEF S
    <2>3. n \in S
      BY <2>1, <2>2, UpTo
    <2> QED BY <2>3 DEF S
  <1> DEFINE D == {i \in 0 .. PoolSize : nth[i] # NoSlot}
  <1>6. D = 0 .. Len(q) - 1
    <2>1. ASSUME NEW i \in Nat PROVE nth[i] # NoSlot <=> i < Len(q)
      <3>1. i < Len(q) => i + 1 \in 1 .. Len(q)
        BY <1>1
      <3> QED BY <3>1, <1>1, <1>5, <1>w
    <2>2. 0 .. PoolSize \subseteq Nat /\ PoolSize \in Nat
      BY SlotsAre
    <2> QED BY <2>1, <2>2, <1>1
  <1>7. Cardinality(D) = Len(q)
    <2>1. Len(q) - 1 \in Int /\ 0 \in Int
      BY <1>1
    <2>2. Cardinality(0 .. Len(q) - 1) = IF 0 > Len(q) - 1 THEN 0 ELSE (Len(q) - 1) - 0 + 1
      BY <2>1, FS_Interval
    <2> HIDE DEF D
    <2> QED BY <1>1, <1>6, <2>2
  <1>8. FifoSlots(p) = [i \in 1 .. Cardinality(D) |-> nth[i - 1]]
    BY DEF FifoSlots, nth
  <1>9. q = [i \in 1 .. Len(q) |-> q[i]]
    BY <1>1, LenProperties
  <1>10. ASSUME NEW i \in 1 .. Len(q) PROVE nth[i - 1] = q[i]
    <2>1. i - 1 \in Nat /\ i - 1 < Len(q) /\ (i - 1) + 1 = i
      BY <1>1
    <2> QED BY <2>1, <1>5, <1>w
  <1> QED BY <1>7, <1>8, <1>9, <1>10

Whole(p, q) == p \in FrmBufPools /\ p.ok /\ Linked(p, q) /\ SlotsWhole(p, q)

LEMMA PoolIsWhole ==
  ASSUME NEW p
  PROVE  PoolInv(p) <=> Whole(p, FifoSlots(p))
  BY DEF PoolInv, Whole

LEMMA WholeIs ==
  ASSUME NEW p, NEW q, Whole(p, q)
  PROVE  PoolInv(p) /\ FifoSlots(p) = q
  BY FifoIs DEF PoolInv, Whole

\* The buffers fit into the slots: one that is in no slot finds a free one.
BufsFit == IsFiniteSet(Bufs) /\ Cardinality(Bufs) <= PoolSize

LEMMA FreeSlot ==
  ASSUME NEW p \in FrmBufPools, NEW q, Linked(p, q), SlotsWhole(p, q), BufsFit,
         NEW b \in Bufs, \A s \in Slots : p.buf[s] # b
  PROVE  FreeSlots(p) # {} /\ Min(FreeSlots(p)) \in FreeSlots(p)
  <1>1. \E s \in Slots : p.buf[s] = NoBuf
    <2> SUFFICES ASSUME \A s \in Slots : p.buf[s] # NoBuf PROVE FALSE
      OBVIOUS
    <2> DEFINE f == [s \in Slots |-> p.buf[s]]
               B == Bufs \ {b}
    <2>1. \A s \in Slots : p.buf[s] \in B
      BY DEF FrmBufPools
    <2>2. f \in Injection(Slots, B)
      BY <2>1 DEF Injection, IsInjective, SlotsWhole
    <2>3. IsFiniteSet(B) /\ Cardinality(B) = Cardinality(Bufs) - 1 /\ Cardinality(Bufs) \in Nat
      BY FS_RemoveElement, FS_CardinalityType DEF BufsFit
    <2>4. Cardinality(Slots) <= Cardinality(B)
      BY <2>2, <2>3, FS_Injection
    <2> QED BY <2>3, <2>4, SlotsAre DEF BufsFit
  <1>2. PICK s \in Slots : p.buf[s] = NoBuf
    BY <1>1
  <1>3. s \in FreeSlots(p)
    BY <1>2 DEF FreeSlots, SlotsWhole, Linked
  <1>4. FreeSlots(p) \in SUBSET Nat
    BY SlotsAre DEF FreeSlots
  <1> QED BY <1>3, <1>4, MinIs

\* The list of free slots depends on the links alone.
LEMMA LinkedSame ==
  ASSUME NEW p, NEW q, Linked(p, q), NEW r, r.next = p.next, r.head = p.head, r.tail = p.tail,
         r.number = p.number
  PROVE  Linked(r, q)
  BY DEF Linked

\* Slots that keep their buffer and are not in the FIFO may change their counters.
LEMMA CountedWhole ==
  ASSUME NEW p, NEW q, Whole(p, q), NEW r \in FrmBufPools, NEW s \in Slots, r.ok,
         r.next = p.next, r.head = p.head, r.tail = p.tail, r.number = p.number,
         r.buf = p.buf, \A t \in Slots \ {s} : r.cnt[t] = p.cnt[t] /\ r.out[t] = p.out[t],
         p.buf[s] # NoBuf, p.cnt[s] # 0 \/ p.out[s], r.cnt[s] >= 1
  PROVE  Whole(r, q)
  <1>1. Linked(r, q)
    BY LinkedSame DEF Whole
  <1>2. SlotsWhole(p, q)
    BY DEF Whole
  <1>3. \A i \in 1 .. Len(q) : q[i] # s
    BY <1>2 DEF SlotsWhole
  <1>4. SlotsWhole(r, q)
    <2> SUFFICES ASSUME NEW t \in Slots
                 PROVE  /\ r.buf[t] = NoBuf => r.cnt[t] = -1 /\ ~r.out[t]
                        /\ r.buf[t] # NoBuf => r.cnt[t] >= 0
                        /\ r.out[t] => r.cnt[t] >= 1
                        /\ r.buf[t] # NoBuf =>
                              (r.cnt[t] = 0 /\ ~r.out[t] <=> \E i \in 1 .. Len(q) : q[i] = t)
                        /\ r.buf[t] = NoBuf => \A i \in 1 .. Len(q) : q[i] # t
                        /\ \A u \in Slots : r.buf[t] = r.buf[u] /\ r.buf[t] # NoBuf => t = u
      BY DEF SlotsWhole
    <2>i. r.cnt[s] \in Int /\ r.cnt[s] # 0 /\ r.cnt[s] # -1
      BY DEF FrmBufPools
    <2>1. CASE t = s
      BY <1>2, <1>3, <2>1, <2>i DEF SlotsWhole
    <2>2. CASE t # s
      BY <1>2, <2>2 DEF SlotsWhole
    <2> QED BY <2>1, <2>2
  <1> QED BY <1>1, <1>4 DEF Whole

LEMMA Held ==
  ASSUME NEW p, NEW q, Whole(p, q), NEW s \in Slots, RefsOn(p, s) >= 1
  PROVE  /\ p.buf[s] # NoBuf /\ p.buf[s] \in Bufs /\ p.cnt[s] >= 1 /\ p.cnt[s] \in Int
         /\ RefsOn(p, s) = p.cnt[s]
         /\ \A i \in 1 .. Len(q) : q[i] # s
  BY DEF Whole, SlotsWhole, RefsOn, FrmBufPools

LEMMA IncrementIs ==
  ASSUME NEW p, NEW q, Whole(p, q), NEW s \in Slots, RefsOn(p, s) >= 1,
         NEW r, r = IncrementBufID(p, s)
  PROVE  /\ Whole(r, q) /\ r.buf = p.buf /\ r.out = p.out /\ r.event = p.event
         /\ r.decommitted = p.decommitted /\ r.cnt = [p.cnt EXCEPT ![s] = @ + 1]
         /\ r.head = p.head /\ r.number = p.number
         /\ \A t \in Slots : RefsOn(r, t) = RefsOn(p, t) + One(t = s)
  <1>1. p.buf[s] # NoBuf /\ p.cnt[s] >= 1 /\ p.cnt[s] \in Int
    BY Held
  <1>2. p \in FrmBufPools /\ p.ok
    BY DEF Whole
  <1>3. /\ r \in FrmBufPools /\ r.ok /\ r.buf = p.buf /\ r.out = p.out /\ r.event = p.event
        /\ r.decommitted = p.decommitted /\ r.cnt = [p.cnt EXCEPT ![s] = @ + 1]
        /\ r.next = p.next /\ r.head = p.head /\ r.tail = p.tail /\ r.number = p.number
    <2>1. /\ r.buf = p.buf /\ r.out = p.out /\ r.event = p.event
          /\ r.decommitted = p.decommitted /\ r.cnt = [p.cnt EXCEPT ![s] = @ + 1]
          /\ r.next = p.next /\ r.head = p.head /\ r.tail = p.tail /\ r.number = p.number
      BY <1>2 DEF IncrementBufID, FrmBufPools
    <2>2. r.ok = (p.ok /\ p.cnt[s] >= 0)
      BY <1>2 DEF IncrementBufID, FrmBufPools
    <2>3. r.ok = TRUE
      BY <1>1, <1>2, <2>2 DEF FrmBufPools
    <2>4. [p.cnt EXCEPT ![s] = @ + 1] \in [Slots -> Int]
      BY <1>1, <1>2 DEF FrmBufPools
    <2>5. r = [buf |-> r.buf, next |-> r.next, cnt |-> r.cnt, out |-> r.out, head |-> r.head,
               tail |-> r.tail, number |-> r.number, decommitted |-> r.decommitted,
               event |-> r.event, ok |-> r.ok]
      BY <1>2 DEF IncrementBufID, FrmBufPools
    <2> QED BY <1>2, <2>1, <2>3, <2>4, <2>5 DEF FrmBufPools
  <1>4. /\ r.cnt[s] = p.cnt[s] + 1
        /\ \A t \in Slots \ {s} : r.cnt[t] = p.cnt[t] /\ r.out[t] = p.out[t]
    BY <1>2, <1>3 DEF FrmBufPools
  <1>5. Whole(r, q)
    <2>1. r.cnt[s] >= 1 /\ p.cnt[s] # 0
      BY <1>1, <1>4
    <2>2. \A t \in Slots \ {s} : r.cnt[t] = p.cnt[t] /\ r.out[t] = p.out[t]
      BY <1>4
    <2>3. /\ r \in FrmBufPools /\ r.ok /\ r.buf = p.buf
          /\ r.next = p.next /\ r.head = p.head /\ r.tail = p.tail /\ r.number = p.number
      BY <1>3
    <2>4. p.buf[s] # NoBuf
      BY <1>1
    <2> QED BY <2>1, <2>2, <2>3, <2>4, CountedWhole
  <1>6. ASSUME NEW t \in Slots PROVE RefsOn(r, t) = RefsOn(p, t) + One(t = s)
    <2>1. p.cnt[t] \in Int
      BY <1>2 DEF FrmBufPools
    <2>2. CASE t = s
      BY <1>1, <1>3, <1>4, <2>2 DEF RefsOn, One
    <2>3. CASE t # s
      BY <1>3, <1>4, <2>1, <2>3 DEF RefsOn, One
    <2> QED BY <2>2, <2>3
  <1> QED BY <1>3, <1>5, <1>6

LEMMA OutputIs ==
  ASSUME NEW p, NEW q, Whole(p, q), NEW s \in Slots, RefsOn(p, s) >= 1, ~p.out[s],
         NEW r, r = OutputBufID(p, s)
  PROVE  /\ Whole(r, q) /\ r.buf = p.buf /\ r.event = p.event
         /\ r.out = [p.out EXCEPT ![s] = TRUE]
         /\ r.decommitted = p.decommitted /\ r.cnt = p.cnt
         /\ r.head = p.head /\ r.number = p.number
         /\ \A t \in Slots : RefsOn(r, t) = RefsOn(p, t)
  <1>1. p.buf[s] # NoBuf /\ p.cnt[s] >= 1 /\ p.cnt[s] \in Int
    BY Held
  <1>2. p \in FrmBufPools /\ p.ok
    BY DEF Whole
  <1>3. /\ r \in FrmBufPools /\ r.ok /\ r.buf = p.buf /\ r.event = p.event
        /\ r.out = [p.out EXCEPT ![s] = TRUE]
        /\ r.decommitted = p.decommitted /\ r.cnt = p.cnt
        /\ r.next = p.next /\ r.head = p.head /\ r.tail = p.tail /\ r.number = p.number
    BY <1>1, <1>2 DEF OutputBufID, FrmBufPools
  <1>4. r.out[s] /\ \A t \in Slots \ {s} : r.cnt[t] = p.cnt[t] /\ r.out[t] = p.out[t]
    BY <1>2, <1>3 DEF FrmBufPools
  <1>5. Whole(r, q)
    <2>1. r.cnt[s] >= 1 /\ p.cnt[s] # 0
      BY <1>1, <1>3
    <2> QED BY <1>1, <1>3, <1>4, <2>1, CountedWhole
  <1> QED BY <1>3, <1>5 DEF RefsOn

\* Every slot but s is as it should be, and s is not in the FIFO.
OthersWhole(p, q, s) ==
    /\ p \in FrmBufPools /\ p.ok /\ Linked(p, q)
    /\ \A i \in 1 .. Len(q) : q[i] # s
    /\ \A t \in Slots \ {s} :
          /\ p.buf[t] = NoBuf => p.cnt[t] = -1 /\ ~p.out[t]
          /\ p.buf[t] # NoBuf => p.cnt[t] >= 0
          /\ p.out[t] => p.cnt[t] >= 1
          /\ p.buf[t] # NoBuf =>
                (p.cnt[t] = 0 /\ ~p.out[t] <=> \E i \in 1 .. Len(q) : q[i] = t)
          /\ p.buf[t] = NoBuf => \A i \in 1 .. Len(q) : q[i] # t
    /\ \A t, u \in Slots : p.buf[t] = p.buf[u] /\ p.buf[t] # NoBuf => t = u

\* One slot, not in the FIFO, is free to change.
LEMMA OthersAre ==
  ASSUME NEW p, NEW q, Whole(p, q), NEW r \in FrmBufPools, NEW s \in Slots, r.ok,
         r.next = p.next, r.head = p.head, r.tail = p.tail, r.number = p.number,
         r.buf = p.buf, \A t \in Slots \ {s} : r.cnt[t] = p.cnt[t] /\ r.out[t] = p.out[t],
         \A i \in 1 .. Len(q) : q[i] # s
  PROVE  OthersWhole(r, q, s)
  <1>1. Linked(r, q)
    BY LinkedSame DEF Whole
  <1>2. SlotsWhole(p, q)
    BY DEF Whole
  <1> QED BY <1>1, <1>2 DEF OthersWhole, SlotsWhole

LEMMA RemoveIDIs ==
  ASSUME NEW p, NEW q, NEW s \in Slots, OthersWhole(p, q, s), p.buf[s] # NoBuf, p.cnt[s] = 0,
         NEW r, r = RemoveID(p, s)
  PROVE  /\ Whole(r, q)
         /\ r.buf = [p.buf EXCEPT ![s] = NoBuf] /\ r.cnt = [p.cnt EXCEPT ![s] = -1]
         /\ r.out = [p.out EXCEPT ![s] = FALSE] /\ r.next = p.next
         /\ r.event = p.event /\ r.decommitted = p.decommitted
         /\ r.head = p.head /\ r.number = p.number
  <1>1. p \in FrmBufPools /\ p.ok /\ Linked(p, q) /\ (\A i \in 1 .. Len(q) : q[i] # s)
    BY DEF OthersWhole
  <1>2. p.next[s] = NoSlot
    BY <1>1 DEF Linked
  <1>3. /\ r \in FrmBufPools /\ r.ok
        /\ r.buf = [p.buf EXCEPT ![s] = NoBuf] /\ r.cnt = [p.cnt EXCEPT ![s] = -1]
        /\ r.out = [p.out EXCEPT ![s] = FALSE] /\ r.next = [p.next EXCEPT ![s] = NoSlot]
        /\ r.event = p.event /\ r.decommitted = p.decommitted
        /\ r.head = p.head /\ r.tail = p.tail /\ r.number = p.number
    <2>1. /\ r.buf = [p.buf EXCEPT ![s] = NoBuf] /\ r.cnt = [p.cnt EXCEPT ![s] = -1]
          /\ r.out = [p.out EXCEPT ![s] = FALSE] /\ r.next = [p.next EXCEPT ![s] = NoSlot]
          /\ r.event = p.event /\ r.decommitted = p.decommitted
          /\ r.head = p.head /\ r.tail = p.tail /\ r.number = p.number
      BY <1>1 DEF RemoveID, FrmBufPools
    <2>2. r.ok = (p.ok /\ p.buf[s] # NoBuf /\ p.next[s] = NoSlot /\ p.cnt[s] = 0)
      BY <1>1 DEF RemoveID, FrmBufPools
    <2>3. r.ok = TRUE
      BY <1>1, <1>2, <2>2
    <2>4. /\ [p.buf EXCEPT ![s] = NoBuf] \in [Slots -> Bufs \cup {NoBuf}]
          /\ [p.cnt EXCEPT ![s] = -1] \in [Slots -> Int]
          /\ [p.out EXCEPT ![s] = FALSE] \in [Slots -> BOOLEAN]
          /\ [p.next EXCEPT ![s] = NoSlot] \in [Slots -> Slots \cup {NoSlot}]
      BY <1>1 DEF FrmBufPools
    <2>5. r = [buf |-> r.buf, next |-> r.next, cnt |-> r.cnt, out |-> r.out, head |-> r.head,
               tail |-> r.tail, number |-> r.number, decommitted |-> r.decommitted,
               event |-> r.event, ok |-> r.ok]
      BY <1>1 DEF RemoveID, FrmBufPools
    <2> QED BY <1>1, <2>1, <2>3, <2>4, <2>5 DEF FrmBufPools
  <1>4. r.next = p.next
    BY <1>1, <1>2, <1>3 DEF FrmBufPools
  <1>5. Linked(r, q)
    BY <1>1, <1>3, <1>4, LinkedSame
  <1>6. /\ r.buf[s] = NoBuf /\ r.cnt[s] = -1 /\ ~r.out[s]
        /\ \A t \in Slots \ {s} : r.buf[t] = p.buf[t] /\ r.cnt[t] = p.cnt[t] /\ r.out[t] = p.out[t]
    BY <1>1, <1>3 DEF FrmBufPools
  <1>7. SlotsWhole(r, q)
    BY <1>1, <1>6 DEF OthersWhole, SlotsWhole
  <1> QED BY <1>3, <1>4, <1>5, <1>7 DEF Whole

\* Buffer b enters the pool in the free slot t.
Pushed(p, q, b, r, t) ==
    /\ p.buf[t] = NoBuf /\ Whole(r, Append(q, t))
    /\ r.buf = [p.buf EXCEPT ![t] = b] /\ r.cnt = [p.cnt EXCEPT ![t] = 0]
    /\ r.out = p.out /\ r.event = TRUE /\ r.decommitted = p.decommitted

LEMMA PushBackIs ==
  ASSUME NEW p, NEW q, Whole(p, q), BufsFit, NEW b \in Bufs, \A s \in Slots : p.buf[s] # b,
         NEW r, r = PushBack(p, b)
  PROVE  \E t \in Slots : Pushed(p, q, b, r, t)
  <1> DEFINE t == Min(FreeSlots(p))
             n == Len(q)
             k == Append(q, t)
  <1>1. p \in FrmBufPools /\ p.ok /\ Linked(p, q) /\ SlotsWhole(p, q)
    BY DEF Whole
  <1>2. FreeSlots(p) # {} /\ t \in FreeSlots(p)
    BY <1>1, FreeSlot
  <1> HIDE DEF t
  <1>3. /\ t \in Slots /\ p.buf[t] = NoBuf /\ p.next[t] = NoSlot /\ p.cnt[t] = -1 /\ ~p.out[t]
    BY <1>2 DEF FreeSlots
  <1>4. /\ q \in Seq(Slots) /\ n \in Nat /\ k \in Seq(Slots) /\ Len(k) = n + 1
        /\ \A i \in 1 .. n : k[i] = q[i]
        /\ k[n + 1] = t
    BY <1>1, <1>3, SeqEnd DEF Linked
  <1>5. \A i \in 1 .. n : q[i] # t
    BY <1>1, <1>3 DEF SlotsWhole
  <1>6. q = <<>> <=> n = 0
    BY <1>4, EmptySeq
  <1>7. n # 0 => q[1] \in Slots /\ q[n] \in Slots
    BY <1>4, ElementOfSeq
  <1>8. (p.head = NoSlot /\ p.tail = NoSlot) <=> n = 0
    BY <1>1, <1>6, <1>7, SlotsAre DEF Linked
  <1>9. r = [AddBufferToFifo(p, t, b) EXCEPT !.event = TRUE]
    BY <1>2 DEF PushBack, t
  <1>10. /\ r \in FrmBufPools /\ r.ok
         /\ r.buf = [p.buf EXCEPT ![t] = b] /\ r.cnt = [p.cnt EXCEPT ![t] = 0]
         /\ r.out = [p.out EXCEPT ![t] = FALSE] /\ r.event = TRUE
         /\ r.decommitted = p.decommitted /\ r.number = p.number + 1 /\ r.tail = t
         /\ r.head = (IF n = 0 THEN t ELSE p.head)
         /\ r.next = (IF n = 0 THEN p.next ELSE [p.next EXCEPT ![p.tail] = t])
    <2> DEFINE l == IF n = 0 THEN [p EXCEPT !.head = t] ELSE [p EXCEPT !.next[p.tail] = t]
    <2>1. l = IF p.head = NoSlot /\ p.tail = NoSlot
              THEN [p EXCEPT !.head = t] ELSE [p EXCEPT !.next[p.tail] = t]
      BY <1>8
    <2>2. n # 0 => p.tail \in Slots
      BY <1>1, <1>6, <1>7 DEF Linked
    <2>3. /\ l.buf = p.buf /\ l.cnt = p.cnt /\ l.out = p.out /\ l.number = p.number
          /\ l.event = p.event /\ l.decommitted = p.decommitted /\ l.tail = p.tail
          /\ l.head = (IF n = 0 THEN t ELSE p.head) /\ l.ok = p.ok
          /\ l.next = (IF n = 0 THEN p.next ELSE [p.next EXCEPT ![p.tail] = t])
          /\ l \in FrmBufPools
      <3>1. CASE n = 0
        BY <1>1, <1>3, <3>1 DEF FrmBufPools
      <3>2. CASE n # 0
        BY <1>1, <1>3, <2>2, <3>2 DEF FrmBufPools
      <3> QED BY <3>1, <3>2
    <2>4. r = [l EXCEPT !.buf[t] = b, !.tail = t, !.cnt[t] = 0, !.out[t] = FALSE,
                        !.number = @ + 1, !.event = TRUE]
      <3>1. AddBufferToFifo(p, t, b) = [l EXCEPT !.buf[t] = b, !.tail = t, !.cnt[t] = 0,
                                                 !.out[t] = FALSE, !.number = @ + 1]
        BY <2>1 DEF AddBufferToFifo
      <3> HIDE DEF l
      <3> QED BY <1>9, <2>3, <3>1 DEF FrmBufPools
    <2> HIDE DEF l
    <2>o. DOMAIN l = {"buf", "next", "cnt", "out", "head", "tail", "number", "decommitted",
                      "event", "ok"}
      BY <2>3 DEF FrmBufPools
    <2>5. /\ r.buf = [p.buf EXCEPT ![t] = b] /\ r.cnt = [p.cnt EXCEPT ![t] = 0]
          /\ r.out = [p.out EXCEPT ![t] = FALSE] /\ r.event = TRUE
          /\ r.decommitted = p.decommitted /\ r.number = p.number + 1 /\ r.tail = t
          /\ r.head = l.head /\ r.next = l.next /\ r.ok = p.ok
      <3>1. /\ l.buf \in [Slots -> Bufs \cup {NoBuf}] /\ l.cnt \in [Slots -> Int]
            /\ l.out \in [Slots -> BOOLEAN]
        BY <2>3 DEF FrmBufPools
      <3>2. /\ r.buf = [l.buf EXCEPT ![t] = b] /\ r.cnt = [l.cnt EXCEPT ![t] = 0]
            /\ r.out = [l.out EXCEPT ![t] = FALSE] /\ r.event = TRUE
        BY <2>4, <2>o
      <3>3. /\ r.decommitted = l.decommitted /\ r.number = l.number + 1 /\ r.tail = t
            /\ r.head = l.head /\ r.next = l.next /\ r.ok = l.ok
        BY <2>4, <2>o
      <3> QED BY <2>3, <3>2, <3>3
    <2>6. r \in FrmBufPools
      <3>1. r = [buf |-> r.buf, next |-> r.next, cnt |-> r.cnt, out |-> r.out, head |-> r.head,
                 tail |-> r.tail, number |-> r.number, decommitted |-> r.decommitted,
                 event |-> r.event, ok |-> r.ok]
        BY <2>3, <2>4 DEF FrmBufPools
      <3>2. /\ r.buf \in [Slots -> Bufs \cup {NoBuf}] /\ r.cnt \in [Slots -> Int]
            /\ r.out \in [Slots -> BOOLEAN] /\ r.next \in [Slots -> Slots \cup {NoSlot}]
            /\ r.head \in Slots \cup {NoSlot} /\ r.tail \in Slots \cup {NoSlot}
            /\ r.number \in Int /\ r.decommitted \in BOOLEAN /\ r.event \in BOOLEAN
            /\ r.ok \in BOOLEAN
        <4>1. l.head \in Slots \cup {NoSlot} /\ l.next \in [Slots -> Slots \cup {NoSlot}]
          BY <2>3 DEF FrmBufPools
        <4>2. /\ p.buf \in [Slots -> Bufs \cup {NoBuf}] /\ p.cnt \in [Slots -> Int]
              /\ p.out \in [Slots -> BOOLEAN] /\ p.number \in Int
              /\ p.decommitted \in BOOLEAN /\ p.ok \in BOOLEAN
          BY <1>1 DEF FrmBufPools
        <4>3. b \in Bufs \cup {NoBuf} /\ 0 \in Int /\ t \in Slots /\ p.number + 1 \in Int
          BY <1>3, <4>2
        <4>4. r.event \in BOOLEAN /\ r.decommitted \in BOOLEAN /\ r.ok \in BOOLEAN
          BY <2>5, <4>2
        <4>5. /\ r.buf \in [Slots -> Bufs \cup {NoBuf}] /\ r.cnt \in [Slots -> Int]
              /\ r.out \in [Slots -> BOOLEAN]
          BY <2>5, <4>2, <4>3
        <4> QED BY <2>5, <4>1, <4>3, <4>4, <4>5
      <3> QED BY <3>1, <3>2 DEF FrmBufPools
    <2> QED BY <1>1, <2>3, <2>5, <2>6
  <1>11. r.out = p.out
    BY <1>1, <1>3, <1>10 DEF FrmBufPools
  <1> HIDE DEF k
  <1>12. Linked(r, k)
    <2>1. k # <<>> /\ k[1] = (IF n = 0 THEN t ELSE q[1])
      BY <1>4, EmptySeq
    <2>2. \A i, j \in 1 .. Len(k) : k[i] = k[j] => i = j
      BY <1>1, <1>4, <1>5 DEF Linked
    <2>3. ASSUME NEW i \in 1 .. Len(k)
          PROVE  r.next[k[i]] = IF i = Len(k) THEN NoSlot ELSE k[i + 1]
      <3>1. CASE i = n + 1
        <4>1. n # 0 => p.tail # t
          BY <1>1, <1>4, <1>5, <1>6 DEF Linked
        <4> QED BY <1>1, <1>3, <1>4, <1>10, <3>1, <4>1 DEF FrmBufPools
      <3>2. CASE i = n /\ n # 0
        <4>1. k[i] = q[n] /\ p.tail = q[n]
          BY <1>1, <1>4, <1>6, <3>2 DEF Linked
        <4> QED BY <1>1, <1>4, <1>7, <1>10, <3>2, <4>1 DEF FrmBufPools
      <3>3. CASE i \in 1 .. n - 1
        <4>1. i \in 1 .. n /\ i + 1 \in 1 .. n /\ n \in 1 .. n /\ n # 0
          BY <1>4, <3>3
        <4>2. k[i] = q[i] /\ k[i + 1] = q[i + 1] /\ p.tail = q[n] /\ q[i] \in Slots
          BY <1>1, <1>4, <1>6, <4>1, ElementOfSeq DEF Linked
        <4>3. q[i] # q[n]
          BY <1>1, <3>3, <4>1, <1>4 DEF Linked
        <4>4. p.next[q[i]] = q[i + 1]
          BY <1>1, <3>3, <4>1, <1>4 DEF Linked
        <4> QED BY <1>1, <1>4, <1>10, <3>3, <4>1, <4>2, <4>3, <4>4 DEF FrmBufPools
      <3> QED BY <1>4, <3>1, <3>2, <3>3
    <2>4. ASSUME NEW s \in Slots, \A i \in 1 .. Len(k) : k[i] # s
          PROVE  r.next[s] = NoSlot
      <3>1. \A i \in 1 .. n : q[i] # s
        BY <1>4, <2>4
      <3>2. p.next[s] = NoSlot
        BY <1>1, <3>1 DEF Linked
      <3>3. n # 0 => p.tail # s
        BY <1>1, <1>4, <1>6, <3>1 DEF Linked
      <3> QED BY <1>1, <1>10, <3>2, <3>3 DEF FrmBufPools
    <2>5. r.number = Len(k) /\ r.head = k[1] /\ r.tail = k[Len(k)]
      BY <1>1, <1>4, <1>6, <1>10, <2>1 DEF Linked
    <2> QED BY <1>4, <2>1, <2>2, <2>3, <2>4, <2>5 DEF Linked
  <1>13. /\ r.buf[t] = b /\ r.cnt[t] = 0 /\ ~r.out[t]
         /\ \A s \in Slots \ {t} : r.buf[s] = p.buf[s] /\ r.cnt[s] = p.cnt[s]
    BY <1>1, <1>3, <1>10, <1>11 DEF FrmBufPools
  <1>14. \A s \in Slots : (\E i \in 1 .. Len(k) : k[i] = s)
                            <=> s = t \/ \E i \in 1 .. n : q[i] = s
    <2>1. ASSUME NEW s \in Slots, NEW i \in 1 .. Len(k), k[i] = s
          PROVE  s = t \/ \E j \in 1 .. n : q[j] = s
      BY <1>4, <2>1
    <2>2. ASSUME NEW s \in Slots, NEW i \in 1 .. n, q[i] = s PROVE \E j \in 1 .. Len(k) : k[j] = s
      <3>1. i \in 1 .. Len(k) /\ k[i] = s
        BY <1>4, <2>2
      <3> QED BY <3>1
    <2>3. n + 1 \in 1 .. Len(k)
      BY <1>4
    <2> QED BY <1>4, <2>1, <2>2, <2>3
  <1>15. SlotsWhole(r, k)
    <2> SUFFICES ASSUME NEW s \in Slots
                 PROVE  /\ r.buf[s] = NoBuf => r.cnt[s] = -1 /\ ~r.out[s]
                        /\ r.buf[s] # NoBuf => r.cnt[s] >= 0
                        /\ r.out[s] => r.cnt[s] >= 1
                        /\ r.buf[s] # NoBuf =>
                              (r.cnt[s] = 0 /\ ~r.out[s] <=> \E i \in 1 .. Len(k) : k[i] = s)
                        /\ r.buf[s] = NoBuf => \A i \in 1 .. Len(k) : k[i] # s
                        /\ \A u \in Slots : r.buf[s] = r.buf[u] /\ r.buf[s] # NoBuf => s = u
      BY DEF SlotsWhole
    <2>1. b # NoBuf
      BY FrmBufPoolAssumption
    <2>2. CASE s = t
      BY <1>13, <1>14, <2>1, <2>2
    <2>3. CASE s # t
      BY <1>1, <1>11, <1>13, <1>14, <2>1, <2>3 DEF SlotsWhole
    <2> QED BY <2>2, <2>3
  <1> QED BY <1>3, <1>10, <1>11, <1>12, <1>15 DEF Whole, Pushed, k

\* No buffer is in two slots.
OneSlotEach(p) == \A t, u \in Slots : p.buf[t] = p.buf[u] /\ p.buf[t] # NoBuf => t = u

LEMMA SlotOfIs ==
  ASSUME NEW p, NEW b \in Bufs, OneSlotEach(p)
  PROVE  /\ \A s \in Slots : p.buf[s] = b => SlotOf(p, b) = s
         /\ (\A s \in Slots : p.buf[s] # b) => SlotOf(p, b) = NoSlot
         /\ SlotOf(p, b) \in Slots \cup {NoSlot}
         /\ SlotOf(p, b) # NoSlot => p.buf[SlotOf(p, b)] = b
  <1> DEFINE holding == {s \in Slots : p.buf[s] = b}
  <1>1. SlotOf(p, b) = IF holding = {} THEN NoSlot ELSE Min(holding)
    BY DEF SlotOf
  <1>2. holding # {} => Min(holding) \in holding
    BY MinIs, SlotsAre
  <1>3. b # NoBuf
    BY FrmBufPoolAssumption
  <1> QED BY <1>1, <1>2, <1>3 DEF OneSlotEach

\* A buffer is in the FIFO when its slot is.
LEMMA InFifoIs ==
  ASSUME NEW p, NEW q, FifoSlots(p) = q, q \in Seq(Slots), NEW b
  PROVE  IsInFifo(p, b) <=> \E i \in 1 .. Len(q) : p.buf[q[i]] = b
  BY LenProperties DEF IsInFifo

\* The buffer of a slot nobody holds any more moves to a free slot, at the end of the FIFO.
Recycled(p, q, s, r, t) ==
    /\ t = s \/ p.buf[t] = NoBuf
    /\ Whole(r, Append(q, t))
    /\ r.buf = [[p.buf EXCEPT ![s] = NoBuf] EXCEPT ![t] = p.buf[s]]
    /\ r.cnt = [[p.cnt EXCEPT ![s] = -1] EXCEPT ![t] = 0]
    /\ r.out = [p.out EXCEPT ![s] = FALSE]
    /\ r.event = TRUE /\ r.decommitted = p.decommitted

LEMMA RecycleIs ==
  ASSUME NEW p, NEW q, NEW s \in Slots, OthersWhole(p, q, s), p.buf[s] # NoBuf, p.cnt[s] = 0,
         BufsFit, NEW r, r = Recycle(p, s)
  PROVE  \E t \in Slots : Recycled(p, q, s, r, t)
  <1> DEFINE u == RemoveID(p, s)
             b == p.buf[s]
             v == [u EXCEPT !.ok = @ /\ ~IsInFifo(u, b)]
  <1>1. /\ Whole(u, q)
        /\ u.buf = [p.buf EXCEPT ![s] = NoBuf] /\ u.cnt = [p.cnt EXCEPT ![s] = -1]
        /\ u.out = [p.out EXCEPT ![s] = FALSE] /\ u.next = p.next
        /\ u.event = p.event /\ u.decommitted = p.decommitted
    BY RemoveIDIs
  <1> HIDE DEF u
  <1>2. p \in FrmBufPools /\ b \in Bufs /\ OneSlotEach(p)
    BY DEF OthersWhole, FrmBufPools, OneSlotEach
  <1>3. b # NoBuf
    BY FrmBufPoolAssumption, <1>2
  <1>4. \A t \in Slots : u.buf[t] # b
    <2> SUFFICES ASSUME NEW t \in Slots PROVE u.buf[t] # b
      OBVIOUS
    <2>1. p.buf \in [Slots -> Bufs \cup {NoBuf}]
      BY <1>2 DEF FrmBufPools
    <2> HIDE DEF b
    <2>2. CASE t = s
      BY <1>1, <1>3, <2>1, <2>2
    <2>3. CASE t # s
      BY <1>1, <1>2, <1>3, <2>1, <2>3 DEF OneSlotEach, b
    <2> QED BY <2>2, <2>3
  <1> HIDE DEF b
  <1>5. FifoSlots(u) = q /\ q \in Seq(Slots) /\ u \in FrmBufPools /\ u.ok
    BY <1>1, WholeIs DEF Whole, Linked
  <1>6. ~IsInFifo(u, b)
    BY <1>4, <1>5, InFifoIs, ElementOfSeq
  <1>7. v = u
    <2>1. (u.ok /\ ~IsInFifo(u, b)) = u.ok
      BY <1>5, <1>6 DEF FrmBufPools
    <2>2. v = [u EXCEPT !.ok = u.ok]
      BY <2>1
    <2> QED BY <2>2, <1>5 DEF FrmBufPools
  <1>8. r = PushBack(u, b)
    BY <1>7 DEF Recycle, u, b
  <1>n. PICK t \in Slots : Pushed(u, q, b, r, t)
    <2> HIDE DEF v
    <2>1. Whole(u, q)
      BY <1>1
    <2>2. b \in Bufs
      BY <1>2
    <2> QED BY <2>1, <2>2, <1>4, <1>8, PushBackIs
  <1>9. /\ u.buf[t] = NoBuf /\ Whole(r, Append(q, t))
        /\ r.buf = [u.buf EXCEPT ![t] = b] /\ r.cnt = [u.cnt EXCEPT ![t] = 0]
        /\ r.out = u.out /\ r.event = TRUE /\ r.decommitted = u.decommitted
    BY <1>n DEF Pushed
  <1>10. t = s \/ p.buf[t] = NoBuf
    BY <1>1, <1>2, <1>9 DEF FrmBufPools
  <1> QED BY <1>1, <1>9, <1>10 DEF b, Recycled

\* One reference on slot s less: a buffer that nobody holds any more leaves the pool when it
\* was output, and takes a free slot otherwise.
Released(p, r, s) ==
    /\ PoolInv(r) /\ r.decommitted = p.decommitted
    /\ p.event => r.event
    /\ \A t \in Slots : RefsOn(r, t) = RefsOn(p, t) - One(t = s)
    /\ \A t \in Slots \ {s} : /\ r.out[t] = p.out[t]
                              /\ p.buf[t] # NoBuf => r.buf[t] = p.buf[t]
                              /\ p.buf[t] = NoBuf => r.buf[t] \in {NoBuf, p.buf[s]}
                              /\ r.buf[t] = p.buf[s] => ~p.out[s]
    /\ p.cnt[s] > 1 => r.buf = p.buf /\ r.out = p.out
    /\ p.cnt[s] = 1 => ~r.out[s] /\ r.buf[s] \in {NoBuf, p.buf[s]}
    /\ p.cnt[s] = 1 /\ p.out[s] => r.buf = [p.buf EXCEPT ![s] = NoBuf]
    /\ \A b \in Bufs : (\E t \in Slots : p.buf[t] = b) =>
          (\E t \in Slots : r.buf[t] = b) \/ (p.cnt[s] = 1 /\ p.out[s] /\ b = p.buf[s])

LEMMA DecrementIs ==
  ASSUME NEW p, PoolInv(p), NEW s \in Slots, RefsOn(p, s) >= 1, BufsFit,
         NEW r, r = DecrementBufID(p, s)
  PROVE  Released(p, r, s)
  <1> DEFINE q == FifoSlots(p)
  <1>u. PICK u : u = [p EXCEPT !.cnt[s] = @ - 1, !.ok = @ /\ p.cnt[s] >= 1]
    OBVIOUS
  <1>1. Whole(p, q)
    BY PoolIsWhole
  <1>2. /\ p.buf[s] # NoBuf /\ p.buf[s] \in Bufs /\ p.cnt[s] >= 1 /\ p.cnt[s] \in Int
        /\ RefsOn(p, s) = p.cnt[s] /\ \A i \in 1 .. Len(q) : q[i] # s
    BY <1>1, Held
  <1>3. p \in FrmBufPools /\ p.ok /\ OneSlotEach(p) /\ q \in Seq(Slots)
    BY <1>1 DEF Whole, SlotsWhole, OneSlotEach, Linked
  <1>4. /\ u.buf = p.buf /\ u.out = p.out /\ u.event = p.event
        /\ u.decommitted = p.decommitted /\ u.cnt = [p.cnt EXCEPT ![s] = @ - 1]
        /\ u.next = p.next /\ u.head = p.head /\ u.tail = p.tail /\ u.number = p.number
        /\ u.ok /\ u \in FrmBufPools
    <2>1. /\ u.buf = p.buf /\ u.out = p.out /\ u.event = p.event
          /\ u.decommitted = p.decommitted /\ u.cnt = [p.cnt EXCEPT ![s] = @ - 1]
          /\ u.next = p.next /\ u.head = p.head /\ u.tail = p.tail /\ u.number = p.number
      BY <1>u, <1>3 DEF FrmBufPools
    <2>2. u.ok = (p.ok /\ p.cnt[s] >= 1)
      BY <1>u, <1>3 DEF FrmBufPools
    <2>3. u.ok = TRUE
      BY <1>2, <1>3, <2>2 DEF FrmBufPools
    <2>4. [p.cnt EXCEPT ![s] = @ - 1] \in [Slots -> Int]
      BY <1>2, <1>3 DEF FrmBufPools
    <2>5. u = [buf |-> u.buf, next |-> u.next, cnt |-> u.cnt, out |-> u.out, head |-> u.head,
               tail |-> u.tail, number |-> u.number, decommitted |-> u.decommitted,
               event |-> u.event, ok |-> u.ok]
      BY <1>u, <1>3 DEF FrmBufPools
    <2> QED BY <1>3, <2>1, <2>3, <2>4, <2>5 DEF FrmBufPools
  <1>5. r = IF u.cnt[s] # 0 THEN u ELSE IF u.out[s] THEN RemoveID(u, s) ELSE Recycle(u, s)
    BY <1>u DEF DecrementBufID
  <1> HIDE DEF q
  <1>6. /\ u.cnt[s] = p.cnt[s] - 1
        /\ \A t \in Slots \ {s} : u.cnt[t] = p.cnt[t] /\ u.out[t] = p.out[t]
    BY <1>3, <1>4 DEF FrmBufPools
  <1>o. \A t \in Slots : p.cnt[t] \in Int /\ (p.buf[t] = NoBuf => p.cnt[t] = -1)
    BY <1>1 DEF Whole, SlotsWhole, FrmBufPools
  <1>7. CASE u.cnt[s] # 0
    <2>1. r = u
      BY <1>5, <1>7
    <2>2. u.cnt[s] >= 1 /\ p.cnt[s] > 1
      BY <1>2, <1>6, <1>7
    <2>3. p.cnt[s] # 0
      BY <1>2
    <2>4. \A t \in Slots \ {s} : u.cnt[t] = p.cnt[t] /\ u.out[t] = p.out[t]
      BY <1>6
    <2>5. Whole(u, q)
      BY <1>1, <1>2, <1>4, <1>7, <2>2, <2>3, <2>4, CountedWhole
    <2>6. PoolInv(u)
      BY <2>5, WholeIs
    <2>7. ASSUME NEW t \in Slots PROVE RefsOn(u, t) = RefsOn(p, t) - One(t = s)
      <3>1. CASE t = s
        BY <1>2, <1>4, <1>6, <3>1 DEF RefsOn, One
      <3>2. CASE t # s
        BY <1>4, <1>6, <1>o, <3>2 DEF RefsOn, One
      <3> QED BY <3>1, <3>2
    <2>8. \A t \in Slots \ {s} : u.buf[t] # p.buf[s]
      BY <1>2, <1>3, <1>4 DEF OneSlotEach
    <2> QED BY <1>2, <1>4, <2>1, <2>2, <2>6, <2>7, <2>8 DEF Released
  <1>8. CASE u.cnt[s] = 0
    <2>1. p.cnt[s] = 1
      BY <1>2, <1>6, <1>8
    <2>2. OthersWhole(u, q, s)
      BY <1>1, <1>2, <1>4, <1>6, OthersAre
    <2>3. u.buf[s] # NoBuf
      BY <1>2, <1>4
    <2>b. p.buf \in [Slots -> Bufs \cup {NoBuf}] /\ p.cnt \in [Slots -> Int]
          /\ p.out \in [Slots -> BOOLEAN]
      BY <1>3 DEF FrmBufPools
    <2>4. CASE p.out[s]
      <3>1. r = RemoveID(u, s)
        BY <1>4, <1>5, <1>8, <2>4
      <3>2. /\ Whole(r, q)
            /\ r.buf = [u.buf EXCEPT ![s] = NoBuf] /\ r.cnt = [u.cnt EXCEPT ![s] = -1]
            /\ r.out = [u.out EXCEPT ![s] = FALSE]
            /\ r.event = u.event /\ r.decommitted = u.decommitted
        BY <1>8, <2>2, <2>3, <3>1, RemoveIDIs
      <3>3. PoolInv(r)
        BY <3>2, WholeIs
      <3>4. /\ r.buf[s] = NoBuf /\ ~r.out[s]
            /\ \A t \in Slots \ {s} : /\ r.buf[t] = p.buf[t] /\ r.out[t] = p.out[t]
                                      /\ r.cnt[t] = p.cnt[t]
        BY <1>4, <3>2, <2>b
      <3>5. ASSUME NEW t \in Slots PROVE RefsOn(r, t) = RefsOn(p, t) - One(t = s)
        <4>1. CASE t = s
          BY <1>2, <2>1, <3>4, <4>1 DEF RefsOn, One
        <4>2. CASE t # s
          BY <3>4, <1>o, <4>2 DEF RefsOn, One
        <4> QED BY <4>1, <4>2
      <3>6. \A t \in Slots \ {s} : r.buf[t] # p.buf[s]
        BY <1>2, <1>3, <3>4 DEF OneSlotEach
      <3>7. ASSUME NEW b \in Bufs, NEW t \in Slots, p.buf[t] = b
            PROVE  (\E k \in Slots : r.buf[k] = b) \/ b = p.buf[s]
        BY <3>4, <3>7
      <3>8. r.buf = [p.buf EXCEPT ![s] = NoBuf]
        BY <1>4, <3>2
      <3>9. r.decommitted = p.decommitted /\ r.event = p.event
        BY <1>4, <3>2
      <3> HIDE <3>2
      <3> QED BY <2>1, <2>4, <3>3, <3>4, <3>5, <3>6, <3>7, <3>8, <3>9 DEF Released
    <2>5. CASE ~p.out[s]
      <3>1. r = Recycle(u, s)
        BY <1>4, <1>5, <1>8, <2>5
      <3>k. PICK k \in Slots : Recycled(u, q, s, r, k)
        <4>1. u.cnt[s] = 0 /\ OthersWhole(u, q, s) /\ u.buf[s] # NoBuf /\ r = Recycle(u, s)
          BY <1>8, <2>2, <2>3, <3>1
        <4> QED BY <4>1, RecycleIs
      <3>2. /\ k = s \/ u.buf[k] = NoBuf
            /\ Whole(r, Append(q, k))
            /\ r.buf = [[u.buf EXCEPT ![s] = NoBuf] EXCEPT ![k] = u.buf[s]]
            /\ r.cnt = [[u.cnt EXCEPT ![s] = -1] EXCEPT ![k] = 0]
            /\ r.out = [u.out EXCEPT ![s] = FALSE]
            /\ r.event = TRUE /\ r.decommitted = u.decommitted
        BY <3>k DEF Recycled
      <3>3. PoolInv(r)
        BY <3>2, WholeIs
      <3>4. /\ ~r.out[s] /\ r.buf[k] = p.buf[s] /\ r.cnt[k] = 0
            /\ s # k => r.buf[s] = NoBuf
            /\ \A t \in Slots \ {s} : r.out[t] = p.out[t]
            /\ \A t \in Slots \ {s, k} : r.buf[t] = p.buf[t] /\ r.cnt[t] = p.cnt[t]
            /\ k # s => p.buf[k] = NoBuf
        BY <1>4, <1>6, <3>2, <2>b
      <3>5. ASSUME NEW t \in Slots PROVE RefsOn(r, t) = RefsOn(p, t) - One(t = s)
        <4>1. CASE t = s
          BY <1>2, <2>1, <3>4, <4>1 DEF RefsOn, One
        <4>2. CASE t # s /\ t = k
          BY <1>2, <3>4, <1>o, <4>2 DEF RefsOn, One
        <4>3. CASE t # s /\ t # k
          BY <3>4, <1>o, <4>3 DEF RefsOn, One
        <4> QED BY <4>1, <4>2, <4>3
      <3>6. \A t \in Slots \ {s} : p.buf[t] # NoBuf => r.buf[t] = p.buf[t]
        BY <3>4
      <3>7. \A t \in Slots \ {s} : p.buf[t] = NoBuf => r.buf[t] \in {NoBuf, p.buf[s]}
        BY <3>4
      <3>8. ASSUME NEW b \in Bufs, NEW t \in Slots, p.buf[t] = b
            PROVE  \E j \in Slots : r.buf[j] = b
        <4>1. CASE t = s
          BY <3>4, <3>8, <4>1
        <4>2. CASE t # s
          <5>1. b # NoBuf
            BY FrmBufPoolAssumption
          <5> QED BY <3>6, <3>8, <4>2, <5>1
        <4> QED BY <4>1, <4>2
      <3>9. r.decommitted = p.decommitted /\ r.event
        BY <1>4, <3>2
      <3>10. r.buf[s] \in {NoBuf, p.buf[s]}
        BY <3>4
      <3> HIDE <3>2
      <3> QED BY <2>1, <2>5, <3>3, <3>4, <3>5, <3>6, <3>7, <3>8, <3>9, <3>10 DEF Released
    <2> QED BY <2>4, <2>5
  <1> QED BY <1>7, <1>8

\* The buffer of the application is free again, unless the decoder still holds it.
Returned(p, r, b) ==
    /\ PoolInv(r) /\ r.decommitted = p.decommitted
    /\ \A t \in Slots : RefsOn(r, t) = RefsOn(p, t)
    /\ \A t \in Slots : /\ p.buf[t] \notin {NoBuf, b} => r.buf[t] = p.buf[t] /\ r.out[t] = p.out[t]
                        /\ p.buf[t] \in {NoBuf, b} => r.buf[t] \in {NoBuf, b} /\ ~r.out[t]
                        /\ p.buf[t] = b /\ p.cnt[t] > 0 => r.buf[t] = b
    /\ \E t \in Slots : r.buf[t] = b

LEMMA PutIs ==
  ASSUME NEW p, PoolInv(p), NEW b \in Bufs, BufsFit,
         \A s \in Slots : p.buf[s] = b => p.out[s],
         NEW r, r = PutDisplayBuffer(p, b)
  PROVE  Returned(p, r, b)
  <1> DEFINE q == FifoSlots(p)
  <1>1. Whole(p, q)
    BY PoolIsWhole
  <1> HIDE DEF q
  <1>2. p \in FrmBufPools /\ p.ok /\ OneSlotEach(p) /\ SlotsWhole(p, q)
    BY <1>1 DEF Whole, SlotsWhole, OneSlotEach
  <1>3. b # NoBuf
    BY FrmBufPoolAssumption
  <1>b. p.buf \in [Slots -> Bufs \cup {NoBuf}] /\ p.cnt \in [Slots -> Int]
        /\ p.out \in [Slots -> BOOLEAN]
    BY <1>2 DEF FrmBufPools
  <1>o. \A t \in Slots : /\ p.buf[t] = NoBuf => p.cnt[t] = -1 /\ ~p.out[t]
                         /\ p.buf[t] # NoBuf => p.cnt[t] >= 0
    BY <1>2 DEF SlotsWhole
  <1>4. CASE \A s \in Slots : p.buf[s] # b
    <2>1. SlotOf(p, b) = NoSlot
      BY <1>2, <1>4, SlotOfIs
    <2>2. r = PushBack(p, b)
      BY <2>1 DEF PutDisplayBuffer
    <2>3. PICK k \in Slots : Pushed(p, q, b, r, k)
      BY <1>1, <1>4, <2>2, PushBackIs
    <2>4. /\ p.buf[k] = NoBuf /\ Whole(r, Append(q, k))
          /\ r.buf = [p.buf EXCEPT ![k] = b] /\ r.cnt = [p.cnt EXCEPT ![k] = 0]
          /\ r.out = p.out /\ r.event = TRUE /\ r.decommitted = p.decommitted
      BY <2>3 DEF Pushed
    <2>5. PoolInv(r)
      BY <2>4, WholeIs
    <2>6. /\ r.buf[k] = b /\ r.cnt[k] = 0
          /\ \A t \in Slots \ {k} : r.buf[t] = p.buf[t] /\ r.cnt[t] = p.cnt[t]
      BY <1>b, <2>4
    <2>7. \A t \in Slots : RefsOn(r, t) = RefsOn(p, t)
      BY <1>3, <2>4, <2>6 DEF RefsOn
    <2>8. \A t \in Slots : p.buf[t] # b
      BY <1>4
    <2>9. /\ r.out = p.out /\ r.decommitted = p.decommitted /\ p.buf[k] = NoBuf
      BY <2>4
    <2> QED BY <1>o, <2>5, <2>6, <2>7, <2>8, <2>9 DEF Returned
  <1>5. ASSUME NEW s \in Slots, p.buf[s] = b PROVE Returned(p, r, b)
    <2>1. SlotOf(p, b) = s /\ s # NoSlot
      BY <1>2, <1>5, SlotOfIs, SlotsAre
    <2>u. PICK u : u = [p EXCEPT !.out[s] = FALSE, !.ok = @ /\ p.out[s]]
      OBVIOUS
    <2>2. r = IF u.cnt[s] = 0 THEN Recycle(u, s) ELSE u
      BY <2>1, <2>u DEF PutDisplayBuffer, ReleaseDisplaySlot
    <2>3. p.out[s] /\ p.cnt[s] >= 0
      BY <1>3, <1>5, <1>o
    <2>4. \A i \in 1 .. Len(q) : q[i] # s
      BY <1>2, <1>3, <1>5, <2>3 DEF SlotsWhole
    <2>5. /\ u.buf = p.buf /\ u.cnt = p.cnt /\ u.event = p.event
          /\ u.decommitted = p.decommitted /\ u.out = [p.out EXCEPT ![s] = FALSE]
          /\ u.next = p.next /\ u.head = p.head /\ u.tail = p.tail /\ u.number = p.number
          /\ u.ok /\ u \in FrmBufPools
      <3>1. /\ u.buf = p.buf /\ u.cnt = p.cnt /\ u.event = p.event
            /\ u.decommitted = p.decommitted /\ u.out = [p.out EXCEPT ![s] = FALSE]
            /\ u.next = p.next /\ u.head = p.head /\ u.tail = p.tail /\ u.number = p.number
        BY <1>2, <2>u DEF FrmBufPools
      <3>2. u.ok = (p.ok /\ p.out[s])
        BY <1>2, <2>u DEF FrmBufPools
      <3>3. u.ok = TRUE
        BY <1>2, <2>3, <3>2 DEF FrmBufPools
      <3>4. [p.out EXCEPT ![s] = FALSE] \in [Slots -> BOOLEAN]
        BY <1>b
      <3>5. u = [buf |-> u.buf, next |-> u.next, cnt |-> u.cnt, out |-> u.out, head |-> u.head,
                 tail |-> u.tail, number |-> u.number, decommitted |-> u.decommitted,
                 event |-> u.event, ok |-> u.ok]
        BY <1>2, <2>u DEF FrmBufPools
      <3> QED BY <1>2, <3>1, <3>3, <3>4, <3>5 DEF FrmBufPools
    <2>6. /\ ~u.out[s]
          /\ \A t \in Slots \ {s} : u.out[t] = p.out[t] /\ u.cnt[t] = p.cnt[t]
      BY <1>b, <2>5
    <2>7. \A t \in Slots \ {s} : p.buf[t] # b
      BY <1>2, <1>3, <1>5 DEF OneSlotEach
    <2>8. CASE p.cnt[s] # 0
      <3>1. r = u
        BY <2>2, <2>5, <2>8
      <3>2. u.buf = p.buf /\ p.buf[s] # NoBuf /\ (p.cnt[s] # 0 \/ p.out[s])
            /\ u.cnt[s] >= 1
        <4>1. p.cnt[s] \in Int
          BY <1>2 DEF FrmBufPools
        <4> QED BY <1>3, <1>5, <2>3, <2>5, <2>8, <4>1
      <3>3. Whole(u, q)
        <4>1. /\ u \in FrmBufPools /\ u.ok /\ u.next = p.next /\ u.head = p.head
              /\ u.tail = p.tail /\ u.number = p.number
          BY <2>5
        <4> QED BY <1>1, <2>6, <3>2, <4>1, CountedWhole
      <3>4. PoolInv(r)
        BY <3>1, <3>3, WholeIs
      <3>5. \A t \in Slots : RefsOn(r, t) = RefsOn(p, t)
        BY <2>5, <3>1 DEF RefsOn
      <3>6. \A t \in Slots : /\ p.buf[t] \notin {NoBuf, b} => r.buf[t] = p.buf[t] /\ r.out[t] = p.out[t]
                             /\ p.buf[t] \in {NoBuf, b} => r.buf[t] \in {NoBuf, b} /\ ~r.out[t]
                             /\ p.buf[t] = b /\ p.cnt[t] > 0 => r.buf[t] = b
        BY <1>5, <1>o, <2>6, <2>7, <3>1, <3>2
      <3>7. r.decommitted = p.decommitted /\ r.buf[s] = b
        BY <1>5, <2>5, <3>1
      <3> QED BY <3>4, <3>5, <3>6, <3>7 DEF Returned
    <2>9. CASE p.cnt[s] = 0
      <3>1. u.cnt[s] = 0 /\ u.buf[s] # NoBuf /\ r = Recycle(u, s)
        BY <1>3, <1>5, <2>2, <2>5, <2>9
      <3>2. OthersWhole(u, q, s)
        BY <1>1, <2>4, <2>5, <2>6, OthersAre, ZenonT(40)
      <3>3. PICK k \in Slots : Recycled(u, q, s, r, k)
        BY <3>1, <3>2, RecycleIs
      <3>4. /\ k = s \/ u.buf[k] = NoBuf
            /\ Whole(r, Append(q, k))
            /\ r.buf = [[u.buf EXCEPT ![s] = NoBuf] EXCEPT ![k] = u.buf[s]]
            /\ r.cnt = [[u.cnt EXCEPT ![s] = -1] EXCEPT ![k] = 0]
            /\ r.out = [u.out EXCEPT ![s] = FALSE]
            /\ r.event = TRUE /\ r.decommitted = u.decommitted
        BY <3>3 DEF Recycled
      <3>5. PoolInv(r)
        BY <3>4, WholeIs
      <3>6. /\ ~r.out[s] /\ r.buf[k] = b /\ r.cnt[k] = 0
            /\ s # k => r.buf[s] = NoBuf
            /\ \A t \in Slots \ {s} : r.out[t] = p.out[t]
            /\ \A t \in Slots \ {s, k} : r.buf[t] = p.buf[t] /\ r.cnt[t] = p.cnt[t]
            /\ k # s => p.buf[k] = NoBuf
        BY <1>5, <1>b, <2>5, <3>4
      <3>7. ASSUME NEW t \in Slots PROVE RefsOn(r, t) = RefsOn(p, t)
        <4>1. CASE t = s
          BY <1>3, <1>5, <2>9, <3>6, <4>1 DEF RefsOn
        <4>2. CASE t = k
          BY <1>3, <1>5, <2>9, <3>6, <4>2 DEF RefsOn
        <4>3. CASE t # s /\ t # k
          BY <3>6, <4>3 DEF RefsOn
        <4> QED BY <4>1, <4>2, <4>3
      <3>8. r.decommitted = p.decommitted
        BY <2>5, <3>4
      <3>9. \A t \in Slots : /\ p.buf[t] \notin {NoBuf, b} => r.buf[t] = p.buf[t] /\ r.out[t] = p.out[t]
                             /\ p.buf[t] \in {NoBuf, b} => r.buf[t] \in {NoBuf, b} /\ ~r.out[t]
                             /\ p.buf[t] = b /\ p.cnt[t] > 0 => r.buf[t] = b
        BY <1>3, <1>5, <1>o, <2>7, <2>9, <3>6
      <3> QED BY <3>5, <3>6, <3>7, <3>8, <3>9 DEF Returned
    <2> QED BY <1>o, <2>8, <2>9
  <1> QED BY <1>4, <1>5

\* The first slot of the FIFO leaves it.
HeadLeft(p, q, r) ==
    /\ p.head \in Slots /\ p.head = q[1] /\ p.number > 0
    /\ p.buf[p.head] \in Bufs /\ p.cnt[p.head] = 0 /\ ~p.out[p.head]
    /\ r \in FrmBufPools /\ Linked(r, Tail(q)) /\ r.buf = p.buf /\ r.out = p.out
    /\ r.cnt = [p.cnt EXCEPT ![p.head] = 1]
    /\ r.event = p.event /\ r.decommitted = p.decommitted /\ r.ok = p.ok
    /\ \A i \in 1 .. Len(Tail(q)) : Tail(q)[i] # p.head
    /\ \A s \in Slots \ {p.head} :
          (\E i \in 1 .. Len(q) : q[i] = s) <=> \E i \in 1 .. Len(Tail(q)) : Tail(q)[i] = s

LEMMA HeadLeaves ==
  ASSUME NEW p, NEW q, Whole(p, q), q # <<>>, NEW r, r = RemoveBufferFromFifo(p)
  PROVE  HeadLeft(p, q, r)
  <1> DEFINE n == Len(q)
             k == Tail(q)
             h == p.head
  <1>1. p \in FrmBufPools /\ p.ok /\ Linked(p, q) /\ SlotsWhole(p, q)
    BY DEF Whole
  <1>2. /\ q \in Seq(Slots) /\ n \in Nat /\ n > 0 /\ k \in Seq(Slots) /\ Len(k) = n - 1
        /\ \A i \in 1 .. n - 1 : k[i] = q[i + 1]
        /\ q[1] \in Slots /\ h = q[1]
    BY <1>1, SeqHead DEF Linked
  <1>3. /\ p.next[h] = IF n = 1 THEN NoSlot ELSE q[2]
        /\ p.tail = q[n] /\ p.number = n
    <2>1. 1 \in 1 .. n /\ (1 = n => n = 1)
      BY <1>2
    <2>2. p.next[q[1]] = IF 1 = n THEN NoSlot ELSE q[1 + 1]
      BY <1>1, <2>1 DEF Linked
    <2>3. p.tail = q[n] /\ p.number = n
      BY <1>1 DEF Linked
    <2> QED BY <1>2, <2>2, <2>3
  <1>4. p.buf[h] # NoBuf /\ p.cnt[h] = 0 /\ ~p.out[h] /\ p.buf[h] \in Bufs
    <2>1. \E i \in 1 .. n : q[i] = h
      BY <1>2
    <2> QED BY <1>1, <1>2, <2>1 DEF SlotsWhole, FrmBufPools
  <1>5. p.next[h] \in Slots \cup {NoSlot} /\ (n # 1 => q[2] \in Slots)
    BY <1>1, <1>2, ElementOfSeq DEF FrmBufPools
  <1> HIDE DEF n, k, h
  <1>6. /\ r.buf = p.buf /\ r.out = p.out /\ r.cnt = [p.cnt EXCEPT ![h] = 1]
        /\ r.event = p.event /\ r.decommitted = p.decommitted /\ r.ok = p.ok
        /\ r.head = p.next[h] /\ r.next = [p.next EXCEPT ![h] = NoSlot]
        /\ r.tail = (IF p.next[h] = NoSlot THEN NoSlot ELSE p.tail)
        /\ r.number = p.number - 1
    BY <1>1 DEF RemoveBufferFromFifo, FrmBufPools, h
  <1>7. r \in FrmBufPools
    <2>1. r = [buf |-> r.buf, next |-> r.next, cnt |-> r.cnt, out |-> r.out, head |-> r.head,
               tail |-> r.tail, number |-> r.number, decommitted |-> r.decommitted,
               event |-> r.event, ok |-> r.ok]
      BY <1>1 DEF RemoveBufferFromFifo, FrmBufPools
    <2>2. /\ [p.cnt EXCEPT ![h] = 1] \in [Slots -> Int]
          /\ [p.next EXCEPT ![h] = NoSlot] \in [Slots -> Slots \cup {NoSlot}]
          /\ p.number - 1 \in Int
      BY <1>1, <1>2 DEF FrmBufPools
    <2>3. r.tail \in Slots \cup {NoSlot}
      BY <1>1, <1>6 DEF FrmBufPools
    <2> QED BY <1>1, <1>5, <1>6, <2>1, <2>2, <2>3 DEF FrmBufPools
  <1>8. \A i, j \in 1 .. n : q[i] = q[j] => i = j
    BY <1>1 DEF Linked, n
  <1>9. \A i \in 1 .. n - 1 : k[i] # h
    BY <1>2, <1>8
  <1>10. Linked(r, k)
    <2>1. \A i, j \in 1 .. Len(k) : k[i] = k[j] => i = j
      BY <1>2, <1>8
    <2>2. k = <<>> <=> n = 1
      BY <1>2, EmptySeq
    <2>3. r.head = IF k = <<>> THEN NoSlot ELSE k[1]
      BY <1>2, <1>3, <1>6, <2>2
    <2>4. r.tail = IF k = <<>> THEN NoSlot ELSE k[Len(k)]
      <3>1. CASE n = 1
        BY <1>3, <1>6, <2>2, <3>1
      <3>2. CASE n # 1
        <4>1. Len(k) \in 1 .. n - 1 /\ Len(k) + 1 = n
          BY <1>2, <3>2
        <4>2. k[Len(k)] = q[n]
          BY <1>2, <4>1
        <4>3. p.next[h] # NoSlot
          BY <1>3, <1>5, <3>2, SlotsAre
        <4> QED BY <1>3, <1>6, <2>2, <3>2, <4>2, <4>3
      <3> QED BY <3>1, <3>2
    <2>5. ASSUME NEW i \in 1 .. Len(k)
          PROVE  r.next[k[i]] = IF i = Len(k) THEN NoSlot ELSE k[i + 1]
      <3>1. i \in 1 .. n - 1 /\ i + 1 \in 1 .. n /\ k[i] = q[i + 1] /\ k[i] # h /\ k[i] \in Slots
        BY <1>2, <1>9, ElementOfSeq
      <3>2. p.next[q[i + 1]] = IF i + 1 = n THEN NoSlot ELSE q[(i + 1) + 1]
        BY <1>1, <3>1 DEF Linked, n
      <3>3. r.next[k[i]] = p.next[k[i]]
        BY <1>1, <1>6, <3>1 DEF FrmBufPools
      <3>4. i + 1 = n <=> i = Len(k)
        BY <1>2, <3>1
      <3>5. i # Len(k) => i + 1 \in 1 .. n - 1
        BY <1>2, <3>1
      <3> QED BY <1>2, <3>1, <3>2, <3>3, <3>4, <3>5
    <2>6. ASSUME NEW s \in Slots, \A i \in 1 .. Len(k) : k[i] # s
          PROVE  r.next[s] = NoSlot
      <3>1. CASE s = h
        BY <1>1, <1>6, <3>1 DEF FrmBufPools
      <3>2. CASE s # h
        <4>1. ASSUME NEW i \in 1 .. n, q[i] = s PROVE FALSE
          <5>1. i # 1
            BY <1>2, <3>2, <4>1
          <5>2. i - 1 \in 1 .. Len(k) /\ i - 1 \in 1 .. n - 1 /\ (i - 1) + 1 = i
            BY <1>2, <5>1
          <5>3. k[i - 1] = s
            BY <1>2, <4>1, <5>2
          <5> QED BY <2>6, <5>2, <5>3
        <4>2. p.next[s] = NoSlot
          BY <1>1, <4>1 DEF Linked, n
        <4> QED BY <1>1, <1>6, <3>2, <4>2 DEF FrmBufPools
      <3> QED BY <3>1, <3>2
    <2>7. r.number = Len(k)
      BY <1>2, <1>3, <1>6
    <2> QED BY <1>2, <2>1, <2>3, <2>4, <2>5, <2>6, <2>7 DEF Linked
  <1>11. ASSUME NEW s \in Slots \ {h}
         PROVE  (\E i \in 1 .. n : q[i] = s) <=> \E i \in 1 .. Len(k) : k[i] = s
    <2>1. ASSUME NEW i \in 1 .. n, q[i] = s PROVE \E j \in 1 .. Len(k) : k[j] = s
      <3>1. i # 1
        BY <1>2, <2>1
      <3>2. i - 1 \in 1 .. Len(k) /\ i - 1 \in 1 .. n - 1 /\ (i - 1) + 1 = i
        BY <1>2, <3>1
      <3>3. k[i - 1] = s
        BY <1>2, <2>1, <3>2
      <3> QED BY <3>2, <3>3
    <2>2. ASSUME NEW i \in 1 .. Len(k), k[i] = s PROVE \E j \in 1 .. n : q[j] = s
      <3>1. i + 1 \in 1 .. n /\ q[i + 1] = s
        BY <1>2, <2>2
      <3> QED BY <3>1
    <2> QED BY <2>1, <2>2
  <1>12. p.number > 0
    BY <1>2, <1>3
  <1> QED BY <1>2, <1>4, <1>6, <1>7, <1>9, <1>10, <1>11, <1>12 DEF HeadLeft, n, k, h

\* Slot s leaves the FIFO for the decoder.
Popped(p, r, s) ==
    /\ PoolInv(r) /\ s = p.head /\ s \in Slots
    /\ p.buf[s] \in Bufs /\ p.cnt[s] = 0 /\ ~p.out[s]
    /\ r.buf = p.buf /\ r.out = p.out /\ r.decommitted = p.decommitted
    /\ \A t \in Slots : RefsOn(r, t) = RefsOn(p, t) + One(t = s)

\* How many buffers are in the FIFO, and whether there is one.
LEMMA FifoEmpty ==
  ASSUME NEW p, PoolInv(p)
  PROVE  p.number \in Nat /\ (p.number > 0 <=> FifoSlots(p) # <<>>)
  BY EmptySeq, LenProperties DEF PoolInv, Linked

LEMMA PopIs ==
  ASSUME NEW p, PoolInv(p), p.number > 0, NEW r, r = Pop(p)
  PROVE  Popped(p, r, p.head)
  <1> DEFINE q == FifoSlots(p)
             h == p.head
  <1>1. Whole(p, q) /\ q # <<>>
    BY PoolIsWhole, FifoEmpty
  <1>2. p \in FrmBufPools /\ p.ok /\ SlotsWhole(p, q)
    BY <1>1 DEF Whole
  <1> HIDE DEF q
  <1>u. PICK u : u = RemoveBufferFromFifo(p)
    OBVIOUS
  <1>3. /\ h \in Slots /\ h = q[1] /\ p.number > 0
        /\ p.buf[h] \in Bufs /\ p.cnt[h] = 0 /\ ~p.out[h]
        /\ u \in FrmBufPools /\ Linked(u, Tail(q)) /\ u.buf = p.buf /\ u.out = p.out
        /\ u.cnt = [p.cnt EXCEPT ![h] = 1]
        /\ u.event = p.event /\ u.decommitted = p.decommitted /\ u.ok = p.ok
        /\ \A i \in 1 .. Len(Tail(q)) : Tail(q)[i] # h
        /\ \A s \in Slots \ {h} :
              (\E i \in 1 .. Len(q) : q[i] = s) <=> \E i \in 1 .. Len(Tail(q)) : Tail(q)[i] = s
    <2>1. HeadLeft(p, q, u)
      BY <1>1, <1>u, HeadLeaves
    <2> QED BY <2>1 DEF HeadLeft
  <1>4. p.buf[h] # NoBuf
    BY <1>3, FrmBufPoolAssumption
  <1>5. r = u
    <2>1. r = [u EXCEPT !.ok = @ /\ p.buf[p.head] # NoBuf /\ p.cnt[p.head] = 0 /\ ~p.out[p.head]]
      BY <1>u DEF Pop
    <2>2. (u.ok /\ p.buf[p.head] # NoBuf /\ p.cnt[p.head] = 0 /\ ~p.out[p.head]) = u.ok
      BY <1>2, <1>3, <1>4 DEF FrmBufPools
    <2>3. r = [u EXCEPT !.ok = u.ok]
      BY <2>1, <2>2
    <2> QED BY <2>3, <1>3 DEF FrmBufPools
  <1> HIDE DEF h
  <1>6. /\ u.cnt[h] = 1 /\ \A t \in Slots \ {h} : u.cnt[t] = p.cnt[t]
        /\ \A t \in Slots : p.cnt[t] \in Int
    BY <1>2, <1>3 DEF FrmBufPools
  <1>7. SlotsWhole(u, Tail(q))
    <2> SUFFICES ASSUME NEW t \in Slots
                 PROVE  /\ u.buf[t] = NoBuf => u.cnt[t] = -1 /\ ~u.out[t]
                        /\ u.buf[t] # NoBuf => u.cnt[t] >= 0
                        /\ u.out[t] => u.cnt[t] >= 1
                        /\ u.buf[t] # NoBuf =>
                              (u.cnt[t] = 0 /\ ~u.out[t] <=> \E i \in 1 .. Len(Tail(q)) : Tail(q)[i] = t)
                        /\ u.buf[t] = NoBuf => \A i \in 1 .. Len(Tail(q)) : Tail(q)[i] # t
                        /\ \A v \in Slots : u.buf[t] = u.buf[v] /\ u.buf[t] # NoBuf => t = v
      BY DEF SlotsWhole
    <2>1. CASE t = h
      BY <1>2, <1>3, <1>4, <1>6, <2>1 DEF SlotsWhole
    <2>2. CASE t # h
      BY <1>2, <1>3, <1>6, <2>2 DEF SlotsWhole
    <2> QED BY <2>1, <2>2
  <1>8. PoolInv(u)
    BY <1>2, <1>3, <1>7, WholeIs DEF Whole
  <1>9. ASSUME NEW t \in Slots PROVE RefsOn(u, t) = RefsOn(p, t) + One(t = h)
    <2>1. CASE t = h
      BY <1>3, <1>4, <1>6, <2>1 DEF RefsOn, One
    <2>2. CASE t # h
      BY <1>3, <1>6, <2>2 DEF RefsOn, One
    <2> QED BY <2>1, <2>2
  <1> QED BY <1>3, <1>5, <1>8, <1>9 DEF Popped, h

\* The buffer of slot s leaves the pool.
Withdrawn(p, r, s) ==
    /\ PoolInv(r) /\ s = p.head /\ s \in Slots
    /\ p.buf[s] \in Bufs /\ p.cnt[s] = 0 /\ ~p.out[s]
    /\ r.buf = [p.buf EXCEPT ![s] = NoBuf] /\ r.out = p.out /\ r.decommitted = p.decommitted
    /\ \A t \in Slots : RefsOn(r, t) = RefsOn(p, t)

LEMMA WithdrawIs ==
  ASSUME NEW p, PoolInv(p), FifoSlots(p) # <<>>,
         NEW r, r = SignalCallbackReleaseIsDone(FlushOneDisplayBuffer(p), p.buf[p.head])
  PROVE  Withdrawn(p, r, p.head)
  <1> DEFINE q == FifoSlots(p)
             h == p.head
             b == p.buf[h]
             k == Tail(q)
  <1>1. Whole(p, q) /\ q # <<>>
    BY PoolIsWhole
  <1>2. p \in FrmBufPools /\ p.ok /\ SlotsWhole(p, q) /\ Linked(p, q)
    BY <1>1 DEF Whole
  <1> HIDE DEF q
  <1>u. PICK u : u = RemoveBufferFromFifo(p)
    OBVIOUS
  <1>3. /\ h \in Slots /\ h = q[1] /\ p.number > 0
        /\ b \in Bufs /\ p.cnt[h] = 0 /\ ~p.out[h]
        /\ u \in FrmBufPools /\ Linked(u, Tail(q)) /\ u.buf = p.buf /\ u.out = p.out
        /\ u.cnt = [p.cnt EXCEPT ![h] = 1]
        /\ u.event = p.event /\ u.decommitted = p.decommitted /\ u.ok = p.ok
        /\ \A i \in 1 .. Len(Tail(q)) : Tail(q)[i] # h
        /\ \A s \in Slots \ {h} :
              (\E i \in 1 .. Len(q) : q[i] = s) <=> \E i \in 1 .. Len(Tail(q)) : Tail(q)[i] = s
    <2>1. HeadLeft(p, q, u)
      BY <1>1, <1>u, HeadLeaves
    <2> QED BY <2>1 DEF HeadLeft
  <1>4. b # NoBuf
    BY <1>3, FrmBufPoolAssumption
  <1>v. PICK v : v = FlushOneDisplayBuffer(p)
    OBVIOUS
  <1>w. PICK w : w = [v EXCEPT !.out[h] = FALSE, !.ok = @ /\ ~IsInFifo(v, b) /\ v.out[h]]
    OBVIOUS
  <1> HIDE DEF h
  <1>5. /\ v.buf = p.buf /\ v.out = [p.out EXCEPT ![h] = TRUE]
        /\ v.cnt = [u.cnt EXCEPT ![h] = 0] /\ v.event = p.event
        /\ v.decommitted = p.decommitted /\ v.ok /\ v \in FrmBufPools
        /\ v.next = u.next /\ v.head = u.head /\ v.tail = u.tail /\ v.number = u.number
    <2>0. v = [u EXCEPT !.cnt[h] = 0, !.out[h] = TRUE,
                        !.ok = @ /\ p.cnt[h] = 0 /\ ~p.out[h]]
      BY <1>u, <1>v DEF FlushOneDisplayBuffer, h
    <2>1. /\ v.buf = p.buf /\ v.out = [p.out EXCEPT ![h] = TRUE]
          /\ v.cnt = [u.cnt EXCEPT ![h] = 0] /\ v.event = p.event
          /\ v.decommitted = p.decommitted
          /\ v.next = u.next /\ v.head = u.head /\ v.tail = u.tail /\ v.number = u.number
      BY <1>3, <2>0 DEF FrmBufPools
    <2>2. v.ok = (u.ok /\ p.cnt[h] = 0 /\ ~p.out[h])
      BY <1>3, <2>0 DEF FrmBufPools
    <2>3. v.ok = TRUE
      BY <1>2, <1>3, <2>2 DEF FrmBufPools
    <2>4. [u.cnt EXCEPT ![h] = 0] \in [Slots -> Int] /\ [p.out EXCEPT ![h] = TRUE] \in [Slots -> BOOLEAN]
      BY <1>2, <1>3 DEF FrmBufPools
    <2>5. v = [buf |-> v.buf, next |-> v.next, cnt |-> v.cnt, out |-> v.out, head |-> v.head,
               tail |-> v.tail, number |-> v.number, decommitted |-> v.decommitted,
               event |-> v.event, ok |-> v.ok]
      BY <1>3, <2>0 DEF FrmBufPools
    <2> QED BY <1>2, <1>3, <2>1, <2>3, <2>4, <2>5 DEF FrmBufPools
  <1>6. Linked(v, k) /\ k \in Seq(Slots)
    <2>1. Linked(u, k)
      BY <1>3
    <2> HIDE DEF k
    <2>2. Linked(v, k)
      BY <1>5, <2>1, LinkedSame
    <2> QED BY <2>2 DEF Linked
  <1>7. FifoSlots(v) = k
    BY <1>5, <1>6, FifoIs
  <1>8. OneSlotEach(p) /\ OneSlotEach(v)
    BY <1>2, <1>5 DEF SlotsWhole, OneSlotEach
  <1>9. SlotOf(v, b) = h
    BY <1>3, <1>5, <1>8, SlotOfIs DEF h
  <1>10. ~IsInFifo(v, b)
    <2>1. \A i \in 1 .. Len(k) : v.buf[k[i]] # b
      <3> SUFFICES ASSUME NEW i \in 1 .. Len(k) PROVE v.buf[k[i]] # b
        OBVIOUS
      <3>1. k[i] # h
        BY <1>3
      <3>2. k[i] \in Slots
        BY <1>6, ElementOfSeq
      <3> HIDE DEF k
      <3> QED BY <1>3, <1>4, <1>5, <1>8, <3>1, <3>2 DEF OneSlotEach, h
    <2> HIDE DEF k, b
    <2> QED BY <1>6, <1>7, <2>1, InFifoIs
  <1>11. r = RemoveID(w, h)
    BY <1>9, <1>v, <1>w DEF SignalCallbackReleaseIsDone, h
  <1>12. v.out[h] /\ v.cnt[h] = 0
    BY <1>2, <1>3, <1>5 DEF FrmBufPools
  <1>13. /\ w.buf = p.buf /\ w.out = [v.out EXCEPT ![h] = FALSE]
         /\ w.cnt = v.cnt /\ w.event = p.event
         /\ w.decommitted = p.decommitted /\ w.ok /\ w \in FrmBufPools
         /\ w.next = v.next /\ w.head = v.head /\ w.tail = v.tail /\ w.number = v.number
    <2>1. /\ w.buf = p.buf /\ w.out = [v.out EXCEPT ![h] = FALSE]
          /\ w.cnt = v.cnt /\ w.event = p.event
          /\ w.decommitted = p.decommitted
          /\ w.next = v.next /\ w.head = v.head /\ w.tail = v.tail /\ w.number = v.number
      BY <1>5, <1>w DEF FrmBufPools
    <2>2. w.ok = (v.ok /\ ~IsInFifo(v, b) /\ v.out[h])
      BY <1>5, <1>w DEF FrmBufPools
    <2>3. w.ok = TRUE
      BY <1>5, <1>10, <1>12, <2>2 DEF FrmBufPools
    <2>4. [v.out EXCEPT ![h] = FALSE] \in [Slots -> BOOLEAN]
      BY <1>5 DEF FrmBufPools
    <2>5. w = [buf |-> w.buf, next |-> w.next, cnt |-> w.cnt, out |-> w.out, head |-> w.head,
               tail |-> w.tail, number |-> w.number, decommitted |-> w.decommitted,
               event |-> w.event, ok |-> w.ok]
      BY <1>5, <1>w DEF FrmBufPools
    <2> QED BY <1>2, <1>5, <2>1, <2>3, <2>4, <2>5 DEF FrmBufPools
  <1> HIDE DEF k, b
  <1>14. /\ w.cnt[h] = 0 /\ w.buf[h] # NoBuf
         /\ \A t \in Slots \ {h} : w.buf[t] = p.buf[t] /\ w.cnt[t] = p.cnt[t] /\ w.out[t] = p.out[t]
    BY <1>2, <1>3, <1>4, <1>5, <1>12, <1>13 DEF FrmBufPools, b
  <1>15. OthersWhole(w, k, h)
    <2>1. Linked(w, k)
      BY <1>6, <1>13, LinkedSame
    <2>2. \A i \in 1 .. Len(k) : k[i] # h
      BY <1>3 DEF k
    <2>3. \A s \in Slots \ {h} :
              (\E i \in 1 .. Len(q) : q[i] = s) <=> \E i \in 1 .. Len(k) : k[i] = s
      BY <1>3 DEF k
    <2>4. w \in FrmBufPools /\ w.ok /\ w.buf = p.buf
      BY <1>13
    <2> QED BY <1>2, <1>14, <2>1, <2>2, <2>3, <2>4 DEF OthersWhole, SlotsWhole
  <1>16. /\ Whole(r, k)
         /\ r.buf = [w.buf EXCEPT ![h] = NoBuf] /\ r.cnt = [w.cnt EXCEPT ![h] = -1]
         /\ r.out = [w.out EXCEPT ![h] = FALSE]
         /\ r.decommitted = w.decommitted
    <2>1. h \in Slots
      BY <1>3
    <2> QED BY <2>1, <1>11, <1>14, <1>15, RemoveIDIs
  <1>17. PoolInv(r)
    BY <1>16, WholeIs
  <1>18. /\ r.buf[h] = NoBuf /\ ~r.out[h]
         /\ \A t \in Slots \ {h} : r.buf[t] = p.buf[t] /\ r.cnt[t] = p.cnt[t] /\ r.out[t] = p.out[t]
    <2>1. w.buf \in [Slots -> Bufs \cup {NoBuf}] /\ w.cnt \in [Slots -> Int]
          /\ w.out \in [Slots -> BOOLEAN]
      BY <1>13 DEF FrmBufPools
    <2>2. h \in Slots
      BY <1>3
    <2> QED BY <1>14, <1>16, <2>1, <2>2
  <1>19. r.out = p.out
    <2>1. r.out \in [Slots -> BOOLEAN] /\ p.out \in [Slots -> BOOLEAN]
      BY <1>2, <1>16 DEF FrmBufPools, Whole
    <2> QED BY <2>1, <1>3, <1>18 DEF h
  <1>20. \A t \in Slots : RefsOn(r, t) = RefsOn(p, t)
    BY <1>3, <1>18 DEF RefsOn, h, b
  <1>21. r.buf = [p.buf EXCEPT ![h] = NoBuf] /\ r.decommitted = p.decommitted
    BY <1>13, <1>16
  <1> QED BY <1>3, <1>17, <1>19, <1>20, <1>21 DEF Withdrawn, h, b

\* The event and the flag of the end count for nothing in the invariant.
Signalled(p, r) ==
    /\ r \in FrmBufPools /\ r.ok = p.ok /\ r.buf = p.buf /\ r.out = p.out /\ r.cnt = p.cnt
    /\ r.next = p.next /\ r.head = p.head /\ r.tail = p.tail /\ r.number = p.number

LEMMA SignalsFree ==
  ASSUME NEW p, PoolInv(p), NEW r, Signalled(p, r)
  PROVE  /\ PoolInv(r) /\ FifoSlots(r) = FifoSlots(p)
         /\ \A t \in Slots : RefsOn(r, t) = RefsOn(p, t)
  <1> DEFINE q == FifoSlots(p)
  <1>1. p \in FrmBufPools /\ p.ok /\ Linked(p, q) /\ SlotsWhole(p, q)
    BY DEF PoolInv
  <1> HIDE DEF q
  <1>2. /\ r \in FrmBufPools /\ r.ok /\ r.buf = p.buf /\ r.out = p.out /\ r.cnt = p.cnt
        /\ r.next = p.next /\ r.head = p.head /\ r.tail = p.tail /\ r.number = p.number
    BY <1>1 DEF Signalled
  <1>3. Linked(r, q)
    BY <1>1, <1>2, LinkedSame
  <1>4. SlotsWhole(r, q)
    BY <1>1, <1>2 DEF SlotsWhole
  <1>5. PoolInv(r) /\ FifoSlots(r) = q
    BY <1>2, <1>3, <1>4, WholeIs DEF Whole
  <1> QED BY <1>2, <1>5 DEF RefsOn, q

LEMMA PoolStarts ==
  PoolInv(FrmBufPool_Init) /\ FifoSlots(FrmBufPool_Init) = <<>>
  <1> DEFINE p == FrmBufPool_Init
  <1>1. /\ p.buf = [s \in Slots |-> NoBuf] /\ p.next = [s \in Slots |-> NoSlot]
        /\ p.cnt = [s \in Slots |-> -1] /\ p.out = [s \in Slots |-> FALSE]
        /\ p.head = NoSlot /\ p.tail = NoSlot /\ p.number = 0 /\ p.ok = TRUE
    BY DEF FrmBufPool_Init
  <1>2. p \in FrmBufPools
    BY DEF FrmBufPool_Init, FrmBufPools
  <1> HIDE DEF p
  <1>3. Linked(p, <<>>)
    BY <1>1, EmptySeq DEF Linked
  <1>4. SlotsWhole(p, <<>>)
    BY <1>1, EmptySeq DEF SlotsWhole
  <1>5. Whole(p, <<>>)
    BY <1>1, <1>2, <1>3, <1>4 DEF Whole
  <1> QED BY <1>5, WholeIs DEF p
-----------------------------------------------------------------------------
(* The motion vector buffers *)

LEMMA MvStarts == MvInv(MvBufPool_Init)
  <1> DEFINE p == MvBufPool_Init
  <1>1. NumMv \in Nat /\ MvIDs = 0 .. NumMv - 1
    BY MvBufPoolAssumption DEF MvIDs
  <1>2. /\ p.free = [i \in 1 .. NumMv |-> i - 1] /\ p.cnt = [m \in MvIDs |-> 0]
        /\ p.sem = NumMv /\ p.ok = TRUE
    BY DEF MvBufPool_Init
  <1>3. p = [free |-> p.free, cnt |-> p.cnt, sem |-> p.sem, ok |-> p.ok]
    BY DEF MvBufPool_Init
  <1> HIDE DEF p
  <1>4. p.free \in [1 .. NumMv -> MvIDs]
    BY <1>1, <1>2
  <1>5. p.free \in Seq(MvIDs) /\ Len(p.free) = NumMv
    <2>1. p.free \in Seq(MvIDs)
      BY <1>1, <1>4, SeqDef
    <2>2. DOMAIN p.free = 1 .. NumMv /\ DOMAIN p.free = 1 .. Len(p.free) /\ Len(p.free) \in Nat
      BY <1>4, <2>1, LenProperties
    <2> QED BY <1>1, <2>1, <2>2
  <1>6. p \in MvBufPools
    <2>1. p.cnt \in [MvIDs -> Nat]
      BY <1>2
    <2>2. p.sem \in Nat
      BY <1>1, <1>2
    <2>3. p.ok \in BOOLEAN
      BY <1>2
    <2> QED BY <1>3, <1>5, <2>1, <2>2, <2>3 DEF MvBufPools
  <1>7. \A i, j \in 1 .. NumMv : p.free[i] = p.free[j] => i = j
    BY <1>1, <1>2
  <1>8. ASSUME NEW m \in MvIDs PROVE \E i \in 1 .. NumMv : p.free[i] = m
    <2>1. m + 1 \in 1 .. NumMv /\ p.free[m + 1] = m
      BY <1>1, <1>2
    <2> QED BY <2>1
  <1>9. \A m \in MvIDs : p.cnt[m] = 0
    BY <1>2
  <1>10. p.ok /\ p.sem = Len(p.free)
    BY <1>2, <1>5
  <1>11. MvInv(p)
    BY <1>5, <1>6, <1>7, <1>8, <1>9, <1>10 DEF MvInv
  <1> QED BY <1>11 DEF p

\* A holder more of motion vector buffer m
MvTaken(p, r, m) ==
    MvInv(r) /\ m \in MvIDs /\ \A n \in MvIDs : r.cnt[n] = p.cnt[n] + One(n = m)

MvFreed(p, r, m) ==
    MvInv(r) /\ \A n \in MvIDs : r.cnt[n] = p.cnt[n] - One(n = m)

LEMMA MvIncrementIs ==
  ASSUME NEW p, MvInv(p), NEW m \in MvIDs, p.cnt[m] >= 1, NEW r, r = MvIncrement(p, m)
  PROVE  MvTaken(p, r, m)
  <1>1. /\ p \in MvBufPools /\ p.cnt \in [MvIDs -> Nat]
    BY DEF MvInv, MvBufPools
  <1>c. [p.cnt EXCEPT ![m] = @ + 1] \in [MvIDs -> Nat]
    BY <1>1
  <1>2. /\ r.free = p.free /\ r.cnt = [p.cnt EXCEPT ![m] = @ + 1] /\ r.sem = p.sem
        /\ r.ok = p.ok /\ r \in MvBufPools
    <2>1. r = [free |-> p.free, cnt |-> [p.cnt EXCEPT ![m] = @ + 1], sem |-> p.sem, ok |-> p.ok]
      BY <1>1 DEF MvIncrement, MvBufPools
    <2> QED BY <1>1, <1>c, <2>1 DEF MvBufPools
  <1>3. \A n \in MvIDs : r.cnt[n] = p.cnt[n] + One(n = m)
    BY <1>1, <1>2 DEF One
  <1>4. \A n \in MvIDs : r.cnt[n] = 0 <=> p.cnt[n] = 0
    BY <1>1, <1>2
  <1> QED BY <1>2, <1>3, <1>4 DEF MvTaken, MvInv

LEMMA MvDecrementIs ==
  ASSUME NEW p, MvInv(p), NEW m \in MvIDs, p.cnt[m] >= 1, NEW r, r = MvDecrement(p, m)
  PROVE  MvFreed(p, r, m)
  <1>1. /\ p \in MvBufPools /\ p.cnt \in [MvIDs -> Nat] /\ p.free \in Seq(MvIDs)
    BY DEF MvInv, MvBufPools
  <1>2. CASE p.cnt[m] # 1
    <2>c. [p.cnt EXCEPT ![m] = @ - 1] \in [MvIDs -> Nat]
      BY <1>1
    <2>1. /\ r.free = p.free /\ r.cnt = [p.cnt EXCEPT ![m] = @ - 1] /\ r.sem = p.sem
          /\ r.ok = p.ok /\ r \in MvBufPools
      <3>1. p.cnt[m] # 0
        OBVIOUS
      <3>2. r = [p EXCEPT !.cnt[m] = @ - 1]
        BY <1>2, <3>1 DEF MvDecrement
      <3>3. r = [free |-> p.free, cnt |-> [p.cnt EXCEPT ![m] = @ - 1], sem |-> p.sem, ok |-> p.ok]
        BY <1>1, <3>2 DEF MvBufPools
      <3> QED BY <1>1, <2>c, <3>3 DEF MvBufPools
    <2>2. \A n \in MvIDs : r.cnt[n] = p.cnt[n] - One(n = m)
      BY <1>1, <2>1 DEF One
    <2>3. \A n \in MvIDs : r.cnt[n] = 0 <=> p.cnt[n] = 0
      BY <1>1, <1>2, <2>1
    <2> QED BY <2>1, <2>2, <2>3 DEF MvFreed, MvInv
  <1>3. CASE p.cnt[m] = 1
    <2> DEFINE f == Append(p.free, m)
               n == Len(p.free)
    <2>1. /\ n \in Nat /\ f \in Seq(MvIDs) /\ Len(f) = n + 1
          /\ \A i \in 1 .. n : f[i] = p.free[i]
          /\ f[n + 1] = m
      BY <1>1, SeqEnd
    <2>2. /\ r.free = f /\ r.cnt = [p.cnt EXCEPT ![m] = 0] /\ r.sem = p.sem + 1
          /\ r.ok = p.ok /\ r \in MvBufPools
      <3>1. r = [p EXCEPT !.cnt[m] = 0, !.free = Append(@, m), !.sem = @ + 1]
        BY <1>3 DEF MvDecrement
      <3>2. r = [free |-> f, cnt |-> [p.cnt EXCEPT ![m] = 0], sem |-> p.sem + 1, ok |-> p.ok]
        BY <1>1, <3>1 DEF MvBufPools
      <3>3. [p.cnt EXCEPT ![m] = 0] \in [MvIDs -> Nat] /\ p.sem + 1 \in Nat
        BY <1>1 DEF MvBufPools
      <3> HIDE DEF f
      <3> QED BY <1>1, <2>1, <3>2, <3>3 DEF MvBufPools
    <2> HIDE DEF f
    <2>3. \A k \in MvIDs : r.cnt[k] = p.cnt[k] - One(k = m)
      BY <1>1, <1>3, <2>2 DEF One
    <2>4. \A i \in 1 .. n : p.free[i] # m
      BY <1>3 DEF MvInv
    <2>5. \A i, j \in 1 .. n + 1 : f[i] = f[j] => i = j
      BY <2>1, <2>4 DEF MvInv
    <2>6. ASSUME NEW k \in MvIDs PROVE r.cnt[k] = 0 <=> \E i \in 1 .. n + 1 : f[i] = k
      <3>1. CASE k = m
        <4>1. n + 1 \in 1 .. n + 1 /\ r.cnt[k] = 0
          BY <1>1, <2>1, <2>2, <3>1
        <4> QED BY <2>1, <3>1, <4>1
      <3>2. CASE k # m
        <4>1. r.cnt[k] = p.cnt[k]
          BY <1>1, <2>2, <3>2
        <4>2. p.cnt[k] = 0 <=> \E i \in 1 .. n : p.free[i] = k
          BY DEF MvInv
        <4>3. (\E i \in 1 .. n : p.free[i] = k) <=> \E i \in 1 .. n + 1 : f[i] = k
          BY <2>1, <3>2
        <4> QED BY <4>1, <4>2, <4>3
      <3> QED BY <3>1, <3>2
    <2>7. r.sem = n + 1 /\ r.ok
      BY <2>1, <2>2 DEF MvInv
    <2> QED BY <2>1, <2>2, <2>3, <2>5, <2>6, <2>7 DEF MvFreed, MvInv
  <1> QED BY <1>2, <1>3

LEMMA MvGetIs ==
  ASSUME NEW p, MvInv(p), p.sem > 0, NEW r, r = GetFreeBufID(p),
         NEW m, m = p.free[Len(p.free)]
  PROVE  MvTaken(p, r, m) /\ p.cnt[m] = 0 /\ r.sem = p.sem - 1
  <1> DEFINE n == Len(p.free)
             f == Front(p.free)
  <1>1. /\ p \in MvBufPools /\ p.cnt \in [MvIDs -> Nat] /\ p.free \in Seq(MvIDs) /\ p.ok
        /\ p.sem = n
    BY DEF MvInv, MvBufPools
  <1>2. n \in Nat /\ n > 0 /\ n \in 1 .. n
    BY <1>1, LenProperties
  <1>3. m \in MvIDs /\ m = p.free[n]
    BY <1>1, <1>2, ElementOfSeq
  <1>4. \A i \in 1 .. n - 1 : p.free[i] \in MvIDs
    BY <1>1, <1>2, ElementOfSeq
  <1>5. f \in Seq(MvIDs) /\ Len(f) = n - 1 /\ \A i \in 1 .. n - 1 : f[i] = p.free[i]
    BY <1>2, <1>4, SubSeqProperties DEF Front
  <1>6. p.cnt[m] = 0
    BY <1>2, <1>3 DEF MvInv
  <1>7. Last(p.free) = m
    BY <1>3 DEF Last
  <1> HIDE DEF f
  <1>8. /\ r.free = f /\ r.cnt = [p.cnt EXCEPT ![m] = 1] /\ r.sem = p.sem - 1 /\ r.ok
        /\ r \in MvBufPools
    <2>1. /\ r.free = f /\ r.cnt = [p.cnt EXCEPT ![m] = 1] /\ r.sem = p.sem - 1
      BY <1>1, <1>7 DEF GetFreeBufID, MvBufPools, f
    <2>2. r.ok = (p.ok /\ p.cnt[m] = 0)
      BY <1>1, <1>7 DEF GetFreeBufID, MvBufPools
    <2>3. r.ok = TRUE
      BY <1>1, <1>6, <2>2 DEF MvBufPools
    <2>4. r = [free |-> r.free, cnt |-> r.cnt, sem |-> r.sem, ok |-> r.ok]
      BY <1>1, <1>7 DEF GetFreeBufID, MvBufPools
    <2>5. [p.cnt EXCEPT ![m] = 1] \in [MvIDs -> Nat] /\ p.sem - 1 \in Nat
      BY <1>1, <1>2
    <2> QED BY <1>5, <2>1, <2>3, <2>4, <2>5 DEF MvBufPools
  <1>9. \A k \in MvIDs : r.cnt[k] = p.cnt[k] + One(k = m)
    BY <1>1, <1>6, <1>8 DEF One
  <1>10. \A i, j \in 1 .. n - 1 : f[i] = f[j] => i = j
    BY <1>2, <1>5 DEF MvInv
  <1>11. ASSUME NEW k \in MvIDs PROVE r.cnt[k] = 0 <=> \E i \in 1 .. n - 1 : f[i] = k
    <2>1. CASE k = m
      <3>1. \A i \in 1 .. n - 1 : p.free[i] # m
        BY <1>2, <1>3 DEF MvInv
      <3>2. r.cnt[k] = 1
        BY <1>1, <1>3, <1>8, <2>1
      <3> QED BY <1>5, <2>1, <3>1, <3>2
    <2>2. CASE k # m
      <3>1. r.cnt[k] = p.cnt[k]
        BY <1>1, <1>8, <2>2
      <3>2. p.cnt[k] = 0 <=> \E i \in 1 .. n : p.free[i] = k
        BY DEF MvInv
      <3>3. (\E i \in 1 .. n : p.free[i] = k) <=> \E i \in 1 .. n - 1 : f[i] = k
        BY <1>2, <1>3, <1>5, <2>2
      <3> QED BY <3>1, <3>2, <3>3
    <2> QED BY <2>1, <2>2
  <1>12. r.sem = n - 1
    BY <1>1, <1>8
  <1> QED BY <1>3, <1>5, <1>6, <1>8, <1>9, <1>10, <1>11, <1>12 DEF MvTaken, MvInv
-----------------------------------------------------------------------------
(* The functions that run through a list *)

\* What a function does at each element of its list
StepOf(kind, y, n) ==
    CASE kind = "output" -> OutputNode(y, n)
      [] kind = "remove" -> OutputAndRemove(y, n)
      [] kind = "useless" -> RemoveIfUseless(y, n)
      [] kind = "bump" -> Bump(y, n)
      [] kind = "release" -> ReleaseOne(y)
      [] kind = "lock" -> LockRef(y, n)
      [] OTHER -> UnlockRef(y, n)

\* f is the run of the function from x through seq
Goes(f, kind, x, seq) ==
    /\ f[0] = x
    /\ \A i \in 1 .. Len(seq) : f[i] = StepOf(kind, f[i - 1], seq[i])

\* The recursion of Through
IsRun(f, kind, x, seq) ==
    f = [i \in 0 .. Len(seq) |-> IF i = 0 THEN x ELSE StepOf(kind, f[i - 1], seq[i])]

\* The recursion has a solution.
LEMMA RunExists ==
  ASSUME NEW kind, NEW x, NEW seq, Len(seq) \in Nat
  PROVE  \E f : IsRun(f, kind, x, seq)
  <1> DEFINE n == Len(seq)
             Is(g, k) == g = [i \in 0 .. k |-> IF i = 0 THEN x ELSE StepOf(kind, g[i - 1], seq[i])]
             S == {k \in 0 .. n : \E g : Is(g, k)}
  <1>1. 0 \in S
    <2>1. \E g : g = [i \in 0 .. 0 |-> x]
      OBVIOUS
    <2>2. PICK g : g = [i \in 0 .. 0 |-> x]
      BY <2>1
    <2>3. g = [i \in 0 .. 0 |-> IF i = 0 THEN x ELSE StepOf(kind, g[i - 1], seq[i])]
      BY <2>2
    <2>4. Is(g, 0)
      BY <2>3
    <2> HIDE DEF Is
    <2> QED BY <2>4
  <1>2. ASSUME NEW k \in 0 .. n, k \in S, k # n PROVE k + 1 \in S
    <2>1. PICK g : Is(g, k)
      BY <1>2
    <2> DEFINE h == [i \in 0 .. k + 1 |-> IF i = k + 1 THEN StepOf(kind, g[k], seq[k + 1]) ELSE g[i]]
    <2>2. ASSUME NEW i \in 0 .. k + 1
          PROVE  h[i] = IF i = 0 THEN x ELSE StepOf(kind, h[i - 1], seq[i])
      <3>1. CASE i = 0
        <4>1. h[i] = g[0] /\ 0 \in 0 .. k
          BY <3>1
        <4>2. g[0] = x
          BY <2>1, <4>1
        <4> QED BY <3>1, <4>1, <4>2
      <3>2. CASE i # 0 /\ i # k + 1
        <4>1. h[i] = g[i] /\ h[i - 1] = g[i - 1] /\ i \in 0 .. k
          BY <3>2
        <4>2. g[i] = StepOf(kind, g[i - 1], seq[i])
          BY <2>1, <3>2, <4>1
        <4> QED BY <4>1, <4>2, <3>2
      <3>3. CASE i = k + 1
        <4>1. h[i - 1] = g[k] /\ i # 0 /\ h[i] = StepOf(kind, g[k], seq[k + 1])
          BY <3>3
        <4> QED BY <3>3, <4>1
      <3> QED BY <3>1, <3>2, <3>3
    <2>3. Is(h, k + 1)
      BY <2>2
    <2> HIDE DEF h, Is
    <2> QED BY <1>2, <2>3
  <1>3. n \in S
    <2> HIDE DEF S
    <2>1. \A i \in 0 .. n : i \in S /\ i # n => i + 1 \in S
      BY <1>2
    <2>2. n \in Nat
      OBVIOUS
    <2> HIDE DEF n
    <2>3. \A i \in 0 .. n : i \in S
      BY <1>1, <2>1, <2>2, UpTo
    <2> QED BY <2>2, <2>3
  <1> QED BY <1>3 DEF IsRun

LEMMA RunOf ==
  ASSUME NEW kind, NEW x, NEW seq, Len(seq) \in Nat, NEW f, IsRun(f, kind, x, seq)
  PROVE  Goes(f, kind, x, seq)
  BY DEF Goes, IsRun

LEMMA DisplayRuns ==
  ASSUME NEW x, NEW n, NEW seq, Len(seq) \in Nat,
         seq = SubSeq(PocOrder(x), 1, SelectInSeq(PocOrder(x), LAMBDA m : m = n))
  PROVE  \E f : Goes(f, "output", x, seq) /\ Display(x, n) = f[Len(seq)]
  <1> DEFINE Is(g) == g = [i \in 0 .. Len(seq) |-> IF i = 0 THEN x ELSE OutputNode(g[i - 1], seq[i])]
             f == CHOOSE g : Is(g)
  <1>1. \A y, m : StepOf("output", y, m) = OutputNode(y, m)
    BY DEF StepOf
  <1>2. \A g : Is(g) <=> IsRun(g, "output", x, seq)
    <2> SUFFICES ASSUME NEW g PROVE Is(g) <=> IsRun(g, "output", x, seq)
      OBVIOUS
    <2> DEFINE a == [i \in 0 .. Len(seq) |-> IF i = 0 THEN x ELSE OutputNode(g[i - 1], seq[i])]
               b == [i \in 0 .. Len(seq) |-> IF i = 0 THEN x
                                             ELSE StepOf("output", g[i - 1], seq[i])]
    <2>1. ASSUME NEW i \in 0 .. Len(seq) PROVE a[i] = b[i]
      <3>1. StepOf("output", g[i - 1], seq[i]) = OutputNode(g[i - 1], seq[i])
        BY <1>1
      <3> QED BY <3>1
    <2>2. a = b
      BY <2>1
    <2>3. Is(g) <=> g = a
      OBVIOUS
    <2>4. IsRun(g, "output", x, seq) <=> g = b
      BY DEF IsRun
    <2> HIDE DEF a, b, Is
    <2> QED BY <2>2, <2>3, <2>4
  <1>3. \E g : IsRun(g, "output", x, seq)
    BY RunExists
  <1>4. Display(x, n) = f[Len(seq)]
    BY DEF Display, Through
  <1> HIDE DEF Is
  <1>5. Is(f)
    BY <1>2, <1>3
  <1> HIDE DEF f
  <1> QED BY <1>2, <1>4, <1>5, RunOf

LEMMA FlushRuns ==
  ASSUME NEW x, NEW seq, Len(seq) \in Nat, seq = PocOrder(x)
  PROVE  \E f : Goes(f, "remove", x, seq) /\ Flush(x) = f[Len(seq)]
  <1> DEFINE Is(g) == g = [i \in 0 .. Len(seq) |-> IF i = 0 THEN x ELSE OutputAndRemove(g[i - 1], seq[i])]
             f == CHOOSE g : Is(g)
  <1>1. \A y, m : StepOf("remove", y, m) = OutputAndRemove(y, m)
    BY DEF StepOf
  <1>2. \A g : Is(g) <=> IsRun(g, "remove", x, seq)
    <2> SUFFICES ASSUME NEW g PROVE Is(g) <=> IsRun(g, "remove", x, seq)
      OBVIOUS
    <2> DEFINE a == [i \in 0 .. Len(seq) |-> IF i = 0 THEN x ELSE OutputAndRemove(g[i - 1], seq[i])]
               b == [i \in 0 .. Len(seq) |-> IF i = 0 THEN x
                                             ELSE StepOf("remove", g[i - 1], seq[i])]
    <2>1. ASSUME NEW i \in 0 .. Len(seq) PROVE a[i] = b[i]
      <3>1. StepOf("remove", g[i - 1], seq[i]) = OutputAndRemove(g[i - 1], seq[i])
        BY <1>1
      <3> QED BY <3>1
    <2>2. a = b
      BY <2>1
    <2>3. Is(g) <=> g = a
      OBVIOUS
    <2>4. IsRun(g, "remove", x, seq) <=> g = b
      BY DEF IsRun
    <2> HIDE DEF a, b, Is
    <2> QED BY <2>2, <2>3, <2>4
  <1>3. \E g : IsRun(g, "remove", x, seq)
    BY RunExists
  <1>4. Flush(x) = f[Len(seq)]
    BY DEF Flush, Through
  <1> HIDE DEF Is
  <1>5. Is(f)
    BY <1>2, <1>3
  <1> HIDE DEF f
  <1> QED BY <1>2, <1>4, <1>5, RunOf

LEMMA UselessRuns ==
  ASSUME NEW x, NEW seq, Len(seq) \in Nat, seq = PocOrder(x)
  PROVE  \E f : Goes(f, "useless", x, seq) /\ RemoveUseless(x) = f[Len(seq)]
  <1> DEFINE Is(g) == g = [i \in 0 .. Len(seq) |-> IF i = 0 THEN x ELSE RemoveIfUseless(g[i - 1], seq[i])]
             f == CHOOSE g : Is(g)
  <1>1. \A y, m : StepOf("useless", y, m) = RemoveIfUseless(y, m)
    BY DEF StepOf
  <1>2. \A g : Is(g) <=> IsRun(g, "useless", x, seq)
    <2> SUFFICES ASSUME NEW g PROVE Is(g) <=> IsRun(g, "useless", x, seq)
      OBVIOUS
    <2> DEFINE a == [i \in 0 .. Len(seq) |-> IF i = 0 THEN x ELSE RemoveIfUseless(g[i - 1], seq[i])]
               b == [i \in 0 .. Len(seq) |-> IF i = 0 THEN x
                                             ELSE StepOf("useless", g[i - 1], seq[i])]
    <2>1. ASSUME NEW i \in 0 .. Len(seq) PROVE a[i] = b[i]
      <3>1. StepOf("useless", g[i - 1], seq[i]) = RemoveIfUseless(g[i - 1], seq[i])
        BY <1>1
      <3> QED BY <3>1
    <2>2. a = b
      BY <2>1
    <2>3. Is(g) <=> g = a
      OBVIOUS
    <2>4. IsRun(g, "useless", x, seq) <=> g = b
      BY DEF IsRun
    <2> HIDE DEF a, b, Is
    <2> QED BY <2>2, <2>3, <2>4
  <1>3. \E g : IsRun(g, "useless", x, seq)
    BY RunExists
  <1>4. RemoveUseless(x) = f[Len(seq)]
    BY DEF RemoveUseless, Through
  <1> HIDE DEF Is
  <1>5. Is(f)
    BY <1>2, <1>3
  <1> HIDE DEF f
  <1> QED BY <1>2, <1>4, <1>5, RunOf

LEMMA BumpRuns ==
  ASSUME NEW x, NEW seq, Len(seq) \in Nat, seq = PocOrder(x)
  PROVE  \E f : Goes(f, "bump", x, seq) /\ BumpExcess(x) = f[Len(seq)]
  <1> DEFINE Is(g) == g = [i \in 0 .. Len(seq) |-> IF i = 0 THEN x ELSE Bump(g[i - 1], seq[i])]
             f == CHOOSE g : Is(g)
  <1>1. \A y, m : StepOf("bump", y, m) = Bump(y, m)
    BY DEF StepOf
  <1>2. \A g : Is(g) <=> IsRun(g, "bump", x, seq)
    <2> SUFFICES ASSUME NEW g PROVE Is(g) <=> IsRun(g, "bump", x, seq)
      OBVIOUS
    <2> DEFINE a == [i \in 0 .. Len(seq) |-> IF i = 0 THEN x ELSE Bump(g[i - 1], seq[i])]
               b == [i \in 0 .. Len(seq) |-> IF i = 0 THEN x
                                             ELSE StepOf("bump", g[i - 1], seq[i])]
    <2>1. ASSUME NEW i \in 0 .. Len(seq) PROVE a[i] = b[i]
      <3>1. StepOf("bump", g[i - 1], seq[i]) = Bump(g[i - 1], seq[i])
        BY <1>1
      <3> QED BY <3>1
    <2>2. a = b
      BY <2>1
    <2>3. Is(g) <=> g = a
      OBVIOUS
    <2>4. IsRun(g, "bump", x, seq) <=> g = b
      BY DEF IsRun
    <2> HIDE DEF a, b, Is
    <2> QED BY <2>2, <2>3, <2>4
  <1>3. \E g : IsRun(g, "bump", x, seq)
    BY RunExists
  <1>4. BumpExcess(x) = f[Len(seq)]
    BY DEF BumpExcess, Through
  <1> HIDE DEF Is
  <1>5. Is(f)
    BY <1>2, <1>3
  <1> HIDE DEF f
  <1> QED BY <1>2, <1>4, <1>5, RunOf

LEMMA ReleaseRuns ==
  ASSUME NEW x, NEW seq, Len(seq) \in Nat, seq = x.dlt
  PROVE  \E f : Goes(f, "release", x, seq) /\ ReleaseAll(x) = f[Len(seq)]
  <1> DEFINE Is(g) == g = [i \in 0 .. Len(seq) |-> IF i = 0 THEN x ELSE ReleaseOne(g[i - 1])]
             f == CHOOSE g : Is(g)
  <1>1. \A y, m : StepOf("release", y, m) = ReleaseOne(y)
    BY DEF StepOf
  <1>2. \A g : Is(g) <=> IsRun(g, "release", x, seq)
    <2> SUFFICES ASSUME NEW g PROVE Is(g) <=> IsRun(g, "release", x, seq)
      OBVIOUS
    <2> DEFINE a == [i \in 0 .. Len(seq) |-> IF i = 0 THEN x ELSE ReleaseOne(g[i - 1])]
               b == [i \in 0 .. Len(seq) |-> IF i = 0 THEN x
                                             ELSE StepOf("release", g[i - 1], seq[i])]
    <2>1. ASSUME NEW i \in 0 .. Len(seq) PROVE a[i] = b[i]
      <3>1. StepOf("release", g[i - 1], seq[i]) = ReleaseOne(g[i - 1])
        BY <1>1
      <3> QED BY <3>1
    <2>2. a = b
      BY <2>1
    <2>3. Is(g) <=> g = a
      OBVIOUS
    <2>4. IsRun(g, "release", x, seq) <=> g = b
      BY DEF IsRun
    <2> HIDE DEF a, b, Is
    <2> QED BY <2>2, <2>3, <2>4
  <1>3. \E g : IsRun(g, "release", x, seq)
    BY RunExists
  <1>4. ReleaseAll(x) = f[Len(seq)]
    BY DEF ReleaseAll, Through
  <1> HIDE DEF Is
  <1>5. Is(f)
    BY <1>2, <1>3
  <1> HIDE DEF f
  <1> QED BY <1>2, <1>4, <1>5, RunOf

LEMMA LockRuns ==
  ASSUME NEW x, NEW seq, Len(seq) \in Nat
  PROVE  \E f : Goes(f, "lock", x, seq) /\ LockRefID(x, seq) = f[Len(seq)]
  <1> DEFINE Is(g) == g = [i \in 0 .. Len(seq) |-> IF i = 0 THEN x ELSE LockRef(g[i - 1], seq[i])]
             f == CHOOSE g : Is(g)
  <1>1. \A y, m : StepOf("lock", y, m) = LockRef(y, m)
    BY DEF StepOf
  <1>2. \A g : Is(g) <=> IsRun(g, "lock", x, seq)
    <2> SUFFICES ASSUME NEW g PROVE Is(g) <=> IsRun(g, "lock", x, seq)
      OBVIOUS
    <2> DEFINE a == [i \in 0 .. Len(seq) |-> IF i = 0 THEN x ELSE LockRef(g[i - 1], seq[i])]
               b == [i \in 0 .. Len(seq) |-> IF i = 0 THEN x
                                             ELSE StepOf("lock", g[i - 1], seq[i])]
    <2>1. ASSUME NEW i \in 0 .. Len(seq) PROVE a[i] = b[i]
      <3>1. StepOf("lock", g[i - 1], seq[i]) = LockRef(g[i - 1], seq[i])
        BY <1>1
      <3> QED BY <3>1
    <2>2. a = b
      BY <2>1
    <2>3. Is(g) <=> g = a
      OBVIOUS
    <2>4. IsRun(g, "lock", x, seq) <=> g = b
      BY DEF IsRun
    <2> HIDE DEF a, b, Is
    <2> QED BY <2>2, <2>3, <2>4
  <1>3. \E g : IsRun(g, "lock", x, seq)
    BY RunExists
  <1>4. LockRefID(x, seq) = f[Len(seq)]
    BY DEF LockRefID, Through
  <1> HIDE DEF Is
  <1>5. Is(f)
    BY <1>2, <1>3
  <1> HIDE DEF f
  <1> QED BY <1>2, <1>4, <1>5, RunOf

LEMMA UnlockRuns ==
  ASSUME NEW x, NEW seq, Len(seq) \in Nat
  PROVE  \E f : Goes(f, "unlock", x, seq) /\ UnlockRefID(x, seq) = f[Len(seq)]
  <1> DEFINE Is(g) == g = [i \in 0 .. Len(seq) |-> IF i = 0 THEN x ELSE UnlockRef(g[i - 1], seq[i])]
             f == CHOOSE g : Is(g)
  <1>1. \A y, m : StepOf("unlock", y, m) = UnlockRef(y, m)
    BY DEF StepOf
  <1>2. \A g : Is(g) <=> IsRun(g, "unlock", x, seq)
    <2> SUFFICES ASSUME NEW g PROVE Is(g) <=> IsRun(g, "unlock", x, seq)
      OBVIOUS
    <2> DEFINE a == [i \in 0 .. Len(seq) |-> IF i = 0 THEN x ELSE UnlockRef(g[i - 1], seq[i])]
               b == [i \in 0 .. Len(seq) |-> IF i = 0 THEN x
                                             ELSE StepOf("unlock", g[i - 1], seq[i])]
    <2>1. ASSUME NEW i \in 0 .. Len(seq) PROVE a[i] = b[i]
      <3>1. StepOf("unlock", g[i - 1], seq[i]) = UnlockRef(g[i - 1], seq[i])
        BY <1>1
      <3> QED BY <3>1
    <2>2. a = b
      BY <2>1
    <2>3. Is(g) <=> g = a
      OBVIOUS
    <2>4. IsRun(g, "unlock", x, seq) <=> g = b
      BY DEF IsRun
    <2> HIDE DEF a, b, Is
    <2> QED BY <2>2, <2>3, <2>4
  <1>3. \E g : IsRun(g, "unlock", x, seq)
    BY RunExists
  <1>4. UnlockRefID(x, seq) = f[Len(seq)]
    BY DEF UnlockRefID, Through
  <1> HIDE DEF Is
  <1>5. Is(f)
    BY <1>2, <1>3
  <1> HIDE DEF f
  <1> QED BY <1>2, <1>4, <1>5, RunOf
-----------------------------------------------------------------------------
(* What the picture manager holds of a buffer *)

NodesOn(s) == {n \in DpbNodes : n.frm = s}
PairsOn(s) == {r \in Slots \X MvIDs : r[1] = s}
NodesWith(m) == {n \in DpbNodes : n.mv = m}
PairsWith(m) == {r \in Slots \X MvIDs : r[2] = m}

\* The lists of x, whatever the rest of it
Lists(x) ==
    /\ x.nodes \in Seq(DpbNodes) /\ x.dlt \in Seq(Slots \X MvIDs) /\ x.disp \in Seq(Slots)

LEMMA FrmHeldIs ==
  ASSUME NEW x, Lists(x), NEW s
  PROVE  /\ FrmHeld(x, s) = Count(x.nodes, NodesOn(s)) + Count(x.dlt, PairsOn(s))
                            + Count(x.disp, {s})
         /\ Count(x.nodes, NodesOn(s)) \in Nat /\ Count(x.dlt, PairsOn(s)) \in Nat
         /\ Count(x.disp, {s}) \in Nat
  <1>0. x.nodes \in Seq(DpbNodes) /\ x.dlt \in Seq(Slots \X MvIDs) /\ x.disp \in Seq(Slots)
    BY DEF Lists
  <1>1. DOMAIN x.nodes = 1 .. Len(x.nodes) /\ DOMAIN x.dlt = 1 .. Len(x.dlt)
        /\ DOMAIN x.disp = 1 .. Len(x.disp)
    BY <1>0
  <1>2. {i \in DOMAIN x.nodes : x.nodes[i].frm = s}
          = {i \in 1 .. Len(x.nodes) : x.nodes[i] \in NodesOn(s)}
    BY <1>0, <1>1 DEF NodesOn
  <1>3. {i \in DOMAIN x.dlt : x.dlt[i][1] = s}
          = {i \in 1 .. Len(x.dlt) : x.dlt[i] \in PairsOn(s)}
    BY <1>0, <1>1 DEF PairsOn
  <1>4. {i \in DOMAIN x.disp : x.disp[i] = s} = {i \in 1 .. Len(x.disp) : x.disp[i] \in {s}}
    BY <1>0, <1>1
  <1>5. FrmHeld(x, s) = Cardinality({i \in DOMAIN x.nodes : x.nodes[i].frm = s})
                        + Cardinality({i \in DOMAIN x.dlt : x.dlt[i][1] = s})
                        + Cardinality({i \in DOMAIN x.disp : x.disp[i] = s})
    BY DEF FrmHeld, Occurrences
  <1>6. Count(x.nodes, NodesOn(s)) \in Nat /\ Count(x.dlt, PairsOn(s)) \in Nat
        /\ Count(x.disp, {s}) \in Nat
    <2>1. Len(x.nodes) \in Nat /\ Len(x.dlt) \in Nat /\ Len(x.disp) \in Nat
      BY <1>0
    <2>2. Count(x.nodes, NodesOn(s)) \in 0 .. Len(x.nodes)
      BY <1>0, CountIs
    <2>3. Count(x.dlt, PairsOn(s)) \in 0 .. Len(x.dlt)
      BY <1>0, CountIs
    <2>4. Count(x.disp, {s}) \in 0 .. Len(x.disp)
      BY <1>0, CountIs
    <2> QED BY <2>1, <2>2, <2>3, <2>4
  <1> QED BY <1>2, <1>3, <1>4, <1>5, <1>6 DEF Count

LEMMA MvHeldIs ==
  ASSUME NEW x, Lists(x), NEW m
  PROVE  /\ MvHeld(x, m) = Count(x.nodes, NodesWith(m)) + Count(x.dlt, PairsWith(m))
         /\ Count(x.nodes, NodesWith(m)) \in Nat /\ Count(x.dlt, PairsWith(m)) \in Nat
  <1>0. x.nodes \in Seq(DpbNodes) /\ x.dlt \in Seq(Slots \X MvIDs)
    BY DEF Lists
  <1>1. DOMAIN x.nodes = 1 .. Len(x.nodes) /\ DOMAIN x.dlt = 1 .. Len(x.dlt)
    BY <1>0
  <1>2. {i \in DOMAIN x.nodes : x.nodes[i].mv = m}
          = {i \in 1 .. Len(x.nodes) : x.nodes[i] \in NodesWith(m)}
    BY <1>0, <1>1 DEF NodesWith
  <1>3. {i \in DOMAIN x.dlt : x.dlt[i][2] = m}
          = {i \in 1 .. Len(x.dlt) : x.dlt[i] \in PairsWith(m)}
    BY <1>0, <1>1 DEF PairsWith
  <1>5. MvHeld(x, m) = Cardinality({i \in DOMAIN x.nodes : x.nodes[i].mv = m})
                        + Cardinality({i \in DOMAIN x.dlt : x.dlt[i][2] = m})
    BY DEF MvHeld, Occurrences
  <1>6. Count(x.nodes, NodesWith(m)) \in Nat /\ Count(x.dlt, PairsWith(m)) \in Nat
    <2>1. Len(x.nodes) \in Nat /\ Len(x.dlt) \in Nat
      BY <1>0
    <2>2. Count(x.nodes, NodesWith(m)) \in 0 .. Len(x.nodes)
      BY <1>0, CountIs
    <2>3. Count(x.dlt, PairsWith(m)) \in 0 .. Len(x.dlt)
      BY <1>0, CountIs
    <2> QED BY <2>1, <2>2, <2>3
  <1> QED BY <1>2, <1>3, <1>5, <1>6 DEF Count

\* Nothing is held of slot s: it is in no list.
NoneHeld(x, s) ==
    /\ \A i \in 1 .. Len(x.nodes) : x.nodes[i].frm # s
    /\ \A i \in 1 .. Len(x.dlt) : x.dlt[i][1] # s
    /\ \A i \in 1 .. Len(x.disp) : x.disp[i] # s

NoMvHeld(x, m) ==
    /\ \A i \in 1 .. Len(x.nodes) : x.nodes[i].mv # m
    /\ \A i \in 1 .. Len(x.dlt) : x.dlt[i][2] # m

LEMMA HeldNone ==
  ASSUME NEW x, Lists(x)
  PROVE  /\ \A s : FrmHeld(x, s) \in Nat /\ (FrmHeld(x, s) = 0 <=> NoneHeld(x, s))
         /\ \A m : MvHeld(x, m) \in Nat /\ (MvHeld(x, m) = 0 <=> NoMvHeld(x, m))
  <1>0. x.nodes \in Seq(DpbNodes) /\ x.dlt \in Seq(Slots \X MvIDs) /\ x.disp \in Seq(Slots)
    BY DEF Lists
  <1>a. /\ \A i \in 1 .. Len(x.nodes) : x.nodes[i] \in DpbNodes
        /\ \A i \in 1 .. Len(x.dlt) : x.dlt[i] \in Slots \X MvIDs
    BY <1>0
  <1>1. ASSUME NEW s PROVE FrmHeld(x, s) \in Nat /\ (FrmHeld(x, s) = 0 <=> NoneHeld(x, s))
    <2>1. Count(x.nodes, NodesOn(s)) = 0 <=> \A i \in 1 .. Len(x.nodes) : x.nodes[i].frm # s
      <3>1. Count(x.nodes, NodesOn(s)) = 0
              <=> \A i \in 1 .. Len(x.nodes) : x.nodes[i] \notin NodesOn(s)
        BY <1>0, CountIs
      <3> QED BY <3>1, <1>a DEF NodesOn
    <2>2. Count(x.dlt, PairsOn(s)) = 0 <=> \A i \in 1 .. Len(x.dlt) : x.dlt[i][1] # s
      <3>1. Count(x.dlt, PairsOn(s)) = 0
              <=> \A i \in 1 .. Len(x.dlt) : x.dlt[i] \notin PairsOn(s)
        BY <1>0, CountIs
      <3> QED BY <3>1, <1>a DEF PairsOn
    <2>3. Count(x.disp, {s}) = 0 <=> \A i \in 1 .. Len(x.disp) : x.disp[i] # s
      <3>1. Count(x.disp, {s}) = 0 <=> \A i \in 1 .. Len(x.disp) : x.disp[i] \notin {s}
        BY <1>0, CountIs
      <3> QED BY <3>1
    <2>4. /\ FrmHeld(x, s) = Count(x.nodes, NodesOn(s)) + Count(x.dlt, PairsOn(s))
                            + Count(x.disp, {s})
          /\ Count(x.nodes, NodesOn(s)) \in Nat /\ Count(x.dlt, PairsOn(s)) \in Nat
          /\ Count(x.disp, {s}) \in Nat
      BY FrmHeldIs
    <2>5. /\ FrmHeld(x, s) \in Nat
          /\ FrmHeld(x, s) = 0 <=> /\ Count(x.nodes, NodesOn(s)) = 0
                                   /\ Count(x.dlt, PairsOn(s)) = 0 /\ Count(x.disp, {s}) = 0
      BY <2>4
    <2> QED BY <2>1, <2>2, <2>3, <2>5 DEF NoneHeld
  <1>2. ASSUME NEW m PROVE MvHeld(x, m) \in Nat /\ (MvHeld(x, m) = 0 <=> NoMvHeld(x, m))
    <2>1. Count(x.nodes, NodesWith(m)) = 0 <=> \A i \in 1 .. Len(x.nodes) : x.nodes[i].mv # m
      <3>1. Count(x.nodes, NodesWith(m)) = 0
              <=> \A i \in 1 .. Len(x.nodes) : x.nodes[i] \notin NodesWith(m)
        BY <1>0, CountIs
      <3> QED BY <3>1, <1>a DEF NodesWith
    <2>2. Count(x.dlt, PairsWith(m)) = 0 <=> \A i \in 1 .. Len(x.dlt) : x.dlt[i][2] # m
      <3>1. Count(x.dlt, PairsWith(m)) = 0
              <=> \A i \in 1 .. Len(x.dlt) : x.dlt[i] \notin PairsWith(m)
        BY <1>0, CountIs
      <3> QED BY <3>1, <1>a DEF PairsWith
    <2>4. /\ MvHeld(x, m) = Count(x.nodes, NodesWith(m)) + Count(x.dlt, PairsWith(m))
          /\ Count(x.nodes, NodesWith(m)) \in Nat /\ Count(x.dlt, PairsWith(m)) \in Nat
      BY MvHeldIs
    <2>5. /\ MvHeld(x, m) \in Nat
          /\ MvHeld(x, m) = 0 <=> /\ Count(x.nodes, NodesWith(m)) = 0
                                  /\ Count(x.dlt, PairsWith(m)) = 0
      BY <2>4
    <2> QED BY <2>1, <2>2, <2>5 DEF NoMvHeld
  <1> QED BY <1>1, <1>2
-----------------------------------------------------------------------------
(* Holders that come and go outside the lists *)

\* The pictures of y are those of x
SamePicts(x, y) ==
    y.nodes = x.nodes /\ y.disp = x.disp /\ y.dlt = x.dlt /\ y.status = x.status

\* Users of picture buffers and of motion vector buffers
Users(frm, mv) == frm \in [Slots -> Nat] /\ mv \in [MvIDs -> Nat]

LEMMA MngrTypes ==
  ASSUME NEW x, x \in PictMngrs
  PROVE  /\ Lists(x) /\ x.status \in [Slots -> Statuses] /\ x.pool \in FrmBufPools
         /\ x.mv \in MvBufPools /\ Len(x.nodes) \in Nat /\ Len(x.disp) \in Nat
         /\ Len(x.dlt) \in Nat
         /\ \A i \in 1 .. Len(x.nodes) : x.nodes[i] \in DpbNodes
         /\ \A i \in 1 .. Len(x.disp) : x.disp[i] \in Slots
         /\ \A i \in 1 .. Len(x.dlt) : x.dlt[i] \in Slots \X MvIDs
  BY DEF PictMngrs, Lists

LEMMA SameHeld ==
  ASSUME NEW x, NEW y, SamePicts(x, y)
  PROVE  /\ \A s : FrmHeld(y, s) = FrmHeld(x, s)
         /\ \A m : MvHeld(y, m) = MvHeld(x, m)
  BY DEF SamePicts, FrmHeld, MvHeld, Occurrences

\* A slot that is in use holds a buffer.
LEMMA InUse ==
  ASSUME NEW p, PoolInv(p), NEW s \in Slots, RefsOn(p, s) >= 1
  PROVE  p.buf[s] # NoBuf /\ p.buf[s] \in Bufs /\ p.cnt[s] = RefsOn(p, s) /\ p.cnt[s] \in Int
  <1>1. Whole(p, FifoSlots(p))
    BY PoolIsWhole
  <1> QED BY <1>1, Held

\* The counts are those of numbers of holders.
LEMMA CountsAre ==
  ASSUME NEW x, x \in PictMngrs, NEW frm, NEW mv, Users(frm, mv), CountsExact(x, frm, mv)
  PROVE  /\ \A s \in Slots : /\ RefsOn(x.pool, s) \in Nat /\ frm[s] \in Nat
                             /\ FrmHeld(x, s) \in Nat
                             /\ RefsOn(x.pool, s) = frm[s] + FrmHeld(x, s)
         /\ \A m \in MvIDs : /\ x.mv.cnt[m] \in Nat /\ mv[m] \in Nat /\ MvHeld(x, m) \in Nat
                             /\ x.mv.cnt[m] = mv[m] + MvHeld(x, m)
  <1>1. Lists(x)
    BY MngrTypes
  <1>2. /\ \A s : FrmHeld(x, s) \in Nat
        /\ \A m : MvHeld(x, m) \in Nat
    BY <1>1, HeldNone
  <1>3. ASSUME NEW s \in Slots
        PROVE  /\ RefsOn(x.pool, s) \in Nat /\ frm[s] \in Nat /\ FrmHeld(x, s) \in Nat
               /\ RefsOn(x.pool, s) = frm[s] + FrmHeld(x, s)
    <2>1. frm[s] \in Nat /\ FrmHeld(x, s) \in Nat
      BY <1>2 DEF Users
    <2>2. RefsOn(x.pool, s) = frm[s] + FrmHeld(x, s)
      BY DEF CountsExact
    <2> QED BY <2>1, <2>2
  <1>4. ASSUME NEW m \in MvIDs
        PROVE  /\ x.mv.cnt[m] \in Nat /\ mv[m] \in Nat /\ MvHeld(x, m) \in Nat
               /\ x.mv.cnt[m] = mv[m] + MvHeld(x, m)
    <2>1. mv[m] \in Nat /\ MvHeld(x, m) \in Nat
      BY <1>2 DEF Users
    <2>2. x.mv.cnt[m] = mv[m] + MvHeld(x, m)
      BY DEF CountsExact
    <2> QED BY <2>1, <2>2
  <1> QED BY <1>3, <1>4

\* A holder more of slot s
MoreOf(f, s) == [f EXCEPT ![s] = @ + 1]
LessOf(f, s) == [f EXCEPT ![s] = @ - 1]

LEMMA MoreIs ==
  ASSUME NEW S, NEW f \in [S -> Nat], NEW s \in S
  PROVE  /\ MoreOf(f, s) \in [S -> Nat]
         /\ \A t \in S : MoreOf(f, s)[t] = f[t] + One(t = s)
         /\ f[s] >= 1 => /\ LessOf(f, s) \in [S -> Nat]
                         /\ \A t \in S : LessOf(f, s)[t] = f[t] - One(t = s)
         /\ LessOf(MoreOf(f, s), s) = f
  <1>1. ASSUME NEW t \in S PROVE MoreOf(f, s)[t] = f[t] + One(t = s)
    BY DEF MoreOf, One
  <1>2. ASSUME NEW t \in S PROVE LessOf(f, s)[t] = f[t] - One(t = s)
    BY DEF LessOf, One
  <1>3. LessOf(MoreOf(f, s), s) = f
    <2>1. f[s] \in Nat
      OBVIOUS
    <2>2. (f[s] + 1) - 1 = f[s]
      BY <2>1
    <2> DEFINE g == MoreOf(f, s)
    <2>3. DOMAIN g = S /\ g[s] = f[s] + 1 /\ \A t \in S : t # s => g[t] = f[t]
      BY DEF MoreOf
    <2> HIDE DEF g
    <2>4. LessOf(g, s) = [t \in S |-> f[t]]
      BY <2>2, <2>3 DEF LessOf
    <2>5. f = [t \in S |-> f[t]]
      OBVIOUS
    <2> QED BY <2>4, <2>5 DEF g
  <1> QED BY <1>1, <1>2, <1>3 DEF MoreOf, LessOf

\* The pool holds one reference more on slot s, and is the same otherwise.
PoolTaken(p, r, s) ==
    /\ PoolInv(r) /\ r.buf = p.buf /\ r.out = p.out /\ r.decommitted = p.decommitted
    /\ \A t \in Slots : RefsOn(r, t) = RefsOn(p, t) + One(t = s)

LEMMA TakenIs ==
  ASSUME NEW p, PoolInv(p), NEW s \in Slots, RefsOn(p, s) >= 1, NEW r, r = IncrementBufID(p, s)
  PROVE  PoolTaken(p, r, s)
  <1>1. Whole(p, FifoSlots(p))
    BY PoolIsWhole
  <1>2. /\ Whole(r, FifoSlots(p)) /\ r.buf = p.buf /\ r.out = p.out /\ r.event = p.event
        /\ r.decommitted = p.decommitted /\ r.cnt = [p.cnt EXCEPT ![s] = @ + 1]
        /\ r.head = p.head /\ r.number = p.number
        /\ \A t \in Slots : RefsOn(r, t) = RefsOn(p, t) + One(t = s)
    BY <1>1, IncrementIs
  <1>3. PoolInv(r)
    BY <1>2, WholeIs
  <1> QED BY <1>2, <1>3 DEF PoolTaken

LEMMA OutputSame ==
  ASSUME NEW x, NEW y, NEW user, NEW shown, SamePicts(x, y), y.pool.buf = x.pool.buf,
         y.pool.out = x.pool.out, OutputWhole(x, user, shown)
  PROVE  OutputWhole(y, user, shown)
  BY DEF SamePicts, OutputWhole, ToBeOutput, InDisplay

\* A thread takes a reference more on a picture.
TookFrm(x, y) ==
    /\ SamePicts(x, y) /\ y.mv = x.mv /\ y.pool.buf = x.pool.buf /\ y.pool.out = x.pool.out
    /\ y.pool.decommitted = x.pool.decommitted

LEMMA TakeFrm ==
  ASSUME NEW x, NEW frm, NEW mv, NEW user, NEW shown, Users(frm, mv),
         MngrInv(x, frm, mv, user, shown), NEW s \in Slots, RefsOn(x.pool, s) >= 1,
         NEW y, y = [x EXCEPT !.pool = IncrementBufID(@, s)]
  PROVE  /\ MngrInv(y, MoreOf(frm, s), mv, user, shown) /\ Users(MoreOf(frm, s), mv)
         /\ TookFrm(x, y)
  <1>1. /\ x \in PictMngrs /\ PoolInv(x.pool) /\ MvInv(x.mv)
        /\ NodesWhole(x) /\ CountsExact(x, frm, mv) /\ OutputWhole(x, user, shown)
    BY DEF MngrInv
  <1>2. /\ SamePicts(x, y) /\ y.mv = x.mv /\ y.pool = IncrementBufID(x.pool, s)
    BY <1>1 DEF PictMngrs, SamePicts
  <1>3. PoolTaken(x.pool, y.pool, s)
    BY <1>1, <1>2, TakenIs
  <1>4. y \in PictMngrs
    <2>1. y.pool \in FrmBufPools
      BY <1>3 DEF PoolTaken, PoolInv
    <2>2. IncrementBufID(x.pool, s) \in FrmBufPools
      BY <1>2, <2>1
    <2> QED BY <1>1, <2>2 DEF PictMngrs
  <1>5. NodesWhole(y)
    BY <1>1, <1>2 DEF NodesWhole, SamePicts
  <1>6. OutputWhole(y, user, shown)
    BY <1>1, <1>2, <1>3, OutputSame DEF PoolTaken
  <1>7. frm \in [Slots -> Nat]
    BY DEF Users
  <1>8. MoreOf(frm, s) \in [Slots -> Nat]
        /\ \A t \in Slots : MoreOf(frm, s)[t] = frm[t] + One(t = s)
    BY <1>7, MoreIs
  <1>9. CountsExact(y, MoreOf(frm, s), mv)
    <2>1. ASSUME NEW t \in Slots
          PROVE  RefsOn(y.pool, t) = MoreOf(frm, s)[t] + FrmHeld(y, t)
      <3>1. RefsOn(y.pool, t) = RefsOn(x.pool, t) + One(t = s)
        BY <1>3 DEF PoolTaken
      <3>2. RefsOn(x.pool, t) = frm[t] + FrmHeld(x, t) /\ frm[t] \in Nat /\ FrmHeld(x, t) \in Nat
        BY <1>1, CountsAre
      <3>3. FrmHeld(y, t) = FrmHeld(x, t)
        BY <1>2, SameHeld
      <3>4. One(t = s) \in {0, 1}
        BY OneIs
      <3> QED BY <3>1, <3>2, <3>3, <3>4, <1>8
    <2>2. \A m \in MvIDs : y.mv.cnt[m] = mv[m] + MvHeld(y, m)
      BY <1>1, <1>2, SameHeld DEF CountsExact
    <2> QED BY <2>1, <2>2 DEF CountsExact
  <1>10. MngrInv(y, MoreOf(frm, s), mv, user, shown)
    BY <1>1, <1>2, <1>3, <1>4, <1>5, <1>6, <1>9 DEF MngrInv, PoolTaken
  <1> QED BY <1>2, <1>3, <1>8, <1>10 DEF Users, TookFrm, PoolTaken

LEMMA TakeMv ==
  ASSUME NEW x, NEW frm, NEW mv, NEW user, NEW shown, Users(frm, mv),
         MngrInv(x, frm, mv, user, shown), NEW y \in PictMngrs, NEW m \in MvIDs,
         MvTaken(x.mv, y.mv, m), y.pool = x.pool, SamePicts(x, y)
  PROVE  MngrInv(y, frm, MoreOf(mv, m), user, shown) /\ Users(frm, MoreOf(mv, m))
  <1>1. /\ x \in PictMngrs /\ PoolInv(x.pool) /\ MvInv(x.mv)
        /\ NodesWhole(x) /\ CountsExact(x, frm, mv) /\ OutputWhole(x, user, shown)
    BY DEF MngrInv
  <1>5. NodesWhole(y)
    BY <1>1 DEF NodesWhole, SamePicts
  <1>6. OutputWhole(y, user, shown)
    BY <1>1, OutputSame
  <1>7. mv \in [MvIDs -> Nat]
    BY DEF Users
  <1>8. MoreOf(mv, m) \in [MvIDs -> Nat]
        /\ \A t \in MvIDs : MoreOf(mv, m)[t] = mv[t] + One(t = m)
    BY <1>7, MoreIs
  <1>9. CountsExact(y, frm, MoreOf(mv, m))
    <2>1. ASSUME NEW t \in MvIDs
          PROVE  y.mv.cnt[t] = MoreOf(mv, m)[t] + MvHeld(y, t)
      <3>1. y.mv.cnt[t] = x.mv.cnt[t] + One(t = m)
        BY DEF MvTaken
      <3>2. x.mv.cnt[t] = mv[t] + MvHeld(x, t) /\ mv[t] \in Nat /\ MvHeld(x, t) \in Nat
        BY <1>1, CountsAre
      <3>3. MvHeld(y, t) = MvHeld(x, t)
        BY SameHeld
      <3>4. One(t = m) \in {0, 1}
        BY OneIs
      <3> QED BY <3>1, <3>2, <3>3, <3>4, <1>8
    <2>2. \A s \in Slots : RefsOn(y.pool, s) = frm[s] + FrmHeld(y, s)
      BY <1>1, SameHeld DEF CountsExact
    <2> QED BY <2>1, <2>2 DEF CountsExact
  <1>10. MngrInv(y, frm, MoreOf(mv, m), user, shown)
    BY <1>1, <1>5, <1>6, <1>9 DEF MngrInv, MvTaken
  <1> QED BY <1>8, <1>10 DEF Users

LEMMA DropMv ==
  ASSUME NEW x, NEW frm, NEW mv, NEW user, NEW shown, Users(frm, mv),
         MngrInv(x, frm, mv, user, shown), NEW m \in MvIDs, mv[m] >= 1,
         NEW y, y = [x EXCEPT !.mv = MvDecrement(@, m)]
  PROVE  /\ MngrInv(y, frm, LessOf(mv, m), user, shown) /\ Users(frm, LessOf(mv, m))
         /\ SamePicts(x, y) /\ y.pool = x.pool
  <1>1. /\ x \in PictMngrs /\ PoolInv(x.pool) /\ MvInv(x.mv)
        /\ NodesWhole(x) /\ CountsExact(x, frm, mv) /\ OutputWhole(x, user, shown)
    BY DEF MngrInv
  <1>2. SamePicts(x, y) /\ y.pool = x.pool /\ y.mv = MvDecrement(x.mv, m)
    BY <1>1 DEF PictMngrs, SamePicts
  <1>0. \A t \in MvIDs : x.mv.cnt[t] = mv[t] + MvHeld(x, t) /\ mv[t] \in Nat /\ MvHeld(x, t) \in Nat
    BY <1>1, CountsAre
  <1>3. MvFreed(x.mv, y.mv, m)
    <2>1. x.mv.cnt[m] >= 1
      BY <1>0
    <2> QED BY <2>1, <1>1, <1>2, MvDecrementIs
  <1>4. y \in PictMngrs
    <2>1. MvDecrement(x.mv, m) \in MvBufPools
      BY <1>2, <1>3 DEF MvFreed, MvInv
    <2> QED BY <1>1, <2>1 DEF PictMngrs
  <1>5. NodesWhole(y)
    BY <1>1, <1>2 DEF NodesWhole, SamePicts
  <1>6. OutputWhole(y, user, shown)
    BY <1>1, <1>2, OutputSame
  <1>7. mv \in [MvIDs -> Nat]
    BY DEF Users
  <1>8. LessOf(mv, m) \in [MvIDs -> Nat]
        /\ \A t \in MvIDs : LessOf(mv, m)[t] = mv[t] - One(t = m)
    BY <1>7, MoreIs
  <1>9. CountsExact(y, frm, LessOf(mv, m))
    <2>1. ASSUME NEW t \in MvIDs
          PROVE  y.mv.cnt[t] = LessOf(mv, m)[t] + MvHeld(y, t)
      <3>1. y.mv.cnt[t] = x.mv.cnt[t] - One(t = m)
        BY <1>3 DEF MvFreed
      <3>3. MvHeld(y, t) = MvHeld(x, t)
        BY <1>2, SameHeld
      <3>4. One(t = m) \in {0, 1}
        BY OneIs
      <3> QED BY <3>1, <1>0, <3>3, <3>4, <1>8
    <2>2. \A s \in Slots : RefsOn(y.pool, s) = frm[s] + FrmHeld(y, s)
      BY <1>1, <1>2, SameHeld DEF CountsExact
    <2> QED BY <2>1, <2>2 DEF CountsExact
  <1>10. MngrInv(y, frm, LessOf(mv, m), user, shown)
    BY <1>1, <1>2, <1>3, <1>4, <1>5, <1>6, <1>9 DEF MngrInv, MvFreed
  <1> QED BY <1>2, <1>8, <1>10 DEF Users

\* Slots still in use keep their buffer and its flag.
PoolKept(p, r) ==
    /\ r.decommitted = p.decommitted
    /\ \A t \in Slots : RefsOn(r, t) >= 1 => r.buf[t] = p.buf[t] /\ r.out[t] = p.out[t]

LEMMA ReleasedKept ==
  ASSUME NEW p, PoolInv(p), NEW s \in Slots, RefsOn(p, s) >= 1, NEW r, Released(p, r, s)
  PROVE  PoolKept(p, r)
  <1>1. ASSUME NEW t \in Slots, RefsOn(r, t) >= 1
        PROVE  r.buf[t] = p.buf[t] /\ r.out[t] = p.out[t]
    <2>1. RefsOn(r, t) = RefsOn(p, t) - One(t = s)
      BY DEF Released
    <2>2. p.cnt[s] = RefsOn(p, s) /\ p.cnt[s] \in Int
      BY InUse
    <2>3. CASE t = s
      <3>1. One(t = s) = 1
        BY <2>3, OneIs
      <3>2. p.cnt[s] > 1
        BY <1>1, <2>1, <2>2, <2>3, <3>1
      <3> QED BY <3>2 DEF Released
    <2>4. CASE t # s
      <3>1. One(t = s) = 0
        BY <2>4, OneIs
      <3>2. p \in FrmBufPools
        BY DEF PoolInv
      <3>3. RefsOn(p, t) \in Int
        BY <3>2 DEF RefsOn, FrmBufPools
      <3>4. RefsOn(p, t) >= 1
        BY <1>1, <2>1, <3>1, <3>3
      <3>5. p.buf[t] # NoBuf
        BY <3>4, InUse
      <3> QED BY <2>4, <3>5 DEF Released
    <2> QED BY <2>3, <2>4
  <1> QED BY <1>1 DEF PoolKept, Released

\* A buffer that nobody holds any more goes to the application, which shall have it, or back
\* to the FIFO.
LEMMA ReleasedOutput ==
  ASSUME NEW x, NEW y, NEW user, NEW shown, PoolInv(x.pool), NEW s \in Slots,
         RefsOn(x.pool, s) >= 1, Released(x.pool, y.pool, s), SamePicts(x, y),
         x.disp \in Seq(Slots),
         x.pool.cnt[s] = 1 => NoneHeld(x, s), OutputWhole(x, user, shown)
  PROVE  OutputWhole(y, user, shown)
  <1> DEFINE p == x.pool
             r == y.pool
  <1>1. p.buf[s] # NoBuf /\ p.buf[s] \in Bufs /\ p.cnt[s] = RefsOn(p, s) /\ p.cnt[s] \in Int
    BY InUse
  <1>2. CASE p.cnt[s] > 1
    <2>1. r.buf = p.buf /\ r.out = p.out
      BY <1>2 DEF Released
    <2> QED BY <2>1, OutputSame
  <1>3. CASE p.cnt[s] = 1
    <2>1. NoneHeld(x, s)
      BY <1>3
    <2>2. ~InDisplay(x, s) /\ ~ToBeOutput(x, s)
      BY <2>1 DEF NoneHeld, InDisplay, ToBeOutput
    <2>3. /\ y.nodes = x.nodes /\ y.disp = x.disp /\ y.status = x.status
      BY DEF SamePicts
    <2>4. /\ \A t : InDisplay(y, t) <=> InDisplay(x, t)
          /\ \A t : ToBeOutput(y, t) <=> ToBeOutput(x, t)
      BY <2>3 DEF InDisplay, ToBeOutput
    <2>5. /\ \A t \in Slots \ {s} : /\ r.out[t] = p.out[t]
                                    /\ p.buf[t] # NoBuf => r.buf[t] = p.buf[t]
                                    /\ p.buf[t] = NoBuf => r.buf[t] \in {NoBuf, p.buf[s]}
                                    /\ r.buf[t] = p.buf[s] => ~p.out[s]
          /\ ~r.out[s] /\ r.buf[s] \in {NoBuf, p.buf[s]}
          /\ p.out[s] => r.buf = [p.buf EXCEPT ![s] = NoBuf]
          /\ \A b \in Bufs : (\E t \in Slots : p.buf[t] = b) =>
                (\E t \in Slots : r.buf[t] = b) \/ (p.out[s] /\ b = p.buf[s])
      BY <1>3 DEF Released
    <2>6. p.out[s] => r.buf[s] = NoBuf
      <3>1. p \in FrmBufPools
        BY DEF PoolInv
      <3>2. s \in DOMAIN p.buf
        BY <3>1 DEF FrmBufPools
      <3> HIDE DEF p, r
      <3> QED BY <2>5, <3>2
    <2>7. \A t \in Slots : p.buf[t] = NoBuf => ~p.out[t]
      BY DEF PoolInv, SlotsWhole
    <2>8. /\ shown => x.disp # <<>>
          /\ \A i, j \in 1 .. Len(x.disp) : x.disp[i] = x.disp[j] => i = j
          /\ \A i \in 1 .. Len(x.disp) : p.out[x.disp[i]] \/ (i = 1 /\ shown)
          /\ \A t \in Slots :
                /\ ToBeOutput(x, t) => ~p.out[t] /\ ~InDisplay(x, t)
                /\ x.status[t] # "notNeeded" <=> ToBeOutput(x, t) \/ InDisplay(x, t)
                /\ p.buf[t] # NoBuf =>
                      (p.buf[t] \in user <=>
                          p.out[t] /\ (InDisplay(x, t) => shown /\ t = x.disp[1]))
          /\ \A b \in Bufs : b \in user \/ \E t \in Slots : p.buf[t] = b
      BY DEF OutputWhole
    <2> HIDE DEF p, r
    <2>9. \A i \in 1 .. Len(x.disp) : r.out[x.disp[i]] \/ (i = 1 /\ shown)
      <3> SUFFICES ASSUME NEW i \in 1 .. Len(x.disp), ~(i = 1 /\ shown) PROVE r.out[x.disp[i]]
        OBVIOUS
      <3>1. x.disp[i] # s
        BY <2>2 DEF InDisplay
      <3>2. p.out[x.disp[i]]
        BY <2>8
      <3>3. x.disp[i] \in Slots
        OBVIOUS
      <3> QED BY <3>1, <3>2, <3>3, <2>5
    <2>10. \A t \in Slots : ToBeOutput(y, t) => ~r.out[t] /\ ~InDisplay(y, t)
      BY <2>2, <2>4, <2>5, <2>8
    <2>11. ASSUME NEW t \in Slots, r.buf[t] # NoBuf
           PROVE r.buf[t] \in user <=> r.out[t] /\ (InDisplay(y, t) => shown /\ t = y.disp[1])
      <3>1. CASE t = s
        <4>1. ~p.out[s] /\ r.buf[s] = p.buf[s] /\ ~r.out[s]
          BY <3>1, <2>5, <2>6, <2>11
        <4>2. p.buf[s] \notin user
          BY <4>1, <1>1, <2>8 DEF p
        <4> QED BY <3>1, <4>1, <4>2
      <3>2. CASE t # s /\ p.buf[t] # NoBuf
        <4>1. r.buf[t] = p.buf[t] /\ r.out[t] = p.out[t]
          BY <3>2, <2>5
        <4> QED BY <3>2, <4>1, <2>3, <2>4, <2>8
      <3>3. CASE t # s /\ p.buf[t] = NoBuf
        <4>1. r.buf[t] = p.buf[s] /\ ~p.out[s] /\ r.out[t] = p.out[t] /\ ~p.out[t]
          BY <3>3, <2>5, <2>7, <2>11
        <4>2. p.buf[s] \notin user
          BY <4>1, <1>1, <2>8 DEF p
        <4> QED BY <4>1, <4>2
      <3> QED BY <3>1, <3>2, <3>3
    <2>12. \A b \in Bufs : b \in user \/ \E t \in Slots : r.buf[t] = b
      <3> SUFFICES ASSUME NEW b \in Bufs, b \notin user PROVE \E t \in Slots : r.buf[t] = b
        OBVIOUS
      <3>1. \E t \in Slots : p.buf[t] = b
        BY <2>8
      <3>2. ~(p.out[s] /\ b = p.buf[s])
        BY <1>1, <2>2, <2>8 DEF p
      <3> QED BY <3>1, <3>2, <2>5
    <2> QED BY <2>3, <2>4, <2>8, <2>9, <2>10, <2>11, <2>12 DEF OutputWhole, r
  <1>4. p.cnt[s] > 1 \/ p.cnt[s] = 1
    BY <1>1
  <1> QED BY <1>2, <1>3, <1>4

\* A thread drops a reference.
DroppedFrm(x, y) == SamePicts(x, y) /\ y.mv = x.mv /\ PoolKept(x.pool, y.pool)

LEMMA DropFrm ==
  ASSUME NEW x, NEW frm, NEW mv, NEW user, NEW shown, Users(frm, mv), BufsFit,
         MngrInv(x, frm, mv, user, shown), NEW s \in Slots, frm[s] >= 1,
         NEW y, y = [x EXCEPT !.pool = DecrementBufID(@, s)]
  PROVE  /\ MngrInv(y, LessOf(frm, s), mv, user, shown) /\ Users(LessOf(frm, s), mv)
         /\ DroppedFrm(x, y)
  <1>1. /\ x \in PictMngrs /\ PoolInv(x.pool) /\ MvInv(x.mv)
        /\ NodesWhole(x) /\ CountsExact(x, frm, mv) /\ OutputWhole(x, user, shown)
    BY DEF MngrInv
  <1>2. /\ SamePicts(x, y) /\ y.mv = x.mv /\ y.pool = DecrementBufID(x.pool, s)
    BY <1>1 DEF PictMngrs, SamePicts
  <1>3. \A t \in Slots : /\ RefsOn(x.pool, t) \in Nat /\ frm[t] \in Nat /\ FrmHeld(x, t) \in Nat
                         /\ RefsOn(x.pool, t) = frm[t] + FrmHeld(x, t)
    BY <1>1, CountsAre
  <1>a. RefsOn(x.pool, s) >= 1
    BY <1>3
  <1>b. Released(x.pool, y.pool, s)
    BY <1>1, <1>2, <1>a, DecrementIs
  <1>4. y \in PictMngrs
    <2>1. DecrementBufID(x.pool, s) \in FrmBufPools
      BY <1>b, <1>2 DEF Released, PoolInv
    <2> QED BY <1>1, <2>1 DEF PictMngrs
  <1>5. NodesWhole(y)
    BY <1>1, <1>2 DEF NodesWhole, SamePicts
  <1>6. OutputWhole(y, user, shown)
    <2>1. x.pool.cnt[s] = 1 => NoneHeld(x, s)
      <3>1. x.pool.cnt[s] = RefsOn(x.pool, s)
        BY <1>1, <1>a, InUse
      <3>2. Lists(x)
        BY <1>1, MngrTypes
      <3>4. RefsOn(x.pool, s) = 1 => FrmHeld(x, s) = 0
        BY <1>3
      <3>3. x.pool.cnt[s] = 1 => FrmHeld(x, s) = 0
        BY <3>1, <3>4
      <3> QED BY <3>2, <3>3, HeldNone
    <2>2. x.disp \in Seq(Slots)
      BY <1>1 DEF PictMngrs
    <2> QED BY <2>1, <2>2, <1>1, <1>2, <1>a, <1>b, ReleasedOutput
  <1>7. frm \in [Slots -> Nat]
    BY DEF Users
  <1>8. LessOf(frm, s) \in [Slots -> Nat]
        /\ \A t \in Slots : LessOf(frm, s)[t] = frm[t] - One(t = s)
    BY <1>7, MoreIs
  <1>9. CountsExact(y, LessOf(frm, s), mv)
    <2>1. ASSUME NEW t \in Slots
          PROVE  RefsOn(y.pool, t) = LessOf(frm, s)[t] + FrmHeld(y, t)
      <3>1. RefsOn(y.pool, t) = RefsOn(x.pool, t) - One(t = s)
        BY <1>b DEF Released
      <3>3. FrmHeld(y, t) = FrmHeld(x, t)
        BY <1>2, SameHeld
      <3>4. One(t = s) \in {0, 1}
        BY OneIs
      <3> QED BY <3>1, <1>3, <3>3, <3>4, <1>8
    <2>2. \A m \in MvIDs : y.mv.cnt[m] = mv[m] + MvHeld(y, m)
      BY <1>1, <1>2, SameHeld DEF CountsExact
    <2> QED BY <2>1, <2>2 DEF CountsExact
  <1>10. MngrInv(y, LessOf(frm, s), mv, user, shown)
    BY <1>1, <1>2, <1>4, <1>5, <1>6, <1>9, <1>b DEF MngrInv, Released
  <1>11. PoolKept(x.pool, y.pool)
    BY <1>1, <1>a, <1>b, ReleasedKept
  <1> QED BY <1>2, <1>8, <1>10, <1>11 DEF Users, DroppedFrm
-----------------------------------------------------------------------------
(* The order of the POC list *)

\* In a total order, where B[i] is what comes before i, each element of a finite set has the
\* place that the number of those before it gives.
LEMMA Ranks ==
  ASSUME NEW D, IsFiniteSet(D), NEW B \in [D -> SUBSET D],
         \A i \in D : i \notin B[i],
         \A i, j \in D : i \in B[j] => B[i] \subseteq B[j],
         \A i, j \in D : i = j \/ i \in B[j] \/ j \in B[i]
  PROVE  /\ \A i \in D : Cardinality(B[i]) + 1 \in 1 .. Cardinality(D)
         /\ \A i, j \in D : i \in B[j] => Cardinality(B[i]) + 1 < Cardinality(B[j]) + 1
         /\ \A i, j \in D : Cardinality(B[i]) + 1 = Cardinality(B[j]) + 1 => i = j
         /\ \A k \in 1 .. Cardinality(D) : \E i \in D : Cardinality(B[i]) + 1 = k
  <1> DEFINE N == Cardinality(D)
             rank == [i \in D |-> Cardinality(B[i]) + 1]
  <1>1. N \in Nat
    BY FS_CardinalityType
  <1>2. ASSUME NEW i \in D
        PROVE  IsFiniteSet(B[i]) /\ Cardinality(B[i]) \in Nat /\ Cardinality(B[i]) < N
    <2>1. B[i] \in SUBSET D /\ B[i] # D
      OBVIOUS
    <2>2. /\ IsFiniteSet(B[i]) /\ Cardinality(B[i]) <= Cardinality(D)
          /\ (Cardinality(D) = Cardinality(B[i]) => D = B[i])
      BY <2>1, FS_Subset
    <2>3. Cardinality(B[i]) \in Nat
      BY <2>2, FS_CardinalityType
    <2> QED BY <1>1, <2>1, <2>2, <2>3
  <1>3. ASSUME NEW i \in D, NEW j \in D, i \in B[j]
        PROVE  Cardinality(B[i]) < Cardinality(B[j])
    <2>1. B[i] \in SUBSET B[j] /\ B[i] # B[j]
      BY <1>3
    <2>2. IsFiniteSet(B[j]) /\ Cardinality(B[j]) \in Nat /\ Cardinality(B[i]) \in Nat
      BY <1>2
    <2>3. /\ Cardinality(B[i]) <= Cardinality(B[j])
          /\ (Cardinality(B[j]) = Cardinality(B[i]) => B[j] = B[i])
      BY <2>1, <2>2, FS_Subset
    <2> QED BY <2>1, <2>2, <2>3
  <1>4. \A i \in D : rank[i] = Cardinality(B[i]) + 1 /\ rank[i] \in 1 .. N
    BY <1>1, <1>2
  <1>5. \A i, j \in D : rank[i] = rank[j] => i = j
    <2> SUFFICES ASSUME NEW i \in D, NEW j \in D, i # j PROVE rank[i] # rank[j]
      OBVIOUS
    <2>1. i \in B[j] \/ j \in B[i]
      OBVIOUS
    <2>2. Cardinality(B[i]) # Cardinality(B[j])
      BY <2>1, <1>2, <1>3
    <2> QED BY <2>2, <1>2
  <1>6. \A k \in 1 .. N : \E i \in D : rank[i] = k
    <2>1. rank \in [D -> 1 .. N]
      BY <1>4
    <2>2. IsFiniteSet(1 .. N) /\ Cardinality(1 .. N) = N
      <3>1. /\ IsFiniteSet(1 .. N)
            /\ Cardinality(1 .. N) = IF 1 > N THEN 0 ELSE N - 1 + 1
        BY <1>1, FS_Interval
      <3> QED BY <3>1, <1>1
    <2> HIDE DEF rank
    <2>3. rank \in Injection(D, 1 .. N)
      BY <2>1, <1>5 DEF Injection, IsInjective
    <2>4. rank \in Surjection(D, 1 .. N)
      BY <2>2, <2>3, FS_Injection
    <2> QED BY <2>4 DEF Surjection
  <1> QED BY <1>3, <1>2, <1>4, <1>5, <1>6

\* The nodes of the DPB, told apart by their identifier.
LEMMA IndexIs ==
  ASSUME NEW x, NodesWhole(x), x \in PictMngrs, NEW n, HasNode(x, n)
  PROVE  /\ IndexOf(x, n) \in 1 .. Len(x.nodes)
         /\ x.nodes[IndexOf(x, n)].id = n /\ NodeOf(x, n) = x.nodes[IndexOf(x, n)]
         /\ \A i \in 1 .. Len(x.nodes) : x.nodes[i].id = n => i = IndexOf(x, n)
         /\ x.nodes[IndexOf(x, n)] \in DpbNodes /\ n \in NodeIDs
  <1>1. DOMAIN x.nodes = 1 .. Len(x.nodes) /\ \A i \in 1 .. Len(x.nodes) : x.nodes[i] \in DpbNodes
    BY DEF PictMngrs
  <1>2. IndexOf(x, n) \in 1 .. Len(x.nodes) /\ x.nodes[IndexOf(x, n)].id = n
    BY <1>1 DEF HasNode, IndexOf
  <1>3. \A i, j \in 1 .. Len(x.nodes) : x.nodes[i].id = x.nodes[j].id => i = j
    BY DEF NodesWhole
  <1> QED BY <1>1, <1>2, <1>3 DEF NodeOf, DpbNodes

\* o lists the nodes, each once, by POC.
ByPoc(x, o) ==
    /\ o \in Seq(NodeIDs) /\ Len(o) \in Nat
    /\ \A k \in 1 .. Len(o) : HasNode(x, o[k])
    /\ \A i \in 1 .. Len(x.nodes) : \E k \in 1 .. Len(o) : o[k] = x.nodes[i].id
    /\ \A k, l \in 1 .. Len(o) : o[k] = o[l] => k = l
    /\ \A k, l \in 1 .. Len(o) : NodeOf(x, o[k]).poc < NodeOf(x, o[l]).poc => k < l

LEMMA PocOrderIs ==
  ASSUME NEW x, NodesWhole(x), x \in PictMngrs
  PROVE  ByPoc(x, PocOrder(x))
  <1> DEFINE N == Len(x.nodes)
             D == 1 .. N
             B == [i \in D |-> {j \in D : Earlier(x, j, i)}]
             o == PocOrder(x)
  <1>1. /\ N \in Nat /\ DOMAIN x.nodes = D
        /\ \A i \in D : x.nodes[i] \in DpbNodes /\ x.nodes[i].poc \in Int /\ x.nodes[i].id \in NodeIDs
    <2>1. x.nodes \in Seq(DpbNodes)
      BY DEF PictMngrs
    <2>2. N \in Nat /\ DOMAIN x.nodes = D /\ \A i \in D : x.nodes[i] \in DpbNodes
      BY <2>1
    <2>3. \A n \in DpbNodes : n.poc \in Int /\ n.id \in NodeIDs
      BY DEF DpbNodes
    <2> QED BY <2>2, <2>3
  <1>2. IsFiniteSet(D) /\ Cardinality(D) = N
    <2>1. IsFiniteSet(1 .. N) /\ Cardinality(1 .. N) = IF 1 > N THEN 0 ELSE N - 1 + 1
      BY <1>1, FS_Interval, SMTT(30)
    <2> QED BY <2>1, <1>1
  <1>3. /\ B \in [D -> SUBSET D]
        /\ \A i \in D : i \notin B[i]
        /\ \A i, j \in D : i \in B[j] => B[i] \subseteq B[j]
        /\ \A i, j \in D : i = j \/ i \in B[j] \/ j \in B[i]
    BY <1>1 DEF Earlier
  <1>4. \A i \in D : B[i] = {j \in D : Earlier(x, j, i)}
    OBVIOUS
  <1> HIDE DEF B
  <1>5. /\ \A i \in D : Cardinality(B[i]) + 1 \in 1 .. N
        /\ \A i, j \in D : i \in B[j] => Cardinality(B[i]) + 1 < Cardinality(B[j]) + 1
        /\ \A i, j \in D : Cardinality(B[i]) + 1 = Cardinality(B[j]) + 1 => i = j
        /\ \A k \in 1 .. N : \E i \in D : Cardinality(B[i]) + 1 = k
    <2> HIDE DEF D, N
    <2> QED BY <1>2, <1>3, Ranks
  <1> DEFINE pos == [k \in D |-> CHOOSE i \in D : Cardinality({j \in D : Earlier(x, j, i)}) + 1 = k]
  <1>6. o = [k \in D |-> x.nodes[pos[k]].id]
    BY <1>1 DEF PocOrder
  <1>7. ASSUME NEW k \in D PROVE pos[k] \in D /\ Cardinality(B[pos[k]]) + 1 = k
    <2>1. PICK i \in D : Cardinality(B[i]) + 1 = k
      BY <1>5
    <2>2. Cardinality({j \in D : Earlier(x, j, i)}) + 1 = k
      BY <2>1, <1>4
    <2>3. /\ pos[k] \in D
          /\ Cardinality({j \in D : Earlier(x, j, pos[k])}) + 1 = k
      BY <2>2
    <2> QED BY <2>3, <1>4
  <1> HIDE DEF pos, o
  <1>8. ASSUME NEW i \in D PROVE \E k \in D : pos[k] = i
    <2>1. Cardinality(B[i]) + 1 \in D
      BY <1>5
    <2> QED BY <2>1, <1>7, <1>5, ZenonT(40)
  <1>9. /\ \A k \in D : o[k] = x.nodes[pos[k]].id
        /\ o \in Seq(NodeIDs) /\ Len(o) = N
    <2>1. \A k \in D : x.nodes[pos[k]].id \in NodeIDs
      BY <1>1, <1>7
    <2>2. o \in [1 .. N -> NodeIDs]
      BY <2>1, <1>6
    <2>3. o \in Seq(NodeIDs)
      BY <2>2, <1>1
    <2>4. Len(o) = N
      BY <2>2, <2>3, <1>1
    <2> QED BY <2>3, <2>4, <1>6
  <1>10. \A i, j \in D : x.nodes[i].id = x.nodes[j].id => i = j
    BY DEF NodesWhole
  <1>11. ASSUME NEW k \in D PROVE HasNode(x, o[k]) /\ NodeOf(x, o[k]) = x.nodes[pos[k]]
    <2>1. HasNode(x, o[k])
      BY <1>1, <1>7, <1>9 DEF HasNode
    <2>2. pos[k] = IndexOf(x, o[k]) /\ NodeOf(x, o[k]) = x.nodes[IndexOf(x, o[k])]
      BY <2>1, <1>7, <1>9, IndexIs
    <2> QED BY <2>1, <2>2
  <1>12. \A i \in D : \E k \in D : o[k] = x.nodes[i].id
    BY <1>8, <1>9
  <1>13. ASSUME NEW k \in D, NEW l \in D, o[k] = o[l] PROVE k = l
    <2>1. x.nodes[pos[k]].id = x.nodes[pos[l]].id /\ pos[k] \in D /\ pos[l] \in D
      BY <1>13, <1>7, <1>9
    <2>2. pos[k] = pos[l]
      BY <2>1, <1>10
    <2>3. Cardinality(B[pos[k]]) + 1 = k /\ Cardinality(B[pos[l]]) + 1 = l
      BY <1>7
    <2> QED BY <2>2, <2>3
  <1>14. ASSUME NEW k \in D, NEW l \in D, NodeOf(x, o[k]).poc < NodeOf(x, o[l]).poc
         PROVE  k < l
    <2>1. x.nodes[pos[k]].poc < x.nodes[pos[l]].poc
      BY <1>14, <1>11
    <2>2. pos[k] \in B[pos[l]]
      BY <2>1, <1>4, <1>7 DEF Earlier
    <2>3. Cardinality(B[pos[k]]) + 1 < Cardinality(B[pos[l]]) + 1
      BY <2>2, <1>5, <1>7
    <2> QED BY <2>3, <1>7
  <1> QED BY <1>1, <1>9, <1>11, <1>12, <1>13, <1>14 DEF ByPoc, o
-----------------------------------------------------------------------------
(* What the functions on the lists keep *)

\* y has nodes of x only, perhaps output or unmarked since
SameNode(n, o) ==
    /\ o.id = n.id /\ o.poc = n.poc /\ o.frm = n.frm /\ o.mv = n.mv
    /\ o.nonExisting = n.nonExisting /\ (o.out => n.out) /\ (IsRef(o) => IsRef(n))
FromNodes(x, y) ==
    \A i \in 1 .. Len(y.nodes) : \E j \in 1 .. Len(x.nodes) : SameNode(x.nodes[j], y.nodes[i])

\* The display list grows at its end, by pictures that were to be output
Queued(x, y) ==
    /\ Len(x.disp) <= Len(y.disp)
    /\ \A i \in 1 .. Len(x.disp) : y.disp[i] = x.disp[i]
    /\ \A i \in 1 .. Len(y.disp) : i > Len(x.disp) => ToBeOutput(x, y.disp[i])

\* A picture that is no longer to be output is in the display list
Kept(x, y) ==
    \A s : ToBeOutput(x, s) /\ ~ToBeOutput(y, s) =>
        \E i \in 1 .. Len(y.disp) : i > Len(x.disp) /\ y.disp[i] = s

\* The picture in slot s is to be output before the one in slot t, ...
Sooner(x, s, t) ==
    \E k, l \in 1 .. Len(x.nodes) :
        /\ x.nodes[k].out /\ x.nodes[k].frm = s
        /\ x.nodes[l].out /\ x.nodes[l].frm = t
        /\ x.nodes[k].poc < x.nodes[l].poc
\* ... and is
Ordered(x, y) ==
    \A s, t : Sooner(x, s, t) =>
        \A i \in 1 .. Len(y.disp) : i > Len(x.disp) /\ y.disp[i] = t =>
            \E j \in 1 .. Len(y.disp) : j > Len(x.disp) /\ j < i /\ y.disp[j] = s

\* What is held of no list, or not to be output, stays as it is
Steady(x, y) ==
    /\ y.status = x.status /\ y.mv = x.mv /\ y.pool.buf = x.pool.buf
    /\ y.pool.decommitted = x.pool.decommitted
    /\ \A s \in Slots : ~ToBeOutput(x, s) => y.pool.out[s] = x.pool.out[s]
    /\ \A s \in Slots : NoneHeld(x, s) => NoneHeld(y, s)
    /\ \A m \in MvIDs : NoMvHeld(x, m) => NoMvHeld(y, m)

\* The list of removed pictures grows at its end, by pictures that leave the nodes; the nodes
\* use motion vector buffers they used before or those of M, and the pictures of nodes and list
\* are at most d more
Tally(x) == RealCount(x) + Len(x.dlt)
Stored(x, y, M, d) ==
    /\ Len(x.dlt) <= Len(y.dlt)
    /\ \A i \in 1 .. Len(x.dlt) : y.dlt[i] = x.dlt[i]
    /\ \A i \in 1 .. Len(y.dlt) : i > Len(x.dlt) => y.dlt[i][2] \in NodeMvs(x)
    /\ NodeMvs(y) \subseteq NodeMvs(x) \cup M
    /\ Tally(y) <= Tally(x) + d

Thinned(x, y) ==
    /\ FromNodes(x, y) /\ Queued(x, y) /\ Kept(x, y) /\ Ordered(x, y) /\ Steady(x, y)
    /\ Stored(x, y, {}, 0)
    /\ Len(y.nodes) <= Len(x.nodes) /\ RefCount(y) <= RefCount(x)

Refs == {n \in DpbNodes : IsRef(n)}

LEMMA RefCountIs ==
  ASSUME NEW x, Lists(x)
  PROVE  /\ RefCount(x) = Count(x.nodes, Refs)
         /\ RefCount(x) \in Nat /\ RefCount(x) <= Len(x.nodes) /\ Len(x.nodes) \in Nat
  <1>0. x.nodes \in Seq(DpbNodes)
    BY DEF Lists
  <1>1. DOMAIN x.nodes = 1 .. Len(x.nodes) /\ Len(x.nodes) \in Nat
        /\ \A i \in 1 .. Len(x.nodes) : x.nodes[i] \in DpbNodes
    BY <1>0
  <1>2. {i \in DOMAIN x.nodes : IsRef(x.nodes[i])} = {i \in 1 .. Len(x.nodes) : x.nodes[i] \in Refs}
    BY <1>1 DEF Refs
  <1>3. RefCount(x) = Count(x.nodes, Refs)
    BY <1>2 DEF RefCount, Count
  <1>4. Count(x.nodes, Refs) \in 0 .. Len(x.nodes)
    BY <1>0, CountIs
  <1> QED BY <1>1, <1>3, <1>4

Reals == {n \in DpbNodes : ~n.nonExisting}

LEMMA TallyIs ==
  ASSUME NEW x, Lists(x)
  PROVE  /\ RealCount(x) = Count(x.nodes, Reals)
         /\ RealCount(x) \in Nat /\ RealCount(x) <= Len(x.nodes) /\ Len(x.nodes) \in Nat
         /\ Len(x.dlt) \in Nat /\ Tally(x) \in Nat
  <1>0. x.nodes \in Seq(DpbNodes) /\ Len(x.dlt) \in Nat
    BY DEF Lists
  <1>1. DOMAIN x.nodes = 1 .. Len(x.nodes) /\ Len(x.nodes) \in Nat
        /\ \A i \in 1 .. Len(x.nodes) : x.nodes[i] \in DpbNodes
    BY <1>0
  <1>2. {i \in DOMAIN x.nodes : ~x.nodes[i].nonExisting}
          = {i \in 1 .. Len(x.nodes) : x.nodes[i] \in Reals}
    BY <1>1 DEF Reals
  <1>3. RealCount(x) = Count(x.nodes, Reals)
    BY <1>2 DEF RealCount, Occurrences, Count
  <1>4. Count(x.nodes, Reals) \in 0 .. Len(x.nodes)
    BY <1>0, CountIs
  <1> QED BY <1>0, <1>1, <1>3, <1>4 DEF Tally

LEMMA StoredSelf ==
  ASSUME NEW x, Lists(x), NEW y, y.nodes = x.nodes, y.dlt = x.dlt
  PROVE  Stored(x, y, {}, 0)
  <1>1. Len(x.dlt) \in Nat /\ Tally(x) \in Nat
    BY TallyIs
  <1>2. \A i \in 1 .. Len(y.dlt) : ~(i > Len(x.dlt))
    BY <1>1
  <1>3. Tally(y) = Tally(x) /\ NodeMvs(y) = NodeMvs(x)
    BY DEF Tally, RealCount, NodeMvs
  <1> QED BY <1>1, <1>2, <1>3 DEF Stored

LEMMA StoredTrans ==
  ASSUME NEW x, Lists(x), NEW y, Lists(y), NEW z, Lists(z),
         Stored(x, y, {}, 0), Stored(y, z, {}, 0)
  PROVE  Stored(x, z, {}, 0)
  <1>1. /\ Len(x.dlt) \in Nat /\ Len(y.dlt) \in Nat /\ Len(z.dlt) \in Nat
        /\ Tally(x) \in Nat /\ Tally(y) \in Nat /\ Tally(z) \in Nat
    BY TallyIs
  <1>2. Len(x.dlt) <= Len(y.dlt) /\ Len(y.dlt) <= Len(z.dlt) /\ Tally(z) <= Tally(x) + 0
    BY <1>1 DEF Stored
  <1>3. ASSUME NEW i \in 1 .. Len(x.dlt) PROVE z.dlt[i] = x.dlt[i]
    <2>1. i \in 1 .. Len(y.dlt)
      BY <1>1, <1>2
    <2> QED BY <2>1 DEF Stored
  <1>4. ASSUME NEW i \in 1 .. Len(z.dlt), i > Len(x.dlt) PROVE z.dlt[i][2] \in NodeMvs(x)
    <2>1. CASE i > Len(y.dlt)
      BY <2>1 DEF Stored
    <2>2. CASE ~(i > Len(y.dlt))
      <3>1. i \in 1 .. Len(y.dlt)
        BY <2>2, <1>1
      <3> QED BY <3>1, <1>4 DEF Stored
    <2> QED BY <2>1, <2>2
  <1> QED BY <1>1, <1>2, <1>3, <1>4 DEF Stored

LEMMA ThinnedSelf ==
  ASSUME NEW x, x \in PictMngrs
  PROVE  Thinned(x, x)
  <1>1. Lists(x) /\ Len(x.nodes) \in Nat /\ Len(x.disp) \in Nat
    BY MngrTypes
  <1>2. RefCount(x) \in Nat
    BY <1>1, RefCountIs
  <1>3. FromNodes(x, x)
    BY DEF FromNodes, SameNode
  <1>4. \A i \in 1 .. Len(x.disp) : ~(i > Len(x.disp))
    BY <1>1
  <1>5. Queued(x, x) /\ Kept(x, x) /\ Ordered(x, x) /\ Steady(x, x)
    BY <1>1, <1>4 DEF Queued, Kept, Ordered, Steady
  <1>6. Stored(x, x, {}, 0)
    BY <1>1, StoredSelf
  <1> QED BY <1>1, <1>2, <1>3, <1>5, <1>6 DEF Thinned

LEMMA FromTrans ==
  ASSUME NEW x, NEW y, NEW z, FromNodes(x, y), FromNodes(y, z)
  PROVE  FromNodes(x, z)
  <1> SUFFICES ASSUME NEW i \in 1 .. Len(z.nodes)
               PROVE \E j \in 1 .. Len(x.nodes) : SameNode(x.nodes[j], z.nodes[i])
    BY DEF FromNodes
  <1>1. PICK k \in 1 .. Len(y.nodes) : SameNode(y.nodes[k], z.nodes[i])
    BY DEF FromNodes
  <1>2. PICK j \in 1 .. Len(x.nodes) : SameNode(x.nodes[j], y.nodes[k])
    BY DEF FromNodes
  <1>3. SameNode(x.nodes[j], z.nodes[i])
    BY <1>1, <1>2 DEF SameNode
  <1> QED BY <1>3

\* A picture to be output in y was to be output in x.
LEMMA FromOutput ==
  ASSUME NEW x, NEW y, FromNodes(x, y), NEW s, ToBeOutput(y, s)
  PROVE  ToBeOutput(x, s)
  <1>1. PICK i \in 1 .. Len(y.nodes) : y.nodes[i].out /\ y.nodes[i].frm = s
    BY DEF ToBeOutput
  <1>2. PICK j \in 1 .. Len(x.nodes) : SameNode(x.nodes[j], y.nodes[i])
    BY DEF FromNodes
  <1> QED BY <1>1, <1>2 DEF SameNode, ToBeOutput

\* The node of a picture that exists is the only one on its slot.
LEMMA OneNode ==
  ASSUME NEW x, NodesWhole(x), NEW k \in 1 .. Len(x.nodes), x.nodes[k].out,
         NEW j \in 1 .. Len(x.nodes), x.nodes[j].frm = x.nodes[k].frm
  PROVE  j = k /\ ~x.nodes[k].nonExisting /\ x.nodes[k].frm \in Slots
  <1>1. ~x.nodes[k].nonExisting
    BY DEF NodesWhole
  <1> QED BY <1>1 DEF NodesWhole

LEMMA SoonerStays ==
  ASSUME NEW x, NEW y, NodesWhole(x), FromNodes(x, y), NEW s, NEW t, Sooner(x, s, t),
         ToBeOutput(y, s), ToBeOutput(y, t)
  PROVE  Sooner(y, s, t)
  <1>1. PICK k \in 1 .. Len(x.nodes), l \in 1 .. Len(x.nodes) :
          /\ x.nodes[k].out /\ x.nodes[k].frm = s
          /\ x.nodes[l].out /\ x.nodes[l].frm = t
          /\ x.nodes[k].poc < x.nodes[l].poc
    BY DEF Sooner
  <1>2. PICK a \in 1 .. Len(y.nodes) : y.nodes[a].out /\ y.nodes[a].frm = s
    BY DEF ToBeOutput
  <1>3. PICK b \in 1 .. Len(y.nodes) : y.nodes[b].out /\ y.nodes[b].frm = t
    BY DEF ToBeOutput
  <1>4. y.nodes[a].poc = x.nodes[k].poc
    <2>1. PICK j \in 1 .. Len(x.nodes) : SameNode(x.nodes[j], y.nodes[a])
      BY DEF FromNodes
    <2>2. j = k
      BY <1>1, <1>2, <2>1, OneNode DEF SameNode
    <2> QED BY <2>1, <2>2 DEF SameNode
  <1>5. y.nodes[b].poc = x.nodes[l].poc
    <2>1. PICK j \in 1 .. Len(x.nodes) : SameNode(x.nodes[j], y.nodes[b])
      BY DEF FromNodes
    <2>2. j = l
      BY <1>1, <1>3, <2>1, OneNode DEF SameNode
    <2> QED BY <2>1, <2>2 DEF SameNode
  <1> QED BY <1>1, <1>2, <1>3, <1>4, <1>5 DEF Sooner

LEMMA QueuedTrans ==
  ASSUME NEW x \in PictMngrs, NEW y \in PictMngrs, NEW z \in PictMngrs,
         FromNodes(x, y), Queued(x, y), Queued(y, z)
  PROVE  Queued(x, z)
  <1>1. Len(x.disp) \in Nat /\ Len(y.disp) \in Nat /\ Len(z.disp) \in Nat
    BY MngrTypes
  <1>2. Len(x.disp) <= Len(z.disp)
    BY <1>1 DEF Queued
  <1>3. ASSUME NEW i \in 1 .. Len(x.disp) PROVE z.disp[i] = x.disp[i]
    <2>1. i \in 1 .. Len(y.disp)
      BY <1>1 DEF Queued
    <2> QED BY <2>1 DEF Queued
  <1>4. ASSUME NEW i \in 1 .. Len(z.disp), i > Len(x.disp) PROVE ToBeOutput(x, z.disp[i])
    <2>1. CASE i > Len(y.disp)
      <3>1. ToBeOutput(y, z.disp[i])
        BY <2>1 DEF Queued
      <3> QED BY <3>1, FromOutput
    <2>2. CASE ~(i > Len(y.disp))
      <3>1. i \in 1 .. Len(y.disp)
        BY <2>2, <1>1
      <3> QED BY <3>1, <1>4 DEF Queued
    <2> QED BY <2>1, <2>2
  <1> QED BY <1>2, <1>3, <1>4 DEF Queued

LEMMA KeptTrans ==
  ASSUME NEW x \in PictMngrs, NEW y \in PictMngrs, NEW z \in PictMngrs,
         Queued(x, y), Queued(y, z), Kept(x, y), Kept(y, z)
  PROVE  Kept(x, z)
  <1>1. Len(x.disp) \in Nat /\ Len(y.disp) \in Nat /\ Len(z.disp) \in Nat
    BY MngrTypes
  <1> SUFFICES ASSUME NEW s, ToBeOutput(x, s), ~ToBeOutput(z, s)
               PROVE \E i \in 1 .. Len(z.disp) : i > Len(x.disp) /\ z.disp[i] = s
    BY DEF Kept
  <1>2. CASE ToBeOutput(y, s)
    <2>1. PICK i \in 1 .. Len(z.disp) : i > Len(y.disp) /\ z.disp[i] = s
      BY <1>2 DEF Kept
    <2>2. i > Len(x.disp)
      BY <2>1, <1>1 DEF Queued
    <2> QED BY <2>1, <2>2
  <1>3. CASE ~ToBeOutput(y, s)
    <2>1. PICK i \in 1 .. Len(y.disp) : i > Len(x.disp) /\ y.disp[i] = s
      BY <1>3 DEF Kept
    <2>2. i \in 1 .. Len(z.disp) /\ z.disp[i] = s
      BY <2>1, <1>1 DEF Queued
    <2> QED BY <2>1, <2>2
  <1> QED BY <1>2, <1>3

LEMMA OrderedTrans ==
  ASSUME NEW x \in PictMngrs, NEW y \in PictMngrs, NEW z \in PictMngrs, NodesWhole(x),
         FromNodes(x, y), Queued(x, y), Queued(y, z), Kept(x, y), Ordered(x, y), Ordered(y, z)
  PROVE  Ordered(x, z)
  <1>1. Len(x.disp) \in Nat /\ Len(y.disp) \in Nat /\ Len(z.disp) \in Nat
    BY MngrTypes
  <1> SUFFICES ASSUME NEW s, NEW t, Sooner(x, s, t), NEW i \in 1 .. Len(z.disp),
                      i > Len(x.disp), z.disp[i] = t
               PROVE \E j \in 1 .. Len(z.disp) : j > Len(x.disp) /\ j < i /\ z.disp[j] = s
    BY DEF Ordered
  <1>2. \A j \in 1 .. Len(y.disp) : j \in 1 .. Len(z.disp) /\ z.disp[j] = y.disp[j]
    BY <1>1 DEF Queued
  <1>3. CASE ~(i > Len(y.disp))
    <2>1. i \in 1 .. Len(y.disp) /\ y.disp[i] = t
      BY <1>1, <1>2, <1>3
    <2>2. PICK j \in 1 .. Len(y.disp) : j > Len(x.disp) /\ j < i /\ y.disp[j] = s
      BY <2>1 DEF Ordered
    <2> QED BY <2>2, <1>2
  <1>4. CASE i > Len(y.disp)
    <2>1. ToBeOutput(y, t)
      BY <1>4 DEF Queued
    <2>2. CASE ToBeOutput(y, s)
      <3>1. Sooner(y, s, t)
        BY <2>1, <2>2, SoonerStays
      <3>2. PICK j \in 1 .. Len(z.disp) : j > Len(y.disp) /\ j < i /\ z.disp[j] = s
        BY <3>1, <1>4 DEF Ordered
      <3>3. j > Len(x.disp)
        BY <3>2, <1>1 DEF Queued
      <3> QED BY <3>2, <3>3
    <2>3. CASE ~ToBeOutput(y, s)
      <3>1. ToBeOutput(x, s)
        BY DEF Sooner, ToBeOutput
      <3>2. PICK j \in 1 .. Len(y.disp) : j > Len(x.disp) /\ y.disp[j] = s
        BY <2>3, <3>1 DEF Kept
      <3>3. j < i
        BY <1>1, <1>4
      <3> QED BY <3>2, <3>3, <1>2
    <2> QED BY <2>2, <2>3
  <1> QED BY <1>3, <1>4

LEMMA ThinnedTrans ==
  ASSUME NEW x \in PictMngrs, NEW y \in PictMngrs, NEW z \in PictMngrs, NodesWhole(x),
         Thinned(x, y), Thinned(y, z)
  PROVE  Thinned(x, z)
  <1>1. FromNodes(x, z)
    BY FromTrans DEF Thinned
  <1>2. Queued(x, z)
    BY QueuedTrans DEF Thinned
  <1>3. Kept(x, z)
    BY KeptTrans DEF Thinned
  <1>4. Ordered(x, z)
    BY OrderedTrans DEF Thinned
  <1>5. Steady(x, z)
    <2>1. \A s : ~ToBeOutput(x, s) => ~ToBeOutput(y, s)
      BY FromOutput DEF Thinned
    <2>2. Steady(x, y) /\ Steady(y, z)
      BY DEF Thinned
    <2> QED BY <2>1, <2>2 DEF Steady
  <1>6. Len(z.nodes) <= Len(x.nodes) /\ RefCount(z) <= RefCount(x)
    <2>1. Lists(x) /\ Lists(y) /\ Lists(z)
      BY MngrTypes
    <2>2. /\ RefCount(x) \in Nat /\ RefCount(y) \in Nat /\ RefCount(z) \in Nat
          /\ Len(x.nodes) \in Nat /\ Len(y.nodes) \in Nat /\ Len(z.nodes) \in Nat
      BY <2>1, RefCountIs
    <2> QED BY <2>2 DEF Thinned
  <1>7. Stored(x, z, {}, 0)
    <2>1. Lists(x) /\ Lists(y) /\ Lists(z) /\ Stored(x, y, {}, 0) /\ Stored(y, z, {}, 0)
      BY MngrTypes DEF Thinned
    <2> QED BY <2>1, StoredTrans
  <1> QED BY <1>1, <1>2, <1>3, <1>4, <1>5, <1>6, <1>7 DEF Thinned
-----------------------------------------------------------------------------
(* A picture goes to the display list *)

\* The node in place k, on slot s, is output.
ShownNode(x, y, k, s) ==
    /\ k \in 1 .. Len(x.nodes) /\ x.nodes[k].out /\ x.nodes[k].frm = s /\ s \in Slots
    /\ ~x.nodes[k].nonExisting
    /\ y.nodes \in Seq(DpbNodes) /\ Len(y.nodes) = Len(x.nodes)
    /\ \A i \in 1 .. Len(x.nodes) : i # k => y.nodes[i] = x.nodes[i]
    /\ y.nodes[k] = [x.nodes[k] EXCEPT !.out = FALSE]
    /\ y.disp = Append(x.disp, s) /\ y.dlt = x.dlt /\ y.status = x.status /\ y.mv = x.mv
    /\ y.pool.buf = x.pool.buf /\ y.pool.decommitted = x.pool.decommitted
    /\ y.pool.out = [x.pool.out EXCEPT ![s] = TRUE]
    /\ PoolInv(y.pool) /\ y \in PictMngrs
    /\ \A t \in Slots : RefsOn(y.pool, t) = RefsOn(x.pool, t) + One(t = s)

LEMMA OutputNodeIs ==
  ASSUME NEW x, NEW frm, NEW mv, NEW user, NEW shown, Users(frm, mv),
         MngrInv(x, frm, mv, user, shown), NEW n, HasNode(x, n), NEW y, y = OutputNode(x, n)
  PROVE  \/ y = x /\ ~NodeOf(x, n).out
         \/ ShownNode(x, y, IndexOf(x, n), NodeOf(x, n).frm)
  <1> DEFINE k == IndexOf(x, n)
             s == x.nodes[k].frm
             p == x.pool
  <1>1. /\ x \in PictMngrs /\ PoolInv(x.pool) /\ MvInv(x.mv)
        /\ NodesWhole(x) /\ CountsExact(x, frm, mv) /\ OutputWhole(x, user, shown)
    BY DEF MngrInv
  <1>2. /\ k \in 1 .. Len(x.nodes) /\ NodeOf(x, n) = x.nodes[k] /\ x.nodes[k] \in DpbNodes
    BY <1>1, IndexIs
  <1>3. CASE ~x.nodes[k].out
    BY <1>2, <1>3 DEF OutputNode
  <1>4. CASE x.nodes[k].out
    <2>1. ~x.nodes[k].nonExisting /\ s \in Slots
      BY <1>1, <1>2, <1>4 DEF NodesWhole
    <2> DEFINE r1 == IncrementBufID(p, s)
               r == OutputBufID(r1, s)
               q == FifoSlots(r1)
               nn == [x.nodes EXCEPT ![k].out = FALSE]
    <2>2. y = [[x EXCEPT !.nodes[k].out = FALSE]
                  EXCEPT !.disp = Append(@, s), !.pool = OutputBufID(IncrementBufID(@, s), s)]
      BY <1>2, <1>4, <2>1 DEF OutputNode
    <2>3. /\ y.nodes = nn /\ y.disp = Append(x.disp, s) /\ y.dlt = x.dlt
          /\ y.status = x.status /\ y.mv = x.mv /\ y.pool = r
          /\ y = [pool |-> y.pool, mv |-> y.mv, nodes |-> y.nodes, disp |-> y.disp,
                  status |-> y.status, dlt |-> y.dlt]
      <3> HIDE DEF k, s
      <3> QED BY <1>1, <2>2 DEF PictMngrs
    <2>4. RefsOn(p, s) >= 1
      <3>1. Lists(x)
        BY <1>1, MngrTypes
      <3>2. ~NoneHeld(x, s)
        BY <1>2 DEF NoneHeld
      <3>3. FrmHeld(x, s) \in Nat /\ FrmHeld(x, s) # 0
        BY <3>1, <3>2, HeldNone
      <3>4. RefsOn(p, s) = frm[s] + FrmHeld(x, s) /\ frm[s] \in Nat
        BY <1>1, <2>1, CountsAre
      <3> QED BY <3>3, <3>4
    <2>6. ~p.out[s]
      BY <1>1, <1>2, <1>4, <2>1 DEF OutputWhole, ToBeOutput
    <2>7. /\ Whole(r1, q) /\ r1.buf = p.buf /\ r1.out = p.out
          /\ r1.decommitted = p.decommitted
          /\ \A t \in Slots : RefsOn(r1, t) = RefsOn(p, t) + One(t = s)
      <3> HIDE DEF s, p
      <3>1. PoolTaken(p, r1, s)
        BY <1>1, <2>1, <2>4, TakenIs DEF p
      <3> QED BY <3>1, PoolIsWhole DEF PoolTaken, q
    <2> HIDE DEF r1, q, s, p
    <2>8. RefsOn(r1, s) >= 1
      <3>1. One(s = s) = 1
        BY OneIs
      <3>2. RefsOn(p, s) \in Int
        <4>1. p \in FrmBufPools
          BY <1>1 DEF PoolInv, p
        <4> QED BY <4>1, <2>1 DEF RefsOn, FrmBufPools
      <3> QED BY <2>1, <2>4, <2>7, <3>1, <3>2
    <2>9. ~r1.out[s]
      BY <2>6, <2>7
    <2>10. /\ Whole(r, q) /\ r.buf = r1.buf /\ r.out = [r1.out EXCEPT ![s] = TRUE]
           /\ r.decommitted = r1.decommitted
           /\ \A t \in Slots : RefsOn(r, t) = RefsOn(r1, t)
      BY <2>1, <2>7, <2>8, <2>9, OutputIs
    <2> HIDE DEF r
    <2>11. PoolInv(r)
      BY <2>10, WholeIs
    <2>12. /\ nn \in Seq(DpbNodes) /\ Len(nn) = Len(x.nodes)
           /\ \A i \in 1 .. Len(x.nodes) : i # k => nn[i] = x.nodes[i]
           /\ nn[k] = [x.nodes[k] EXCEPT !.out = FALSE]
      <3>1. x.nodes \in Seq(DpbNodes)
        BY <1>1 DEF PictMngrs
      <3>2. [x.nodes[k] EXCEPT !.out = FALSE] \in DpbNodes
        BY <1>2 DEF DpbNodes
      <3> HIDE DEF k
      <3> QED BY <1>2, <3>1, <3>2
    <2> HIDE DEF nn
    <2>13. y \in PictMngrs
      <3>1. Append(x.disp, s) \in Seq(Slots)
        BY <1>1, <2>1 DEF PictMngrs
      <3>2. r \in FrmBufPools
        BY <2>11 DEF PoolInv
      <3> QED BY <1>1, <2>3, <2>12, <3>1, <3>2 DEF PictMngrs
    <2>14. ShownNode(x, y, k, s)
      <3> HIDE DEF k
      <3>1. x.nodes[k].frm = s
        BY DEF s
      <3> QED BY <1>2, <1>4, <2>1, <2>3, <2>7, <2>10, <2>11, <2>12, <2>13, <3>1 DEF ShownNode, p
    <2> QED BY <2>14, <1>2 DEF s
  <1> QED BY <1>2, <1>3, <1>4

LEMMA ShownInv ==
  ASSUME NEW x, NEW frm, NEW mv, NEW user, NEW shown, Users(frm, mv),
         MngrInv(x, frm, mv, user, shown), NEW y, NEW k, NEW s, ShownNode(x, y, k, s)
  PROVE  MngrInv(y, frm, mv, user, shown)
  <1>1. /\ x \in PictMngrs /\ PoolInv(x.pool) /\ MvInv(x.mv)
        /\ NodesWhole(x) /\ CountsExact(x, frm, mv) /\ OutputWhole(x, user, shown)
    BY DEF MngrInv
  <1>2. /\ k \in 1 .. Len(x.nodes) /\ x.nodes[k].out /\ x.nodes[k].frm = s /\ s \in Slots
        /\ ~x.nodes[k].nonExisting
        /\ y.nodes \in Seq(DpbNodes) /\ Len(y.nodes) = Len(x.nodes)
        /\ \A i \in 1 .. Len(x.nodes) : i # k => y.nodes[i] = x.nodes[i]
        /\ y.nodes[k] = [x.nodes[k] EXCEPT !.out = FALSE]
        /\ y.disp = Append(x.disp, s) /\ y.dlt = x.dlt /\ y.status = x.status /\ y.mv = x.mv
        /\ y.pool.buf = x.pool.buf /\ y.pool.decommitted = x.pool.decommitted
        /\ y.pool.out = [x.pool.out EXCEPT ![s] = TRUE]
        /\ PoolInv(y.pool) /\ y \in PictMngrs
        /\ \A t \in Slots : RefsOn(y.pool, t) = RefsOn(x.pool, t) + One(t = s)
    BY DEF ShownNode
  <1>3. /\ \A i \in 1 .. Len(x.nodes) : x.nodes[i] \in DpbNodes
        /\ Lists(x) /\ Lists(y) /\ Len(x.disp) \in Nat /\ x.disp \in Seq(Slots)
    BY <1>1, <1>2, MngrTypes DEF PictMngrs
  <1>4. \A i \in 1 .. Len(x.nodes) :
          /\ y.nodes[i].id = x.nodes[i].id /\ y.nodes[i].frm = x.nodes[i].frm
          /\ y.nodes[i].mv = x.nodes[i].mv /\ y.nodes[i].nonExisting = x.nodes[i].nonExisting
          /\ (y.nodes[i].out <=> x.nodes[i].out /\ i # k)
    <2> SUFFICES ASSUME NEW i \in 1 .. Len(x.nodes)
                 PROVE /\ y.nodes[i].id = x.nodes[i].id /\ y.nodes[i].frm = x.nodes[i].frm
                       /\ y.nodes[i].mv = x.nodes[i].mv
                       /\ y.nodes[i].nonExisting = x.nodes[i].nonExisting
                       /\ (y.nodes[i].out <=> x.nodes[i].out /\ i # k)
      OBVIOUS
    <2>1. x.nodes[i] \in DpbNodes
      BY <1>3
    <2> QED BY <1>2, <2>1 DEF DpbNodes
  <1>5. NodesWhole(y)
    <2>1. ASSUME NEW i \in 1 .. Len(y.nodes)
          PROVE  IF y.nodes[i].nonExisting
                 THEN y.nodes[i].frm = NoSlot /\ y.nodes[i].mv = NoMv /\ ~y.nodes[i].out
                 ELSE y.nodes[i].frm \in Slots /\ y.nodes[i].mv \in MvIDs
      BY <1>1, <1>2, <1>4 DEF NodesWhole
    <2>2. ASSUME NEW i \in 1 .. Len(y.nodes), NEW j \in 1 .. Len(y.nodes),
                 \/ y.nodes[i].id = y.nodes[j].id
                 \/ ~y.nodes[i].nonExisting /\ (\/ y.nodes[i].frm = y.nodes[j].frm
                                                \/ y.nodes[i].mv = y.nodes[j].mv)
          PROVE  i = j
      BY <2>2, <1>1, <1>2, <1>4 DEF NodesWhole
    <2> QED BY <2>1, <2>2 DEF NodesWhole
  <1>6. CountsExact(y, frm, mv)
    <2>1. ASSUME NEW t \in Slots PROVE RefsOn(y.pool, t) = frm[t] + FrmHeld(y, t)
      <3>1. Count(y.nodes, NodesOn(t)) = Count(x.nodes, NodesOn(t))
        <4>1. \A i \in 1 .. Len(x.nodes) : x.nodes[i] \in NodesOn(t) <=> y.nodes[i] \in NodesOn(t)
          BY <1>2, <1>3, <1>4 DEF NodesOn
        <4> QED BY <4>1, <1>2, CountSame
      <3>2. Count(y.disp, {t}) = Count(x.disp, {t}) + One(s \in {t})
        BY <1>2, <1>3, CountEnd
      <3>3. One(s \in {t}) = One(t = s) /\ One(t = s) \in {0, 1}
        BY DEF One
      <3>4. /\ FrmHeld(y, t) = Count(y.nodes, NodesOn(t)) + Count(y.dlt, PairsOn(t))
                               + Count(y.disp, {t})
            /\ FrmHeld(x, t) = Count(x.nodes, NodesOn(t)) + Count(x.dlt, PairsOn(t))
                               + Count(x.disp, {t})
            /\ Count(x.nodes, NodesOn(t)) \in Nat /\ Count(x.dlt, PairsOn(t)) \in Nat
            /\ Count(x.disp, {t}) \in Nat
        BY <1>3, FrmHeldIs
      <3>5. FrmHeld(y, t) = FrmHeld(x, t) + One(t = s)
        BY <1>2, <3>1, <3>2, <3>3, <3>4
      <3>6. RefsOn(x.pool, t) = frm[t] + FrmHeld(x, t) /\ frm[t] \in Nat /\ FrmHeld(x, t) \in Nat
        BY <1>1, CountsAre
      <3> QED BY <1>2, <3>3, <3>5, <3>6
    <2>2. ASSUME NEW m \in MvIDs PROVE y.mv.cnt[m] = mv[m] + MvHeld(y, m)
      <3>1. Count(y.nodes, NodesWith(m)) = Count(x.nodes, NodesWith(m))
        <4>1. \A i \in 1 .. Len(x.nodes) : x.nodes[i] \in NodesWith(m) <=> y.nodes[i] \in NodesWith(m)
          BY <1>2, <1>3, <1>4 DEF NodesWith
        <4> QED BY <4>1, <1>2, CountSame
      <3>2. MvHeld(y, m) = MvHeld(x, m)
        BY <1>2, <1>3, <3>1, MvHeldIs
      <3> QED BY <3>2, <1>1, <1>2 DEF CountsExact
    <2> QED BY <2>1, <2>2 DEF CountsExact
  <1>7. OutputWhole(y, user, shown)
    <2>1. \A t : ToBeOutput(y, t) <=> ToBeOutput(x, t) /\ t # s
      <3> SUFFICES ASSUME NEW t PROVE ToBeOutput(y, t) <=> ToBeOutput(x, t) /\ t # s
        OBVIOUS
      <3>1. ASSUME ToBeOutput(y, t) PROVE ToBeOutput(x, t) /\ t # s
        <4>1. PICK i \in 1 .. Len(y.nodes) : y.nodes[i].out /\ y.nodes[i].frm = t
          BY <3>1 DEF ToBeOutput
        <4>2. x.nodes[i].out /\ i # k /\ x.nodes[i].frm = t
          BY <4>1, <1>2, <1>4
        <4>3. t # s
          BY <4>2, <1>1, <1>2, <4>1, OneNode
        <4> QED BY <4>1, <4>2, <4>3, <1>2 DEF ToBeOutput
      <3>2. ASSUME ToBeOutput(x, t), t # s PROVE ToBeOutput(y, t)
        BY <3>2, <1>2, <1>4 DEF ToBeOutput
      <3> QED BY <3>1, <3>2
    <2>2. /\ Len(y.disp) = Len(x.disp) + 1
          /\ \A i \in 1 .. Len(x.disp) : y.disp[i] = x.disp[i]
          /\ y.disp[Len(x.disp) + 1] = s
          /\ \A i \in 1 .. Len(x.disp) : x.disp[i] \in Slots
      BY <1>2, <1>3, SeqEnd
    <2>3. \A t : InDisplay(y, t) <=> InDisplay(x, t) \/ t = s
      BY <1>3, <2>2, SMTT(30) DEF InDisplay
    <2>4. ToBeOutput(x, s)
      BY <1>2 DEF ToBeOutput
    <2>5. /\ shown => x.disp # <<>>
          /\ \A i, j \in 1 .. Len(x.disp) : x.disp[i] = x.disp[j] => i = j
          /\ \A i \in 1 .. Len(x.disp) : x.pool.out[x.disp[i]] \/ (i = 1 /\ shown)
          /\ \A t \in Slots :
                /\ ToBeOutput(x, t) => ~x.pool.out[t] /\ ~InDisplay(x, t)
                /\ x.status[t] # "notNeeded" <=> ToBeOutput(x, t) \/ InDisplay(x, t)
                /\ x.pool.buf[t] # NoBuf =>
                      (x.pool.buf[t] \in user <=>
                          x.pool.out[t] /\ (InDisplay(x, t) => shown /\ t = x.disp[1]))
          /\ \A b \in Bufs : b \in user \/ \E t \in Slots : x.pool.buf[t] = b
      BY <1>1 DEF OutputWhole
    <2>6. ~x.pool.out[s] /\ ~InDisplay(x, s)
      BY <2>4, <2>5, <1>2
    <2>7. /\ y.pool.out[s]
          /\ \A t \in Slots \ {s} : y.pool.out[t] = x.pool.out[t]
      <3>1. DOMAIN x.pool.out = Slots
        BY <1>1 DEF PictMngrs, FrmBufPools
      <3> QED BY <3>1, <1>2
    <2>8. shown => y.disp # <<>> /\ y.disp[1] = x.disp[1] /\ y.disp[1] # s
      <3> SUFFICES ASSUME shown PROVE y.disp # <<>> /\ y.disp[1] = x.disp[1] /\ y.disp[1] # s
        OBVIOUS
      <3>1. Len(x.disp) > 0
        <4>1. x.disp # <<>>
          BY <2>5
        <4> QED BY <4>1, <1>3
      <3>2. 1 \in 1 .. Len(x.disp) /\ Len(y.disp) # 0
        BY <3>1, <2>2, <1>3
      <3>3. x.disp[1] # s
        BY <3>2, <2>6 DEF InDisplay
      <3>4. y.disp # <<>>
        BY <3>2
      <3> QED BY <3>2, <3>3, <3>4, <2>2
    <2>9. ASSUME NEW i \in 1 .. Len(y.disp), NEW j \in 1 .. Len(y.disp), y.disp[i] = y.disp[j]
          PROVE  i = j
      <3>1. i \in 1 .. Len(x.disp) \/ i = Len(x.disp) + 1
        BY <2>2, <1>3
      <3>2. j \in 1 .. Len(x.disp) \/ j = Len(x.disp) + 1
        BY <2>2, <1>3
      <3> QED BY <3>1, <3>2, <2>9, <2>2, <2>5, <2>6 DEF InDisplay
    <2>10. ASSUME NEW i \in 1 .. Len(y.disp) PROVE y.pool.out[y.disp[i]] \/ (i = 1 /\ shown)
      <3>1. i \in 1 .. Len(x.disp) \/ i = Len(x.disp) + 1
        BY <2>2, <1>3
      <3> QED BY <3>1, <2>2, <2>5, <2>7
    <2>11. ASSUME NEW t \in Slots
           PROVE /\ ToBeOutput(y, t) => ~y.pool.out[t] /\ ~InDisplay(y, t)
                 /\ y.status[t] # "notNeeded" <=> ToBeOutput(y, t) \/ InDisplay(y, t)
                 /\ y.pool.buf[t] # NoBuf =>
                       (y.pool.buf[t] \in user <=>
                          y.pool.out[t] /\ (InDisplay(y, t) => shown /\ t = y.disp[1]))
      <3>1. CASE t = s
        <4>1. y.pool.buf[s] # NoBuf => y.pool.buf[s] \notin user
          BY <1>2, <2>5, <2>6
        <4> QED BY <3>1, <4>1, <1>2, <2>1, <2>3, <2>4, <2>5, <2>7, <2>8
      <3>2. CASE t # s
        BY <3>2, <1>2, <2>1, <2>3, <2>5, <2>7, <2>8
      <3> QED BY <3>1, <3>2
    <2>12. \A b \in Bufs : b \in user \/ \E t \in Slots : y.pool.buf[t] = b
      BY <1>2, <2>5
    <2> QED BY <2>8, <2>9, <2>10, <2>11, <2>12 DEF OutputWhole
  <1> QED BY <1>1, <1>2, <1>5, <1>6, <1>7 DEF MngrInv

\* The nodes of y are those of x, perhaps output since
SameNodes(x, y) ==
    /\ Len(y.nodes) = Len(x.nodes) /\ y.dlt = x.dlt
    /\ \A i \in 1 .. Len(x.nodes) :
          SameNode(x.nodes[i], y.nodes[i]) /\ y.nodes[i].marking = x.nodes[i].marking

\* No picture to be output comes before the node in place k
FirstOut(x, k) ==
    \A l \in 1 .. Len(x.nodes) : x.nodes[l].out => ~(x.nodes[l].poc < x.nodes[k].poc)

LEMMA ShownNodes ==
  ASSUME NEW x \in PictMngrs, NEW y, NEW k, NEW s, ShownNode(x, y, k, s)
  PROVE  /\ SameNodes(x, y)
         /\ \A i \in 1 .. Len(x.nodes) : y.nodes[i].out <=> x.nodes[i].out /\ i # k
  <1>1. /\ k \in 1 .. Len(x.nodes) /\ y.dlt = x.dlt
        /\ y.nodes \in Seq(DpbNodes) /\ Len(y.nodes) = Len(x.nodes) /\ x.nodes[k].out
        /\ \A i \in 1 .. Len(x.nodes) : i # k => y.nodes[i] = x.nodes[i]
        /\ y.nodes[k] = [x.nodes[k] EXCEPT !.out = FALSE]
    BY DEF ShownNode
  <1>2. \A i \in 1 .. Len(x.nodes) : x.nodes[i] \in DpbNodes
    BY MngrTypes
  <1>3. ASSUME NEW i \in 1 .. Len(x.nodes)
        PROVE  /\ SameNode(x.nodes[i], y.nodes[i]) /\ y.nodes[i].marking = x.nodes[i].marking
               /\ (y.nodes[i].out <=> x.nodes[i].out /\ i # k)
    <2>1. x.nodes[i] \in DpbNodes
      BY <1>2
    <2>2. CASE i = k
      BY <1>1, <2>1, <2>2 DEF SameNode, DpbNodes, IsRef
    <2>3. CASE i # k
      BY <1>1, <2>1, <2>3 DEF SameNode, DpbNodes, IsRef
    <2> QED BY <2>2, <2>3
  <1> QED BY <1>1, <1>3 DEF SameNodes

LEMMA SameRefs ==
  ASSUME NEW x \in PictMngrs, NEW y \in PictMngrs, SameNodes(x, y)
  PROVE  RefCount(y) = RefCount(x)
  <1>1. /\ \A i \in 1 .. Len(x.nodes) : x.nodes[i] \in DpbNodes
        /\ \A i \in 1 .. Len(y.nodes) : y.nodes[i] \in DpbNodes
        /\ Lists(x) /\ Lists(y)
    BY MngrTypes
  <1>2. Len(y.nodes) = Len(x.nodes)
        /\ \A i \in 1 .. Len(x.nodes) : y.nodes[i].marking = x.nodes[i].marking
    BY DEF SameNodes
  <1>3. \A i \in 1 .. Len(x.nodes) : x.nodes[i] \in Refs <=> y.nodes[i] \in Refs
    BY <1>1, <1>2 DEF Refs, IsRef
  <1>4. Count(y.nodes, Refs) = Count(x.nodes, Refs)
    BY <1>2, <1>3, CountSame
  <1> QED BY <1>1, <1>4, RefCountIs

LEMMA SameTrans ==
  ASSUME NEW x, NEW y, NEW z, SameNodes(x, y), SameNodes(y, z)
  PROVE  SameNodes(x, z)
  BY DEF SameNodes, SameNode

LEMMA SameStored ==
  ASSUME NEW x \in PictMngrs, NEW y \in PictMngrs, Len(y.nodes) = Len(x.nodes), y.dlt = x.dlt,
         \A i \in 1 .. Len(x.nodes) :
            y.nodes[i].mv = x.nodes[i].mv /\ y.nodes[i].nonExisting = x.nodes[i].nonExisting
  PROVE  Stored(x, y, {}, 0)
  <1>1. /\ \A i \in 1 .. Len(x.nodes) : x.nodes[i] \in DpbNodes
        /\ \A i \in 1 .. Len(y.nodes) : y.nodes[i] \in DpbNodes
        /\ Lists(x) /\ Lists(y)
    BY MngrTypes
  <1>2. \A i \in 1 .. Len(x.nodes) : x.nodes[i] \in Reals <=> y.nodes[i] \in Reals
    BY <1>1 DEF Reals
  <1>3. Count(y.nodes, Reals) = Count(x.nodes, Reals)
    BY <1>2, CountSame
  <1>4. /\ Tally(y) = Tally(x) /\ Tally(x) \in Nat /\ Len(x.dlt) \in Nat
    BY <1>1, <1>3, TallyIs DEF Tally
  <1>5. NodeMvs(y) = NodeMvs(x)
    BY DEF NodeMvs
  <1>6. \A i \in 1 .. Len(y.dlt) : ~(i > Len(x.dlt))
    BY <1>4
  <1> QED BY <1>4, <1>5, <1>6 DEF Stored

LEMMA ShownThinned ==
  ASSUME NEW x, NEW frm, NEW mv, NEW user, NEW shown,
         MngrInv(x, frm, mv, user, shown), NEW y, NEW k, NEW s, ShownNode(x, y, k, s),
         FirstOut(x, k)
  PROVE  Thinned(x, y)
  <1>1. x \in PictMngrs /\ y \in PictMngrs /\ NodesWhole(x)
    BY DEF MngrInv, ShownNode
  <1>2. /\ SameNodes(x, y) /\ Len(y.nodes) = Len(x.nodes) /\ RefCount(y) = RefCount(x)
        /\ \A i \in 1 .. Len(x.nodes) : y.nodes[i].out <=> x.nodes[i].out /\ i # k
        /\ \A i \in 1 .. Len(x.nodes) : SameNode(x.nodes[i], y.nodes[i])
    BY <1>1, ShownNodes, SameRefs DEF SameNodes
  <1>3. /\ k \in 1 .. Len(x.nodes) /\ x.nodes[k].out /\ x.nodes[k].frm = s /\ s \in Slots
        /\ y.disp = Append(x.disp, s) /\ y.dlt = x.dlt /\ y.status = x.status /\ y.mv = x.mv
        /\ y.pool.buf = x.pool.buf /\ y.pool.decommitted = x.pool.decommitted
        /\ y.pool.out = [x.pool.out EXCEPT ![s] = TRUE]
    BY DEF ShownNode
  <1>4. /\ Len(y.disp) = Len(x.disp) + 1 /\ Len(x.disp) \in Nat
        /\ \A i \in 1 .. Len(x.disp) : y.disp[i] = x.disp[i]
        /\ y.disp[Len(x.disp) + 1] = s
    <2>1. x.disp \in Seq(Slots)
      BY <1>1 DEF PictMngrs
    <2> QED BY <2>1, <1>3, SeqEnd
  <1>a. Lists(x) /\ Lists(y)
    BY <1>1, MngrTypes
  <1>b. RefCount(x) \in Nat /\ Len(x.nodes) \in Nat
    BY <1>a, RefCountIs
  <1>5. FromNodes(x, y)
    BY <1>2 DEF FromNodes
  <1>6. ToBeOutput(x, s)
    BY <1>3 DEF ToBeOutput
  <1>7. \A i \in 1 .. Len(y.disp) : i > Len(x.disp) => i = Len(x.disp) + 1 /\ y.disp[i] = s
    BY <1>4
  <1>8. Queued(x, y)
    BY <1>4, <1>6, <1>7 DEF Queued
  <1>9. Kept(x, y)
    <2> SUFFICES ASSUME NEW t, ToBeOutput(x, t), ~ToBeOutput(y, t)
                 PROVE \E i \in 1 .. Len(y.disp) : i > Len(x.disp) /\ y.disp[i] = t
      BY DEF Kept
    <2>1. PICK i \in 1 .. Len(x.nodes) : x.nodes[i].out /\ x.nodes[i].frm = t
      BY DEF ToBeOutput
    <2>2. i = k
      BY <1>2, <2>1 DEF ToBeOutput, SameNode
    <2>3. t = s
      BY <2>1, <2>2, <1>3
    <2>4. Len(x.disp) + 1 \in 1 .. Len(y.disp) /\ Len(x.disp) + 1 > Len(x.disp)
      BY <1>4
    <2> QED BY <2>3, <2>4, <1>4
  <1>10. Ordered(x, y)
    <2> SUFFICES ASSUME NEW r, NEW t, Sooner(x, r, t), NEW i \in 1 .. Len(y.disp),
                        i > Len(x.disp), y.disp[i] = t
                 PROVE FALSE
      BY DEF Ordered
    <2>1. PICK a \in 1 .. Len(x.nodes), b \in 1 .. Len(x.nodes) :
            /\ x.nodes[a].out /\ x.nodes[a].frm = r
            /\ x.nodes[b].out /\ x.nodes[b].frm = t
            /\ x.nodes[a].poc < x.nodes[b].poc
      BY DEF Sooner
    <2>2. t = s
      BY <1>7
    <2>3. b = k
      BY <2>1, <2>2, <1>1, <1>3, OneNode
    <2> QED BY <2>1, <2>3 DEF FirstOut
  <1>11. Steady(x, y)
    <2>1. ASSUME NEW t \in Slots, ~ToBeOutput(x, t) PROVE y.pool.out[t] = x.pool.out[t]
      <3>1. t # s
        BY <2>1, <1>6
      <3>2. DOMAIN x.pool.out = Slots
        BY <1>1 DEF PictMngrs, FrmBufPools
      <3> QED BY <3>1, <3>2, <1>3
    <2>2. ASSUME NEW t \in Slots, NoneHeld(x, t) PROVE NoneHeld(y, t)
      <3>1. t # s
        BY <2>2, <1>3 DEF NoneHeld
      <3>2. \A i \in 1 .. Len(y.disp) : i \in 1 .. Len(x.disp) \/ i = Len(x.disp) + 1
        BY <1>4
      <3>3. \A i \in 1 .. Len(y.disp) : y.disp[i] # t
        BY <2>2, <3>1, <3>2, <1>4 DEF NoneHeld
      <3>4. \A i \in 1 .. Len(y.nodes) : y.nodes[i].frm # t
        BY <2>2, <1>2 DEF NoneHeld, SameNode
      <3> QED BY <2>2, <3>3, <3>4, <1>3 DEF NoneHeld
    <2>3. ASSUME NEW m \in MvIDs, NoMvHeld(x, m) PROVE NoMvHeld(y, m)
      <3>4. \A i \in 1 .. Len(y.nodes) : y.nodes[i].mv # m
        BY <2>3, <1>2 DEF NoMvHeld, SameNode
      <3> QED BY <2>3, <3>4, <1>3 DEF NoMvHeld
    <2> QED BY <2>1, <2>2, <2>3, <1>3 DEF Steady
  <1>12. Stored(x, y, {}, 0)
    BY <1>1, <1>2, <1>3, SameStored DEF SameNode
  <1> QED BY <1>2, <1>b, <1>5, <1>8, <1>9, <1>10, <1>11, <1>12 DEF Thinned
-----------------------------------------------------------------------------
(* A node leaves the DPB *)

\* The node in place k is removed.
RemovedNode(x, y, k) ==
    /\ k \in 1 .. Len(x.nodes)
    /\ y.nodes \in Seq(DpbNodes) /\ Len(y.nodes) = Len(x.nodes) - 1
    /\ \A i \in 1 .. Len(x.nodes) - 1 : y.nodes[i] = x.nodes[IF i < k THEN i ELSE i + 1]
    /\ x.nodes[k].nonExisting => y.dlt = x.dlt
    /\ ~x.nodes[k].nonExisting =>
          y.dlt = Append(x.dlt, <<x.nodes[k].frm, x.nodes[k].mv>>)
    /\ y.disp = x.disp /\ y.status = x.status /\ y.mv = x.mv /\ y.pool = x.pool
    /\ y \in PictMngrs

LEMMA RemoveNodeIs ==
  ASSUME NEW x \in PictMngrs, NodesWhole(x), NEW n, HasNode(x, n), NEW y, y = RemoveNode(x, n)
  PROVE  RemovedNode(x, y, IndexOf(x, n))
  <1> DEFINE k == IndexOf(x, n)
             nn == RemoveAt(x.nodes, k)
             dd == IF x.nodes[k].nonExisting THEN x.dlt
                   ELSE Append(x.dlt, <<x.nodes[k].frm, x.nodes[k].mv>>)
  <1>1. k \in 1 .. Len(x.nodes) /\ NodeOf(x, n) = x.nodes[k] /\ x.nodes[k] \in DpbNodes
    BY IndexIs
  <1>2. /\ y.nodes = nn /\ y.dlt = dd
        /\ y.disp = x.disp /\ y.status = x.status /\ y.mv = x.mv /\ y.pool = x.pool
        /\ y = [pool |-> y.pool, mv |-> y.mv, nodes |-> y.nodes, disp |-> y.disp,
                status |-> y.status, dlt |-> y.dlt]
    <2> HIDE DEF k
    <2>1. y = [x EXCEPT !.nodes = RemoveAt(@, k),
                        !.dlt = IF x.nodes[k].nonExisting THEN @
                                ELSE Append(@, <<x.nodes[k].frm, x.nodes[k].mv>>)]
      BY <1>1 DEF RemoveNode, k
    <2> QED BY <2>1 DEF PictMngrs
  <1>3. /\ nn \in Seq(DpbNodes) /\ Len(nn) = Len(x.nodes) - 1
        /\ \A i \in 1 .. Len(x.nodes) - 1 : nn[i] = x.nodes[IF i < k THEN i ELSE i + 1]
    <2>1. x.nodes \in Seq(DpbNodes)
      BY DEF PictMngrs
    <2> HIDE DEF k
    <2> QED BY <1>1, <2>1, SeqWithout
  <1>4. dd \in Seq(Slots \X MvIDs)
    <2>1. ~x.nodes[k].nonExisting => x.nodes[k].frm \in Slots /\ x.nodes[k].mv \in MvIDs
      BY <1>1 DEF NodesWhole
    <2>2. x.dlt \in Seq(Slots \X MvIDs)
      BY DEF PictMngrs
    <2> HIDE DEF k
    <2> QED BY <2>1, <2>2
  <1>5. y \in PictMngrs
    <2> HIDE DEF k, nn, dd
    <2> QED BY <1>2, <1>3, <1>4 DEF PictMngrs
  <1>6. /\ x.nodes[k].nonExisting => dd = x.dlt
        /\ ~x.nodes[k].nonExisting => dd = Append(x.dlt, <<x.nodes[k].frm, x.nodes[k].mv>>)
    OBVIOUS
  <1> HIDE DEF k, nn, dd
  <1> QED BY <1>1, <1>2, <1>3, <1>5, <1>6 DEF RemovedNode, k

LEMMA RemovedPlaces ==
  ASSUME NEW x \in PictMngrs, NEW y, NEW k, RemovedNode(x, y, k)
  PROVE  \E f \in [1 .. Len(y.nodes) -> 1 .. Len(x.nodes)] :
           /\ \A i \in 1 .. Len(y.nodes) : f[i] # k /\ y.nodes[i] = x.nodes[f[i]]
           /\ \A i, j \in 1 .. Len(y.nodes) : f[i] = f[j] => i = j
           /\ \A j \in 1 .. Len(x.nodes) : j # k => \E i \in 1 .. Len(y.nodes) : f[i] = j
  <1>1. /\ k \in 1 .. Len(x.nodes) /\ Len(y.nodes) = Len(x.nodes) - 1
        /\ \A i \in 1 .. Len(x.nodes) - 1 : y.nodes[i] = x.nodes[IF i < k THEN i ELSE i + 1]
    BY DEF RemovedNode
  <1>2. Len(x.nodes) \in Nat
    BY MngrTypes
  <1> DEFINE f == [i \in 1 .. Len(y.nodes) |-> IF i < k THEN i ELSE i + 1]
  <1>3. f \in [1 .. Len(y.nodes) -> 1 .. Len(x.nodes)]
    BY <1>1, <1>2
  <1>4. \A i \in 1 .. Len(y.nodes) : f[i] # k /\ y.nodes[i] = x.nodes[f[i]]
    BY <1>1, <1>2
  <1>5. \A i, j \in 1 .. Len(y.nodes) : f[i] = f[j] => i = j
    BY <1>1, <1>2
  <1>6. ASSUME NEW j \in 1 .. Len(x.nodes), j # k PROVE \E i \in 1 .. Len(y.nodes) : f[i] = j
    <2>1. CASE j < k
      <3>1. j \in 1 .. Len(y.nodes) /\ f[j] = j
        BY <2>1, <1>1, <1>2
      <3> QED BY <3>1
    <2>2. CASE ~(j < k)
      <3>1. j - 1 \in 1 .. Len(y.nodes) /\ ~(j - 1 < k) /\ (j - 1) + 1 = j
        BY <2>2, <1>1, <1>2, <1>6
      <3>2. f[j - 1] = j
        BY <3>1
      <3> QED BY <3>1, <3>2
    <2> QED BY <2>1, <2>2
  <1> HIDE DEF f
  <1> QED BY <1>3, <1>4, <1>5, <1>6

\* The nodes that stay keep their identifier.
LEMMA RemovedIds ==
  ASSUME NEW x \in PictMngrs, NodesWhole(x), NEW y, NEW n, HasNode(x, n),
         RemovedNode(x, y, IndexOf(x, n)), NodesWhole(y)
  PROVE  \A m : /\ HasNode(y, m) <=> HasNode(x, m) /\ m # n
                /\ HasNode(y, m) => NodeOf(y, m) = NodeOf(x, m)
  <1> DEFINE k == IndexOf(x, n)
  <1>1. PICK f \in [1 .. Len(y.nodes) -> 1 .. Len(x.nodes)] :
           /\ \A i \in 1 .. Len(y.nodes) : f[i] # k /\ y.nodes[i] = x.nodes[f[i]]
           /\ \A i, j \in 1 .. Len(y.nodes) : f[i] = f[j] => i = j
           /\ \A j \in 1 .. Len(x.nodes) : j # k => \E i \in 1 .. Len(y.nodes) : f[i] = j
    BY RemovedPlaces
  <1>2. DOMAIN x.nodes = 1 .. Len(x.nodes) /\ DOMAIN y.nodes = 1 .. Len(y.nodes)
        /\ y \in PictMngrs
    BY DEF PictMngrs, RemovedNode
  <1>3. k \in 1 .. Len(x.nodes) /\ x.nodes[k].id = n
    BY IndexIs
  <1> HIDE DEF k
  <1> TAKE m
  <1>4. ASSUME HasNode(y, m) PROVE HasNode(x, m) /\ m # n /\ NodeOf(y, m) = NodeOf(x, m)
    <2>1. PICK i \in 1 .. Len(y.nodes) : y.nodes[i].id = m
      BY <1>4, <1>2 DEF HasNode
    <2>2. f[i] \in 1 .. Len(x.nodes) /\ x.nodes[f[i]].id = m /\ f[i] # k
          /\ y.nodes[i] = x.nodes[f[i]]
      BY <2>1, <1>1
    <2>3. HasNode(x, m)
      BY <2>2, <1>2 DEF HasNode
    <2>4. f[i] = IndexOf(x, m) /\ NodeOf(x, m) = x.nodes[f[i]]
      BY <2>2, <2>3, IndexIs
    <2>5. i = IndexOf(y, m) /\ NodeOf(y, m) = y.nodes[i]
      BY <2>1, <1>2, <1>4, IndexIs
    <2>6. m # n
      <3>1. x.nodes[f[i]].id = x.nodes[k].id => f[i] = k
        BY <2>2, <1>3 DEF NodesWhole
      <3> QED BY <2>2, <1>3, <3>1
    <2> QED BY <2>2, <2>3, <2>4, <2>5, <2>6
  <1>5. ASSUME HasNode(x, m), m # n PROVE HasNode(y, m)
    <2>1. PICK j \in 1 .. Len(x.nodes) : x.nodes[j].id = m
      BY <1>5, <1>2 DEF HasNode
    <2>2. PICK i \in 1 .. Len(y.nodes) : f[i] = j
      BY <2>1, <1>1, <1>3, <1>5
    <2> QED BY <2>1, <2>2, <1>1, <1>2 DEF HasNode
  <1> QED BY <1>4, <1>5

LEMMA RemovedCount ==
  ASSUME NEW x \in PictMngrs, NEW y, NEW k, RemovedNode(x, y, k), NEW T
  PROVE  Count(y.nodes, T) = Count(x.nodes, T) - One(x.nodes[k] \in T)
  <1> DEFINE a == x.nodes
             b == y.nodes
  <1>1. k \in 1 .. Len(a) /\ b \in Seq(DpbNodes) /\ Len(b) = Len(a) - 1
    BY DEF RemovedNode
  <1>2. \A i \in 1 .. Len(a) - 1 : b[i] = a[IF i < k THEN i ELSE i + 1]
    BY DEF RemovedNode
  <1>3. a \in Seq(DpbNodes)
    BY DEF PictMngrs
  <1> HIDE DEF a, b
  <1>4. Count(b, T) = Count(a, T) - One(a[k] \in T)
    BY <1>1, <1>2, <1>3, CountWithout, SMTT(30)
  <1> QED BY <1>4 DEF a, b

LEMMA RemovedRefs ==
  ASSUME NEW x \in PictMngrs, NEW y, NEW k, RemovedNode(x, y, k)
  PROVE  /\ RefCount(y) = RefCount(x) - One(IsRef(x.nodes[k]))
         /\ Len(y.nodes) = Len(x.nodes) - 1 /\ Len(x.nodes) \in Nat /\ RefCount(x) \in Nat
         /\ RefCount(y) \in Nat
  <1>1. /\ k \in 1 .. Len(x.nodes) /\ y.nodes \in Seq(DpbNodes)
        /\ Len(y.nodes) = Len(x.nodes) - 1 /\ y \in PictMngrs
        /\ \A i \in 1 .. Len(x.nodes) - 1 : y.nodes[i] = x.nodes[IF i < k THEN i ELSE i + 1]
    BY DEF RemovedNode
  <1>2. x.nodes \in Seq(DpbNodes) /\ x.nodes[k] \in DpbNodes
    BY <1>1 DEF PictMngrs
  <1>3. Count(y.nodes, Refs) = Count(x.nodes, Refs) - One(x.nodes[k] \in Refs)
    BY RemovedCount
  <1>4. One(x.nodes[k] \in Refs) = One(IsRef(x.nodes[k]))
    BY <1>2 DEF Refs, One
  <1>5. Lists(x) /\ Lists(y)
    BY <1>1, MngrTypes
  <1>6. /\ RefCount(x) = Count(x.nodes, Refs) /\ RefCount(y) = Count(y.nodes, Refs)
        /\ RefCount(x) \in Nat /\ RefCount(y) \in Nat /\ Len(x.nodes) \in Nat
    BY <1>5, RefCountIs
  <1> QED BY <1>1, <1>3, <1>4, <1>6

LEMMA RemovedStored ==
  ASSUME NEW x \in PictMngrs, NodesWhole(x), NEW y, NEW k, RemovedNode(x, y, k),
         FromNodes(x, y)
  PROVE  Stored(x, y, {}, 0)
  <1>1. /\ k \in 1 .. Len(x.nodes)
        /\ x.nodes[k].nonExisting => y.dlt = x.dlt
        /\ ~x.nodes[k].nonExisting =>
              y.dlt = Append(x.dlt, <<x.nodes[k].frm, x.nodes[k].mv>>)
        /\ y \in PictMngrs
    BY DEF RemovedNode
  <1>2. x.nodes[k] \in DpbNodes /\ Lists(x) /\ Lists(y) /\ x.dlt \in Seq(Slots \X MvIDs)
    BY <1>1, MngrTypes DEF PictMngrs
  <1>3. /\ RealCount(x) = Count(x.nodes, Reals) /\ RealCount(y) = Count(y.nodes, Reals)
        /\ RealCount(x) \in Nat /\ RealCount(y) \in Nat /\ Len(x.dlt) \in Nat
    BY <1>2, TallyIs
  <1>4. Count(y.nodes, Reals) = Count(x.nodes, Reals) - One(x.nodes[k] \in Reals)
    BY RemovedCount
  <1>5. /\ x.nodes[k].nonExisting => One(x.nodes[k] \in Reals) = 0
        /\ ~x.nodes[k].nonExisting => One(x.nodes[k] \in Reals) = 1
    BY <1>2 DEF Reals, One
  <1>6. NodeMvs(y) \subseteq NodeMvs(x)
    BY SMTT(30) DEF FromNodes, SameNode, NodeMvs
  <1>7. CASE x.nodes[k].nonExisting
    <2>1. \A i \in 1 .. Len(y.dlt) : ~(i > Len(x.dlt))
      BY <1>1, <1>3, <1>7
    <2> QED BY <2>1, <1>1, <1>3, <1>4, <1>5, <1>6, <1>7 DEF Stored, Tally
  <1>8. CASE ~x.nodes[k].nonExisting
    <2> DEFINE d == <<x.nodes[k].frm, x.nodes[k].mv>>
    <2>1. d \in Slots \X MvIDs /\ d[2] = x.nodes[k].mv /\ d[2] \in MvIDs
      BY <1>1, <1>8 DEF NodesWhole
    <2>2. y.dlt = Append(x.dlt, d) /\ d[2] \in NodeMvs(x)
      BY <1>1, <1>8, <2>1 DEF NodeMvs
    <2> HIDE DEF d
    <2>3. /\ Len(y.dlt) = Len(x.dlt) + 1
          /\ \A i \in 1 .. Len(x.dlt) : y.dlt[i] = x.dlt[i]
          /\ y.dlt[Len(x.dlt) + 1] = d
      BY <1>2, <2>1, <2>2, SeqEnd
    <2>4. \A i \in 1 .. Len(y.dlt) : i > Len(x.dlt) => i = Len(x.dlt) + 1
      BY <1>3, <2>3
    <2>5. RealCount(y) = RealCount(x) - 1
      <3>1. One(x.nodes[k] \in Reals) = 1
        BY <1>5, <1>8
      <3> QED BY <3>1, <1>3, <1>4
    <2>6. Tally(y) = Tally(x) /\ Tally(x) \in Nat
      <3> DEFINE r == RealCount(x)  c == Len(x.dlt)
      <3>1. Tally(x) = r + c /\ Tally(y) = (r - 1) + (c + 1) /\ r \in Nat /\ c \in Nat
        BY <1>3, <2>3, <2>5 DEF Tally
      <3> HIDE DEF r, c
      <3> QED BY <3>1
    <2> QED BY <1>3, <1>6, <2>2, <2>3, <2>4, <2>6 DEF Stored
  <1> QED BY <1>7, <1>8

LEMMA RemovedInv ==
  ASSUME NEW x, NEW frm, NEW mv, NEW user, NEW shown, Users(frm, mv),
         MngrInv(x, frm, mv, user, shown), NEW y, NEW k, RemovedNode(x, y, k),
         ~x.nodes[k].out
  PROVE  MngrInv(y, frm, mv, user, shown) /\ Thinned(x, y)
  <1>1. /\ x \in PictMngrs /\ PoolInv(x.pool) /\ MvInv(x.mv)
        /\ NodesWhole(x) /\ CountsExact(x, frm, mv) /\ OutputWhole(x, user, shown)
    BY DEF MngrInv
  <1>2. /\ k \in 1 .. Len(x.nodes)
        /\ y.nodes \in Seq(DpbNodes) /\ Len(y.nodes) = Len(x.nodes) - 1
        /\ \A i \in 1 .. Len(x.nodes) - 1 : y.nodes[i] = x.nodes[IF i < k THEN i ELSE i + 1]
        /\ x.nodes[k].nonExisting => y.dlt = x.dlt
        /\ ~x.nodes[k].nonExisting =>
              y.dlt = Append(x.dlt, <<x.nodes[k].frm, x.nodes[k].mv>>)
        /\ y.disp = x.disp /\ y.status = x.status /\ y.mv = x.mv /\ y.pool = x.pool
        /\ y \in PictMngrs
    BY DEF RemovedNode
  <1>3. /\ \A i \in 1 .. Len(x.nodes) : x.nodes[i] \in DpbNodes
        /\ Lists(x) /\ Lists(y) /\ x.nodes \in Seq(DpbNodes) /\ x.nodes[k] \in DpbNodes
        /\ x.dlt \in Seq(Slots \X MvIDs) /\ Len(x.dlt) \in Nat /\ Len(x.disp) \in Nat
    BY <1>1, <1>2, MngrTypes DEF PictMngrs
  <1>4. PICK f \in [1 .. Len(y.nodes) -> 1 .. Len(x.nodes)] :
           /\ \A i \in 1 .. Len(y.nodes) : f[i] # k /\ y.nodes[i] = x.nodes[f[i]]
           /\ \A i, j \in 1 .. Len(y.nodes) : f[i] = f[j] => i = j
           /\ \A j \in 1 .. Len(x.nodes) : j # k => \E i \in 1 .. Len(y.nodes) : f[i] = j
    BY <1>1, RemovedPlaces, SMTT(30)
  <1>a. /\ x.nodes[k].nonExisting => x.nodes[k].frm = NoSlot /\ x.nodes[k].mv = NoMv
        /\ ~x.nodes[k].nonExisting => x.nodes[k].frm \in Slots /\ x.nodes[k].mv \in MvIDs
    BY <1>1, <1>2 DEF NodesWhole
  <1>5. NodesWhole(y)
    <2>1. ASSUME NEW i \in 1 .. Len(y.nodes)
          PROVE  IF y.nodes[i].nonExisting
                 THEN y.nodes[i].frm = NoSlot /\ y.nodes[i].mv = NoMv /\ ~y.nodes[i].out
                 ELSE y.nodes[i].frm \in Slots /\ y.nodes[i].mv \in MvIDs
      <3>1. f[i] \in 1 .. Len(x.nodes) /\ y.nodes[i] = x.nodes[f[i]]
        BY <1>4
      <3> QED BY <3>1, <1>1 DEF NodesWhole
    <2>2. ASSUME NEW i \in 1 .. Len(y.nodes), NEW j \in 1 .. Len(y.nodes),
                 \/ y.nodes[i].id = y.nodes[j].id
                 \/ ~y.nodes[i].nonExisting /\ (\/ y.nodes[i].frm = y.nodes[j].frm
                                                \/ y.nodes[i].mv = y.nodes[j].mv)
          PROVE  i = j
      <3>1. /\ f[i] \in 1 .. Len(x.nodes) /\ y.nodes[i] = x.nodes[f[i]]
            /\ f[j] \in 1 .. Len(x.nodes) /\ y.nodes[j] = x.nodes[f[j]]
        BY <1>4
      <3>2. f[i] = f[j]
        BY <3>1, <2>2, <1>1 DEF NodesWhole
      <3> QED BY <3>2, <1>4
    <2> QED BY <2>1, <2>2 DEF NodesWhole
  <1>6. CountsExact(y, frm, mv)
    <2>1. ASSUME NEW t \in Slots PROVE RefsOn(y.pool, t) = frm[t] + FrmHeld(y, t)
      <3>1. Count(y.nodes, NodesOn(t)) = Count(x.nodes, NodesOn(t)) - One(x.nodes[k] \in NodesOn(t))
        BY <1>1, RemovedCount
      <3>2. Count(y.dlt, PairsOn(t)) = Count(x.dlt, PairsOn(t)) + One(x.nodes[k] \in NodesOn(t))
        <4>1. CASE x.nodes[k].nonExisting
          <5>1. x.nodes[k] \notin NodesOn(t)
            BY <4>1, <1>a, SlotsAre DEF NodesOn
          <5>2. One(x.nodes[k] \in NodesOn(t)) = 0
            BY <5>1 DEF One
          <5>3. Count(x.dlt, PairsOn(t)) \in Nat
            BY <1>3, FrmHeldIs
          <5> QED BY <4>1, <5>2, <5>3, <1>2
        <4>2. CASE ~x.nodes[k].nonExisting
          <5> DEFINE d == <<x.nodes[k].frm, x.nodes[k].mv>>
          <5>1. d \in Slots \X MvIDs
            BY <4>2, <1>a
          <5>2. d \in PairsOn(t) <=> x.nodes[k] \in NodesOn(t)
            BY <5>1, <1>3 DEF PairsOn, NodesOn
          <5>3. One(d \in PairsOn(t)) = One(x.nodes[k] \in NodesOn(t))
            BY <5>2 DEF One
          <5>4. y.dlt = Append(x.dlt, d)
            BY <4>2, <1>2
          <5> HIDE DEF d
          <5>5. Count(Append(x.dlt, d), PairsOn(t)) = Count(x.dlt, PairsOn(t)) + One(d \in PairsOn(t))
            BY <5>1, <1>3, CountEnd
          <5> QED BY <5>3, <5>4, <5>5
        <4> QED BY <4>1, <4>2
      <3>3. One(x.nodes[k] \in NodesOn(t)) \in {0, 1}
        BY OneIs
      <3>4. /\ FrmHeld(y, t) = Count(y.nodes, NodesOn(t)) + Count(y.dlt, PairsOn(t))
                               + Count(y.disp, {t})
            /\ FrmHeld(x, t) = Count(x.nodes, NodesOn(t)) + Count(x.dlt, PairsOn(t))
                               + Count(x.disp, {t})
            /\ Count(x.nodes, NodesOn(t)) \in Nat /\ Count(x.dlt, PairsOn(t)) \in Nat
            /\ Count(x.disp, {t}) \in Nat
        BY <1>3, FrmHeldIs
      <3>5. FrmHeld(y, t) = FrmHeld(x, t)
        BY <1>2, <3>1, <3>2, <3>3, <3>4
      <3> QED BY <3>5, <1>1, <1>2 DEF CountsExact
    <2>2. ASSUME NEW m \in MvIDs PROVE y.mv.cnt[m] = mv[m] + MvHeld(y, m)
      <3>1. Count(y.nodes, NodesWith(m)) = Count(x.nodes, NodesWith(m))
                                           - One(x.nodes[k] \in NodesWith(m))
        BY <1>1, RemovedCount
      <3>2. Count(y.dlt, PairsWith(m)) = Count(x.dlt, PairsWith(m))
                                         + One(x.nodes[k] \in NodesWith(m))
        <4>1. CASE x.nodes[k].nonExisting
          <5>1. x.nodes[k] \notin NodesWith(m)
            <6>1. NoMv \notin MvIDs
              BY MvBufPoolAssumption DEF NoMv, MvIDs
            <6> QED BY <4>1, <1>a, <6>1 DEF NodesWith
          <5>2. One(x.nodes[k] \in NodesWith(m)) = 0
            BY <5>1 DEF One
          <5>3. Count(x.dlt, PairsWith(m)) \in Nat
            BY <1>3, MvHeldIs
          <5> QED BY <4>1, <5>2, <5>3, <1>2
        <4>2. CASE ~x.nodes[k].nonExisting
          <5> DEFINE d == <<x.nodes[k].frm, x.nodes[k].mv>>
          <5>1. d \in Slots \X MvIDs
            BY <4>2, <1>a
          <5>2. d \in PairsWith(m) <=> x.nodes[k] \in NodesWith(m)
            BY <5>1, <1>3 DEF PairsWith, NodesWith
          <5>3. One(d \in PairsWith(m)) = One(x.nodes[k] \in NodesWith(m))
            BY <5>2 DEF One
          <5>4. y.dlt = Append(x.dlt, d)
            BY <4>2, <1>2
          <5> HIDE DEF d
          <5>5. Count(Append(x.dlt, d), PairsWith(m)) = Count(x.dlt, PairsWith(m))
                                                        + One(d \in PairsWith(m))
            BY <5>1, <1>3, CountEnd
          <5> QED BY <5>3, <5>4, <5>5
        <4> QED BY <4>1, <4>2
      <3>3. One(x.nodes[k] \in NodesWith(m)) \in {0, 1}
        BY OneIs
      <3>4. /\ MvHeld(y, m) = Count(y.nodes, NodesWith(m)) + Count(y.dlt, PairsWith(m))
            /\ MvHeld(x, m) = Count(x.nodes, NodesWith(m)) + Count(x.dlt, PairsWith(m))
            /\ Count(x.nodes, NodesWith(m)) \in Nat /\ Count(x.dlt, PairsWith(m)) \in Nat
        BY <1>3, MvHeldIs
      <3>5. MvHeld(y, m) = MvHeld(x, m)
        BY <3>1, <3>2, <3>3, <3>4
      <3> QED BY <3>5, <1>1, <1>2 DEF CountsExact
    <2> QED BY <2>1, <2>2 DEF CountsExact
  <1>7. \A t : ToBeOutput(y, t) <=> ToBeOutput(x, t)
    <2> SUFFICES ASSUME NEW t PROVE ToBeOutput(y, t) <=> ToBeOutput(x, t)
      OBVIOUS
    <2>1. ASSUME ToBeOutput(y, t) PROVE ToBeOutput(x, t)
      <3>1. PICK i \in 1 .. Len(y.nodes) : y.nodes[i].out /\ y.nodes[i].frm = t
        BY <2>1 DEF ToBeOutput
      <3>2. f[i] \in 1 .. Len(x.nodes) /\ y.nodes[i] = x.nodes[f[i]]
        BY <1>4
      <3> QED BY <3>1, <3>2 DEF ToBeOutput
    <2>2. ASSUME ToBeOutput(x, t) PROVE ToBeOutput(y, t)
      <3>1. PICK j \in 1 .. Len(x.nodes) : x.nodes[j].out /\ x.nodes[j].frm = t
        BY <2>2 DEF ToBeOutput
      <3>2. PICK i \in 1 .. Len(y.nodes) : f[i] = j
        BY <3>1, <1>4
      <3>3. y.nodes[i] = x.nodes[j]
        BY <3>2, <1>4
      <3> QED BY <3>1, <3>3 DEF ToBeOutput
    <2> QED BY <2>1, <2>2
  <1>8. OutputWhole(y, user, shown)
    <2>1. \A t : InDisplay(y, t) <=> InDisplay(x, t)
      BY <1>2 DEF InDisplay
    <2> QED BY <1>1, <1>2, <1>7, <2>1 DEF OutputWhole
  <1>9. MngrInv(y, frm, mv, user, shown)
    BY <1>1, <1>2, <1>5, <1>6, <1>8 DEF MngrInv
  <1>10. FromNodes(x, y)
    <2> SUFFICES ASSUME NEW i \in 1 .. Len(y.nodes)
                 PROVE \E j \in 1 .. Len(x.nodes) : SameNode(x.nodes[j], y.nodes[i])
      BY DEF FromNodes
    <2>1. f[i] \in 1 .. Len(x.nodes) /\ y.nodes[i] = x.nodes[f[i]]
      BY <1>4
    <2> QED BY <2>1 DEF SameNode
  <1>11. \A i \in 1 .. Len(y.disp) : ~(i > Len(x.disp))
    BY <1>2, <1>3
  <1>12. Queued(x, y) /\ Kept(x, y) /\ Ordered(x, y)
    BY <1>2, <1>3, <1>7, <1>11 DEF Queued, Kept, Ordered
  <1>13. Steady(x, y)
    <2>2. ASSUME NEW t \in Slots, NoneHeld(x, t) PROVE NoneHeld(y, t)
      <3>1. \A i \in 1 .. Len(y.nodes) : y.nodes[i].frm # t
        BY <2>2, <1>4 DEF NoneHeld
      <3>2. \A i \in 1 .. Len(y.dlt) : y.dlt[i][1] # t
        <4>1. CASE x.nodes[k].nonExisting
          BY <4>1, <2>2, <1>2 DEF NoneHeld
        <4>2. CASE ~x.nodes[k].nonExisting
          <5> DEFINE d == <<x.nodes[k].frm, x.nodes[k].mv>>
          <5>1. d \in Slots \X MvIDs /\ d[1] # t
            BY <4>2, <2>2, <1>2, <1>a DEF NoneHeld
          <5>2. y.dlt = Append(x.dlt, d)
            BY <4>2, <1>2
          <5> HIDE DEF d
          <5>3. /\ Len(y.dlt) = Len(x.dlt) + 1
                /\ \A i \in 1 .. Len(x.dlt) : y.dlt[i] = x.dlt[i]
                /\ y.dlt[Len(x.dlt) + 1] = d
            BY <5>1, <5>2, <1>3, SeqEnd
          <5>4. \A i \in 1 .. Len(y.dlt) : i \in 1 .. Len(x.dlt) \/ i = Len(x.dlt) + 1
            BY <5>3, <1>3
          <5> QED BY <5>1, <5>3, <5>4, <2>2 DEF NoneHeld
        <4> QED BY <4>1, <4>2
      <3> QED BY <3>1, <3>2, <2>2, <1>2 DEF NoneHeld
    <2>3. ASSUME NEW m \in MvIDs, NoMvHeld(x, m) PROVE NoMvHeld(y, m)
      <3>1. ASSUME NEW i \in 1 .. Len(y.nodes) PROVE y.nodes[i].mv # m
        <4>1. f[i] \in 1 .. Len(x.nodes) /\ y.nodes[i] = x.nodes[f[i]]
          BY <1>4
        <4> QED BY <4>1, <2>3 DEF NoMvHeld
      <3>2. \A i \in 1 .. Len(y.dlt) : y.dlt[i][2] # m
        <4>1. CASE x.nodes[k].nonExisting
          BY <4>1, <2>3, <1>2 DEF NoMvHeld
        <4>2. CASE ~x.nodes[k].nonExisting
          <5> DEFINE d == <<x.nodes[k].frm, x.nodes[k].mv>>
          <5>1. d \in Slots \X MvIDs /\ d[2] # m
            BY <4>2, <2>3, <1>2, <1>a DEF NoMvHeld
          <5>2. y.dlt = Append(x.dlt, d)
            BY <4>2, <1>2
          <5> HIDE DEF d
          <5>3. /\ Len(y.dlt) = Len(x.dlt) + 1
                /\ \A i \in 1 .. Len(x.dlt) : y.dlt[i] = x.dlt[i]
                /\ y.dlt[Len(x.dlt) + 1] = d
            BY <5>1, <5>2, <1>3, SeqEnd
          <5>4. \A i \in 1 .. Len(y.dlt) : i \in 1 .. Len(x.dlt) \/ i = Len(x.dlt) + 1
            BY <5>3, <1>3
          <5> QED BY <5>1, <5>3, <5>4, <2>3 DEF NoMvHeld
        <4> QED BY <4>1, <4>2
      <3> QED BY <3>1, <3>2 DEF NoMvHeld
    <2> QED BY <2>2, <2>3, <1>2 DEF Steady
  <1>14. RefCount(y) <= RefCount(x) /\ Len(y.nodes) <= Len(x.nodes)
    <2>1. /\ RefCount(y) = RefCount(x) - One(IsRef(x.nodes[k])) /\ RefCount(x) \in Nat
          /\ Len(x.nodes) \in Nat
      BY <1>1, RemovedRefs
    <2>2. One(IsRef(x.nodes[k])) \in {0, 1}
      BY OneIs
    <2> QED BY <2>1, <2>2, <1>2
  <1>15. Stored(x, y, {}, 0)
    BY <1>1, <1>10, RemovedStored
  <1> QED BY <1>9, <1>10, <1>12, <1>13, <1>14, <1>15 DEF Thinned
-----------------------------------------------------------------------------
(* AL_Dpb_Display *)

LEMMA SameIndex ==
  ASSUME NEW x \in PictMngrs, NEW y \in PictMngrs, NodesWhole(x), NodesWhole(y),
         SameNodes(x, y)
  PROVE  \A m : /\ HasNode(y, m) <=> HasNode(x, m)
                /\ HasNode(x, m) => IndexOf(y, m) = IndexOf(x, m)
                /\ HasNode(x, m) => SameNode(NodeOf(x, m), NodeOf(y, m))
                /\ HasNode(x, m) => NodeOf(y, m).marking = NodeOf(x, m).marking
  <1>1. /\ DOMAIN x.nodes = 1 .. Len(x.nodes) /\ DOMAIN y.nodes = 1 .. Len(y.nodes)
        /\ Len(y.nodes) = Len(x.nodes)
        /\ \A i \in 1 .. Len(x.nodes) :
              /\ y.nodes[i].id = x.nodes[i].id /\ SameNode(x.nodes[i], y.nodes[i])
              /\ y.nodes[i].marking = x.nodes[i].marking
    BY DEF PictMngrs, SameNodes, SameNode
  <1> TAKE m
  <1>2. HasNode(y, m) <=> HasNode(x, m)
    BY <1>1 DEF HasNode
  <1>3. ASSUME HasNode(x, m)
        PROVE  /\ IndexOf(y, m) = IndexOf(x, m) /\ SameNode(NodeOf(x, m), NodeOf(y, m))
               /\ NodeOf(y, m).marking = NodeOf(x, m).marking
    <2>1. /\ IndexOf(x, m) \in 1 .. Len(x.nodes)
          /\ x.nodes[IndexOf(x, m)].id = m /\ NodeOf(x, m) = x.nodes[IndexOf(x, m)]
      BY <1>3, IndexIs
    <2>2. y.nodes[IndexOf(x, m)].id = m
      BY <2>1, <1>1
    <2>3. IndexOf(x, m) = IndexOf(y, m) /\ NodeOf(y, m) = y.nodes[IndexOf(y, m)]
      BY <2>1, <2>2, <1>1, <1>2, <1>3, IndexIs
    <2> QED BY <2>1, <2>3, <1>1
  <1> QED BY <1>2, <1>3

\* The first place of t in the list o
PlaceOf(o, t) ==
    LET I == {i \in 1 .. Len(o) : o[i] = t}
    IN  IF I # {} THEN Min(I) ELSE 0

LEMMA PlaceIs ==
  ASSUME NEW o \in Seq(NodeIDs), NEW c \in 1 .. Len(o),
         \A k, l \in 1 .. Len(o) : o[k] = o[l] => k = l
  PROVE  PlaceOf(o, o[c]) = c
  <1> DEFINE I == {i \in 1 .. Len(o) : o[i] = o[c]}
  <1>1. I = {c}
    OBVIOUS
  <1>2. Min(I) = c
    <2>1. c \in Nat /\ I \in SUBSET Nat /\ I # {}
      BY <1>1
    <2>2. Min(I) \in I
      BY <2>1, MinIs
    <2> QED BY <1>1, <2>2
  <1> QED BY <1>1, <1>2 DEF PlaceOf

\* The part of a list up to place c
LEMMA UpToPlace ==
  ASSUME NEW o \in Seq(NodeIDs), NEW c \in 1 .. Len(o), NEW seq, seq = SubSeq(o, 1, c)
  PROVE  Len(seq) = c /\ \A i \in 1 .. c : seq[i] = o[i]
  <1>5. c \in Nat /\ c <= Len(o) /\ Len(o) \in Nat
    OBVIOUS
  <1>6. 1 \in 1 .. Len(o) + 1 /\ c \in 0 .. Len(o)
    BY <1>5
  <1>7. \A i \in 1 .. c : o[i] \in NodeIDs
    BY <1>5
  <1>8. /\ Len(SubSeq(o, 1, c)) = IF 1 <= c THEN c - 1 + 1 ELSE 0
        /\ \A i \in 1 .. c - 1 + 1 : SubSeq(o, 1, c)[i] = o[1 + i - 1]
    BY <1>5, <1>7, SubSeqProperties
  <1> DEFINE r == SubSeq(o, 1, c)
  <1>9. /\ Len(r) = IF 1 <= c THEN c - 1 + 1 ELSE 0
        /\ \A i \in 1 .. c - 1 + 1 : r[i] = o[1 + i - 1]
    BY <1>8
  <1>10. seq = r
    OBVIOUS
  <1> HIDE DEF r
  <1>11. \A i \in 1 .. c : i \in 1 .. c - 1 + 1 /\ 1 + i - 1 = i
    BY <1>5
  <1>12. \A i \in 1 .. c : r[i] = o[i]
    BY <1>9, <1>11
  <1>13. Len(r) = c
    BY <1>5, <1>9
  <1> QED BY <1>10, <1>12, <1>13

\* Display has run up to place i of the list o.
DisplayDone(x, y, o, i, frm, mv, user, shown) ==
    /\ MngrInv(y, frm, mv, user, shown) /\ Thinned(x, y) /\ SameNodes(x, y)
    /\ \A j \in 1 .. i : ~NodeOf(y, o[j]).out

LEMMA DisplayStep ==
  ASSUME NEW x, NEW frm, NEW mv, NEW user, NEW shown, Users(frm, mv),
         MngrInv(x, frm, mv, user, shown), NEW o, ByPoc(x, o), NEW i \in Nat, i + 1 \in 1 .. Len(o),
         NEW y, DisplayDone(x, y, o, i, frm, mv, user, shown),
         NEW z, z = OutputNode(y, o[i + 1])
  PROVE  DisplayDone(x, z, o, i + 1, frm, mv, user, shown)
  <1> DEFINE n == o[i + 1]
             k == IndexOf(y, n)
  <1>1. /\ MngrInv(y, frm, mv, user, shown) /\ Thinned(x, y) /\ SameNodes(x, y)
        /\ \A j \in 1 .. i : ~NodeOf(y, o[j]).out
        /\ x \in PictMngrs /\ y \in PictMngrs /\ NodesWhole(x) /\ NodesWhole(y)
    BY DEF DisplayDone, MngrInv
  <1>2. /\ HasNode(x, n) /\ HasNode(y, n) /\ k = IndexOf(x, n)
        /\ k \in 1 .. Len(y.nodes) /\ NodeOf(y, n) = y.nodes[k] /\ NodeOf(x, n) = x.nodes[k]
        /\ Len(x.nodes) = Len(y.nodes)
    <2>1. HasNode(x, n)
      BY DEF ByPoc
    <2>2. HasNode(y, n) /\ k = IndexOf(x, n)
      BY <1>1, <2>1, SameIndex
    <2>3. k \in 1 .. Len(y.nodes) /\ NodeOf(y, n) = y.nodes[k]
      BY <1>1, <2>2, IndexIs
    <2>4. NodeOf(x, n) = x.nodes[k]
      BY <2>2 DEF NodeOf
    <2> QED BY <1>1, <2>1, <2>2, <2>3, <2>4 DEF SameNodes
  <1>3. \/ z = y /\ ~NodeOf(y, n).out
        \/ ShownNode(y, z, k, NodeOf(y, n).frm)
    BY <1>1, <1>2, OutputNodeIs
  <1>4. CASE z = y /\ ~NodeOf(y, n).out
    <2>1. \A j \in 1 .. i + 1 : j \in 1 .. i \/ j = i + 1
      OBVIOUS
    <2> QED BY <2>1, <1>1, <1>4 DEF DisplayDone
  <1>5. CASE ShownNode(y, z, k, NodeOf(y, n).frm)
    <2>1. FirstOut(y, k)
      <3> SUFFICES ASSUME NEW l \in 1 .. Len(y.nodes), y.nodes[l].out,
                          y.nodes[l].poc < y.nodes[k].poc
                   PROVE FALSE
        BY DEF FirstOut
      <3>1. PICK j \in 1 .. Len(o) : o[j] = x.nodes[l].id
        BY <1>2 DEF ByPoc
      <3>2. HasNode(x, o[j]) /\ IndexOf(x, o[j]) = l /\ NodeOf(x, o[j]) = x.nodes[l]
        <4>1. HasNode(x, o[j])
          BY DEF ByPoc
        <4>2. l = IndexOf(x, o[j])
          BY <3>1, <4>1, <1>1, <1>2, IndexIs
        <4> QED BY <4>1, <4>2 DEF NodeOf
      <3>3. x.nodes[l].poc = y.nodes[l].poc /\ x.nodes[k].poc = y.nodes[k].poc
        BY <1>1, <1>2 DEF SameNodes, SameNode
      <3>4. NodeOf(x, o[j]).poc < NodeOf(x, o[i + 1]).poc
        BY <3>2, <3>3, <1>2
      <3>5. j < i + 1
        BY <3>4 DEF ByPoc
      <3>6. j \in 1 .. i
        <4>1. Len(o) \in Nat
          BY DEF ByPoc
        <4> QED BY <3>5, <4>1
      <3>7. NodeOf(y, o[j]) = y.nodes[l]
        <4>1. IndexOf(y, o[j]) = l
          BY <1>1, <3>2, SameIndex
        <4> QED BY <4>1 DEF NodeOf
      <3> QED BY <3>6, <3>7, <1>1
    <2>2. MngrInv(z, frm, mv, user, shown)
      BY <1>1, <1>5, ShownInv
    <2>3. Thinned(y, z)
      BY <1>1, <1>5, <2>1, ShownThinned
    <2>4. z \in PictMngrs /\ NodesWhole(z)
      BY <2>2 DEF MngrInv
    <2>5. Thinned(x, z)
      BY <1>1, <2>3, <2>4, ThinnedTrans
    <2>6. /\ SameNodes(y, z)
          /\ \A l \in 1 .. Len(y.nodes) : z.nodes[l].out <=> y.nodes[l].out /\ l # k
      BY <1>1, <1>5, ShownNodes
    <2>7. SameNodes(x, z)
      BY <1>1, <2>6, SameTrans
    <2>8. ASSUME NEW j \in 1 .. i + 1 PROVE ~NodeOf(z, o[j]).out
      <3>0. j \in 1 .. Len(o)
        <4>1. Len(o) \in Nat
          BY DEF ByPoc
        <4> QED BY <4>1
      <3>1. HasNode(x, o[j])
        BY <3>0 DEF ByPoc
      <3>2. /\ HasNode(y, o[j]) /\ IndexOf(z, o[j]) = IndexOf(y, o[j])
        BY <1>1, <2>4, <2>6, <3>1, SameIndex
      <3> DEFINE l == IndexOf(y, o[j])
      <3>3. l \in 1 .. Len(y.nodes) /\ NodeOf(y, o[j]) = y.nodes[l]
        BY <3>2, <1>1, IndexIs
      <3>4. NodeOf(z, o[j]) = z.nodes[l]
        BY <3>2 DEF NodeOf
      <3>5. CASE j = i + 1
        <4>1. l = k
          BY <3>5
        <4> QED BY <4>1, <3>3, <3>4, <2>6
      <3>6. CASE j # i + 1
        <4>1. j \in 1 .. i
          BY <3>6
        <4>2. ~y.nodes[l].out
          BY <4>1, <3>3, <1>1
        <4> QED BY <4>2, <3>3, <3>4, <2>6
      <3> QED BY <3>5, <3>6
    <2> QED BY <2>2, <2>5, <2>7, <2>8 DEF DisplayDone
  <1> QED BY <1>3, <1>4, <1>5

Displayed(x, y, n, frm, mv, user, shown) ==
    /\ MngrInv(y, frm, mv, user, shown) /\ Thinned(x, y) /\ SameNodes(x, y)
    /\ ~NodeOf(y, n).out

LEMMA DisplayIs ==
  ASSUME NEW x, NEW frm, NEW mv, NEW user, NEW shown, Users(frm, mv),
         MngrInv(x, frm, mv, user, shown), NEW n, HasNode(x, n), NEW y, y = Display(x, n)
  PROVE  Displayed(x, y, n, frm, mv, user, shown)
  <1> DEFINE o == PocOrder(x)
             seq == SubSeq(PocOrder(x), 1, SelectInSeq(PocOrder(x), LAMBDA m : m = n))
  <1>1. x \in PictMngrs /\ NodesWhole(x) /\ ByPoc(x, o)
    BY PocOrderIs DEF MngrInv
  <1>2. PICK c \in 1 .. Len(o) : o[c] = n
    <2>1. PICK i \in 1 .. Len(x.nodes) : x.nodes[i].id = n
      BY <1>1 DEF HasNode, PictMngrs
    <2> QED BY <1>1, <2>1 DEF ByPoc
  <1> HIDE DEF o
  <1>a. o \in Seq(NodeIDs) /\ (\A k, l \in 1 .. Len(o) : o[k] = o[l] => k = l) /\ Len(o) \in Nat
    BY <1>1 DEF ByPoc
  <1>3. Len(seq) = c /\ \A i \in 1 .. c : seq[i] = o[i]
    <2>1. seq = SubSeq(o, 1, PlaceOf(o, o[c]))
      BY <1>2 DEF o, SelectInSeq, PlaceOf
    <2>2. PlaceOf(o, o[c]) = c
      BY <1>a, PlaceIs
    <2> HIDE DEF seq
    <2>3. seq = SubSeq(o, 1, c)
      BY <2>1, <2>2
    <2> QED BY <2>3, <1>a, UpToPlace
  <1>4. \E f : Goes(f, "output", x, seq) /\ Display(x, n) = f[Len(seq)]
    <2> HIDE DEF seq
    <2>1. Len(seq) \in Nat
      BY <1>3, <1>a
    <2>2. seq = SubSeq(PocOrder(x), 1, SelectInSeq(PocOrder(x), LAMBDA m : m = n))
      BY DEF seq
    <2> QED BY <2>1, <2>2, DisplayRuns
  <1> HIDE DEF seq
  <1>5. PICK f : Goes(f, "output", x, seq) /\ Display(x, n) = f[Len(seq)]
    BY <1>4
  <1> DEFINE S == {i \in 0 .. c : DisplayDone(x, f[i], o, i, frm, mv, user, shown)}
  <1>6. 0 \in S
    <2>1. f[0] = x
      BY <1>5 DEF Goes
    <2>2. Thinned(x, x) /\ SameNodes(x, x)
      BY <1>1, ThinnedSelf DEF SameNodes, SameNode
    <2>3. DisplayDone(x, x, o, 0, frm, mv, user, shown)
      BY <2>2 DEF DisplayDone
    <2> QED BY <2>1, <2>3
  <1>7. ASSUME NEW i \in 0 .. c, i \in S, i # c PROVE i + 1 \in S
    <2>1. i \in Nat /\ i + 1 \in 1 .. c /\ i + 1 \in 1 .. Len(o) /\ i + 1 \in 0 .. c
          /\ (i + 1) - 1 = i
      BY <1>7, <1>a
    <2>2. f[i + 1] = OutputNode(f[i], o[i + 1])
      <3>1. f[i + 1] = StepOf("output", f[(i + 1) - 1], seq[i + 1])
        BY <2>1, <1>3, <1>5 DEF Goes
      <3> QED BY <3>1, <2>1, <1>3 DEF StepOf
    <2>3. DisplayDone(x, f[i], o, i, frm, mv, user, shown)
      BY <1>7
    <2>4. DisplayDone(x, f[i + 1], o, i + 1, frm, mv, user, shown)
      BY <2>1, <2>2, <2>3, <1>1, DisplayStep
    <2> QED BY <2>1, <2>4
  <1>8. c \in S
    <2> HIDE DEF S
    <2>1. \A i \in 0 .. c : i \in S /\ i # c => i + 1 \in S
      BY <1>7
    <2>2. c \in Nat /\ c \in 0 .. c
      BY <1>a
    <2>3. \A i \in 0 .. c : i \in S
      BY <1>6, <2>1, <2>2, UpTo
    <2> QED BY <2>2, <2>3
  <1>9. DisplayDone(x, y, o, c, frm, mv, user, shown)
    BY <1>3, <1>5, <1>8
  <1> QED BY <1>9, <1>2 DEF DisplayDone, Displayed
-----------------------------------------------------------------------------
(* The functions that remove nodes *)

\* Node n, and no other, has left the DPB.
Removed(x, y, n, frm, mv, user, shown) ==
    /\ MngrInv(y, frm, mv, user, shown) /\ Thinned(x, y)
    /\ \A m : /\ HasNode(y, m) <=> HasNode(x, m) /\ m # n
              /\ HasNode(y, m) => (IsRef(NodeOf(y, m)) <=> IsRef(NodeOf(x, m)))
    /\ Len(y.nodes) = Len(x.nodes) - 1
    /\ RefCount(y) = RefCount(x) - One(IsRef(NodeOf(x, n)))

LEMMA RemoveIs ==
  ASSUME NEW x, NEW frm, NEW mv, NEW user, NEW shown, Users(frm, mv),
         MngrInv(x, frm, mv, user, shown), NEW n, HasNode(x, n), ~NodeOf(x, n).out,
         NEW y, y = RemoveNode(x, n)
  PROVE  Removed(x, y, n, frm, mv, user, shown)
  <1> DEFINE k == IndexOf(x, n)
  <1>1. x \in PictMngrs /\ NodesWhole(x)
    BY DEF MngrInv
  <1>2. NodeOf(x, n) = x.nodes[k]
    BY DEF NodeOf
  <1>3. RemovedNode(x, y, k)
    BY <1>1, RemoveNodeIs
  <1>4. MngrInv(y, frm, mv, user, shown) /\ Thinned(x, y)
    BY <1>2, <1>3, RemovedInv
  <1>5. NodesWhole(y)
    BY <1>4 DEF MngrInv
  <1>6. \A m : /\ HasNode(y, m) <=> HasNode(x, m) /\ m # n
               /\ HasNode(y, m) => NodeOf(y, m) = NodeOf(x, m)
    BY <1>1, <1>3, <1>5, RemovedIds
  <1>7. RefCount(y) = RefCount(x) - One(IsRef(x.nodes[k])) /\ Len(y.nodes) = Len(x.nodes) - 1
    BY <1>1, <1>3, RemovedRefs
  <1> HIDE DEF k
  <1> QED BY <1>2, <1>4, <1>6, <1>7 DEF Removed

LEMMA OutputAndRemoveIs ==
  ASSUME NEW x, NEW frm, NEW mv, NEW user, NEW shown, Users(frm, mv),
         MngrInv(x, frm, mv, user, shown), NEW n, HasNode(x, n),
         NEW y, y = OutputAndRemove(x, n)
  PROVE  Removed(x, y, n, frm, mv, user, shown)
  <1>1. PICK w : w = Display(x, n)
    OBVIOUS
  <1>2. Displayed(x, w, n, frm, mv, user, shown)
    BY <1>1, DisplayIs
  <1>3. /\ MngrInv(w, frm, mv, user, shown) /\ Thinned(x, w) /\ SameNodes(x, w)
        /\ ~NodeOf(w, n).out
    BY <1>2 DEF Displayed
  <1>4. x \in PictMngrs /\ NodesWhole(x) /\ w \in PictMngrs /\ NodesWhole(w)
    BY <1>3 DEF MngrInv
  <1>5. \A m : /\ HasNode(w, m) <=> HasNode(x, m)
               /\ HasNode(x, m) => NodeOf(w, m).marking = NodeOf(x, m).marking
    BY <1>3, <1>4, SameIndex
  <1>6. y = RemoveNode(w, n)
    BY <1>1 DEF OutputAndRemove
  <1>7. Removed(w, y, n, frm, mv, user, shown)
    BY <1>3, <1>5, <1>6, RemoveIs
  <1>8. /\ MngrInv(y, frm, mv, user, shown) /\ Thinned(w, y)
        /\ \A m : /\ HasNode(y, m) <=> HasNode(w, m) /\ m # n
                  /\ HasNode(y, m) => (IsRef(NodeOf(y, m)) <=> IsRef(NodeOf(w, m)))
        /\ Len(y.nodes) = Len(w.nodes) - 1
        /\ RefCount(y) = RefCount(w) - One(IsRef(NodeOf(w, n)))
        /\ y \in PictMngrs
    BY <1>7 DEF Removed, MngrInv
  <1>9. Thinned(x, y)
    BY <1>3, <1>4, <1>8, ThinnedTrans
  <1>10. Len(w.nodes) = Len(x.nodes) /\ RefCount(w) = RefCount(x)
    BY <1>3, <1>4, SameRefs DEF SameNodes
  <1>11. One(IsRef(NodeOf(w, n))) = One(IsRef(NodeOf(x, n)))
    BY <1>5 DEF IsRef
  <1>12. \A m : HasNode(y, m) => (IsRef(NodeOf(y, m)) <=> IsRef(NodeOf(x, m)))
    BY <1>5, <1>8 DEF IsRef
  <1> QED BY <1>5, <1>8, <1>9, <1>10, <1>11, <1>12 DEF Removed

\* A function has run through the list o up to place i.
RunDone(kind, x, y, o, i, frm, mv, user, shown) ==
    /\ MngrInv(y, frm, mv, user, shown) /\ Thinned(x, y)
    /\ \A m : HasNode(y, m) => /\ HasNode(x, m)
                               /\ IsRef(NodeOf(y, m)) <=> IsRef(NodeOf(x, m))
    /\ \A j \in 1 .. Len(o) : j > i => HasNode(y, o[j])
    /\ kind = "remove" => \A j \in 1 .. Len(o) : j <= i => ~HasNode(y, o[j])
    /\ kind = "bump" =>
          \/ ~Excess(y)
          \/ \A j \in 1 .. Len(o) : j <= i /\ HasNode(y, o[j]) => IsRef(NodeOf(y, o[j]))

LEMMA ExcessGoes ==
  ASSUME NEW x \in PictMngrs, NEW y \in PictMngrs, Thinned(x, y), Excess(y)
  PROVE  Excess(x)
  <1>1. Lists(x) /\ Lists(y)
    BY MngrTypes
  <1>2. RefCount(x) \in Nat /\ RefCount(y) \in Nat /\ Len(x.nodes) \in Nat /\ Len(y.nodes) \in Nat
    BY <1>1, RefCountIs
  <1>3. RefCount(y) <= RefCount(x) /\ Len(y.nodes) <= Len(x.nodes)
    BY DEF Thinned
  <1>4. NumRef \in Nat
    BY PictMngrAssumption
  <1> QED BY <1>2, <1>3, <1>4 DEF Excess, PicCount

LEMMA RunStep ==
  ASSUME NEW kind \in {"remove", "useless", "bump"},
         NEW x, NEW frm, NEW mv, NEW user, NEW shown, Users(frm, mv),
         MngrInv(x, frm, mv, user, shown), NEW o, ByPoc(x, o), NEW i \in Nat, i + 1 \in 1 .. Len(o),
         NEW y, RunDone(kind, x, y, o, i, frm, mv, user, shown),
         NEW z, z = StepOf(kind, y, o[i + 1])
  PROVE  RunDone(kind, x, z, o, i + 1, frm, mv, user, shown)
  <1> DEFINE n == o[i + 1]
  <1>1. /\ MngrInv(y, frm, mv, user, shown) /\ Thinned(x, y)
        /\ \A m : HasNode(y, m) => /\ HasNode(x, m)
                                   /\ IsRef(NodeOf(y, m)) <=> IsRef(NodeOf(x, m))
        /\ \A j \in 1 .. Len(o) : j > i => HasNode(y, o[j])
        /\ kind = "remove" => \A j \in 1 .. Len(o) : j <= i => ~HasNode(y, o[j])
        /\ kind = "bump" =>
              \/ ~Excess(y)
              \/ \A j \in 1 .. Len(o) : j <= i /\ HasNode(y, o[j]) => IsRef(NodeOf(y, o[j]))
        /\ x \in PictMngrs /\ y \in PictMngrs /\ NodesWhole(x)
    BY DEF RunDone, MngrInv
  <1>2. HasNode(y, n)
    BY <1>1
  <1>0. Len(o) \in Nat /\ \A k, l \in 1 .. Len(o) : o[k] = o[l] => k = l
    BY DEF ByPoc
  <1>3. \/ Removed(y, z, n, frm, mv, user, shown)
        \/ /\ z = y /\ kind # "remove"
           /\ kind = "bump" => ~Excess(y) \/ IsRef(NodeOf(y, n))
    <2>1. CASE kind = "remove"
      <3>1. z = OutputAndRemove(y, n)
        BY <2>1 DEF StepOf
      <3> HIDE DEF n
      <3> QED BY <3>1, <1>1, <1>2, OutputAndRemoveIs
    <2>2. CASE kind = "useless"
      <3>1. z = RemoveIfUseless(y, n)
        BY <2>2 DEF StepOf
      <3> HIDE DEF n
      <3>2. CASE IsRef(NodeOf(y, n)) \/ NodeOf(y, n).out
        BY <3>1, <3>2, <2>2 DEF RemoveIfUseless
      <3>3. CASE ~(IsRef(NodeOf(y, n)) \/ NodeOf(y, n).out)
        <4>1. z = RemoveNode(y, n)
          BY <3>1, <3>3 DEF RemoveIfUseless
        <4> QED BY <4>1, <3>3, <1>1, <1>2, RemoveIs
      <3> QED BY <3>2, <3>3
    <2>3. CASE kind = "bump"
      <3>1. z = Bump(y, n)
        BY <2>3 DEF StepOf
      <3> HIDE DEF n
      <3>2. CASE Excess(y) /\ ~IsRef(NodeOf(y, n))
        <4>1. z = OutputAndRemove(y, n)
          BY <3>1, <3>2 DEF Bump
        <4> QED BY <4>1, <1>1, <1>2, OutputAndRemoveIs
      <3>3. CASE ~(Excess(y) /\ ~IsRef(NodeOf(y, n)))
        BY <3>1, <3>3, <2>3 DEF Bump
      <3> QED BY <3>2, <3>3
    <2> QED BY <2>1, <2>2, <2>3
  <1>4. CASE /\ z = y /\ kind # "remove"
             /\ kind = "bump" => ~Excess(y) \/ IsRef(NodeOf(y, n))
    <2>1. \A j \in 1 .. Len(o) : (j > i + 1 => j > i) /\ (j <= i + 1 => j <= i \/ j = i + 1)
      BY <1>0
    <2>2. \A j \in 1 .. Len(o) : j > i + 1 => HasNode(y, o[j])
      BY <1>1, <2>1
    <2>3. kind = "bump" =>
              \/ ~Excess(y)
              \/ \A j \in 1 .. Len(o) : j <= i + 1 /\ HasNode(y, o[j]) => IsRef(NodeOf(y, o[j]))
      BY <1>1, <1>4, <2>1
    <2> QED BY <1>1, <1>4, <2>2, <2>3 DEF RunDone
  <1>5. CASE Removed(y, z, n, frm, mv, user, shown)
    <2>1. /\ MngrInv(z, frm, mv, user, shown) /\ Thinned(y, z) /\ z \in PictMngrs
          /\ \A m : /\ HasNode(z, m) <=> HasNode(y, m) /\ m # n
                    /\ HasNode(z, m) => (IsRef(NodeOf(z, m)) <=> IsRef(NodeOf(y, m)))
      BY <1>5 DEF Removed, MngrInv
    <2>2. Thinned(x, z)
      BY <1>1, <2>1, ThinnedTrans
    <2>3. \A m : HasNode(z, m) => /\ HasNode(x, m)
                                  /\ IsRef(NodeOf(z, m)) <=> IsRef(NodeOf(x, m))
      BY <1>1, <2>1
    <2>4. ASSUME NEW j \in 1 .. Len(o), j > i + 1 PROVE HasNode(z, o[j])
      <3>1. j > i /\ j # i + 1
        BY <2>4, <1>0
      <3>2. HasNode(y, o[j]) /\ o[j] # n
        BY <3>1, <1>0, <1>1
      <3> QED BY <3>2, <2>1
    <2>5. ASSUME kind = "remove", NEW j \in 1 .. Len(o), j <= i + 1 PROVE ~HasNode(z, o[j])
      <3>1. j <= i \/ j = i + 1
        BY <2>5, <1>0
      <3>2. CASE j = i + 1
        BY <3>2, <2>1
      <3>3. CASE j <= i
        BY <3>3, <2>1, <2>5, <1>1
      <3> QED BY <3>1, <3>2, <3>3
    <2>6. ASSUME kind = "bump", Excess(z), NEW j \in 1 .. Len(o), j <= i + 1, HasNode(z, o[j])
          PROVE  IsRef(NodeOf(z, o[j]))
      <3>1. Excess(y)
        BY <1>1, <2>1, <2>6, ExcessGoes
      <3>2. HasNode(y, o[j]) /\ o[j] # n /\ (IsRef(NodeOf(z, o[j])) <=> IsRef(NodeOf(y, o[j])))
        BY <2>1, <2>6
      <3>3. j <= i
        <4>1. j # i + 1
          BY <3>2
        <4> QED BY <4>1, <2>6, <1>0
      <3>4. IsRef(NodeOf(y, o[j]))
        BY <1>1, <2>6, <3>1, <3>2, <3>3
      <3> QED BY <3>2, <3>4
    <2> QED BY <2>1, <2>2, <2>3, <2>4, <2>5, <2>6 DEF RunDone
  <1> QED BY <1>3, <1>4, <1>5

LEMMA RunIs ==
  ASSUME NEW kind \in {"remove", "useless", "bump"},
         NEW x, NEW frm, NEW mv, NEW user, NEW shown, Users(frm, mv),
         MngrInv(x, frm, mv, user, shown), NEW o, ByPoc(x, o), NEW f, Goes(f, kind, x, o)
  PROVE  RunDone(kind, x, f[Len(o)], o, Len(o), frm, mv, user, shown)
  <1> DEFINE c == Len(o)
             S == {i \in 0 .. c : RunDone(kind, x, f[i], o, i, frm, mv, user, shown)}
  <1>1. x \in PictMngrs /\ c \in Nat
    BY DEF MngrInv, ByPoc
  <1>2. 0 \in S
    <2>1. f[0] = x
      BY DEF Goes
    <2>2. Thinned(x, x)
      BY <1>1, ThinnedSelf
    <2>3. \A j \in 1 .. c : HasNode(x, o[j]) /\ ~(j <= 0)
      BY DEF ByPoc
    <2>4. RunDone(kind, x, x, o, 0, frm, mv, user, shown)
      BY <2>2, <2>3 DEF RunDone
    <2> QED BY <2>1, <2>4, <1>1
  <1>3. ASSUME NEW i \in 0 .. c, i \in S, i # c PROVE i + 1 \in S
    <2>1. i \in Nat /\ i + 1 \in 1 .. c /\ i + 1 \in 0 .. c /\ (i + 1) - 1 = i
      BY <1>3, <1>1
    <2>2. f[i + 1] = StepOf(kind, f[i], o[i + 1])
      BY <2>1 DEF Goes
    <2>3. RunDone(kind, x, f[i], o, i, frm, mv, user, shown)
      BY <1>3
    <2>4. RunDone(kind, x, f[i + 1], o, i + 1, frm, mv, user, shown)
      BY <2>1, <2>2, <2>3, RunStep
    <2> QED BY <2>1, <2>4
  <1>4. c \in S
    <2> HIDE DEF S
    <2>1. \A i \in 0 .. c : i \in S /\ i # c => i + 1 \in S
      BY <1>3
    <2>2. c \in 0 .. c
      BY <1>1
    <2> HIDE DEF c
    <2>3. \A i \in 0 .. c : i \in S
      BY <1>1, <1>2, <2>1, UpTo
    <2> QED BY <2>2, <2>3
  <1> QED BY <1>4

\* The DPB is whole after the call, and what left it went to the display list.
Sifted(x, y, frm, mv, user, shown) == MngrInv(y, frm, mv, user, shown) /\ Thinned(x, y)

LEMMA SiftedTrans ==
  ASSUME NEW x, NEW y, NEW z, NEW frm, NEW mv, NEW user, NEW shown,
         MngrInv(x, frm, mv, user, shown), Sifted(x, y, frm, mv, user, shown),
         Sifted(y, z, frm, mv, user, shown)
  PROVE  Sifted(x, z, frm, mv, user, shown)
  <1>1. x \in PictMngrs /\ NodesWhole(x)
    BY DEF MngrInv
  <1>2. /\ y \in PictMngrs /\ z \in PictMngrs /\ Thinned(x, y) /\ Thinned(y, z)
        /\ MngrInv(z, frm, mv, user, shown)
    BY DEF MngrInv, Sifted
  <1>3. Thinned(x, z)
    BY <1>1, <1>2, ThinnedTrans
  <1> QED BY <1>2, <1>3 DEF Sifted

LEMMA FlushIs ==
  ASSUME NEW x, NEW frm, NEW mv, NEW user, NEW shown, Users(frm, mv),
         MngrInv(x, frm, mv, user, shown), NEW y, y = Flush(x)
  PROVE  Sifted(x, y, frm, mv, user, shown) /\ y.nodes = <<>>
  <1> DEFINE o == PocOrder(x)
  <1>1. x \in PictMngrs /\ NodesWhole(x)
    BY DEF MngrInv
  <1>2. ByPoc(x, o)
    BY <1>1, PocOrderIs
  <1>3. Len(o) \in Nat
    BY <1>2 DEF ByPoc
  <1>4. PICK f : Goes(f, "remove", x, o) /\ Flush(x) = f[Len(o)]
    BY <1>3, FlushRuns
  <1> HIDE DEF o
  <1>5. RunDone("remove", x, y, o, Len(o), frm, mv, user, shown)
    BY <1>2, <1>4, RunIs
  <1>6. MngrInv(y, frm, mv, user, shown) /\ Thinned(x, y)
    BY <1>5 DEF RunDone
  <1>7. \A m : HasNode(y, m) => HasNode(x, m)
    BY <1>5 DEF RunDone
  <1>8. \A j \in 1 .. Len(o) : ~HasNode(y, o[j])
    <2>1. \A j \in 1 .. Len(o) : j <= Len(o)
      BY <1>3
    <2> QED BY <2>1, <1>5 DEF RunDone
  <1>9. y.nodes \in Seq(DpbNodes) /\ Len(y.nodes) \in Nat
    BY <1>6, MngrTypes DEF MngrInv, Lists
  <1>10. ASSUME NEW i \in 1 .. Len(y.nodes) PROVE FALSE
    <2>1. HasNode(y, y.nodes[i].id)
      BY <1>9 DEF HasNode
    <2>2. PICK j \in 1 .. Len(x.nodes) : x.nodes[j].id = y.nodes[i].id
      <3>1. HasNode(x, y.nodes[i].id)
        BY <2>1, <1>7
      <3> QED BY <3>1, <1>1 DEF HasNode, PictMngrs
    <2>3. PICK k \in 1 .. Len(o) : o[k] = x.nodes[j].id
      BY <2>2, <1>2 DEF ByPoc
    <2> QED BY <2>1, <2>2, <2>3, <1>8
  <1>11. Len(y.nodes) = 0
    BY <1>9, <1>10
  <1>12. y.nodes = <<>>
    BY <1>9, <1>11
  <1> QED BY <1>6, <1>12 DEF Sifted

LEMMA UselessIs ==
  ASSUME NEW x, NEW frm, NEW mv, NEW user, NEW shown, Users(frm, mv),
         MngrInv(x, frm, mv, user, shown), NEW y, y = RemoveUseless(x)
  PROVE  Sifted(x, y, frm, mv, user, shown)
  <1> DEFINE o == PocOrder(x)
  <1>1. x \in PictMngrs /\ NodesWhole(x)
    BY DEF MngrInv
  <1>2. ByPoc(x, o)
    BY <1>1, PocOrderIs
  <1>3. Len(o) \in Nat
    BY <1>2 DEF ByPoc
  <1>4. PICK f : Goes(f, "useless", x, o) /\ RemoveUseless(x) = f[Len(o)]
    BY <1>3, UselessRuns
  <1> HIDE DEF o
  <1>5. RunDone("useless", x, y, o, Len(o), frm, mv, user, shown)
    BY <1>2, <1>4, RunIs
  <1> QED BY <1>5 DEF RunDone, Sifted

LEMMA BumpIs ==
  ASSUME NEW x, NEW frm, NEW mv, NEW user, NEW shown, Users(frm, mv),
         MngrInv(x, frm, mv, user, shown), NEW y, y = BumpExcess(x)
  PROVE  /\ Sifted(x, y, frm, mv, user, shown)
         /\ ~Excess(y) \/ \A i \in 1 .. Len(y.nodes) : IsRef(y.nodes[i])
  <1> DEFINE o == PocOrder(x)
  <1>1. x \in PictMngrs /\ NodesWhole(x)
    BY DEF MngrInv
  <1>2. ByPoc(x, o)
    BY <1>1, PocOrderIs
  <1>3. Len(o) \in Nat
    BY <1>2 DEF ByPoc
  <1>4. PICK f : Goes(f, "bump", x, o) /\ BumpExcess(x) = f[Len(o)]
    BY <1>3, BumpRuns
  <1> HIDE DEF o
  <1>5. RunDone("bump", x, y, o, Len(o), frm, mv, user, shown)
    BY <1>2, <1>4, RunIs
  <1>6. MngrInv(y, frm, mv, user, shown) /\ Thinned(x, y)
    BY <1>5 DEF RunDone
  <1>7. \A m : HasNode(y, m) => HasNode(x, m)
    BY <1>5 DEF RunDone
  <1>8. ~Excess(y) \/ \A j \in 1 .. Len(o) : HasNode(y, o[j]) => IsRef(NodeOf(y, o[j]))
    <2>1. \A j \in 1 .. Len(o) : j <= Len(o)
      BY <1>3
    <2> QED BY <2>1, <1>5 DEF RunDone
  <1>9. y \in PictMngrs /\ NodesWhole(y) /\ y.nodes \in Seq(DpbNodes)
    BY <1>6, MngrTypes DEF MngrInv, Lists
  <1>10. ASSUME Excess(y), NEW i \in 1 .. Len(y.nodes) PROVE IsRef(y.nodes[i])
    <2> DEFINE m == y.nodes[i].id
    <2>1. HasNode(y, m)
      BY <1>9 DEF HasNode
    <2>2. PICK j \in 1 .. Len(x.nodes) : x.nodes[j].id = m
      <3>1. HasNode(x, m)
        BY <2>1, <1>7
      <3> QED BY <3>1, <1>1 DEF HasNode, PictMngrs
    <2>3. PICK k \in 1 .. Len(o) : o[k] = x.nodes[j].id
      BY <2>2, <1>2 DEF ByPoc
    <2> HIDE DEF m
    <2>4. o[k] = m
      BY <2>2, <2>3
    <2>5. IsRef(NodeOf(y, m))
      BY <2>1, <2>3, <2>4, <1>8, <1>10
    <2>6. i = IndexOf(y, m) /\ NodeOf(y, m) = y.nodes[IndexOf(y, m)]
      BY <2>1, <1>9, IndexIs DEF m
    <2> QED BY <2>5, <2>6
  <1> QED BY <1>6, <1>10 DEF Sifted

\* Nodes that are all references count as references.
LEMMA AllRefs ==
  ASSUME NEW x, x \in PictMngrs, \A i \in 1 .. Len(x.nodes) : IsRef(x.nodes[i])
  PROVE  RefCount(x) = Len(x.nodes)
  <1>1. x.nodes \in Seq(DpbNodes) /\ Len(x.nodes) \in Nat /\ DOMAIN x.nodes = 1 .. Len(x.nodes)
    BY DEF PictMngrs
  <1>2. {i \in DOMAIN x.nodes : IsRef(x.nodes[i])} = 1 .. Len(x.nodes)
    BY <1>1
  <1>3. Cardinality(1 .. Len(x.nodes)) = Len(x.nodes)
    BY <1>1, FS_Interval
  <1> QED BY <1>2, <1>3 DEF RefCount

\* The DPB is cleaned up: it holds no more pictures than the level allows, or references only.
Cleaned(x, y, frm, mv, user, shown) ==
    /\ Sifted(x, y, frm, mv, user, shown)
    /\ Len(y.nodes) <= NumRef \/ Len(y.nodes) <= RefCount(x)

LEMMA CleanupIs ==
  ASSUME NEW x, NEW frm, NEW mv, NEW user, NEW shown, Users(frm, mv),
         MngrInv(x, frm, mv, user, shown), NEW y, y = Cleanup(x)
  PROVE  Cleaned(x, y, frm, mv, user, shown)
  <1> DEFINE w == RemoveUseless(x)
  <1>1. Sifted(x, w, frm, mv, user, shown)
    BY UselessIs
  <1>2. y = BumpExcess(w)
    BY DEF Cleanup
  <1> HIDE DEF w
  <1>3. MngrInv(w, frm, mv, user, shown)
    BY <1>1 DEF Sifted
  <1>4. /\ Sifted(w, y, frm, mv, user, shown)
        /\ ~Excess(y) \/ \A i \in 1 .. Len(y.nodes) : IsRef(y.nodes[i])
    BY <1>2, <1>3, BumpIs
  <1>5. Sifted(x, y, frm, mv, user, shown)
    BY <1>1, <1>4, SiftedTrans
  <1>6. y \in PictMngrs /\ RefCount(y) <= RefCount(x)
    BY <1>5 DEF Sifted, Thinned, MngrInv
  <1>7. CASE Excess(y)
    <2>1. RefCount(y) = Len(y.nodes)
      BY <1>4, <1>6, <1>7, AllRefs
    <2> QED BY <2>1, <1>5, <1>6 DEF Cleaned
  <1>8. CASE ~Excess(y)
    <2>1. Len(y.nodes) \in Nat /\ NumRef \in Nat
      BY <1>6, MngrTypes, PictMngrAssumption
    <2>2. Len(y.nodes) <= NumRef
      BY <1>8, <2>1 DEF Excess, PicCount
    <2> QED BY <2>2, <1>5 DEF Cleaned
  <1> QED BY <1>7, <1>8

\* The node in place k is no reference any more.
Unmarked(x, y, k) ==
    /\ k \in 1 .. Len(x.nodes) /\ y.nodes \in Seq(DpbNodes) /\ Len(y.nodes) = Len(x.nodes)
    /\ \A i \in 1 .. Len(x.nodes) :
          /\ y.nodes[i].id = x.nodes[i].id /\ y.nodes[i].poc = x.nodes[i].poc
          /\ y.nodes[i].frm = x.nodes[i].frm /\ y.nodes[i].mv = x.nodes[i].mv
          /\ y.nodes[i].nonExisting = x.nodes[i].nonExisting
          /\ y.nodes[i].out = x.nodes[i].out
          /\ IsRef(y.nodes[i]) <=> IsRef(x.nodes[i]) /\ i # k
    /\ y.dlt = x.dlt /\ y.disp = x.disp /\ y.status = x.status /\ y.mv = x.mv
    /\ y.pool = x.pool /\ y \in PictMngrs

LEMMA UnmarkIs ==
  ASSUME NEW x \in PictMngrs, NEW k \in 1 .. Len(x.nodes),
         NEW y, y = [x EXCEPT !.nodes[k].marking = "unused"]
  PROVE  Unmarked(x, y, k)
  <1> DEFINE nn == [x.nodes EXCEPT ![k].marking = "unused"]
             u == [x.nodes[k] EXCEPT !.marking = "unused"]
  <1>1. /\ x.nodes \in Seq(DpbNodes) /\ Len(x.nodes) \in Nat
        /\ \A i \in 1 .. Len(x.nodes) : x.nodes[i] \in DpbNodes
    BY MngrTypes DEF Lists
  <1>2. /\ u \in DpbNodes /\ u.id = x.nodes[k].id /\ u.poc = x.nodes[k].poc
        /\ u.frm = x.nodes[k].frm /\ u.mv = x.nodes[k].mv
        /\ u.nonExisting = x.nodes[k].nonExisting /\ u.out = x.nodes[k].out /\ ~IsRef(u)
    <2>1. x.nodes[k] \in DpbNodes
      BY <1>1
    <2> QED BY <2>1 DEF DpbNodes, Markings, IsRef
  <1>3. /\ nn \in Seq(DpbNodes) /\ Len(nn) = Len(x.nodes) /\ nn[k] = u
        /\ \A i \in 1 .. Len(x.nodes) : i # k => nn[i] = x.nodes[i]
    <2>1. nn = [x.nodes EXCEPT ![k] = u]
      OBVIOUS
    <2> HIDE DEF nn, u
    <2> QED BY <1>1, <1>2, <2>1
  <1>4. /\ y.nodes = nn /\ y.dlt = x.dlt /\ y.disp = x.disp /\ y.status = x.status
        /\ y.mv = x.mv /\ y.pool = x.pool
    BY DEF PictMngrs
  <1>5. y \in PictMngrs
    <2> HIDE DEF nn
    <2>1. y = [x EXCEPT !.nodes = nn]
      BY DEF nn, PictMngrs
    <2> QED BY <2>1, <1>3 DEF PictMngrs
  <1> HIDE DEF nn, u
  <1>6. ASSUME NEW i \in 1 .. Len(x.nodes)
        PROVE  /\ y.nodes[i].id = x.nodes[i].id /\ y.nodes[i].poc = x.nodes[i].poc
               /\ y.nodes[i].frm = x.nodes[i].frm /\ y.nodes[i].mv = x.nodes[i].mv
               /\ y.nodes[i].nonExisting = x.nodes[i].nonExisting
               /\ y.nodes[i].out = x.nodes[i].out
               /\ IsRef(y.nodes[i]) <=> IsRef(x.nodes[i]) /\ i # k
    <2>1. CASE i = k
      BY <2>1, <1>2, <1>3, <1>4
    <2>2. CASE i # k
      BY <2>2, <1>3, <1>4
    <2> QED BY <2>1, <2>2
  <1> QED BY <1>3, <1>4, <1>5, <1>6 DEF Unmarked

\* Nothing is output while the display list and what is to be output stay.
LEMMA NothingOutput ==
  ASSUME NEW x, NEW y, y.disp = x.disp, Len(x.disp) \in Nat,
         \A t : ToBeOutput(y, t) <=> ToBeOutput(x, t)
  PROVE  Queued(x, y) /\ Kept(x, y) /\ Ordered(x, y)
  <1>1. \A i \in 1 .. Len(y.disp) : ~(i > Len(x.disp))
    OBVIOUS
  <1> QED BY <1>1 DEF Queued, Kept, Ordered

LEMMA UnmarkedInv ==
  ASSUME NEW x, NEW frm, NEW mv, NEW user, NEW shown,
         MngrInv(x, frm, mv, user, shown), NEW y, NEW k, Unmarked(x, y, k), IsRef(x.nodes[k])
  PROVE  Sifted(x, y, frm, mv, user, shown) /\ RefCount(y) = RefCount(x) - 1
  <1>1. /\ x \in PictMngrs /\ PoolInv(x.pool) /\ MvInv(x.mv)
        /\ NodesWhole(x) /\ CountsExact(x, frm, mv) /\ OutputWhole(x, user, shown)
    BY DEF MngrInv
  <1>2. /\ k \in 1 .. Len(x.nodes) /\ y.nodes \in Seq(DpbNodes) /\ Len(y.nodes) = Len(x.nodes)
        /\ \A i \in 1 .. Len(x.nodes) :
              /\ y.nodes[i].id = x.nodes[i].id /\ y.nodes[i].poc = x.nodes[i].poc
              /\ y.nodes[i].frm = x.nodes[i].frm /\ y.nodes[i].mv = x.nodes[i].mv
              /\ y.nodes[i].nonExisting = x.nodes[i].nonExisting
              /\ y.nodes[i].out = x.nodes[i].out
              /\ IsRef(y.nodes[i]) <=> IsRef(x.nodes[i]) /\ i # k
        /\ y.dlt = x.dlt /\ y.disp = x.disp /\ y.status = x.status /\ y.mv = x.mv
        /\ y.pool = x.pool /\ y \in PictMngrs
    BY DEF Unmarked
  <1>3. /\ \A i \in 1 .. Len(x.nodes) : x.nodes[i] \in DpbNodes
        /\ \A i \in 1 .. Len(x.nodes) : y.nodes[i] \in DpbNodes
        /\ Lists(x) /\ Lists(y) /\ x.nodes \in Seq(DpbNodes) /\ Len(x.disp) \in Nat
        /\ Len(x.nodes) \in Nat
    BY <1>1, <1>2, MngrTypes DEF Lists
  <1>4. NodesWhole(y)
    BY <1>1, <1>2, SMTT(30) DEF NodesWhole
  <1>5. \A t : FrmHeld(y, t) = FrmHeld(x, t)
    <2> SUFFICES ASSUME NEW t PROVE FrmHeld(y, t) = FrmHeld(x, t)
      OBVIOUS
    <2>1. \A i \in 1 .. Len(x.nodes) : x.nodes[i] \in NodesOn(t) <=> y.nodes[i] \in NodesOn(t)
      BY <1>2, <1>3 DEF NodesOn
    <2>2. Count(y.nodes, NodesOn(t)) = Count(x.nodes, NodesOn(t))
      BY <2>1, <1>2, CountSame
    <2>3. /\ FrmHeld(x, t) = Count(x.nodes, NodesOn(t)) + Count(x.dlt, PairsOn(t))
                            + Count(x.disp, {t})
          /\ FrmHeld(y, t) = Count(y.nodes, NodesOn(t)) + Count(y.dlt, PairsOn(t))
                            + Count(y.disp, {t})
      BY <1>3, FrmHeldIs
    <2> QED BY <2>2, <2>3, <1>2
  <1>6. \A m : MvHeld(y, m) = MvHeld(x, m)
    <2> SUFFICES ASSUME NEW m PROVE MvHeld(y, m) = MvHeld(x, m)
      OBVIOUS
    <2>1. \A i \in 1 .. Len(x.nodes) : x.nodes[i] \in NodesWith(m) <=> y.nodes[i] \in NodesWith(m)
      BY <1>2, <1>3 DEF NodesWith
    <2>2. Count(y.nodes, NodesWith(m)) = Count(x.nodes, NodesWith(m))
      BY <2>1, <1>2, CountSame
    <2> QED BY <2>2, <1>2, <1>3, MvHeldIs
  <1>7. CountsExact(y, frm, mv)
    BY <1>1, <1>2, <1>5, <1>6 DEF CountsExact
  <1>8. \A t : ToBeOutput(y, t) <=> ToBeOutput(x, t)
    BY <1>2 DEF ToBeOutput
  <1>9. OutputWhole(y, user, shown)
    <2>1. \A t : InDisplay(y, t) <=> InDisplay(x, t)
      BY <1>2 DEF InDisplay
    <2> QED BY <1>1, <1>2, <1>8, <2>1 DEF OutputWhole
  <1>10. MngrInv(y, frm, mv, user, shown)
    BY <1>1, <1>2, <1>4, <1>7, <1>9 DEF MngrInv
  <1>11. FromNodes(x, y)
    <2> SUFFICES ASSUME NEW i \in 1 .. Len(y.nodes)
                 PROVE \E j \in 1 .. Len(x.nodes) : SameNode(x.nodes[j], y.nodes[i])
      BY DEF FromNodes
    <2>1. SameNode(x.nodes[i], y.nodes[i])
      BY <1>2 DEF SameNode
    <2> QED BY <2>1, <1>2
  <1>12. Queued(x, y) /\ Kept(x, y) /\ Ordered(x, y)
    BY <1>2, <1>3, <1>8, NothingOutput
  <1>13. Steady(x, y)
    BY <1>2, SMTT(30) DEF Steady, NoneHeld, NoMvHeld
  <1>14. RefCount(y) = RefCount(x) - 1 /\ RefCount(x) \in Nat
    <2> DEFINE Rx == {i \in 1 .. Len(x.nodes) : IsRef(x.nodes[i])}
               Ry == {i \in 1 .. Len(y.nodes) : IsRef(y.nodes[i])}
    <2>1. Ry = Rx \ {k} /\ k \in Rx
      BY <1>2
    <2>2. IsFiniteSet(Rx)
      <3>1. IsFiniteSet(1 .. Len(x.nodes))
        <4>1. 1 \in Int /\ Len(x.nodes) \in Int
          BY <1>3
        <4> QED BY <4>1, FS_Interval
      <3>2. Rx \subseteq 1 .. Len(x.nodes)
        OBVIOUS
      <3> HIDE DEF Rx
      <3> QED BY <3>1, <3>2, FS_Subset
    <2> HIDE DEF Rx, Ry
    <2>3. Cardinality(Ry) = Cardinality(Rx) - 1 /\ Cardinality(Rx) \in Nat
      BY <2>1, <2>2, FS_RemoveElement, FS_CardinalityType
    <2>4. DOMAIN x.nodes = 1 .. Len(x.nodes) /\ DOMAIN y.nodes = 1 .. Len(y.nodes)
      BY <1>2, <1>3
    <2>5. RefCount(x) = Cardinality(Rx) /\ RefCount(y) = Cardinality(Ry)
      BY <2>4 DEF Rx, Ry, RefCount
    <2> QED BY <2>3, <2>5
  <1>15. Stored(x, y, {}, 0)
    BY <1>1, <1>2, SameStored
  <1> QED BY <1>2, <1>3, <1>10, <1>11, <1>12, <1>13, <1>14, <1>15 DEF Sifted, Thinned

\* Beyond max_num_ref_frames one reference is dropped.
Slid(x, y, frm, mv, user, shown) ==
    /\ Sifted(x, y, frm, mv, user, shown)
    /\ RefCount(y) <= MaxRefFrames \/ RefCount(y) = RefCount(x) - 1

LEMMA SlidingIs ==
  ASSUME NEW x, NEW frm, NEW mv, NEW user, NEW shown, Users(frm, mv),
         MngrInv(x, frm, mv, user, shown), NEW z, z = SlidingWindow(x)
  PROVE  Slid(x, z, frm, mv, user, shown)
  <1> DEFINE refs == {i \in DOMAIN x.nodes : IsRef(x.nodes[i])}
             k == Min(refs)
             y == [x EXCEPT !.nodes[k].marking = "unused"]
  <1>1. x \in PictMngrs /\ NodesWhole(x) /\ Lists(x)
    BY MngrTypes DEF MngrInv
  <1>2. DOMAIN x.nodes = 1 .. Len(x.nodes) /\ Len(x.nodes) \in Nat
    BY <1>1 DEF PictMngrs
  <1>3. RefCount(x) = Cardinality(refs) /\ RefCount(x) \in Nat
    BY <1>1, RefCountIs DEF RefCount
  <1>4. CASE Cardinality(refs) <= MaxRefFrames
    <2>1. z = x
      BY <1>4 DEF SlidingWindow
    <2>2. Thinned(x, x)
      BY <1>1, ThinnedSelf
    <2> HIDE DEF refs
    <2> QED BY <2>1, <2>2, <1>3, <1>4 DEF Slid, Sifted
  <1>5. CASE ~(Cardinality(refs) <= MaxRefFrames)
    <2>1. k \in refs
      <3>1. refs # {}
        <4>1. refs = {} => Cardinality(refs) = 0
          BY FS_EmptySet
        <4>2. MaxRefFrames >= 0
          BY PictMngrAssumption
        <4> HIDE DEF refs
        <4> QED BY <4>1, <4>2, <1>5
      <3>2. refs \in SUBSET Nat
        BY <1>2
      <3> HIDE DEF refs
      <3> QED BY <3>1, <3>2, MinIs
    <2>2. k \in 1 .. Len(x.nodes) /\ IsRef(x.nodes[k])
      BY <2>1, <1>2
    <2>3. z = IF x.nodes[k].nonExisting THEN RemoveNode(y, x.nodes[k].id) ELSE y
      BY <1>5 DEF SlidingWindow
    <2> HIDE DEF k, refs
    <2>4. Unmarked(x, y, k)
      BY <1>1, <2>2, UnmarkIs
    <2> HIDE DEF y
    <2>5. Sifted(x, y, frm, mv, user, shown) /\ RefCount(y) = RefCount(x) - 1
      BY <2>2, <2>4, UnmarkedInv
    <2>6. CASE ~x.nodes[k].nonExisting
      BY <2>3, <2>5, <2>6 DEF Slid
    <2>7. CASE x.nodes[k].nonExisting
      <3> DEFINE n == x.nodes[k].id
      <3>1. MngrInv(y, frm, mv, user, shown) /\ y \in PictMngrs /\ NodesWhole(y)
        BY <2>5 DEF Sifted, MngrInv
      <3>2. /\ y.nodes[k].id = n /\ y.nodes[k].nonExisting /\ ~IsRef(y.nodes[k])
            /\ k \in 1 .. Len(y.nodes)
        BY <2>2, <2>4, <2>7 DEF Unmarked
      <3>3. HasNode(y, n)
        BY <3>1, <3>2 DEF HasNode, PictMngrs
      <3>4. z = RemoveNode(y, n)
        BY <2>3, <2>7
      <3> HIDE DEF n
      <3>5. NodeOf(y, n) = y.nodes[k]
        BY <3>1, <3>2, <3>3, IndexIs
      <3>6. ~y.nodes[k].out
        BY <3>1, <3>2 DEF NodesWhole
      <3>7. Removed(y, z, n, frm, mv, user, shown)
        BY <3>1, <3>3, <3>4, <3>5, <3>6, RemoveIs
      <3>8. RefCount(z) = RefCount(y) - One(IsRef(NodeOf(y, n))) /\ Sifted(y, z, frm, mv, user, shown)
        BY <3>7 DEF Removed, Sifted
      <3>9. One(IsRef(NodeOf(y, n))) = 0
        BY <3>2, <3>5 DEF One
      <3>10. RefCount(z) = RefCount(x) - 1
        BY <3>8, <3>9, <2>5, <1>3
      <3>11. Sifted(x, z, frm, mv, user, shown)
        BY <3>8, <2>5, SiftedTrans
      <3> QED BY <3>10, <3>11 DEF Slid
    <2> QED BY <2>6, <2>7
  <1> QED BY <1>4, <1>5
-----------------------------------------------------------------------------
(* A node enters the DPB *)

\* A DPB that is not full has a node that is free or can be used again.
LEMMA NextFree ==
  ASSUME NEW x, x \in PictMngrs, Len(x.nodes) < DpbSize
  PROVE  NextFreeNode(x) \in NodeIDs /\ Reusable(x, NextFreeNode(x))
  <1> DEFINE c == Len(x.nodes)
             g == [n \in NodeIDs |-> IndexOf(x, n)]
             R == {n \in NodeIDs : Reusable(x, n)}
  <1>1. c \in Nat /\ DOMAIN x.nodes = 1 .. c
    BY MngrTypes DEF PictMngrs
  <1>2. IsFiniteSet(1 .. c) /\ Cardinality(1 .. c) = c
    BY <1>1, FS_Interval
  <1>3. Cardinality(NodeIDs) = DpbSize
    <2>1. /\ 0 \in Int /\ DpbSize - 1 \in Int /\ ~(0 > DpbSize - 1)
          /\ (DpbSize - 1) - 0 + 1 = DpbSize
      BY PictMngrAssumption
    <2>2. Cardinality(0 .. DpbSize - 1) = IF 0 > DpbSize - 1 THEN 0 ELSE (DpbSize - 1) - 0 + 1
      BY <2>1, FS_Interval
    <2> QED BY <2>1, <2>2 DEF NodeIDs
  <1>4. ASSUME \A n \in NodeIDs : HasNode(x, n) PROVE FALSE
    <2>1. \A n \in NodeIDs : g[n] \in 1 .. c /\ x.nodes[g[n]].id = n
      BY <1>1, <1>4 DEF HasNode, IndexOf
    <2>2. DOMAIN g = NodeIDs /\ g = [n \in NodeIDs |-> g[n]]
      OBVIOUS
    <2> HIDE DEF g, c
    <2>3. g \in [NodeIDs -> 1 .. c]
      BY <2>1, <2>2
    <2>4. g \in Injection(NodeIDs, 1 .. c)
      BY <2>1, <2>3 DEF Injection, IsInjective
    <2>5. Cardinality(NodeIDs) <= Cardinality(1 .. c)
      BY <2>4, <1>2, FS_Injection
    <2> QED BY <2>5, <1>1, <1>2, <1>3, PictMngrAssumption DEF c
  <1>11. R # {}
    BY <1>4 DEF Reusable
  <1>12. R \in SUBSET Nat
    BY PictMngrAssumption DEF NodeIDs
  <1>13. Min(R) \in R
    <2> HIDE DEF R
    <2> QED BY <1>11, <1>12, MinIs
  <1> QED BY <1>13 DEF NextFreeNode

\* Node n is free now.
Freed(x, y, n, frm, mv, user, shown) ==
    /\ Sifted(x, y, frm, mv, user, shown)
    /\ ~HasNode(y, n) /\ y.disp = x.disp /\ y.pool = x.pool /\ y.mv = x.mv
    /\ \A t : ToBeOutput(y, t) <=> ToBeOutput(x, t)

LEMMA FreedIs ==
  ASSUME NEW x, NEW frm, NEW mv, NEW user, NEW shown, Users(frm, mv),
         MngrInv(x, frm, mv, user, shown), NEW n, Reusable(x, n),
         NEW y, y = IF HasNode(x, n) THEN RemoveNode(x, n) ELSE x
  PROVE  Freed(x, y, n, frm, mv, user, shown)
  <1>1. x \in PictMngrs /\ NodesWhole(x) /\ Len(x.disp) \in Nat
    BY MngrTypes DEF MngrInv
  <1>2. CASE ~HasNode(x, n)
    BY <1>1, <1>2, ThinnedSelf DEF Freed, Sifted
  <1>3. CASE HasNode(x, n)
    <2>1. ~NodeOf(x, n).out
      BY <1>3 DEF Reusable
    <2>2. Removed(x, y, n, frm, mv, user, shown)
      BY <1>3, <2>1, RemoveIs
    <2>3. Sifted(x, y, frm, mv, user, shown) /\ ~HasNode(y, n) /\ Thinned(x, y)
      BY <2>2 DEF Removed, Sifted
    <2>4. RemovedNode(x, y, IndexOf(x, n))
      BY <1>1, <1>3, RemoveNodeIs
    <2>5. y.disp = x.disp /\ y.pool = x.pool /\ y.mv = x.mv
      BY <2>4 DEF RemovedNode
    <2>6. FromNodes(x, y) /\ Kept(x, y)
      BY <2>3 DEF Thinned
    <2>7. \A t : ToBeOutput(y, t) => ToBeOutput(x, t)
      BY <2>6, FromOutput
    <2>8. \A t : ToBeOutput(x, t) => ToBeOutput(y, t)
      <3>1. \A i \in 1 .. Len(y.disp) : ~(i > Len(x.disp))
        BY <2>5, <1>1
      <3> QED BY <2>6, <3>1 DEF Kept
    <2> QED BY <2>3, <2>5, <2>7, <2>8 DEF Freed
  <1> QED BY <1>2, <1>3

\* A node more, its identifier and its buffers its own
NewNode(x, z, o) ==
    /\ o \in DpbNodes /\ ~HasNode(x, o.id) /\ z.nodes = Append(x.nodes, o)
    /\ o.nonExisting => o.frm = NoSlot /\ o.mv = NoMv /\ ~o.out
    /\ ~o.nonExisting =>
          /\ o.frm \in Slots /\ o.mv \in MvIDs
          /\ \A i \in 1 .. Len(x.nodes) : x.nodes[i].frm # o.frm /\ x.nodes[i].mv # o.mv

NodeAdded(x, z, o) ==
    /\ NodesWhole(z) /\ z.nodes \in Seq(DpbNodes) /\ Len(x.nodes) \in Nat
    /\ Len(z.nodes) = Len(x.nodes) + 1 /\ z.nodes[Len(x.nodes) + 1] = o
    /\ \A i \in 1 .. Len(x.nodes) : z.nodes[i] = x.nodes[i]
    /\ \A i \in 1 .. Len(z.nodes) : i \in 1 .. Len(x.nodes) \/ i = Len(x.nodes) + 1
    /\ \A T : Count(z.nodes, T) = Count(x.nodes, T) + One(o \in T)
    /\ RefCount(z) = RefCount(x) + One(IsRef(o)) /\ RefCount(x) \in Nat
    /\ \A t : ToBeOutput(z, t) <=> ToBeOutput(x, t) \/ (o.out /\ o.frm = t)

LEMMA NewNodeIs ==
  ASSUME NEW x \in PictMngrs, NodesWhole(x), NEW z, NEW o, NewNode(x, z, o)
  PROVE  NodeAdded(x, z, o)
  <1> DEFINE c == Len(x.nodes)
  <1>1. /\ x.nodes \in Seq(DpbNodes) /\ c \in Nat /\ Lists(x) /\ DOMAIN x.nodes = 1 .. c
        /\ \A i \in 1 .. c : x.nodes[i] \in DpbNodes
    BY MngrTypes DEF Lists
  <1>2. /\ o \in DpbNodes /\ ~HasNode(x, o.id) /\ z.nodes = Append(x.nodes, o)
        /\ o.nonExisting => o.frm = NoSlot /\ o.mv = NoMv /\ ~o.out
        /\ ~o.nonExisting =>
              /\ o.frm \in Slots /\ o.mv \in MvIDs
              /\ \A i \in 1 .. c : x.nodes[i].frm # o.frm /\ x.nodes[i].mv # o.mv
    BY DEF NewNode
  <1>3. /\ z.nodes \in Seq(DpbNodes) /\ Len(z.nodes) = c + 1 /\ z.nodes[c + 1] = o
        /\ \A i \in 1 .. c : z.nodes[i] = x.nodes[i]
    BY <1>1, <1>2, SeqEnd
  <1>4. \A T : Count(z.nodes, T) = Count(x.nodes, T) + One(o \in T)
    BY <1>1, <1>2, CountEnd
  <1>5. \A i \in 1 .. Len(z.nodes) : i \in 1 .. c \/ i = c + 1
    BY <1>1, <1>3
  <1>a. NoSlot \notin Slots /\ NoMv \notin MvIDs
    BY SlotsAre, MvBufPoolAssumption DEF NoMv, MvIDs
  <1>b. \A i \in 1 .. c : x.nodes[i].id # o.id
    BY <1>1, <1>2 DEF HasNode
  <1> HIDE DEF c
  <1>6. NodesWhole(z)
    <2>1. ASSUME NEW i \in 1 .. Len(z.nodes)
          PROVE  IF z.nodes[i].nonExisting
                 THEN z.nodes[i].frm = NoSlot /\ z.nodes[i].mv = NoMv /\ ~z.nodes[i].out
                 ELSE z.nodes[i].frm \in Slots /\ z.nodes[i].mv \in MvIDs
      <3>1. CASE i = c + 1
        BY <3>1, <1>2, <1>3
      <3>2. CASE i \in 1 .. c
        BY <3>2, <1>3 DEF NodesWhole, c
      <3> QED BY <3>1, <3>2, <1>5
    <2>2. ASSUME NEW i \in 1 .. Len(z.nodes), NEW j \in 1 .. Len(z.nodes),
                 \/ z.nodes[i].id = z.nodes[j].id
                 \/ ~z.nodes[i].nonExisting /\ (\/ z.nodes[i].frm = z.nodes[j].frm
                                                \/ z.nodes[i].mv = z.nodes[j].mv)
          PROVE  i = j
      <3>1. CASE i \in 1 .. c /\ j \in 1 .. c
        <4>1. z.nodes[i] = x.nodes[i] /\ z.nodes[j] = x.nodes[j]
          BY <3>1, <1>3
        <4> QED BY <3>1, <4>1, <2>2 DEF NodesWhole, c
      <3>2. CASE i = c + 1 /\ j \in 1 .. c
        <4>1. z.nodes[i] = o /\ z.nodes[j] = x.nodes[j]
          BY <3>2, <1>3
        <4> QED BY <3>2, <4>1, <2>2, <1>2, <1>b
      <3>3. CASE i \in 1 .. c /\ j = c + 1
        <4>1. z.nodes[j] = o /\ z.nodes[i] = x.nodes[i]
          BY <3>3, <1>3
        <4>2. CASE o.nonExisting
          <5>1. ~x.nodes[i].nonExisting => x.nodes[i].frm \in Slots /\ x.nodes[i].mv \in MvIDs
            BY <3>3 DEF NodesWhole, c
          <5> QED BY <5>1, <4>2, <3>3, <4>1, <2>2, <1>2, <1>a, <1>b
        <4>3. CASE ~o.nonExisting
          BY <4>3, <3>3, <4>1, <2>2, <1>2, <1>b
        <4> QED BY <4>2, <4>3
      <3> QED BY <3>1, <3>2, <3>3, <1>5, <2>2
    <2> QED BY <2>1, <2>2 DEF NodesWhole
  <1>7. RefCount(z) = RefCount(x) + One(IsRef(o)) /\ RefCount(x) \in Nat
    <2> DEFINE Rx == {i \in 1 .. Len(x.nodes) : x.nodes[i] \in Refs}
               Rz == {i \in 1 .. Len(z.nodes) : z.nodes[i] \in Refs}
    <2>1. DOMAIN z.nodes = 1 .. Len(z.nodes) /\ \A i \in 1 .. Len(z.nodes) : z.nodes[i] \in DpbNodes
      BY <1>3
    <2>2. {i \in DOMAIN z.nodes : IsRef(z.nodes[i])} = Rz
      BY <2>1 DEF Refs
    <2>3. RefCount(z) = Count(z.nodes, Refs)
      BY <2>2 DEF RefCount, Count
    <2>4. RefCount(x) = Count(x.nodes, Refs) /\ RefCount(x) \in Nat
      BY <1>1, RefCountIs
    <2>5. One(o \in Refs) = One(IsRef(o))
      BY <1>2 DEF Refs, One
    <2> QED BY <2>3, <2>4, <2>5, <1>4
  <1>8. ASSUME NEW t PROVE ToBeOutput(z, t) <=> ToBeOutput(x, t) \/ (o.out /\ o.frm = t)
    <2>1. ASSUME ToBeOutput(z, t) PROVE ToBeOutput(x, t) \/ (o.out /\ o.frm = t)
      <3>1. PICK i \in 1 .. Len(z.nodes) : z.nodes[i].out /\ z.nodes[i].frm = t
        BY <2>1 DEF ToBeOutput
      <3> QED BY <3>1, <1>3, <1>5 DEF ToBeOutput, c
    <2>2. ASSUME ToBeOutput(x, t) PROVE ToBeOutput(z, t)
      <3>1. PICK i \in 1 .. c : x.nodes[i].out /\ x.nodes[i].frm = t
        BY <2>2 DEF ToBeOutput, c
      <3>2. i \in 1 .. Len(z.nodes)
        BY <3>1, <1>1, <1>3
      <3> QED BY <3>1, <3>2, <1>3 DEF ToBeOutput
    <2>3. ASSUME o.out, o.frm = t PROVE ToBeOutput(z, t)
      <3>1. c + 1 \in 1 .. Len(z.nodes)
        BY <1>1, <1>3
      <3> QED BY <2>3, <3>1, <1>3 DEF ToBeOutput
    <2> QED BY <2>1, <2>2, <2>3
  <1> QED BY <1>1, <1>3, <1>4, <1>5, <1>6, <1>7, <1>8 DEF c, NodeAdded

\* The DPB may have grown by a node; what was to be output still is, in the same order.
Grown(x, y) ==
    /\ y.disp = x.disp
    /\ \A t : ToBeOutput(x, t) => ToBeOutput(y, t)
    /\ \A s, t : Sooner(x, s, t) => Sooner(y, s, t)
    /\ Len(y.nodes) <= Len(x.nodes) + 1

\* The node of a picture that does not exist
GapNode(n, poc) ==
    [id |-> n, poc |-> poc, frm |-> NoSlot, mv |-> NoMv, marking |-> "shortTerm",
     out |-> FALSE, nonExisting |-> TRUE]

LEMMA SoonerGrows ==
  ASSUME NEW x \in PictMngrs, NodesWhole(x), NEW y \in PictMngrs, NodesWhole(y), FromNodes(x, y),
         \A t : ToBeOutput(y, t) <=> ToBeOutput(x, t),
         NEW z, NEW o, NewNode(y, z, o), NEW s, NEW t, Sooner(x, s, t)
  PROVE  Sooner(z, s, t)
  <1>1. ToBeOutput(y, s) /\ ToBeOutput(y, t)
    BY DEF Sooner, ToBeOutput
  <1>2. Sooner(y, s, t)
    BY <1>1, SoonerStays
  <1>3. /\ Len(z.nodes) = Len(y.nodes) + 1 /\ Len(y.nodes) \in Nat
        /\ \A i \in 1 .. Len(y.nodes) : z.nodes[i] = y.nodes[i]
    BY NewNodeIs DEF NodeAdded
  <1>4. \A i \in 1 .. Len(y.nodes) : i \in 1 .. Len(z.nodes)
    BY <1>3
  <1> QED BY <1>2, <1>3, <1>4 DEF Sooner

GapInserted(x, y, frm, mv, user, shown) ==
    /\ MngrInv(y, frm, mv, user, shown) /\ Grown(x, y) /\ Steady(x, y)
    /\ RefCount(y) <= RefCount(x) + 1 /\ Stored(x, y, {}, 0)

LEMMA OutputStays ==
  ASSUME NEW x, NEW y, NEW user, NEW shown, y.disp = x.disp, y.status = x.status,
         y.pool = x.pool, \A t : ToBeOutput(y, t) <=> ToBeOutput(x, t),
         OutputWhole(x, user, shown)
  PROVE  OutputWhole(y, user, shown)
  <1>1. \A t : InDisplay(y, t) <=> InDisplay(x, t)
    BY DEF InDisplay
  <1> QED BY <1>1 DEF OutputWhole

LEMMA GapAdded ==
  ASSUME NEW x, NEW frm, NEW mv, NEW user, NEW shown, Users(frm, mv),
         MngrInv(x, frm, mv, user, shown), NEW n \in NodeIDs, NEW poc \in Int, NEW y,
         Freed(x, y, n, frm, mv, user, shown), NEW o, o = GapNode(n, poc),
         NEW z, z = [y EXCEPT !.nodes = Append(@, o)]
  PROVE  GapInserted(x, z, frm, mv, user, shown)
  <1>1. x \in PictMngrs /\ NodesWhole(x) /\ Len(x.nodes) \in Nat /\ Lists(x)
    BY MngrTypes DEF MngrInv
  <1>5. /\ MngrInv(y, frm, mv, user, shown) /\ Thinned(x, y) /\ ~HasNode(y, n)
        /\ y.disp = x.disp /\ \A t : ToBeOutput(y, t) <=> ToBeOutput(x, t)
    BY DEF Freed, Sifted
  <1>6. /\ y \in PictMngrs /\ PoolInv(y.pool) /\ MvInv(y.mv)
        /\ NodesWhole(y) /\ CountsExact(y, frm, mv) /\ OutputWhole(y, user, shown)
    BY <1>5 DEF MngrInv
  <1>7. o \in DpbNodes /\ o.id = n /\ o.nonExisting /\ o.frm = NoSlot /\ o.mv = NoMv /\ ~o.out
    BY DEF GapNode, DpbNodes, Markings
  <1>8. /\ z.nodes = Append(y.nodes, o) /\ z.disp = y.disp /\ z.dlt = y.dlt
        /\ z.status = y.status /\ z.pool = y.pool /\ z.mv = y.mv
    BY <1>6 DEF PictMngrs
  <1>9. NewNode(y, z, o)
    BY <1>5, <1>7, <1>8 DEF NewNode
  <1>10. NodeAdded(y, z, o)
    BY <1>6, <1>9, NewNodeIs
  <1>11. z \in PictMngrs
    BY <1>6, <1>8, <1>10 DEF PictMngrs, NodeAdded
  <1>12. Lists(y) /\ Lists(z)
    BY <1>6, <1>11, MngrTypes
  <1>13. NoSlot \notin Slots /\ NoMv \notin MvIDs
    BY SlotsAre, MvBufPoolAssumption DEF NoMv, MvIDs
  <1>14. \A t \in Slots : FrmHeld(z, t) = FrmHeld(y, t)
    <2> SUFFICES ASSUME NEW t \in Slots PROVE FrmHeld(z, t) = FrmHeld(y, t)
      OBVIOUS
    <2>1. One(o \in NodesOn(t)) = 0
      BY <1>7, <1>13 DEF One, NodesOn
    <2>2. Count(z.nodes, NodesOn(t)) = Count(y.nodes, NodesOn(t)) + One(o \in NodesOn(t))
      BY <1>10 DEF NodeAdded
    <2>3. /\ FrmHeld(z, t) = Count(z.nodes, NodesOn(t)) + Count(z.dlt, PairsOn(t))
                             + Count(z.disp, {t})
          /\ FrmHeld(y, t) = Count(y.nodes, NodesOn(t)) + Count(y.dlt, PairsOn(t))
                             + Count(y.disp, {t})
          /\ Count(y.nodes, NodesOn(t)) \in Nat
      BY <1>12, FrmHeldIs
    <2> QED BY <2>1, <2>2, <2>3, <1>8
  <1>15. \A m \in MvIDs : MvHeld(z, m) = MvHeld(y, m)
    <2> SUFFICES ASSUME NEW m \in MvIDs PROVE MvHeld(z, m) = MvHeld(y, m)
      OBVIOUS
    <2>1. One(o \in NodesWith(m)) = 0
      BY <1>7, <1>13 DEF One, NodesWith
    <2>2. Count(z.nodes, NodesWith(m)) = Count(y.nodes, NodesWith(m)) + One(o \in NodesWith(m))
      BY <1>10 DEF NodeAdded
    <2>3. /\ MvHeld(z, m) = Count(z.nodes, NodesWith(m)) + Count(z.dlt, PairsWith(m))
          /\ MvHeld(y, m) = Count(y.nodes, NodesWith(m)) + Count(y.dlt, PairsWith(m))
          /\ Count(y.nodes, NodesWith(m)) \in Nat
      BY <1>12, MvHeldIs
    <2> QED BY <2>1, <2>2, <2>3, <1>8
  <1>16. CountsExact(z, frm, mv)
    BY <1>6, <1>8, <1>14, <1>15 DEF CountsExact
  <1>17. \A t : ToBeOutput(z, t) <=> ToBeOutput(y, t)
    BY <1>7, <1>10 DEF NodeAdded
  <1>18. OutputWhole(z, user, shown)
    <2> QED BY <1>6, <1>8, <1>17, OutputStays
  <1>19. MngrInv(z, frm, mv, user, shown)
    BY <1>6, <1>8, <1>10, <1>11, <1>16, <1>18 DEF MngrInv, NodeAdded
  <1>20. \A s, t : Sooner(x, s, t) => Sooner(z, s, t)
    <2>1. FromNodes(x, y)
      BY <1>5 DEF Thinned
    <2> QED BY <2>1, <1>1, <1>5, <1>6, <1>9, SoonerGrows
  <1>21. Len(z.nodes) <= Len(x.nodes) + 1 /\ RefCount(z) <= RefCount(x) + 1
    <2>1. Len(y.nodes) <= Len(x.nodes) /\ RefCount(y) <= RefCount(x)
      BY <1>5 DEF Thinned
    <2>2. One(IsRef(o)) \in {0, 1} /\ RefCount(x) \in Nat
      BY <1>1, OneIs, RefCountIs
    <2>3. /\ Len(y.nodes) \in Nat /\ Len(z.nodes) = Len(y.nodes) + 1
          /\ RefCount(z) = RefCount(y) + One(IsRef(o)) /\ RefCount(y) \in Nat
      BY <1>10 DEF NodeAdded
    <2> QED BY <2>1, <2>2, <2>3, <1>1
  <1>22. Steady(x, z)
    <2>1. Steady(x, y)
      BY <1>5 DEF Thinned
    <2>2. \A i \in 1 .. Len(z.nodes) : i \in 1 .. Len(y.nodes) \/ i = Len(y.nodes) + 1
      BY <1>10 DEF NodeAdded
    <2>a. /\ z.nodes[Len(y.nodes) + 1] = o
          /\ \A i \in 1 .. Len(y.nodes) : z.nodes[i] = y.nodes[i]
      BY <1>10 DEF NodeAdded
    <2>3. ASSUME NEW s \in Slots, NoneHeld(y, s) PROVE NoneHeld(z, s)
      <3>1. o.frm # s
        BY <1>7, <1>13
      <3> QED BY <3>1, <2>2, <2>3, <2>a, <1>8 DEF NoneHeld
    <2>4. ASSUME NEW m \in MvIDs, NoMvHeld(y, m) PROVE NoMvHeld(z, m)
      <3>1. o.mv # m
        BY <1>7, <1>13
      <3> QED BY <3>1, <2>2, <2>4, <2>a, <1>8 DEF NoMvHeld
    <2> QED BY <2>1, <2>3, <2>4, <1>8 DEF Steady
  <1>23. Grown(x, z)
    BY <1>5, <1>8, <1>17, <1>20, <1>21 DEF Grown
  <1>24. Stored(x, z, {}, 0)
    <2>1. Stored(x, y, {}, 0)
      BY <1>5 DEF Thinned
    <2>2. NodeMvs(z) \subseteq NodeMvs(y)
      BY <1>7, <1>10 DEF NodeAdded, NodeMvs
    <2>3. One(o \in Reals) = 0
      BY <1>7 DEF Reals, One
    <2>4. Count(z.nodes, Reals) = Count(y.nodes, Reals) + One(o \in Reals)
      BY <1>10 DEF NodeAdded
    <2>5. Tally(z) = Tally(y)
      <3>1. /\ RealCount(z) = Count(z.nodes, Reals) /\ RealCount(y) = Count(y.nodes, Reals)
            /\ RealCount(y) \in Nat
        BY <1>12, TallyIs
      <3>2. RealCount(z) = RealCount(y)
        BY <2>3, <2>4, <3>1
      <3> QED BY <1>8, <3>2 DEF Tally
    <2> QED BY <1>8, <2>1, <2>2, <2>5 DEF Stored
  <1> QED BY <1>19, <1>21, <1>22, <1>23, <1>24 DEF GapInserted

LEMMA GapInsertIs ==
  ASSUME NEW x, NEW frm, NEW mv, NEW user, NEW shown, Users(frm, mv),
         MngrInv(x, frm, mv, user, shown), Len(x.nodes) < DpbSize, NEW poc \in Int,
         NEW z, z = Insert(x, poc, NoSlot, NoMv, "shortTerm", FALSE, TRUE)
  PROVE  GapInserted(x, z, frm, mv, user, shown)
  <1> DEFINE n == NextFreeNode(x)
             y == IF HasNode(x, n) THEN RemoveNode(x, n) ELSE x
             o == GapNode(n, poc)
  <1>1. x \in PictMngrs
    BY DEF MngrInv
  <1>2. n \in NodeIDs /\ Reusable(x, n)
    BY <1>1, NextFree
  <1>3. z = [y EXCEPT !.nodes = Append(@, o)]
    BY DEF Insert, GapNode
  <1> HIDE DEF n
  <1>4. Freed(x, y, n, frm, mv, user, shown)
    BY <1>2, FreedIs
  <1> HIDE DEF y, o
  <1> QED BY <1>2, <1>3, <1>4, GapAdded DEF o

\* The node of a picture to be output, in slot s, with motion vector buffer m
PicNode(n, poc, s, m, marking) ==
    [id |-> n, poc |-> poc, frm |-> s, mv |-> m, marking |-> marking,
     out |-> TRUE, nonExisting |-> FALSE]

\* The picture of slot s and motion vector buffer m is new to the picture manager
Fresh(x, s, m) ==
    /\ s \in Slots /\ m \in MvIDs /\ NoneHeld(x, s) /\ NoMvHeld(x, m)
    /\ ~x.pool.out[s] /\ x.status[s] = "notNeeded"
    /\ RefsOn(x.pool, s) >= 1 /\ x.mv.cnt[m] >= 1

\* The picture manager with node o, whose picture is being decoded
WithPic(y, o) ==
    [y EXCEPT !.nodes = Append(@, o), !.status[o.frm] = "notReady",
              !.pool = IncrementBufID(@, o.frm), !.mv = MvIncrement(@, o.mv)]

PicInserted(x, y, s, marking, frm, mv, user, shown) ==
    /\ MngrInv(y, frm, mv, user, shown) /\ Grown(x, y)
    /\ y.status = [x.status EXCEPT ![s] = "notReady"] /\ y.pool.buf = x.pool.buf
    /\ y.pool.decommitted = x.pool.decommitted
    /\ RefCount(y) <= RefCount(x) + One(marking # "unused")

LEMMA PicAdded ==
  ASSUME NEW x, NEW frm, NEW mv, NEW user, NEW shown, Users(frm, mv),
         MngrInv(x, frm, mv, user, shown), NEW n \in NodeIDs, NEW poc \in Int, NEW y,
         Freed(x, y, n, frm, mv, user, shown), NEW s, NEW m, Fresh(x, s, m),
         NEW marking \in Markings, NEW o, o = PicNode(n, poc, s, m, marking),
         NEW z, z = WithPic(y, o)
  PROVE  PicInserted(x, z, s, marking, frm, mv, user, shown) /\ Stored(x, z, {m}, 1)
  <1>1. x \in PictMngrs /\ NodesWhole(x) /\ Len(x.nodes) \in Nat /\ Lists(x)
    BY MngrTypes DEF MngrInv
  <1>2. /\ s \in Slots /\ m \in MvIDs /\ NoneHeld(x, s) /\ NoMvHeld(x, m)
        /\ ~x.pool.out[s] /\ x.status[s] = "notNeeded"
        /\ RefsOn(x.pool, s) >= 1 /\ x.mv.cnt[m] >= 1
    BY DEF Fresh
  <1>5. /\ MngrInv(y, frm, mv, user, shown) /\ Thinned(x, y) /\ ~HasNode(y, n)
        /\ y.disp = x.disp /\ y.pool = x.pool /\ y.mv = x.mv
        /\ \A t : ToBeOutput(y, t) <=> ToBeOutput(x, t)
    BY DEF Freed, Sifted
  <1>6. /\ y \in PictMngrs /\ PoolInv(y.pool) /\ MvInv(y.mv)
        /\ NodesWhole(y) /\ CountsExact(y, frm, mv) /\ OutputWhole(y, user, shown)
    BY <1>5 DEF MngrInv
  <1>7. /\ o \in DpbNodes /\ o.id = n /\ ~o.nonExisting /\ o.frm = s /\ o.mv = m /\ o.out
        /\ IsRef(o) <=> marking # "unused"
    BY <1>2 DEF PicNode, DpbNodes, IsRef
  <1>8. /\ z.nodes = Append(y.nodes, o) /\ z.disp = y.disp /\ z.dlt = y.dlt
        /\ z.status = [y.status EXCEPT ![s] = "notReady"]
        /\ z.pool = IncrementBufID(y.pool, s) /\ z.mv = MvIncrement(y.mv, m)
    BY <1>6, <1>7 DEF PictMngrs, WithPic
  <1>a. /\ NoneHeld(y, s) /\ NoMvHeld(y, m) /\ y.status = x.status
    BY <1>2, <1>5 DEF Thinned, Steady
  <1>9. NewNode(y, z, o)
    BY <1>5, <1>7, <1>8, <1>2, <1>a DEF NewNode, NoneHeld, NoMvHeld
  <1>10. NodeAdded(y, z, o)
    BY <1>6, <1>9, NewNodeIs
  <1>b. /\ PoolInv(z.pool) /\ z.pool.buf = x.pool.buf /\ z.pool.out = x.pool.out
        /\ z.pool.decommitted = x.pool.decommitted
        /\ \A t \in Slots : RefsOn(z.pool, t) = RefsOn(x.pool, t) + One(t = s)
    <2>1. PoolTaken(y.pool, z.pool, s)
      BY <1>2, <1>5, <1>6, <1>8, TakenIs
    <2> QED BY <2>1, <1>5 DEF PoolTaken
  <1>c. MvInv(z.mv) /\ \A l \in MvIDs : z.mv.cnt[l] = x.mv.cnt[l] + One(l = m)
    <2>1. MvTaken(y.mv, z.mv, m)
      BY <1>2, <1>5, <1>6, <1>8, MvIncrementIs
    <2> QED BY <2>1, <1>5 DEF MvTaken
  <1>d. z.status \in [Slots -> Statuses] /\ y.status \in [Slots -> Statuses]
    <2>1. y.status \in [Slots -> Statuses]
      BY <1>6 DEF PictMngrs
    <2> QED BY <2>1, <1>8 DEF Statuses
  <1>11. z \in PictMngrs
    <2>1. z.nodes \in Seq(DpbNodes) /\ z.pool \in FrmBufPools /\ z.mv \in MvBufPools
      BY <1>10, <1>b, <1>c DEF NodeAdded, PoolInv, MvInv
    <2>2. z = [y EXCEPT !.nodes = z.nodes, !.status = z.status, !.pool = z.pool, !.mv = z.mv]
      BY <1>6, <1>7 DEF PictMngrs, WithPic
    <2> QED BY <2>1, <2>2, <1>6, <1>d DEF PictMngrs
  <1>12. Lists(y) /\ Lists(z)
    BY <1>6, <1>11, MngrTypes
  <1>14. ASSUME NEW t \in Slots PROVE RefsOn(z.pool, t) = frm[t] + FrmHeld(z, t)
    <2>1. One(o \in NodesOn(t)) = One(t = s) /\ One(t = s) \in {0, 1}
      BY <1>7 DEF One, NodesOn
    <2>2. Count(z.nodes, NodesOn(t)) = Count(y.nodes, NodesOn(t)) + One(o \in NodesOn(t))
      BY <1>10 DEF NodeAdded
    <2>3. /\ FrmHeld(z, t) = Count(z.nodes, NodesOn(t)) + Count(z.dlt, PairsOn(t))
                             + Count(z.disp, {t})
          /\ FrmHeld(y, t) = Count(y.nodes, NodesOn(t)) + Count(y.dlt, PairsOn(t))
                             + Count(y.disp, {t})
          /\ Count(y.nodes, NodesOn(t)) \in Nat /\ Count(y.dlt, PairsOn(t)) \in Nat
          /\ Count(y.disp, {t}) \in Nat
      BY <1>12, FrmHeldIs
    <2>4. FrmHeld(z, t) = FrmHeld(y, t) + One(t = s)
      BY <2>1, <2>2, <2>3, <1>8
    <2>5. RefsOn(y.pool, t) = frm[t] + FrmHeld(y, t) /\ frm[t] \in Nat /\ FrmHeld(y, t) \in Nat
      BY <1>6, CountsAre
    <2> QED BY <2>1, <2>4, <2>5, <1>5, <1>b
  <1>15. ASSUME NEW l \in MvIDs PROVE z.mv.cnt[l] = mv[l] + MvHeld(z, l)
    <2>1. One(o \in NodesWith(l)) = One(l = m) /\ One(l = m) \in {0, 1}
      BY <1>7 DEF One, NodesWith
    <2>2. Count(z.nodes, NodesWith(l)) = Count(y.nodes, NodesWith(l)) + One(o \in NodesWith(l))
      BY <1>10 DEF NodeAdded
    <2>3. /\ MvHeld(z, l) = Count(z.nodes, NodesWith(l)) + Count(z.dlt, PairsWith(l))
          /\ MvHeld(y, l) = Count(y.nodes, NodesWith(l)) + Count(y.dlt, PairsWith(l))
          /\ Count(y.nodes, NodesWith(l)) \in Nat /\ Count(y.dlt, PairsWith(l)) \in Nat
      BY <1>12, MvHeldIs
    <2>4. MvHeld(z, l) = MvHeld(y, l) + One(l = m)
      BY <2>1, <2>2, <2>3, <1>8
    <2>5. y.mv.cnt[l] = mv[l] + MvHeld(y, l) /\ mv[l] \in Nat /\ MvHeld(y, l) \in Nat
      BY <1>6, CountsAre
    <2> QED BY <2>1, <2>4, <2>5, <1>5, <1>c
  <1>16. CountsExact(z, frm, mv)
    BY <1>14, <1>15 DEF CountsExact
  <1>17. \A t : ToBeOutput(z, t) <=> ToBeOutput(y, t) \/ t = s
    BY <1>7, <1>10 DEF NodeAdded
  <1>18. OutputWhole(z, user, shown)
    <2>1. \A t : InDisplay(z, t) <=> InDisplay(y, t)
      BY <1>8 DEF InDisplay
    <2>2. ~InDisplay(y, s)
      BY <1>a DEF NoneHeld, InDisplay
    <2>3. z.status[s] = "notReady" /\ \A t \in Slots \ {s} : z.status[t] = y.status[t]
      BY <1>8, <1>d, <1>2
    <2>4. /\ z.disp = y.disp /\ z.pool.buf = y.pool.buf /\ z.pool.out = y.pool.out
          /\ ~y.pool.out[s] /\ s \in Slots
      BY <1>8, <1>b, <1>5, <1>2
    <2>5. OutputWhole(y, user, shown)
      BY <1>6
    <2> HIDE <1>8
    <2> QED BY <2>1, <2>2, <2>3, <2>4, <2>5, <1>17 DEF OutputWhole
  <1>19. MngrInv(z, frm, mv, user, shown)
    BY <1>10, <1>11, <1>16, <1>18, <1>b, <1>c DEF MngrInv, NodeAdded
  <1>20. \A r, t : Sooner(x, r, t) => Sooner(z, r, t)
    <2>1. FromNodes(x, y)
      BY <1>5 DEF Thinned
    <2> QED BY <2>1, <1>1, <1>5, <1>6, <1>9, SoonerGrows
  <1>21. /\ Len(z.nodes) <= Len(x.nodes) + 1
         /\ RefCount(z) <= RefCount(x) + One(marking # "unused")
    <2>1. Len(y.nodes) <= Len(x.nodes) /\ RefCount(y) <= RefCount(x)
      BY <1>5 DEF Thinned
    <2>2. One(IsRef(o)) \in {0, 1} /\ RefCount(x) \in Nat /\ One(IsRef(o)) = One(marking # "unused")
      BY <1>1, <1>7, RefCountIs DEF One
    <2>3. /\ Len(y.nodes) \in Nat /\ Len(z.nodes) = Len(y.nodes) + 1
          /\ RefCount(z) = RefCount(y) + One(IsRef(o)) /\ RefCount(y) \in Nat
      BY <1>10 DEF NodeAdded
    <2> QED BY <2>1, <2>2, <2>3, <1>1
  <1>23. Grown(x, z)
    BY <1>5, <1>8, <1>17, <1>20, <1>21 DEF Grown
  <1>24. Stored(x, z, {m}, 1)
    <2>1. Stored(x, y, {}, 0)
      BY <1>5 DEF Thinned
    <2>2. NodeMvs(z) \subseteq NodeMvs(y) \cup {m}
      <3> SUFFICES ASSUME NEW e \in NodeMvs(z), e # m PROVE e \in NodeMvs(y)
        OBVIOUS
      <3>1. PICK i \in 1 .. Len(z.nodes) : ~z.nodes[i].nonExisting /\ z.nodes[i].mv = e
        BY DEF NodeMvs
      <3>2. i \in 1 .. Len(y.nodes) /\ z.nodes[i] = y.nodes[i]
        BY <1>7, <1>10, <3>1 DEF NodeAdded
      <3>3. e \in MvIDs
        BY DEF NodeMvs
      <3> QED BY <3>1, <3>2, <3>3 DEF NodeMvs
    <2>3. One(o \in Reals) = 1
      BY <1>7 DEF Reals, One
    <2>4. Count(z.nodes, Reals) = Count(y.nodes, Reals) + One(o \in Reals)
      BY <1>10 DEF NodeAdded
    <2>5. Lists(y) /\ Lists(z)
      BY <1>6, <1>11, MngrTypes
    <2>6. Tally(z) = Tally(y) + 1 /\ Tally(y) \in Nat /\ Tally(x) \in Nat
      <3>1. /\ RealCount(z) = Count(z.nodes, Reals) /\ RealCount(y) = Count(y.nodes, Reals)
            /\ RealCount(y) \in Nat /\ Len(y.dlt) \in Nat /\ Tally(x) \in Nat
        BY <1>1, <2>5, TallyIs
      <3>2. RealCount(z) = RealCount(y) + 1
        BY <2>3, <2>4, <3>1
      <3>3. Tally(y) = RealCount(y) + Len(y.dlt) /\ Tally(z) = RealCount(z) + Len(y.dlt)
        BY <1>8 DEF Tally
      <3> HIDE DEF Tally, RealCount
      <3> QED BY <3>1, <3>2, <3>3
    <2> QED BY <1>8, <2>1, <2>2, <2>6 DEF Stored
  <1> QED BY <1>8, <1>a, <1>b, <1>19, <1>21, <1>23, <1>24 DEF PicInserted

LEMMA InsertIs ==
  ASSUME NEW x, NEW frm, NEW mv, NEW user, NEW shown, Users(frm, mv),
         MngrInv(x, frm, mv, user, shown), Len(x.nodes) < DpbSize, NEW poc \in Int,
         NEW s, NEW m, Fresh(x, s, m), NEW marking \in Markings,
         NEW z, z = Insert(x, poc, s, m, marking, TRUE, FALSE)
  PROVE  PicInserted(x, z, s, marking, frm, mv, user, shown) /\ Stored(x, z, {m}, 1)
  <1> DEFINE n == NextFreeNode(x)
             y == IF HasNode(x, n) THEN RemoveNode(x, n) ELSE x
             o == PicNode(n, poc, s, m, marking)
  <1>1. x \in PictMngrs
    BY DEF MngrInv
  <1>2. n \in NodeIDs /\ Reusable(x, n)
    BY <1>1, NextFree
  <1>3. z = WithPic(y, o)
    <2>1. o.frm = s /\ o.mv = m
      BY DEF PicNode
    <2>2. z = LET w == [y EXCEPT !.nodes = Append(@, o)]
              IN  [w EXCEPT !.status[s] = "notReady", !.pool = IncrementBufID(@, s),
                            !.mv = MvIncrement(@, m)]
      BY DEF Insert, PicNode
    <2> HIDE DEF o, y
    <2>3. y \in PictMngrs
      <3>1. Freed(x, y, n, frm, mv, user, shown)
        BY <1>2, FreedIs DEF y
      <3> QED BY <3>1 DEF Freed, Sifted, MngrInv
    <2> QED BY <2>1, <2>2, <2>3 DEF WithPic, PictMngrs
  <1> HIDE DEF n
  <1>4. Freed(x, y, n, frm, mv, user, shown)
    BY <1>2, FreedIs
  <1> HIDE DEF y, o
  <1> QED BY <1>2, <1>3, <1>4, PicAdded DEF o

LEMMA ReplaceIs ==
  ASSUME NEW x, NEW frm, NEW mv, NEW user, NEW shown, Users(frm, mv),
         MngrInv(x, frm, mv, user, shown), NEW poc, NEW y, y = ReplaceSamePOC(x, poc)
  PROVE  Sifted(x, y, frm, mv, user, shown)
  <1> DEFINE I == SamePOC(x, poc)
             i == Min(I)
             n == x.nodes[i].id
  <1>1. x \in PictMngrs /\ DOMAIN x.nodes = 1 .. Len(x.nodes)
    BY DEF MngrInv, PictMngrs
  <1>2. CASE I = {}
    BY <1>1, <1>2, ThinnedSelf DEF ReplaceSamePOC, Sifted
  <1>3. CASE I # {}
    <2>1. i \in I
      <3>1. I \in SUBSET Nat
        BY <1>1 DEF SamePOC
      <3> HIDE DEF I
      <3> QED BY <1>3, <3>1, MinIs
    <2>2. i \in DOMAIN x.nodes
      BY <2>1 DEF SamePOC
    <2>3. y = OutputAndRemove(x, n)
      BY <1>3 DEF ReplaceSamePOC, OutputAndRemove
    <2> HIDE DEF i
    <2>4. HasNode(x, n)
      BY <2>2 DEF HasNode
    <2> HIDE DEF n
    <2>5. Removed(x, y, n, frm, mv, user, shown)
      BY <2>3, <2>4, OutputAndRemoveIs
    <2> QED BY <2>5 DEF Removed, Sifted
  <1> QED BY <1>2, <1>3

\* The display list keeps what it holds, no picture is lost and they leave by POC.
Faithful(x, y) ==
    /\ Len(x.disp) <= Len(y.disp) /\ \A i \in 1 .. Len(x.disp) : y.disp[i] = x.disp[i]
    /\ Kept(x, y) /\ Ordered(x, y)
    /\ y.status = x.status /\ y.mv = x.mv /\ y.pool.buf = x.pool.buf
    /\ y.pool.decommitted = x.pool.decommitted

LEMMA SiftedFaithful ==
  ASSUME NEW x, NEW y, NEW frm, NEW mv, NEW user, NEW shown,
         Sifted(x, y, frm, mv, user, shown)
  PROVE  Faithful(x, y)
  BY DEF Sifted, Thinned, Queued, Steady, Faithful

LEMMA GrownFaithful ==
  ASSUME NEW x \in PictMngrs, NEW y \in PictMngrs, NEW z, Grown(x, y), Steady(x, y),
         Faithful(y, z)
  PROVE  Faithful(x, z)
  <1>1. /\ y.disp = x.disp /\ \A t : ToBeOutput(x, t) => ToBeOutput(y, t)
        /\ \A s, t : Sooner(x, s, t) => Sooner(y, s, t)
    BY DEF Grown
  <1>2. Kept(x, z)
    BY <1>1 DEF Kept, Faithful
  <1>3. Ordered(x, z)
    BY <1>1 DEF Ordered, Faithful
  <1> QED BY <1>1, <1>2, <1>3 DEF Faithful, Steady

Filled(x, y, frm, mv, user, shown) ==
    /\ MngrInv(y, frm, mv, user, shown) /\ Faithful(x, y)
    /\ RefCount(y) <= MaxRefFrames \/ RefCount(y) <= RefCount(x)
    /\ Len(y.nodes) <= NumRef \/ Len(y.nodes) <= RefCount(x)
    /\ Stored(x, y, {}, 0)

LEMMA FillGapIs ==
  ASSUME NEW x, NEW frm, NEW mv, NEW user, NEW shown, Users(frm, mv),
         MngrInv(x, frm, mv, user, shown), Len(x.nodes) < DpbSize, NEW poc \in Int,
         NEW y, y = FillGap(x, poc)
  PROVE  Filled(x, y, frm, mv, user, shown)
  <1> DEFINE w == Insert(x, poc, NoSlot, NoMv, "shortTerm", FALSE, TRUE)
             v == SlidingWindow(w)
  <1>1. y = Cleanup(v)
    BY DEF FillGap
  <1>2. GapInserted(x, w, frm, mv, user, shown)
    BY GapInsertIs
  <1>3. MngrInv(w, frm, mv, user, shown)
    BY <1>2 DEF GapInserted
  <1> HIDE DEF w
  <1>4. Slid(w, v, frm, mv, user, shown)
    BY <1>3, SlidingIs
  <1> HIDE DEF v
  <1>5. Sifted(w, v, frm, mv, user, shown) /\ MngrInv(v, frm, mv, user, shown)
    BY <1>4 DEF Slid, Sifted
  <1>6. Cleaned(v, y, frm, mv, user, shown)
    BY <1>1, <1>5, CleanupIs
  <1>7. Sifted(w, y, frm, mv, user, shown)
    <2>1. Sifted(v, y, frm, mv, user, shown)
      BY <1>6 DEF Cleaned
    <2> QED BY <2>1, <1>3, <1>5, SiftedTrans
  <1>8. MngrInv(y, frm, mv, user, shown) /\ Faithful(w, y)
    BY <1>7, SiftedFaithful DEF Sifted
  <1>9. x \in PictMngrs /\ w \in PictMngrs /\ v \in PictMngrs /\ y \in PictMngrs
    BY <1>3, <1>5, <1>8 DEF MngrInv
  <1>10. Faithful(x, y)
    BY <1>2, <1>8, <1>9, GrownFaithful DEF GapInserted
  <1>11. /\ RefCount(x) \in Nat /\ RefCount(w) \in Nat /\ RefCount(v) \in Nat
         /\ RefCount(y) \in Nat /\ Len(y.nodes) \in Nat
    BY <1>9, RefCountIs, MngrTypes
  <1>12. RefCount(w) <= RefCount(x) + 1
    BY <1>2 DEF GapInserted
  <1>13. RefCount(v) <= MaxRefFrames \/ RefCount(v) = RefCount(w) - 1
    BY <1>4 DEF Slid
  <1>14. RefCount(y) <= RefCount(v) /\ (Len(y.nodes) <= NumRef \/ Len(y.nodes) <= RefCount(v))
    BY <1>6 DEF Cleaned, Sifted, Thinned
  <1>15. MaxRefFrames \in Nat /\ NumRef \in Nat /\ MaxRefFrames <= NumRef
    BY PictMngrAssumption
  <1>16. RefCount(v) <= MaxRefFrames \/ RefCount(v) <= RefCount(x)
    BY <1>11, <1>12, <1>13, <1>15
  <1>17. RefCount(y) <= MaxRefFrames \/ RefCount(y) <= RefCount(x)
    BY <1>11, <1>14, <1>15, <1>16
  <1>18. Len(y.nodes) <= NumRef \/ Len(y.nodes) <= RefCount(x)
    BY <1>11, <1>14, <1>15, <1>16
  <1>19. Stored(x, y, {}, 0)
    <2>1. Stored(x, w, {}, 0) /\ Stored(w, y, {}, 0)
      BY <1>2, <1>7 DEF GapInserted, Sifted, Thinned
    <2>2. Lists(x) /\ Lists(w) /\ Lists(y)
      BY <1>9, MngrTypes
    <2> QED BY <2>1, <2>2, StoredTrans
  <1> QED BY <1>8, <1>10, <1>17, <1>18, <1>19 DEF Filled
-----------------------------------------------------------------------------
(* The lists of references *)

\* The pool may have changed where nobody holds anything any more.
Dropped(x, y) ==
    /\ SamePicts(x, y) /\ PoolKept(x.pool, y.pool)
    /\ \A t \in Slots : RefsOn(y.pool, t) <= RefsOn(x.pool, t)
    /\ \A t \in Slots : RefsOn(x.pool, t) \in Nat /\ RefsOn(y.pool, t) \in Nat

LEMMA DroppedTrans ==
  ASSUME NEW x, NEW y, NEW z, Dropped(x, y), Dropped(y, z)
  PROVE  Dropped(x, z)
  <1>1. SamePicts(x, z)
    BY DEF Dropped, SamePicts
  <1>2. ASSUME NEW t \in Slots
        PROVE  /\ RefsOn(z.pool, t) <= RefsOn(x.pool, t)
               /\ RefsOn(x.pool, t) \in Nat /\ RefsOn(z.pool, t) \in Nat
               /\ RefsOn(z.pool, t) >= 1 => RefsOn(y.pool, t) >= 1
    <2>1. /\ RefsOn(z.pool, t) <= RefsOn(y.pool, t) /\ RefsOn(y.pool, t) <= RefsOn(x.pool, t)
          /\ RefsOn(x.pool, t) \in Nat /\ RefsOn(y.pool, t) \in Nat /\ RefsOn(z.pool, t) \in Nat
      BY DEF Dropped
    <2> QED BY <2>1
  <1>3. PoolKept(x.pool, z.pool)
    BY <1>2 DEF Dropped, PoolKept
  <1> QED BY <1>1, <1>2, <1>3 DEF Dropped

\* Fewer holders: the pictures are the same, the counts no greater.
LEMMA FewerHold ==
  ASSUME NEW x, NEW y, NEW f, NEW g, NEW mv, NEW nv, NEW user, NEW shown, Users(f, mv),
         Users(g, nv), MngrInv(x, f, mv, user, shown), MngrInv(y, g, nv, user, shown),
         \A s \in Slots : g[s] <= f[s], SamePicts(x, y), PoolKept(x.pool, y.pool)
  PROVE  Dropped(x, y)
  <1>1. /\ x \in PictMngrs /\ CountsExact(x, f, mv)
        /\ y \in PictMngrs /\ CountsExact(y, g, nv)
    BY DEF MngrInv
  <1>2. ASSUME NEW s \in Slots
        PROVE  /\ RefsOn(y.pool, s) <= RefsOn(x.pool, s)
               /\ RefsOn(x.pool, s) \in Nat /\ RefsOn(y.pool, s) \in Nat
    <2>1. /\ RefsOn(x.pool, s) \in Nat /\ f[s] \in Nat /\ FrmHeld(x, s) \in Nat
          /\ RefsOn(x.pool, s) = f[s] + FrmHeld(x, s)
      BY <1>1, CountsAre
    <2>2. /\ RefsOn(y.pool, s) \in Nat /\ g[s] \in Nat
          /\ RefsOn(y.pool, s) = g[s] + FrmHeld(y, s)
      BY <1>1, CountsAre
    <2>3. FrmHeld(y, s) = FrmHeld(x, s) /\ g[s] <= f[s]
      BY SameHeld
    <2> QED BY <2>1, <2>2, <2>3
  <1> QED BY <1>2 DEF Dropped

LEMMA LessLess ==
  ASSUME NEW S, NEW f \in [S -> Nat], NEW s
  PROVE  \A t \in S : LessOf(f, s)[t] <= f[t]
  BY DEF LessOf

LEMMA UnlockOne ==
  ASSUME NEW x, NEW frm, NEW mv, NEW user, NEW shown, Users(frm, mv), BufsFit,
         MngrInv(x, frm, mv, user, shown), NEW r \in Slots \X MvIDs,
         frm[r[1]] >= 1, mv[r[2]] >= 1, NEW y, y = UnlockRef(x, r)
  PROVE  /\ MngrInv(y, LessOf(frm, r[1]), LessOf(mv, r[2]), user, shown)
         /\ Users(LessOf(frm, r[1]), LessOf(mv, r[2])) /\ Dropped(x, y)
  <1> DEFINE w == [x EXCEPT !.pool = DecrementBufID(@, r[1])]
  <1>1. r[1] \in Slots /\ r[2] \in MvIDs /\ x \in PictMngrs
    BY DEF MngrInv
  <1>2. /\ MngrInv(w, LessOf(frm, r[1]), mv, user, shown) /\ Users(LessOf(frm, r[1]), mv)
        /\ DroppedFrm(x, w)
    BY <1>1, DropFrm
  <1>3. y = [w EXCEPT !.mv = MvDecrement(@, r[2])]
    BY <1>1 DEF UnlockRef, PictMngrs
  <1> HIDE DEF w
  <1>4. /\ MngrInv(y, LessOf(frm, r[1]), LessOf(mv, r[2]), user, shown)
        /\ Users(LessOf(frm, r[1]), LessOf(mv, r[2])) /\ SamePicts(w, y) /\ y.pool = w.pool
    BY <1>1, <1>2, <1>3, DropMv
  <1>5. SamePicts(x, y) /\ PoolKept(x.pool, y.pool)
    BY <1>2, <1>4 DEF DroppedFrm, SamePicts
  <1>6. \A s \in Slots : LessOf(frm, r[1])[s] <= frm[s]
    BY LessLess DEF Users
  <1>7. Dropped(x, y)
    BY <1>4, <1>5, <1>6, FewerHold
  <1> QED BY <1>4, <1>7

\* A thread takes references more.
Took(x, y) ==
    /\ SamePicts(x, y) /\ y.pool.buf = x.pool.buf /\ y.pool.out = x.pool.out
    /\ y.pool.decommitted = x.pool.decommitted

LEMMA LockOne ==
  ASSUME NEW x, NEW frm, NEW mv, NEW user, NEW shown, Users(frm, mv),
         MngrInv(x, frm, mv, user, shown), NEW r \in Slots \X MvIDs,
         RefsOn(x.pool, r[1]) >= 1, x.mv.cnt[r[2]] >= 1, NEW y, y = LockRef(x, r)
  PROVE  /\ MngrInv(y, MoreOf(frm, r[1]), MoreOf(mv, r[2]), user, shown)
         /\ Users(MoreOf(frm, r[1]), MoreOf(mv, r[2])) /\ Took(x, y)
  <1> DEFINE w == [x EXCEPT !.pool = IncrementBufID(@, r[1])]
  <1>1. r[1] \in Slots /\ r[2] \in MvIDs /\ x \in PictMngrs
    BY DEF MngrInv
  <1>2. /\ MngrInv(w, MoreOf(frm, r[1]), mv, user, shown) /\ Users(MoreOf(frm, r[1]), mv)
        /\ TookFrm(x, w)
    BY <1>1, TakeFrm
  <1>3. y = [w EXCEPT !.mv = MvIncrement(@, r[2])]
    BY <1>1 DEF LockRef, PictMngrs
  <1>4. w \in PictMngrs /\ MvInv(w.mv) /\ w.mv.cnt[r[2]] >= 1
    BY <1>1, <1>2 DEF MngrInv, TookFrm
  <1> HIDE DEF w
  <1>5. /\ y.mv = MvIncrement(w.mv, r[2]) /\ y.pool = w.pool /\ SamePicts(w, y)
    BY <1>3, <1>4 DEF PictMngrs, SamePicts
  <1>6. MvTaken(w.mv, y.mv, r[2])
    BY <1>1, <1>4, <1>5, MvIncrementIs
  <1>7. y \in PictMngrs
    <2>1. y.mv \in MvBufPools
      BY <1>6 DEF MvTaken, MvInv
    <2>2. y = [w EXCEPT !.mv = y.mv]
      BY <1>3, <1>4, <1>5 DEF PictMngrs
    <2> QED BY <2>1, <2>2, <1>4 DEF PictMngrs
  <1>8. /\ MngrInv(y, MoreOf(frm, r[1]), MoreOf(mv, r[2]), user, shown)
        /\ Users(MoreOf(frm, r[1]), MoreOf(mv, r[2]))
    BY <1>1, <1>2, <1>5, <1>6, <1>7, TakeMv
  <1> QED BY <1>2, <1>5, <1>8 DEF Took, TookFrm, SamePicts

\* Holders more: one for each picture that the places J of the list name
Names(list, J, s) == \E j \in J : list[j][1] = s
NamesMv(list, J, m) == \E j \in J : list[j][2] = m
WithFrm(g, list, J) == [s \in Slots |-> IF Names(list, J, s) THEN g[s] + 1 ELSE g[s]]
WithMv(h, list, J) == [m \in MvIDs |-> IF NamesMv(list, J, m) THEN h[m] + 1 ELSE h[m]]

\* The entry in place k names no picture that those in places J name.
Apart(list, J, k) == \A j \in J : list[j][1] # list[k][1] /\ list[j][2] # list[k][2]

\* What the entry in place k adds
OneMore(g, h, list, J, k) ==
    /\ Users(WithFrm(g, list, J), WithMv(h, list, J))
    /\ Users(WithFrm(g, list, J \cup {k}), WithMv(h, list, J \cup {k}))
    /\ WithFrm(g, list, J \cup {k}) = MoreOf(WithFrm(g, list, J), list[k][1])
    /\ WithMv(h, list, J \cup {k}) = MoreOf(WithMv(h, list, J), list[k][2])
    /\ WithFrm(g, list, J) = LessOf(WithFrm(g, list, J \cup {k}), list[k][1])
    /\ WithMv(h, list, J) = LessOf(WithMv(h, list, J \cup {k}), list[k][2])
    /\ WithFrm(g, list, J \cup {k})[list[k][1]] >= 1
    /\ WithMv(h, list, J \cup {k})[list[k][2]] >= 1

LEMMA WithMore ==
  ASSUME NEW g \in [Slots -> Nat], NEW h \in [MvIDs -> Nat], NEW list, NEW J, NEW k,
         list[k][1] \in Slots, list[k][2] \in MvIDs,
         Apart(list, J, k)
  PROVE  OneMore(g, h, list, J, k)
  <1>3. \A L : WithFrm(g, list, L) \in [Slots -> Nat]
    BY DEF WithFrm
  <1>4. \A L : WithMv(h, list, L) \in [MvIDs -> Nat]
    BY DEF WithMv
  <1>5. ASSUME NEW s \in Slots
        PROVE  WithFrm(g, list, J \cup {k})[s]
                  = WithFrm(g, list, J)[s] + (IF s = list[k][1] THEN 1 ELSE 0)
    <2>1. /\ ~(Names(list, J, s) /\ s = list[k][1])
          /\ Names(list, J \cup {k}, s) <=> Names(list, J, s) \/ s = list[k][1]
      BY DEF Names, Apart
    <2> QED BY <2>1 DEF WithFrm
  <1>6. ASSUME NEW s \in MvIDs
        PROVE  WithMv(h, list, J \cup {k})[s]
                  = WithMv(h, list, J)[s] + (IF s = list[k][2] THEN 1 ELSE 0)
    <2>1. /\ ~(NamesMv(list, J, s) /\ s = list[k][2])
          /\ NamesMv(list, J \cup {k}, s) <=> NamesMv(list, J, s) \/ s = list[k][2]
      BY DEF NamesMv, Apart
    <2> QED BY <2>1 DEF WithMv
  <1> DEFINE F == WithFrm(g, list, J)
             F1 == WithFrm(g, list, J \cup {k})
             M == WithMv(h, list, J)
             M1 == WithMv(h, list, J \cup {k})
             s == list[k][1]
             m == list[k][2]
  <1>7. F \in [Slots -> Nat] /\ F1 \in [Slots -> Nat] /\ s \in Slots
    BY <1>3
  <1>8. M \in [MvIDs -> Nat] /\ M1 \in [MvIDs -> Nat] /\ m \in MvIDs
    BY <1>4
  <1>9. \A t \in Slots : F1[t] = F[t] + (IF t = s THEN 1 ELSE 0)
    BY <1>5
  <1>10. \A t \in MvIDs : M1[t] = M[t] + (IF t = m THEN 1 ELSE 0)
    BY <1>6
  <1>11. Users(F, M) /\ Users(F1, M1)
    BY <1>7, <1>8 DEF Users
  <1> HIDE DEF F, F1, M, M1, s, m
  <1>12. F1 = MoreOf(F, s)
    BY <1>7, <1>9 DEF MoreOf
  <1>13. M1 = MoreOf(M, m)
    BY <1>8, <1>10 DEF MoreOf
  <1>14. F = LessOf(F1, s) /\ F1[s] >= 1
    BY <1>7, <1>9 DEF LessOf
  <1>15. M = LessOf(M1, m) /\ M1[m] >= 1
    BY <1>8, <1>10 DEF LessOf
  <1> QED BY <1>11, <1>12, <1>13, <1>14, <1>15 DEF F, F1, M, M1, s, m, OneMore

LEMMA TookTrans ==
  ASSUME NEW x, NEW y, NEW z, Took(x, y), Took(y, z)
  PROVE  Took(x, z)
  BY DEF Took, SamePicts

LEMMA WithNone ==
  ASSUME NEW g, NEW h, Users(g, h), NEW list
  PROVE  WithFrm(g, list, {}) = g /\ WithMv(h, list, {}) = h
  BY DEF WithFrm, WithMv, Names, NamesMv, Users

\* Distinct entries elsewhere
LEMMA OtherEntries ==
  ASSUME NEW list, Distinct(list), NEW J, NEW k \in 1 .. Len(list), J \subseteq 1 .. Len(list),
         k \notin J
  PROVE  Apart(list, J, k)
  BY DEF Distinct, Apart

\* A picture in a list is in use.
LEMMA HeldUsed ==
  ASSUME NEW x, NEW frm, NEW mv, NEW user, NEW shown, Users(frm, mv),
         MngrInv(x, frm, mv, user, shown), NEW s \in Slots, NEW m \in MvIDs
  PROVE  /\ ~NoneHeld(x, s) => RefsOn(x.pool, s) >= 1
         /\ ~NoMvHeld(x, m) => x.mv.cnt[m] >= 1
  <1>1. x \in PictMngrs /\ CountsExact(x, frm, mv)
    BY DEF MngrInv
  <1>2. /\ RefsOn(x.pool, s) \in Nat /\ frm[s] \in Nat /\ FrmHeld(x, s) \in Nat
        /\ RefsOn(x.pool, s) = frm[s] + FrmHeld(x, s)
        /\ x.mv.cnt[m] \in Nat /\ mv[m] \in Nat /\ MvHeld(x, m) \in Nat
        /\ x.mv.cnt[m] = mv[m] + MvHeld(x, m)
    BY <1>1, CountsAre
  <1>3. (FrmHeld(x, s) = 0 <=> NoneHeld(x, s)) /\ (MvHeld(x, m) = 0 <=> NoMvHeld(x, m))
    <2>1. Lists(x)
      BY <1>1, MngrTypes
    <2> QED BY <2>1, HeldNone
  <1> QED BY <1>2, <1>3

LEMMA LockListIs ==
  ASSUME NEW x, NEW frm, NEW mv, NEW user, NEW shown, Users(frm, mv),
         MngrInv(x, frm, mv, user, shown), NEW list \in Seq(Slots \X MvIDs), Distinct(list),
         \A j \in 1 .. Len(list) : ~NoneHeld(x, list[j][1]) /\ ~NoMvHeld(x, list[j][2]),
         NEW J, J = 1 .. Len(list), NEW y, y = LockRefID(x, list)
  PROVE  /\ MngrInv(y, WithFrm(frm, list, J), WithMv(mv, list, J), user, shown)
         /\ Took(x, y)
  <1> DEFINE c == Len(list)
             P(i, z) == /\ MngrInv(z, WithFrm(frm, list, 1 .. i), WithMv(mv, list, 1 .. i),
                                   user, shown)
                        /\ Took(x, z)
  <1>1. c \in Nat /\ \A j \in 1 .. c : list[j] \in Slots \X MvIDs
    OBVIOUS
  <1>2. PICK f : Goes(f, "lock", x, list) /\ LockRefID(x, list) = f[c]
    BY <1>1, LockRuns
  <1> DEFINE S == {i \in 0 .. c : P(i, f[i])}
  <1>3. 0 \in S
    <2>1. f[0] = x
      BY <1>2 DEF Goes
    <2>2. 1 .. 0 = {}
      OBVIOUS
    <2>3. Took(x, x)
      BY DEF Took, SamePicts
    <2>4. WithFrm(frm, list, {}) = frm /\ WithMv(mv, list, {}) = mv
      BY WithNone
    <2>5. P(0, x)
      BY <2>2, <2>3, <2>4
    <2> HIDE DEF P
    <2> QED BY <2>1, <2>5, <1>1
  <1>4. ASSUME NEW i \in 0 .. c, i \in S, i # c PROVE i + 1 \in S
    <2> DEFINE K == 1 .. i
               L == 1 .. i + 1
               k == i + 1
               z == f[i]
               w == f[i + 1]
               r == list[i + 1]
               F == WithFrm(frm, list, K)
               M == WithMv(mv, list, K)
    <2>1. /\ i \in Nat /\ k \in 1 .. c /\ k \in 0 .. c /\ (i + 1) - 1 = i
          /\ L = K \cup {k} /\ k \notin K /\ K \subseteq 1 .. c
      BY <1>1, <1>4
    <2>2. w = LockRef(z, r)
      <3>1. f[k] = StepOf("lock", f[k - 1], list[k])
        BY <1>2, <2>1 DEF Goes
      <3> QED BY <3>1, <2>1 DEF StepOf
    <2>3. MngrInv(z, F, M, user, shown) /\ Took(x, z)
      BY <1>4
    <2>4. r \in Slots \X MvIDs /\ r[1] \in Slots /\ r[2] \in MvIDs /\ r = list[k]
      BY <1>1, <2>1
    <2>5. Apart(list, K, k)
      <3> HIDE DEF K, k
      <3> QED BY <2>1, OtherEntries DEF c
    <2>6. /\ Users(F, M) /\ WithFrm(frm, list, L) = MoreOf(F, r[1])
          /\ WithMv(mv, list, L) = MoreOf(M, r[2])
      <3> HIDE DEF K, L, k, c, r
      <3>1. frm \in [Slots -> Nat] /\ mv \in [MvIDs -> Nat]
        BY DEF Users
      <3>2. list[k][1] \in Slots /\ list[k][2] \in MvIDs
        BY <2>4
      <3>3. /\ Users(WithFrm(frm, list, K), WithMv(mv, list, K))
            /\ WithFrm(frm, list, K \cup {k}) = MoreOf(WithFrm(frm, list, K), list[k][1])
            /\ WithMv(mv, list, K \cup {k}) = MoreOf(WithMv(mv, list, K), list[k][2])
        <4>1. OneMore(frm, mv, list, K, k)
          BY <3>1, <3>2, <2>5, WithMore
        <4> QED BY <4>1 DEF OneMore
      <3> QED BY <3>3, <2>1, <2>4
    <2>7. RefsOn(z.pool, r[1]) >= 1 /\ z.mv.cnt[r[2]] >= 1
      <3>1. ~NoneHeld(x, r[1]) /\ ~NoMvHeld(x, r[2])
        BY <2>1
      <3>2. ~NoneHeld(z, r[1]) /\ ~NoMvHeld(z, r[2])
        BY <3>1, <2>3 DEF NoneHeld, NoMvHeld, Took, SamePicts
      <3> HIDE DEF F, M, z, r
      <3> QED BY <3>2, <2>3, <2>4, <2>6, HeldUsed
    <2> HIDE DEF z, w, r, F, M, K, L, k
    <2>8. MngrInv(w, MoreOf(F, r[1]), MoreOf(M, r[2]), user, shown) /\ Took(z, w)
      BY <2>2, <2>3, <2>4, <2>6, <2>7, LockOne
    <2>9. Took(x, w)
      BY <2>3, <2>8, TookTrans
    <2>10. P(i + 1, f[i + 1])
      BY <2>6, <2>8, <2>9 DEF w, L
    <2> HIDE DEF P
    <2> QED BY <2>1, <2>10 DEF k
  <1>5. c \in S
    <2> HIDE DEF S
    <2>1. \A i \in 0 .. c : i \in S /\ i # c => i + 1 \in S
      BY <1>4
    <2>2. c \in 0 .. c
      BY <1>1
    <2> HIDE DEF c
    <2>3. \A i \in 0 .. c : i \in S
      BY <1>1, <1>3, <2>1, UpTo
    <2> QED BY <2>2, <2>3
  <1>6. P(c, f[c])
    <2> HIDE DEF P
    <2> QED BY <1>5
  <1> QED BY <1>2, <1>6

LEMMA UnlockListIs ==
  ASSUME NEW x, NEW g, NEW h, NEW user, NEW shown, Users(g, h), BufsFit,
         NEW list \in Seq(Slots \X MvIDs), Distinct(list),
         NEW J, J = 1 .. Len(list), Users(WithFrm(g, list, J), WithMv(h, list, J)),
         MngrInv(x, WithFrm(g, list, J), WithMv(h, list, J), user, shown),
         NEW y, y = UnlockRefID(x, list)
  PROVE  MngrInv(y, g, h, user, shown) /\ Dropped(x, y)
  <1> DEFINE c == Len(list)
             P(i, z) == /\ MngrInv(z, WithFrm(g, list, (i + 1) .. c),
                                   WithMv(h, list, (i + 1) .. c), user, shown)
                        /\ Dropped(x, z)
  <1>1. c \in Nat /\ \A j \in 1 .. c : list[j] \in Slots \X MvIDs
    OBVIOUS
  <1>2. PICK f : Goes(f, "unlock", x, list) /\ UnlockRefID(x, list) = f[c]
    BY <1>1, UnlockRuns
  <1> DEFINE S == {i \in 0 .. c : P(i, f[i])}
  <1>3. 0 \in S
    <2>1. f[0] = x
      BY <1>2 DEF Goes
    <2>2. (0 + 1) .. c = J
      OBVIOUS
    <2>3. Dropped(x, x)
      <3> DEFINE F == WithFrm(g, list, J)
                 M == WithMv(h, list, J)
      <3>1. \A s \in Slots : F[s] <= F[s]
        BY DEF Users
      <3>2. SamePicts(x, x) /\ PoolKept(x.pool, x.pool)
        BY DEF SamePicts, PoolKept
      <3>3. Users(F, M) /\ MngrInv(x, F, M, user, shown)
        OBVIOUS
      <3> HIDE DEF F, M
      <3> QED BY <3>1, <3>2, <3>3, FewerHold
    <2>5. P(0, x)
      BY <2>2, <2>3
    <2> HIDE DEF P
    <2> QED BY <2>1, <2>5, <1>1
  <1>4. ASSUME NEW i \in 0 .. c, i \in S, i # c PROVE i + 1 \in S
    <2> DEFINE K == (i + 1 + 1) .. c
               L == (i + 1) .. c
               k == i + 1
               z == f[i]
               w == f[i + 1]
               r == list[i + 1]
               F == WithFrm(g, list, L)
               M == WithMv(h, list, L)
    <2>1. /\ i \in Nat /\ k \in 1 .. c /\ k \in 0 .. c /\ (i + 1) - 1 = i
          /\ L = K \cup {k} /\ k \notin K /\ K \subseteq 1 .. c
      BY <1>1, <1>4
    <2>2. w = UnlockRef(z, r)
      <3>1. f[k] = StepOf("unlock", f[k - 1], list[k])
        BY <1>2, <2>1 DEF Goes
      <3> QED BY <3>1, <2>1 DEF StepOf
    <2>3. MngrInv(z, F, M, user, shown) /\ Dropped(x, z)
      BY <1>4
    <2>4. r \in Slots \X MvIDs /\ r[1] \in Slots /\ r[2] \in MvIDs /\ r = list[k]
      BY <1>1, <2>1
    <2>5. Apart(list, K, k)
      <3> HIDE DEF K, k
      <3> QED BY <2>1, OtherEntries DEF c
    <2>6. /\ Users(F, M) /\ WithFrm(g, list, K) = LessOf(F, r[1])
          /\ WithMv(h, list, K) = LessOf(M, r[2]) /\ F[r[1]] >= 1 /\ M[r[2]] >= 1
      <3> HIDE DEF K, L, k, c, r
      <3>1. g \in [Slots -> Nat] /\ h \in [MvIDs -> Nat]
        BY DEF Users
      <3>2. list[k][1] \in Slots /\ list[k][2] \in MvIDs
        BY <2>4
      <3>3. OneMore(g, h, list, K, k)
        BY <3>1, <3>2, <2>5, WithMore
      <3> QED BY <3>3, <2>1, <2>4 DEF OneMore
    <2> HIDE DEF z, w, r, F, M, K, L, k
    <2>8. MngrInv(w, LessOf(F, r[1]), LessOf(M, r[2]), user, shown) /\ Dropped(z, w)
      BY <2>2, <2>3, <2>4, <2>6, UnlockOne
    <2>9. Dropped(x, w)
      BY <2>3, <2>8, DroppedTrans
    <2>10. P(i + 1, f[i + 1])
      BY <2>6, <2>8, <2>9 DEF w, K
    <2> HIDE DEF P
    <2> QED BY <2>1, <2>10 DEF k
  <1>5. c \in S
    <2> HIDE DEF S
    <2>1. \A i \in 0 .. c : i \in S /\ i # c => i + 1 \in S
      BY <1>4
    <2>2. c \in 0 .. c
      BY <1>1
    <2> HIDE DEF c
    <2>3. \A i \in 0 .. c : i \in S
      BY <1>1, <1>3, <2>1, UpTo
    <2> QED BY <2>2, <2>3
  <1>6. P(c, f[c])
    <2> HIDE DEF P
    <2> QED BY <1>5
  <1>7. WithFrm(g, list, (c + 1) .. c) = g /\ WithMv(h, list, (c + 1) .. c) = h
    <2>1. (c + 1) .. c = {}
      BY <1>1
    <2> QED BY <2>1, WithNone
  <1> QED BY <1>2, <1>6, <1>7

\* The references of one picture
LEMMA UnlockIDIs ==
  ASSUME NEW x, NEW frm, NEW mv, NEW user, NEW shown, Users(frm, mv), BufsFit,
         MngrInv(x, frm, mv, user, shown), NEW s \in Slots, NEW m \in MvIDs,
         frm[s] >= 1, mv[m] >= 1, NEW y, y = UnlockID(x, s, m)
  PROVE  /\ MngrInv(y, LessOf(frm, s), LessOf(mv, m), user, shown)
         /\ Users(LessOf(frm, s), LessOf(mv, m)) /\ Dropped(x, y)
  <1> DEFINE list == <<<<s, m>>>>
  <1>1. /\ Len(list) \in Nat /\ Len(list) = 1 /\ list[1] = <<s, m>>
        /\ <<s, m>> \in Slots \X MvIDs
    OBVIOUS
  <1>2. UnlockID(x, s, m) = UnlockRefID(x, list)
    BY DEF UnlockID
  <1> HIDE DEF list
  <1>3. PICK f : Goes(f, "unlock", x, list) /\ UnlockRefID(x, list) = f[Len(list)]
    BY <1>1, UnlockRuns
  <1>4. f[0] = x /\ f[1] = StepOf("unlock", f[1 - 1], list[1])
    BY <1>1, <1>3 DEF Goes
  <1>5. y = UnlockRef(x, <<s, m>>)
    BY <1>1, <1>2, <1>3, <1>4 DEF StepOf
  <1> DEFINE r == <<s, m>>
  <1>6. r \in Slots \X MvIDs /\ r[1] = s /\ r[2] = m
    BY <1>1
  <1>7. y = UnlockRef(x, r)
    BY <1>5
  <1> HIDE DEF r
  <1> QED BY <1>6, <1>7, UnlockOne

\* The entry names the buffers of a picture of the DPB.
NamesNode(x, r) ==
    \E i \in 1 .. Len(x.nodes) :
        ~x.nodes[i].nonExisting /\ r = <<x.nodes[i].frm, x.nodes[i].mv>>

LEMMA RefBuffersIs ==
  ASSUME NEW x, x \in PictMngrs, NodesWhole(x), NEW list, list = RefBuffers(x)
  PROVE  /\ list \in Seq(Slots \X MvIDs) /\ Distinct(list)
         /\ \A j \in 1 .. Len(list) : NamesNode(x, list[j])
  <1> DEFINE D == RefNodes(x)
             B == [n \in D |-> {m \in D : m < n}]
             c == Cardinality(D)
             nth == [k \in 1 .. c |-> CHOOSE n \in D : Cardinality({m \in D : m < n}) + 1 = k]
  <1>1. D \subseteq NodeIDs /\ NodeIDs \subseteq Int
    BY PictMngrAssumption DEF RefNodes, NodeIDs
  <1>2. IsFiniteSet(D)
    <2>1. IsFiniteSet(NodeIDs)
      <3>1. 0 \in Int /\ DpbSize - 1 \in Int
        BY PictMngrAssumption
      <3> QED BY <3>1, FS_Interval DEF NodeIDs
    <2> HIDE DEF D
    <2> QED BY <1>1, <2>1, FS_Subset
  <1>3. c \in Nat
    BY <1>2, FS_CardinalityType
  <1> HIDE DEF D
  <1>4. /\ B \in [D -> SUBSET D]
        /\ \A i \in D : i \notin B[i]
        /\ \A i, j \in D : i \in B[j] => B[i] \subseteq B[j]
        /\ \A i, j \in D : i = j \/ i \in B[j] \/ j \in B[i]
    <2>1. D \subseteq Int
      BY <1>1
    <2>2. B \in [D -> SUBSET D]
      OBVIOUS
    <2>3. \A i, m \in D : m \in B[i] <=> m < i
      OBVIOUS
    <2>4. \A i \in D : i \notin B[i]
      BY <2>1, <2>3
    <2>5. ASSUME NEW i \in D, NEW j \in D, i \in B[j] PROVE B[i] \subseteq B[j]
      <3> SUFFICES ASSUME NEW m \in B[i] PROVE m \in B[j]
        OBVIOUS
      <3>1. m \in D /\ m \in Int /\ i \in Int /\ j \in Int
        BY <2>1, <2>2
      <3>2. m < i /\ i < j
        BY <2>3, <2>5, <3>1
      <3>3. m < j
        BY <3>1, <3>2
      <3> QED BY <2>3, <3>1, <3>3
    <2>6. \A i, j \in D : i = j \/ i \in B[j] \/ j \in B[i]
      BY <2>1, <2>3
    <2> HIDE DEF B
    <2> QED BY <2>2, <2>4, <2>5, <2>6
  <1>5. \A n \in D : B[n] = {m \in D : m < n}
    OBVIOUS
  <1>6. \A k \in 1 .. c : \E n \in D : Cardinality(B[n]) + 1 = k
    <2> HIDE DEF B
    <2> QED BY <1>2, <1>4, Ranks
  <1>7. \A k \in 1 .. c : nth[k] \in D /\ Cardinality(B[nth[k]]) + 1 = k
    <2> SUFFICES ASSUME NEW k \in 1 .. c
                 PROVE  nth[k] \in D /\ Cardinality(B[nth[k]]) + 1 = k
      OBVIOUS
    <2>1. \E n \in D : Cardinality({m \in D : m < n}) + 1 = k
      BY <1>5, <1>6
    <2>2. nth[k] = CHOOSE n \in D : Cardinality({m \in D : m < n}) + 1 = k
      OBVIOUS
    <2>3. nth[k] \in D /\ Cardinality({m \in D : m < nth[k]}) + 1 = k
      <3> HIDE DEF nth
      <3> QED BY <2>1, <2>2
    <2> QED BY <2>3, <1>5
  <1>8. list = [k \in 1 .. c |-> <<NodeOf(x, nth[k]).frm, NodeOf(x, nth[k]).mv>>]
    BY DEF RefBuffers, D
  <1> HIDE DEF B, nth
  <1>9. ASSUME NEW k \in 1 .. c
        PROVE  \E i \in 1 .. Len(x.nodes) :
                  /\ x.nodes[i].id = nth[k] /\ ~x.nodes[i].nonExisting
                  /\ list[k] = <<x.nodes[i].frm, x.nodes[i].mv>>
                  /\ x.nodes[i].frm \in Slots /\ x.nodes[i].mv \in MvIDs
    <2>1. HasNode(x, nth[k]) /\ ~NodeOf(x, nth[k]).nonExisting
      BY <1>7 DEF D, RefNodes
    <2> DEFINE i == IndexOf(x, nth[k])
    <2>2. i \in 1 .. Len(x.nodes) /\ x.nodes[i].id = nth[k] /\ NodeOf(x, nth[k]) = x.nodes[i]
      BY <2>1, IndexIs
    <2>3. list[k] = <<NodeOf(x, nth[k]).frm, NodeOf(x, nth[k]).mv>>
      BY <1>8
    <2> HIDE DEF i
    <2>4. x.nodes[i].frm \in Slots /\ x.nodes[i].mv \in MvIDs
      BY <2>1, <2>2 DEF NodesWhole
    <2> QED BY <2>1, <2>2, <2>3, <2>4
  <1>10. list \in Seq(Slots \X MvIDs) /\ Len(list) = c
    <2>1. ASSUME NEW k \in 1 .. c PROVE list[k] \in Slots \X MvIDs
      <3>1. PICK i \in 1 .. Len(x.nodes) :
                  /\ list[k] = <<x.nodes[i].frm, x.nodes[i].mv>>
                  /\ x.nodes[i].frm \in Slots /\ x.nodes[i].mv \in MvIDs
        BY <1>9
      <3> QED BY <3>1
    <2>2. list = [k \in 1 .. c |-> list[k]] /\ DOMAIN list = 1 .. c
      BY <1>8
    <2>3. list \in [1 .. c -> Slots \X MvIDs]
      BY <2>1, <2>2
    <2>4. Len(list) = c
      BY <2>2, <1>3, LenProperties, <2>3
    <2> QED BY <2>3, <2>4, <1>3, SeqIs
  <1>11. Distinct(list)
    <2> SUFFICES ASSUME NEW k \in 1 .. c, NEW l \in 1 .. c,
                        list[k][1] = list[l][1] \/ list[k][2] = list[l][2]
                 PROVE  k = l
      BY <1>10 DEF Distinct
    <2>1. PICK i \in 1 .. Len(x.nodes) :
                  /\ x.nodes[i].id = nth[k] /\ ~x.nodes[i].nonExisting
                  /\ list[k] = <<x.nodes[i].frm, x.nodes[i].mv>>
      BY <1>9
    <2>2. PICK j \in 1 .. Len(x.nodes) :
                  /\ x.nodes[j].id = nth[l] /\ ~x.nodes[j].nonExisting
                  /\ list[l] = <<x.nodes[j].frm, x.nodes[j].mv>>
      BY <1>9
    <2>3. x.nodes[i].frm = x.nodes[j].frm \/ x.nodes[i].mv = x.nodes[j].mv
      BY <2>1, <2>2
    <2>4. i = j
      BY <2>1, <2>2, <2>3 DEF NodesWhole
    <2>5. nth[k] = nth[l]
      BY <2>1, <2>2, <2>4
    <2> QED BY <2>5, <1>7
  <1> QED BY <1>9, <1>10, <1>11 DEF NamesNode
-----------------------------------------------------------------------------
(* The removed pictures are dropped *)

\* What stays of x
Purged(x, y) ==
    /\ y.nodes = x.nodes /\ y.disp = x.disp /\ y.status = x.status
    /\ \A s \in Slots : NoneHeld(x, s) => NoneHeld(y, s)
    /\ \A m \in MvIDs : NoMvHeld(x, m) => NoMvHeld(y, m)
    /\ PoolKept(x.pool, y.pool)
    /\ \A t \in Slots : /\ RefsOn(x.pool, t) \in Nat /\ RefsOn(y.pool, t) \in Nat
                        /\ RefsOn(y.pool, t) <= RefsOn(x.pool, t)

LEMMA HeadDropped ==
  ASSUME NEW x, NEW frm, NEW mv, NEW user, NEW shown, Users(frm, mv),
         MngrInv(x, frm, mv, user, shown), x.dlt # <<>>, NEW r, r = Head(x.dlt),
         NEW w, w = [x EXCEPT !.dlt = Tail(@)]
  PROVE  /\ r \in Slots \X MvIDs
         /\ MngrInv(w, MoreOf(frm, r[1]), MoreOf(mv, r[2]), user, shown)
         /\ Users(MoreOf(frm, r[1]), MoreOf(mv, r[2]))
         /\ w.nodes = x.nodes /\ w.disp = x.disp /\ w.status = x.status /\ w.pool = x.pool
         /\ w.dlt = Tail(x.dlt) /\ w.mv = x.mv
  <1>1. /\ x \in PictMngrs /\ PoolInv(x.pool) /\ MvInv(x.mv)
        /\ NodesWhole(x) /\ CountsExact(x, frm, mv) /\ OutputWhole(x, user, shown)
    BY DEF MngrInv
  <1>2. /\ x.dlt \in Seq(Slots \X MvIDs) /\ Lists(x)
        /\ r \in Slots \X MvIDs /\ r[1] \in Slots /\ r[2] \in MvIDs
        /\ Tail(x.dlt) \in Seq(Slots \X MvIDs)
    <2>1. x.dlt \in Seq(Slots \X MvIDs) /\ Lists(x)
      BY <1>1, MngrTypes DEF Lists
    <2>2. r \in Slots \X MvIDs /\ Tail(x.dlt) \in Seq(Slots \X MvIDs)
      BY <2>1, SeqHead
    <2> QED BY <2>1, <2>2
  <1>3. /\ w.nodes = x.nodes /\ w.disp = x.disp /\ w.status = x.status /\ w.pool = x.pool
        /\ w.dlt = Tail(x.dlt) /\ w.mv = x.mv
    BY <1>1 DEF PictMngrs
  <1>4. w \in PictMngrs
    BY <1>1, <1>2 DEF PictMngrs
  <1>5. Lists(w)
    BY <1>4, MngrTypes
  <1>6. Users(MoreOf(frm, r[1]), MoreOf(mv, r[2]))
    BY <1>2, MoreIs DEF Users
  <1>7. ASSUME NEW t \in Slots PROVE RefsOn(w.pool, t) = MoreOf(frm, r[1])[t] + FrmHeld(w, t)
    <2>1. Count(Tail(x.dlt), PairsOn(t)) = Count(x.dlt, PairsOn(t)) - One(r \in PairsOn(t))
      BY <1>2, CountHead
    <2>2. One(r \in PairsOn(t)) = One(t = r[1]) /\ One(t = r[1]) \in {0, 1}
      BY <1>2 DEF One, PairsOn
    <2>3. MoreOf(frm, r[1])[t] = frm[t] + One(t = r[1])
      <3>1. frm \in [Slots -> Nat]
        BY DEF Users
      <3> DEFINE a == r[1]
      <3>2. a \in Slots
        BY <1>2
      <3> HIDE DEF a
      <3>3. MoreOf(frm, a)[t] = frm[t] + One(t = a)
        BY <3>1, <3>2, MoreIs
      <3> QED BY <3>3 DEF a
    <2>4. /\ FrmHeld(w, t) = Count(w.nodes, NodesOn(t)) + Count(w.dlt, PairsOn(t))
                             + Count(w.disp, {t})
          /\ FrmHeld(x, t) = Count(x.nodes, NodesOn(t)) + Count(x.dlt, PairsOn(t))
                             + Count(x.disp, {t})
          /\ Count(x.nodes, NodesOn(t)) \in Nat /\ Count(x.dlt, PairsOn(t)) \in Nat
          /\ Count(x.disp, {t}) \in Nat
      BY <1>2, <1>5, FrmHeldIs
    <2>5. FrmHeld(w, t) = FrmHeld(x, t) - One(t = r[1])
      BY <2>1, <2>2, <2>4, <1>3
    <2>6. RefsOn(x.pool, t) = frm[t] + FrmHeld(x, t) /\ frm[t] \in Nat /\ FrmHeld(x, t) \in Nat
      BY <1>1, CountsAre
    <2> QED BY <2>2, <2>3, <2>5, <2>6, <1>3
  <1>8. ASSUME NEW m \in MvIDs PROVE w.mv.cnt[m] = MoreOf(mv, r[2])[m] + MvHeld(w, m)
    <2>1. Count(Tail(x.dlt), PairsWith(m)) = Count(x.dlt, PairsWith(m)) - One(r \in PairsWith(m))
      BY <1>2, CountHead
    <2>2. One(r \in PairsWith(m)) = One(m = r[2]) /\ One(m = r[2]) \in {0, 1}
      BY <1>2 DEF One, PairsWith
    <2>3. MoreOf(mv, r[2])[m] = mv[m] + One(m = r[2])
      <3>1. mv \in [MvIDs -> Nat]
        BY DEF Users
      <3> DEFINE a == r[2]
      <3>2. a \in MvIDs
        BY <1>2
      <3> HIDE DEF a
      <3>3. MoreOf(mv, a)[m] = mv[m] + One(m = a)
        BY <3>1, <3>2, MoreIs
      <3> QED BY <3>3 DEF a
    <2>4. /\ MvHeld(w, m) = Count(w.nodes, NodesWith(m)) + Count(w.dlt, PairsWith(m))
          /\ MvHeld(x, m) = Count(x.nodes, NodesWith(m)) + Count(x.dlt, PairsWith(m))
          /\ Count(x.nodes, NodesWith(m)) \in Nat /\ Count(x.dlt, PairsWith(m)) \in Nat
      BY <1>2, <1>5, MvHeldIs
    <2>5. MvHeld(w, m) = MvHeld(x, m) - One(m = r[2])
      BY <2>1, <2>2, <2>4, <1>3
    <2>6. x.mv.cnt[m] = mv[m] + MvHeld(x, m) /\ mv[m] \in Nat /\ MvHeld(x, m) \in Nat
      BY <1>1, CountsAre
    <2> QED BY <2>2, <2>3, <2>5, <2>6, <1>3
  <1>9. CountsExact(w, MoreOf(frm, r[1]), MoreOf(mv, r[2]))
    BY <1>7, <1>8 DEF CountsExact
  <1>10. \A t : ToBeOutput(w, t) <=> ToBeOutput(x, t)
    BY <1>3 DEF ToBeOutput
  <1>11. OutputWhole(w, user, shown)
    BY <1>1, <1>3, <1>10, OutputStays
  <1>12. NodesWhole(w)
    BY <1>1, <1>3 DEF NodesWhole
  <1> QED BY <1>1, <1>2, <1>3, <1>4, <1>6, <1>9, <1>11, <1>12 DEF MngrInv

LEMMA PurgedTrans ==
  ASSUME NEW x, NEW y, NEW z, Purged(x, y), Purged(y, z)
  PROVE  Purged(x, z)
  <1>1. \A t \in Slots : /\ RefsOn(x.pool, t) \in Nat /\ RefsOn(z.pool, t) \in Nat
                         /\ RefsOn(z.pool, t) <= RefsOn(x.pool, t)
    BY DEF Purged
  <1>2. PoolKept(x.pool, z.pool)
    <2>1. ASSUME NEW t \in Slots, RefsOn(z.pool, t) >= 1
          PROVE  z.pool.buf[t] = x.pool.buf[t] /\ z.pool.out[t] = x.pool.out[t]
      <3>1. RefsOn(y.pool, t) >= 1
        BY <2>1 DEF Purged
      <3> QED BY <2>1, <3>1 DEF Purged, PoolKept
    <2> QED BY <2>1 DEF Purged, PoolKept
  <1> QED BY <1>1, <1>2 DEF Purged

LEMMA PurgedSelf ==
  ASSUME NEW x, NEW frm, NEW mv, NEW user, NEW shown, Users(frm, mv),
         MngrInv(x, frm, mv, user, shown)
  PROVE  Purged(x, x)
  <1>1. \A t \in Slots : RefsOn(x.pool, t) \in Nat
    BY CountsAre DEF MngrInv
  <1> QED BY <1>1 DEF Purged, PoolKept

\* The oldest of the removed pictures is dropped.
OneReleased(x, y, frm, mv, user, shown) ==
    /\ MngrInv(y, frm, mv, user, shown) /\ Purged(x, y)
    /\ y.dlt = IF x.dlt = <<>> THEN <<>> ELSE Tail(x.dlt)

LEMMA ReleaseOneIs ==
  ASSUME NEW x, NEW frm, NEW mv, NEW user, NEW shown, Users(frm, mv), BufsFit,
         MngrInv(x, frm, mv, user, shown), NEW y, y = ReleaseOne(x)
  PROVE  OneReleased(x, y, frm, mv, user, shown)
  <1>1. CASE x.dlt = <<>>
    BY <1>1, PurgedSelf DEF ReleaseOne, OneReleased
  <1>2. CASE x.dlt # <<>>
    <2> DEFINE r == Head(x.dlt)
               w == [x EXCEPT !.dlt = Tail(@)]
    <2>1. /\ r \in Slots \X MvIDs
          /\ MngrInv(w, MoreOf(frm, r[1]), MoreOf(mv, r[2]), user, shown)
          /\ Users(MoreOf(frm, r[1]), MoreOf(mv, r[2]))
          /\ w.nodes = x.nodes /\ w.disp = x.disp /\ w.status = x.status /\ w.pool = x.pool
          /\ w.dlt = Tail(x.dlt) /\ w.mv = x.mv
      BY <1>2, HeadDropped
    <2>2. y = UnlockRef(w, r)
      <3>1. x \in PictMngrs
        BY DEF MngrInv
      <3> QED BY <1>2, <3>1 DEF ReleaseOne, UnlockRef, PictMngrs
    <2> HIDE DEF w
    <2>a. x.dlt \in Seq(Slots \X MvIDs)
      BY MngrTypes DEF MngrInv, Lists
    <2> DEFINE s == r[1]
               m == r[2]
    <2>3. /\ s \in Slots /\ m \in MvIDs /\ frm \in [Slots -> Nat] /\ mv \in [MvIDs -> Nat]
      BY <2>1 DEF Users
    <2> HIDE DEF s, m
    <2>4. /\ MoreOf(frm, s)[s] >= 1 /\ LessOf(MoreOf(frm, s), s) = frm
          /\ MoreOf(mv, m)[m] >= 1 /\ LessOf(MoreOf(mv, m), m) = mv
      <3>1. MoreOf(frm, s)[s] = frm[s] + 1 /\ MoreOf(mv, m)[m] = mv[m] + 1
        BY <2>3 DEF MoreOf
      <3>2. LessOf(MoreOf(frm, s), s) = frm
        BY <2>3, MoreIs
      <3>3. LessOf(MoreOf(mv, m), m) = mv
        BY <2>3, MoreIs
      <3> QED BY <2>3, <3>1, <3>2, <3>3
    <2>5. MngrInv(y, frm, mv, user, shown) /\ Dropped(w, y)
      <3>1. /\ MngrInv(y, LessOf(MoreOf(frm, s), r[1]), LessOf(MoreOf(mv, m), r[2]), user, shown)
            /\ Dropped(w, y)
        <4>1. MoreOf(frm, s)[r[1]] >= 1 /\ MoreOf(mv, m)[r[2]] >= 1
          BY <2>4 DEF s, m
        <4>2. /\ MngrInv(w, MoreOf(frm, s), MoreOf(mv, m), user, shown)
              /\ Users(MoreOf(frm, s), MoreOf(mv, m))
          BY <2>1 DEF s, m
        <4> HIDE DEF r
        <4> QED BY <2>1, <2>2, <4>1, <4>2, UnlockOne
      <3>2. /\ MngrInv(y, LessOf(MoreOf(frm, s), s), LessOf(MoreOf(mv, m), m), user, shown)
        BY <3>1 DEF s, m
      <3> QED BY <2>4, <3>1, <3>2
    <2>6. /\ y.nodes = x.nodes /\ y.disp = x.disp /\ y.status = x.status
          /\ y.dlt = Tail(x.dlt)
      BY <2>1, <2>5 DEF Dropped, SamePicts
    <2>7. /\ \A t \in Slots : NoneHeld(x, t) => NoneHeld(y, t)
          /\ \A n \in MvIDs : NoMvHeld(x, n) => NoMvHeld(y, n)
      <3>1. \A i \in 1 .. Len(y.dlt) : i + 1 \in 1 .. Len(x.dlt) /\ y.dlt[i] = x.dlt[i + 1]
        <4>1. /\ Len(x.dlt) \in Nat /\ Len(Tail(x.dlt)) = Len(x.dlt) - 1
              /\ \A i \in 1 .. Len(x.dlt) - 1 : Tail(x.dlt)[i] = x.dlt[i + 1]
          BY <1>2, <2>a, SeqHead
        <4> QED BY <2>6, <4>1
      <3> QED BY <2>6, <3>1 DEF NoneHeld, NoMvHeld
    <2>8. Purged(x, y)
      BY <2>1, <2>5, <2>6, <2>7 DEF Purged, Dropped
    <2> QED BY <1>2, <2>5, <2>6, <2>8 DEF OneReleased
  <1> QED BY <1>1, <1>2

LEMMA ReleaseAllIs ==
  ASSUME NEW x, NEW frm, NEW mv, NEW user, NEW shown, Users(frm, mv), BufsFit,
         MngrInv(x, frm, mv, user, shown), NEW y, y = ReleaseAll(x)
  PROVE  MngrInv(y, frm, mv, user, shown) /\ Purged(x, y) /\ y.dlt = <<>>
  <1> DEFINE seq == x.dlt
             n == Len(seq)
  <1>1. seq \in Seq(Slots \X MvIDs) /\ n \in Nat
    BY MngrTypes DEF MngrInv, Lists
  <1>2. PICK f : Goes(f, "release", x, seq) /\ y = f[n]
    BY <1>1, ReleaseRuns
  <1> DEFINE Done(i) == /\ MngrInv(f[i], frm, mv, user, shown) /\ Purged(x, f[i])
                        /\ Len(f[i].dlt) = n - i
             S == {i \in 0 .. n : Done(i)}
  <1>3. f[0] = x /\ \A i \in 1 .. n : f[i] = ReleaseOne(f[i - 1])
    BY <1>2 DEF Goes, StepOf
  <1> HIDE DEF seq
  <1>4. 0 \in S
    <2>1. Done(0)
      BY <1>1, <1>3, PurgedSelf DEF seq
    <2> HIDE DEF Done, n
    <2> QED BY <1>1, <2>1
  <1>5. ASSUME NEW i \in 0 .. n, i \in S, i # n PROVE i + 1 \in S
    <2> DEFINE u == f[i]
               v == f[i + 1]
    <2>1. Done(i) /\ i + 1 \in 1 .. n /\ i + 1 \in 0 .. n /\ (i + 1) - 1 = i
      <3> HIDE DEF Done, n
      <3> QED BY <1>1, <1>5
    <2>2. v = ReleaseOne(u)
      <3> HIDE DEF n
      <3> QED BY <1>3, <2>1
    <2>3. MngrInv(u, frm, mv, user, shown) /\ Purged(x, u) /\ Len(u.dlt) = n - i
      BY <2>1
    <2>4. OneReleased(u, v, frm, mv, user, shown)
      <3> HIDE DEF u, v
      <3> QED BY <2>2, <2>3, ReleaseOneIs
    <2>5. u.dlt # <<>> /\ u.dlt \in Seq(Slots \X MvIDs)
      <3>1. u.dlt \in Seq(Slots \X MvIDs)
        BY <2>3, MngrTypes DEF MngrInv, Lists
      <3>2. Len(u.dlt) > 0
        <4> HIDE DEF n
        <4> QED BY <1>1, <1>5, <2>3
      <3> QED BY <3>1, <3>2
    <2>6. Len(v.dlt) = n - (i + 1)
      <3>1. v.dlt = Tail(u.dlt)
        BY <2>4, <2>5 DEF OneReleased
      <3>2. Len(Tail(u.dlt)) = Len(u.dlt) - 1
        BY <2>5, SeqHead
      <3> HIDE DEF n, u, v
      <3> QED BY <1>1, <1>5, <2>3, <3>1, <3>2
    <2>7. MngrInv(v, frm, mv, user, shown) /\ Purged(x, v)
      <3> HIDE DEF u, v
      <3> QED BY <2>3, <2>4, PurgedTrans DEF OneReleased
    <2>8. Done(i + 1)
      BY <2>6, <2>7
    <2> HIDE DEF Done, n
    <2> QED BY <2>1, <2>8
  <1>6. Done(n)
    <2>1. \A i \in 0 .. n : i \in S
      <3> HIDE DEF S, n
      <3> QED BY <1>1, <1>4, <1>5, UpTo
    <2>2. n \in 0 .. n
      BY <1>1
    <2> HIDE DEF Done, n
    <2> QED BY <2>1, <2>2
  <1>7. y.dlt = <<>>
    <2>1. y.dlt \in Seq(Slots \X MvIDs)
      BY <1>2, <1>6, MngrTypes DEF MngrInv, Lists
    <2>2. Len(y.dlt) = 0
      <3> HIDE DEF n
      <3> QED BY <1>1, <1>2, <1>6
    <2> QED BY <2>1, <2>2
  <1> QED BY <1>2, <1>6, <1>7
-----------------------------------------------------------------------------
(* The end of the decoding of a picture *)

\* The picture of slot s is decoded.
MadeReady(x, y, s) ==
    /\ y.nodes = x.nodes /\ y.disp = x.disp /\ y.dlt = x.dlt /\ y.pool = x.pool
    /\ y.mv = x.mv /\ y.status = [x.status EXCEPT ![s] = "ready"]

LEMMA ReadyIs ==
  ASSUME NEW x, NEW frm, NEW mv, NEW user, NEW shown,
         MngrInv(x, frm, mv, user, shown), NEW s \in Slots, x.status[s] = "notReady",
         NEW y, y = [x EXCEPT !.status[s] = "ready"]
  PROVE  MngrInv(y, frm, mv, user, shown) /\ MadeReady(x, y, s)
  <1>1. x \in PictMngrs
    BY DEF MngrInv
  <1>2. /\ y.nodes = x.nodes /\ y.disp = x.disp /\ y.dlt = x.dlt /\ y.pool = x.pool
        /\ y.mv = x.mv /\ y.status = [x.status EXCEPT ![s] = "ready"] /\ y \in PictMngrs
    BY <1>1 DEF PictMngrs, Statuses
  <1>3. /\ \A t : FrmHeld(y, t) = FrmHeld(x, t)
        /\ \A m : MvHeld(y, m) = MvHeld(x, m)
    BY <1>2 DEF FrmHeld, MvHeld
  <1>4. CountsExact(y, frm, mv)
    BY <1>2, <1>3 DEF MngrInv, CountsExact
  <1>5. NodesWhole(y)
    BY <1>2 DEF MngrInv, NodesWhole
  <1>6. OutputWhole(y, user, shown)
    <2>1. OutputWhole(x, user, shown)
      BY DEF MngrInv
    <2>2. \A t \in Slots : y.status[t] # "notNeeded" <=> x.status[t] # "notNeeded"
      BY <1>1, <1>2 DEF PictMngrs
    <2>3. /\ \A t : ToBeOutput(y, t) <=> ToBeOutput(x, t)
          /\ \A t : InDisplay(y, t) <=> InDisplay(x, t)
      BY <1>2 DEF ToBeOutput, InDisplay
    <2> HIDE DEF ToBeOutput, InDisplay
    <2> QED BY <1>2, <2>1, <2>2, <2>3 DEF OutputWhole
  <1> QED BY <1>2, <1>4, <1>5, <1>6 DEF MngrInv, MadeReady

\* The nodes of y are those of x, perhaps output since; the display list grows at its end by
\* the pictures that are output, in POC order; a picture that is displayed keeps its buffer,
\* one that is in no list stays so and keeps its flag while somebody holds it.
NodesStay(x, y) ==
    /\ Len(y.nodes) = Len(x.nodes) /\ RefCount(y) = RefCount(x)
    /\ \A i \in 1 .. Len(x.nodes) : SameNode(x.nodes[i], y.nodes[i])

Lasting(x, y, frm) ==
    /\ Len(x.disp) <= Len(y.disp) /\ \A i \in 1 .. Len(x.disp) : y.disp[i] = x.disp[i]
    /\ Kept(x, y) /\ Ordered(x, y)
    /\ \A t \in Slots : InDisplay(x, t) => y.pool.buf[t] = x.pool.buf[t]
    /\ \A t \in Slots : NoneHeld(x, t) => NoneHeld(y, t)
    /\ \A t \in Slots : NoneHeld(x, t) /\ frm[t] >= 1 => y.pool.out[t] = x.pool.out[t]
    /\ \A m \in MvIDs : NoMvHeld(x, m) => NoMvHeld(y, m)

\* Thinning a picture manager lasts.
LEMMA ThinnedLasts ==
  ASSUME NEW x, NEW y, Thinned(x, y), NEW frm
  PROVE  Lasting(x, y, frm)
  <1>1. \A t \in Slots : NoneHeld(x, t) => ~ToBeOutput(x, t)
    BY DEF NoneHeld, ToBeOutput
  <1> QED BY <1>1 DEF Thinned, Queued, Steady, Lasting

Ended(x, y, s, frm, mv, user, shown) ==
    /\ MngrInv(y, frm, mv, user, shown) /\ NodesStay(x, y) /\ Lasting(x, y, frm)
    /\ y.status = [x.status EXCEPT ![s] = "ready"]
    /\ y.dlt = IF x.dlt = <<>> THEN x.dlt ELSE Tail(x.dlt)

\* What is purged and then thinned lasts.
LEMMA PurgedLasts ==
  ASSUME NEW x, NEW frm, NEW mv, NEW user, NEW shown, Users(frm, mv),
         MngrInv(x, frm, mv, user, shown),
         NEW y, MngrInv(y, frm, mv, user, shown), Purged(x, y),
         NEW w, w.nodes = y.nodes, w.disp = y.disp, w.dlt = y.dlt, w.pool = y.pool,
         NEW z, Thinned(w, z)
  PROVE  Lasting(x, z, frm)
  <1>1. Lasting(w, z, frm)
    BY ThinnedLasts
  <1>2. w.nodes = x.nodes /\ w.disp = x.disp
    BY DEF Purged
  <1>3. \A t \in Slots : InDisplay(x, t) => w.pool.buf[t] = x.pool.buf[t]
    <2> SUFFICES ASSUME NEW t \in Slots, InDisplay(x, t)
                 PROVE  w.pool.buf[t] = x.pool.buf[t]
      OBVIOUS
    <2>1. ~NoneHeld(y, t)
      BY DEF NoneHeld, InDisplay, Purged
    <2>m. 0 \in MvIDs
      BY MvBufPoolAssumption DEF MvIDs
    <2>2. RefsOn(y.pool, t) >= 1
      BY <2>1, <2>m, HeldUsed
    <2> QED BY <2>2 DEF Purged, PoolKept
  <1>4. \A t \in Slots : NoneHeld(w, t) <=> NoneHeld(y, t)
    BY DEF NoneHeld
  <1>5. \A m \in MvIDs : NoMvHeld(w, m) <=> NoMvHeld(y, m)
    BY DEF NoMvHeld
  <1>6. ASSUME NEW t \in Slots, NoneHeld(x, t), frm[t] >= 1
        PROVE  z.pool.out[t] = x.pool.out[t]
    <2>1. RefsOn(y.pool, t) >= 1
      <3>1. /\ RefsOn(y.pool, t) = frm[t] + FrmHeld(y, t)
            /\ frm[t] \in Nat /\ FrmHeld(y, t) \in Nat
        BY CountsAre DEF MngrInv
      <3> QED BY <1>6, <3>1
    <2>2. y.pool.out[t] = x.pool.out[t]
      BY <2>1 DEF Purged, PoolKept
    <2>3. NoneHeld(w, t)
      BY <1>4, <1>6 DEF Purged
    <2> QED BY <1>1, <1>6, <2>2, <2>3 DEF Lasting
  <1>7. /\ \A t \in Slots : NoneHeld(x, t) => NoneHeld(z, t)
        /\ \A m \in MvIDs : NoMvHeld(x, m) => NoMvHeld(z, m)
    BY <1>1, <1>4, <1>5 DEF Lasting, Purged
  <1>8. Kept(x, z) /\ Ordered(x, z)
    BY <1>1, <1>2 DEF Lasting, Kept, Ordered, ToBeOutput, Sooner
  <1>9. \A t : InDisplay(x, t) <=> InDisplay(w, t)
    BY <1>2 DEF InDisplay
  <1> QED BY <1>1, <1>2, <1>3, <1>6, <1>7, <1>8, <1>9 DEF Lasting

LEMMA EndDecodingIs ==
  ASSUME NEW x, NEW frm, NEW mv, NEW user, NEW shown, Users(frm, mv), BufsFit,
         MngrInv(x, frm, mv, user, shown), NEW s \in Slots, x.status[s] = "notReady",
         NEW z, z = EndDecoding(x, s)
  PROVE  Ended(x, z, s, frm, mv, user, shown)
  <1> DEFINE y == ReleaseOne(x)
             w == [y EXCEPT !.status[s] = "ready"]
             nodes == {i \in DOMAIN w.nodes : w.nodes[i].frm = s}
             n == w.nodes[Min(nodes)].id
  <1>1. OneReleased(x, y, frm, mv, user, shown)
    BY ReleaseOneIs
  <1>2. MngrInv(y, frm, mv, user, shown) /\ Purged(x, y) /\ y.status = x.status
    BY <1>1 DEF OneReleased, Purged
  <1>3. /\ MngrInv(w, frm, mv, user, shown)
        /\ w.nodes = y.nodes /\ w.disp = y.disp /\ w.dlt = y.dlt /\ w.pool = y.pool
        /\ w.status = [y.status EXCEPT ![s] = "ready"]
    <2>1. y.status[s] = "notReady" /\ w = [y EXCEPT !.status[s] = "ready"]
      BY <1>2
    <2>2. MngrInv(w, frm, mv, user, shown) /\ MadeReady(y, w, s)
      <3> HIDE DEF y, w
      <3> QED BY <1>2, <2>1, ReadyIs
    <2> QED BY <2>2 DEF MadeReady
  <1>4. z = w \/ (nodes # {} /\ w.nodes[Min(nodes)].out /\ z = Display(w, n))
    BY <1>2 DEF EndDecoding
  <1>d. y.dlt = IF x.dlt = <<>> THEN x.dlt ELSE Tail(x.dlt)
    <2>1. x \in PictMngrs
      BY DEF MngrInv
    <2> QED BY <2>1 DEF ReleaseOne, PictMngrs
  <1> HIDE DEF y, w
  <1>5. w \in PictMngrs /\ NodesWhole(w)
    BY <1>3 DEF MngrInv
  <1>6. MngrInv(z, frm, mv, user, shown) /\ Thinned(w, z) /\ SameNodes(w, z)
    <2>1. CASE z = w
      <3>1. Thinned(w, w)
        BY <1>5, ThinnedSelf
      <3>2. SameNodes(w, w)
        <4>1. \A o : SameNode(o, o)
          BY DEF SameNode
        <4> QED BY <4>1 DEF SameNodes
      <3> QED BY <1>3, <2>1, <3>1, <3>2
    <2>2. CASE nodes # {} /\ z = Display(w, n)
      <3>1. HasNode(w, n)
        <4>1. DOMAIN w.nodes = 1 .. Len(w.nodes) /\ Len(w.nodes) \in Nat
          BY <1>5, MngrTypes, SeqIs DEF Lists
        <4>2. nodes \in SUBSET Nat
          BY <4>1
        <4>3. Min(nodes) \in nodes
          <5> HIDE DEF nodes
          <5> QED BY <2>2, <4>2, MinIs
        <4> QED BY <4>1, <4>3 DEF HasNode
      <3> HIDE DEF n, nodes
      <3>2. Displayed(w, z, n, frm, mv, user, shown)
        BY <1>3, <2>2, <3>1, DisplayIs
      <3> QED BY <3>2 DEF Displayed
    <2> QED BY <1>4, <2>1, <2>2
  <1>7. z \in PictMngrs
    BY <1>6 DEF MngrInv
  <1>8. Lasting(x, z, frm)
    BY <1>2, <1>3, <1>6, PurgedLasts
  <1>9. NodesStay(x, z)
    <2>1. RefCount(z) = RefCount(w)
      BY <1>5, <1>6, <1>7, SameRefs
    <2>2. w.nodes = x.nodes
      BY <1>2, <1>3 DEF Purged
    <2>3. RefCount(w) = RefCount(x)
      BY <2>2 DEF RefCount
    <2> QED BY <1>6, <2>1, <2>2, <2>3 DEF NodesStay, SameNodes
  <1>10. z.status = [x.status EXCEPT ![s] = "ready"]
    BY <1>2, <1>3, <1>6 DEF Thinned, Steady
  <1>11. z.dlt = IF x.dlt = <<>> THEN x.dlt ELSE Tail(x.dlt)
    BY <1>3, <1>6, <1>d DEF SameNodes
  <1> QED BY <1>6, <1>8, <1>9, <1>10, <1>11 DEF Ended
-----------------------------------------------------------------------------
(* The display and the buffers that come and go *)

\* The application is given the first picture of the display list.
LEMMA ShowIs ==
  ASSUME NEW x, NEW frm, NEW mv, NEW user, Users(frm, mv), NEW off, ~off, NEW on, on,
         MngrInv(x, frm, mv, user, off), NEW s, s = GetDisplayBuffer(x), s # NoSlot
  PROVE  /\ x.disp # <<>> /\ s = Head(x.disp) /\ x.status[s] = "ready"
         /\ x.pool.buf[s] \in Bufs
         /\ MngrInv(x, frm, mv, user \cup {x.pool.buf[s]}, on)
  <1>1. x.disp # <<>> /\ s = Head(x.disp) /\ x.status[s] = "ready"
    BY DEF GetDisplayBuffer
  <1>2. /\ x \in PictMngrs /\ PoolInv(x.pool) /\ MvInv(x.mv)
        /\ NodesWhole(x) /\ CountsExact(x, frm, mv) /\ OutputWhole(x, user, off)
    BY DEF MngrInv
  <1>3. x.disp \in Seq(Slots) /\ Len(x.disp) \in Nat
    BY <1>2, MngrTypes DEF Lists
  <1>4. s = x.disp[1] /\ 1 \in 1 .. Len(x.disp) /\ s \in Slots
    BY <1>1, <1>3, SeqHead
  <1>m. 0 \in MvIDs
    BY MvBufPoolAssumption DEF MvIDs
  <1>5. RefsOn(x.pool, s) >= 1
    <2>1. ~NoneHeld(x, s)
      BY <1>4 DEF NoneHeld
    <2> QED BY <1>4, <1>m, <2>1, HeldUsed
  <1>6. x.pool.buf[s] # NoBuf /\ x.pool.buf[s] \in Bufs
    BY <1>2, <1>4, <1>5, InUse
  <1>7. \A t \in Slots : x.pool.buf[t] = x.pool.buf[s] => t = s
    BY <1>2, <1>4, <1>6 DEF PoolInv, SlotsWhole
  <1>8. x.pool.out[s]
    BY <1>2, <1>4 DEF OutputWhole
  <1>9. OutputWhole(x, user \cup {x.pool.buf[s]}, on)
    <2> DEFINE new == user \cup {x.pool.buf[s]}
    <2>1. ASSUME NEW t \in Slots, x.pool.buf[t] # NoBuf
          PROVE  x.pool.buf[t] \in new <=>
                    x.pool.out[t] /\ (InDisplay(x, t) => on /\ t = x.disp[1])
      <3>1. x.pool.buf[t] \in user <=> x.pool.out[t] /\ (InDisplay(x, t) => off /\ t = x.disp[1])
        BY <1>2, <2>1 DEF OutputWhole
      <3>2. InDisplay(x, s)
        BY <1>4 DEF InDisplay
      <3>3. CASE t = s
        BY <1>4, <1>8, <3>3
      <3>4. CASE t # s
        <4>1. x.pool.buf[t] # x.pool.buf[s]
          BY <1>7, <3>4
        <4> QED BY <1>4, <3>1, <3>4, <4>1
      <3> QED BY <3>3, <3>4
    <2>2. \A b \in Bufs : b \in new \/ \E t \in Slots : x.pool.buf[t] = b
      BY <1>2 DEF OutputWhole
    <2> HIDE DEF new
    <2>3. OutputWhole(x, new, on)
      BY <1>1, <1>2, <2>1, <2>2 DEF OutputWhole
    <2> QED BY <2>3 DEF new
  <1> QED BY <1>1, <1>2, <1>6, <1>9 DEF MngrInv

\* The picture that was shown leaves the display list.
Unlisted(x, y) ==
    /\ y.nodes = x.nodes /\ y.dlt = x.dlt /\ y.mv = x.mv /\ y.disp = Tail(x.disp)
    /\ y.status = [x.status EXCEPT ![Head(x.disp)] = "notNeeded"]
    /\ \A t \in Slots : NoneHeld(x, t) => NoneHeld(y, t)

WithoutFirst(x, s) == [x EXCEPT !.disp = Tail(@), !.status[s] = "notNeeded"]

LEMMA ListPopped ==
  ASSUME NEW x, NEW frm, NEW mv, NEW user, Users(frm, mv), NEW on, on, NEW off, ~off,
         MngrInv(x, frm, mv, user, on), x.disp # <<>>, NEW s, s = Head(x.disp),
         NEW w, w = WithoutFirst(x, s)
  PROVE  /\ s \in Slots /\ MngrInv(w, MoreOf(frm, s), mv, user, off)
         /\ Users(MoreOf(frm, s), mv) /\ Unlisted(x, w) /\ w.pool = x.pool
  <1>1. /\ x \in PictMngrs /\ PoolInv(x.pool) /\ MvInv(x.mv)
        /\ NodesWhole(x) /\ CountsExact(x, frm, mv) /\ OutputWhole(x, user, on)
    BY DEF MngrInv
  <1>2. /\ x.disp \in Seq(Slots) /\ Len(x.disp) \in Nat /\ Lists(x)
    BY <1>1, MngrTypes DEF Lists
  <1>3. /\ s = x.disp[1] /\ 1 \in 1 .. Len(x.disp) /\ s \in Slots
        /\ Tail(x.disp) \in Seq(Slots) /\ Len(Tail(x.disp)) = Len(x.disp) - 1
        /\ \A i \in 1 .. Len(x.disp) - 1 : Tail(x.disp)[i] = x.disp[i + 1]
    BY <1>2, SeqHead
  <1>4. /\ w.nodes = x.nodes /\ w.dlt = x.dlt /\ w.mv = x.mv /\ w.pool = x.pool
        /\ w.disp = Tail(x.disp) /\ w.status = [x.status EXCEPT ![s] = "notNeeded"]
        /\ w \in PictMngrs
    BY <1>1, <1>3 DEF PictMngrs, Statuses, WithoutFirst
  <1>5. Lists(w)
    BY <1>4, MngrTypes
  <1>6. /\ Len(w.disp) = Len(x.disp) - 1
        /\ \A i \in 1 .. Len(w.disp) : i + 1 \in 1 .. Len(x.disp) /\ w.disp[i] = x.disp[i + 1]
    <2> DEFINE q == x.disp
    <2>1. /\ w.disp = Tail(q) /\ Len(q) \in Nat /\ Len(Tail(q)) = Len(q) - 1
          /\ \A i \in 1 .. Len(q) - 1 : Tail(q)[i] = q[i + 1]
      BY <1>2, <1>3, <1>4
    <2> DEFINE v == Tail(q)
               u == w.disp
    <2>3. /\ u = v /\ Len(q) \in Nat /\ Len(v) = Len(q) - 1
          /\ \A i \in 1 .. Len(q) - 1 : v[i] = q[i + 1]
      BY <2>1
    <2> HIDE DEF q, u, v
    <2>2. /\ Len(u) = Len(q) - 1
          /\ \A i \in 1 .. Len(u) : i + 1 \in 1 .. Len(q) /\ u[i] = q[i + 1]
      BY <2>3
    <2> QED BY <2>2 DEF q, u
  <1>7. \A t : InDisplay(w, t) => InDisplay(x, t)
    BY <1>6 DEF InDisplay
  <1>8. \A t : InDisplay(x, t) => InDisplay(w, t) \/ t = s
    <2> SUFFICES ASSUME NEW t, NEW i \in 1 .. Len(x.disp), x.disp[i] = t, t # s
                 PROVE  InDisplay(w, t)
      BY DEF InDisplay
    <2>1. i # 1 /\ i - 1 \in 1 .. Len(w.disp) /\ (i - 1) + 1 = i
      BY <1>2, <1>3, <1>6
    <2>2. w.disp[i - 1] = t
      BY <1>6, <2>1
    <2> QED BY <2>1, <2>2 DEF InDisplay
  <1>9. ~InDisplay(w, s)
    <2> SUFFICES ASSUME NEW i \in 1 .. Len(w.disp), w.disp[i] = s
                 PROVE  FALSE
      BY DEF InDisplay
    <2>1. x.disp[i + 1] = x.disp[1] /\ i + 1 \in 1 .. Len(x.disp)
      BY <1>3, <1>6
    <2>2. i + 1 = 1
      BY <1>1, <1>3, <2>1 DEF OutputWhole
    <2> QED BY <1>2, <1>6, <2>2
  <1>10. frm \in [Slots -> Nat]
    BY DEF Users
  <1>11. /\ MoreOf(frm, s) \in [Slots -> Nat]
         /\ \A t \in Slots : MoreOf(frm, s)[t] = frm[t] + One(t = s)
    <2>1. s \in Slots
      BY <1>3
    <2>2. MoreOf(frm, s) \in [Slots -> Nat]
      BY <1>10, <2>1, MoreIs
    <2>3. \A t \in Slots : MoreOf(frm, s)[t] = frm[t] + One(t = s)
      BY <1>10, <2>1, MoreIs
    <2> QED BY <2>2, <2>3
  <1>12. Users(MoreOf(frm, s), mv)
    BY <1>11 DEF Users
  <1>13. CountsExact(w, MoreOf(frm, s), mv)
    <2>1. ASSUME NEW t \in Slots PROVE RefsOn(w.pool, t) = MoreOf(frm, s)[t] + FrmHeld(w, t)
      <3>1. Count(Tail(x.disp), {t}) = Count(x.disp, {t}) - One(s \in {t})
        BY <1>2, CountHead
      <3>2. One(s \in {t}) = One(t = s) /\ One(t = s) \in {0, 1}
        BY DEF One
      <3>3. /\ FrmHeld(w, t) = Count(w.nodes, NodesOn(t)) + Count(w.dlt, PairsOn(t))
                               + Count(w.disp, {t})
            /\ FrmHeld(x, t) = Count(x.nodes, NodesOn(t)) + Count(x.dlt, PairsOn(t))
                               + Count(x.disp, {t})
            /\ Count(x.nodes, NodesOn(t)) \in Nat /\ Count(x.dlt, PairsOn(t)) \in Nat
            /\ Count(x.disp, {t}) \in Nat
        BY <1>2, <1>5, FrmHeldIs
      <3>4. FrmHeld(w, t) = FrmHeld(x, t) - One(t = s)
        BY <1>4, <3>1, <3>2, <3>3
      <3>5. /\ RefsOn(x.pool, t) = frm[t] + FrmHeld(x, t)
            /\ frm[t] \in Nat /\ FrmHeld(x, t) \in Nat
        BY <1>1, CountsAre
      <3> QED BY <1>4, <1>11, <3>2, <3>4, <3>5
    <2>2. \A m \in MvIDs : w.mv.cnt[m] = mv[m] + MvHeld(w, m)
      BY <1>1, <1>4 DEF CountsExact, MvHeld
    <2> QED BY <2>1, <2>2 DEF CountsExact
  <1>14. \A t : ToBeOutput(w, t) <=> ToBeOutput(x, t)
    BY <1>4 DEF ToBeOutput
  <1>15. OutputWhole(w, user, off)
    <2>1. \A i, j \in 1 .. Len(w.disp) : w.disp[i] = w.disp[j] => i = j
      <3> SUFFICES ASSUME NEW i \in 1 .. Len(w.disp), NEW j \in 1 .. Len(w.disp),
                          w.disp[i] = w.disp[j]
                   PROVE  i = j
        OBVIOUS
      <3>1. i + 1 = j + 1
        BY <1>1, <1>6 DEF OutputWhole
      <3> QED BY <3>1
    <2>2. \A i \in 1 .. Len(w.disp) : w.pool.out[w.disp[i]]
      <3> SUFFICES ASSUME NEW i \in 1 .. Len(w.disp) PROVE w.pool.out[w.disp[i]]
        OBVIOUS
      <3>1. i + 1 # 1
        OBVIOUS
      <3> QED BY <1>1, <1>4, <1>6, <3>1 DEF OutputWhole
    <2>3. ASSUME NEW t \in Slots
          PROVE  /\ ToBeOutput(w, t) => ~w.pool.out[t] /\ ~InDisplay(w, t)
                 /\ w.status[t] # "notNeeded" <=> ToBeOutput(w, t) \/ InDisplay(w, t)
                 /\ w.pool.buf[t] # NoBuf =>
                       (w.pool.buf[t] \in user <=>
                           w.pool.out[t] /\ (InDisplay(w, t) => off /\ t = w.disp[1]))
      <3>1. /\ ToBeOutput(x, t) => ~x.pool.out[t] /\ ~InDisplay(x, t)
            /\ x.status[t] # "notNeeded" <=> ToBeOutput(x, t) \/ InDisplay(x, t)
            /\ x.pool.buf[t] # NoBuf =>
                       (x.pool.buf[t] \in user <=>
                           x.pool.out[t] /\ (InDisplay(x, t) => on /\ t = x.disp[1]))
        BY <1>1 DEF OutputWhole
      <3>2. w.status[t] = IF t = s THEN "notNeeded" ELSE x.status[t]
        BY <1>1, <1>4 DEF PictMngrs
      <3>3. CASE t = s
        <4>1. InDisplay(x, s)
          BY <1>3 DEF InDisplay
        <4> HIDE DEF InDisplay, ToBeOutput
        <4> QED BY <1>3, <1>4, <1>9, <1>14, <3>1, <3>2, <3>3, <4>1
      <3>4. CASE t # s
        <4>1. InDisplay(w, t) <=> InDisplay(x, t)
          BY <1>7, <1>8, <3>4
        <4> HIDE DEF InDisplay, ToBeOutput
        <4> QED BY <1>3, <1>4, <1>14, <3>1, <3>2, <3>4, <4>1
      <3> QED BY <3>3, <3>4
    <2>4. \A b \in Bufs : b \in user \/ \E t \in Slots : w.pool.buf[t] = b
      BY <1>1, <1>4 DEF OutputWhole
    <2> QED BY <2>1, <2>2, <2>3, <2>4 DEF OutputWhole
  <1>16. NodesWhole(w)
    BY <1>1, <1>4, SMTT(30) DEF NodesWhole
  <1>17. \A t \in Slots : NoneHeld(x, t) => NoneHeld(w, t)
    BY <1>4, <1>6 DEF NoneHeld
  <1>18. Unlisted(x, w)
    BY <1>4, <1>17 DEF Unlisted
  <1> QED BY <1>1, <1>3, <1>4, <1>12, <1>13, <1>15, <1>16, <1>18 DEF MngrInv

LEMMA ReleaseDisplayIs ==
  ASSUME NEW x, NEW frm, NEW mv, NEW user, Users(frm, mv), NEW on, on, NEW off, ~off, BufsFit,
         MngrInv(x, frm, mv, user, on), x.disp # <<>>, NEW y, y = ReleaseDisplayBuffer(x)
  PROVE  MngrInv(y, frm, mv, user, off) /\ Unlisted(x, y) /\ PoolKept(x.pool, y.pool)
  <1> DEFINE s == Head(x.disp)
             w == WithoutFirst(x, s)
  <1>1. /\ s \in Slots /\ MngrInv(w, MoreOf(frm, s), mv, user, off)
        /\ Users(MoreOf(frm, s), mv) /\ Unlisted(x, w) /\ w.pool = x.pool
    <2>1. s = Head(x.disp) /\ w = WithoutFirst(x, s)
      OBVIOUS
    <2> HIDE DEF s, w
    <2> QED BY <2>1, ListPopped
  <1>2. y = [w EXCEPT !.pool = DecrementBufID(@, s)]
    <2>1. x \in PictMngrs
      BY DEF MngrInv
    <2> QED BY <2>1 DEF ReleaseDisplayBuffer, PictMngrs, WithoutFirst
  <1> HIDE DEF w, s
  <1>3. frm \in [Slots -> Nat] /\ frm[s] \in Nat
    BY <1>1 DEF Users
  <1>4. MoreOf(frm, s)[s] >= 1 /\ LessOf(MoreOf(frm, s), s) = frm
    <2>1. MoreOf(frm, s)[s] = frm[s] + 1
      BY <1>1, <1>3 DEF MoreOf
    <2>2. LessOf(MoreOf(frm, s), s) = frm
      BY <1>1, <1>3, MoreIs
    <2> QED BY <1>3, <2>1, <2>2
  <1>5. MngrInv(y, LessOf(MoreOf(frm, s), s), mv, user, off) /\ DroppedFrm(w, y)
    BY <1>1, <1>2, <1>4, DropFrm
  <1>6. SamePicts(w, y) /\ y.mv = w.mv /\ PoolKept(x.pool, y.pool)
    BY <1>1, <1>5 DEF DroppedFrm
  <1>7. Unlisted(x, y)
    BY <1>1, <1>6 DEF Unlisted, SamePicts, NoneHeld
  <1> QED BY <1>4, <1>5, <1>6, <1>7

\* The application returns a buffer.
GotBack(x, y) ==
    /\ SamePicts(x, y) /\ y.mv = x.mv
    /\ \A t \in Slots : RefsOn(y.pool, t) >= 1 => y.pool.buf[t] = x.pool.buf[t]
    /\ \A t \in Slots : ~x.pool.out[t] => ~y.pool.out[t]

LEMMA GetBackIs ==
  ASSUME NEW x, NEW frm, NEW mv, NEW user, NEW shown, Users(frm, mv), BufsFit,
         MngrInv(x, frm, mv, user, shown), user \subseteq Bufs, NEW b \in user,
         NEW y, y = [x EXCEPT !.pool = PutDisplayBuffer(@, b)]
  PROVE  MngrInv(y, frm, mv, user \ {b}, shown) /\ GotBack(x, y)
  <1>1. /\ x \in PictMngrs /\ PoolInv(x.pool) /\ MvInv(x.mv)
        /\ NodesWhole(x) /\ CountsExact(x, frm, mv) /\ OutputWhole(x, user, shown)
    BY DEF MngrInv
  <1>2. /\ SamePicts(x, y) /\ y.mv = x.mv /\ y.pool = PutDisplayBuffer(x.pool, b)
        /\ y = [x EXCEPT !.pool = y.pool]
    BY <1>1 DEF PictMngrs, SamePicts
  <1>3. b \in Bufs /\ b # NoBuf
    BY FrmBufPoolAssumption
  <1>4. Returned(x.pool, y.pool, b)
    <2>1. \A s \in Slots : x.pool.buf[s] = b => x.pool.out[s]
      BY <1>1, <1>3 DEF OutputWhole
    <2> QED BY <1>1, <1>2, <1>3, <2>1, PutIs
  <1>5. PoolInv(y.pool) /\ y.pool \in FrmBufPools
    BY <1>4 DEF Returned, PoolInv
  <1>6. y \in PictMngrs
    BY <1>1, <1>2, <1>5 DEF PictMngrs
  <1>7. CountsExact(y, frm, mv)
    BY <1>1, <1>2, <1>4, SameHeld DEF CountsExact, Returned
  <1>8. NodesWhole(y)
    BY <1>1, <1>2 DEF NodesWhole, SamePicts
  <1>9. /\ \A t : ToBeOutput(y, t) <=> ToBeOutput(x, t)
        /\ \A t : InDisplay(y, t) <=> InDisplay(x, t)
        /\ y.disp = x.disp /\ y.status = x.status
    BY <1>2 DEF ToBeOutput, InDisplay, SamePicts
  <1>10. ASSUME NEW t \in Slots
         PROVE  \/ /\ y.pool.buf[t] = x.pool.buf[t] /\ y.pool.out[t] = x.pool.out[t]
                   /\ y.pool.buf[t] # b
                \/ /\ x.pool.buf[t] \in {NoBuf, b} /\ y.pool.buf[t] \in {NoBuf, b}
                   /\ ~y.pool.out[t]
    BY <1>3, <1>4 DEF Returned
  <1>11. OutputWhole(y, user \ {b}, shown)
    <2> DEFINE new == user \ {b}
    <2> HIDE DEF ToBeOutput, InDisplay
    <2>1. \A i \in 1 .. Len(y.disp) : y.pool.out[y.disp[i]] \/ (i = 1 /\ shown)
      <3> SUFFICES ASSUME NEW i \in 1 .. Len(y.disp)
                   PROVE  y.pool.out[y.disp[i]] \/ (i = 1 /\ shown)
        OBVIOUS
      <3> DEFINE t == x.disp[i]
      <3>1. t \in Slots /\ y.disp[i] = t /\ i \in 1 .. Len(x.disp)
        BY <1>1, <1>9, MngrTypes
      <3>2. InDisplay(x, t) /\ (x.pool.out[t] \/ (i = 1 /\ shown))
        BY <1>1, <3>1 DEF InDisplay, OutputWhole
      <3>3. CASE x.pool.buf[t] = b
        <4>1. shown /\ t = x.disp[1]
          BY <1>1, <1>3, <3>1, <3>2, <3>3 DEF OutputWhole
        <4>2. i = 1
          <5>1. 1 \in 1 .. Len(x.disp)
            BY <3>1
          <5> QED BY <1>1, <3>1, <4>1, <5>1 DEF OutputWhole
        <4> QED BY <4>1, <4>2
      <3>4. CASE x.pool.buf[t] = NoBuf
        <4>1. ~x.pool.out[t]
          BY <1>1, <3>1, <3>4 DEF PoolInv, SlotsWhole
        <4> QED BY <3>2, <4>1
      <3>5. CASE x.pool.buf[t] # b /\ x.pool.buf[t] # NoBuf
        BY <1>10, <3>1, <3>2, <3>5
      <3> QED BY <3>3, <3>4, <3>5
    <2>2. ASSUME NEW t \in Slots
          PROVE  /\ ToBeOutput(y, t) => ~y.pool.out[t] /\ ~InDisplay(y, t)
                 /\ y.status[t] # "notNeeded" <=> ToBeOutput(y, t) \/ InDisplay(y, t)
                 /\ y.pool.buf[t] # NoBuf =>
                       (y.pool.buf[t] \in new <=>
                           y.pool.out[t] /\ (InDisplay(y, t) => shown /\ t = y.disp[1]))
      <3>1. /\ ToBeOutput(x, t) => ~x.pool.out[t] /\ ~InDisplay(x, t)
            /\ x.status[t] # "notNeeded" <=> ToBeOutput(x, t) \/ InDisplay(x, t)
            /\ x.pool.buf[t] # NoBuf =>
                       (x.pool.buf[t] \in user <=>
                           x.pool.out[t] /\ (InDisplay(x, t) => shown /\ t = x.disp[1]))
        BY <1>1 DEF OutputWhole
      <3>2. CASE y.pool.buf[t] = x.pool.buf[t] /\ y.pool.out[t] = x.pool.out[t]
                 /\ y.pool.buf[t] # b
        BY <1>9, <3>1, <3>2
      <3>3. CASE y.pool.buf[t] \in {NoBuf, b} /\ ~y.pool.out[t]
        BY <1>9, <3>1, <3>3
      <3> QED BY <1>10, <3>2, <3>3
    <2>3. \A c \in Bufs : c \in new \/ \E t \in Slots : y.pool.buf[t] = c
      <3> SUFFICES ASSUME NEW c \in Bufs, c \notin new
                   PROVE  \E t \in Slots : y.pool.buf[t] = c
        OBVIOUS
      <3>1. CASE c = b
        BY <1>4, <3>1 DEF Returned
      <3>2. CASE c # b
        <4>1. PICK t \in Slots : x.pool.buf[t] = c
          BY <1>1, <3>2 DEF OutputWhole
        <4>2. y.pool.buf[t] = c
          BY <1>4, <3>2, <4>1, FrmBufPoolAssumption DEF Returned
        <4> QED BY <4>2
      <3> QED BY <3>1, <3>2
    <2> HIDE DEF new
    <2>4. OutputWhole(y, new, shown)
      BY <1>1, <1>9, <2>1, <2>2, <2>3 DEF OutputWhole
    <2> QED BY <2>4 DEF new
  <1>12. GotBack(x, y)
    <2>1. ASSUME NEW t \in Slots, RefsOn(y.pool, t) >= 1
          PROVE  y.pool.buf[t] = x.pool.buf[t]
      <3>1. RefsOn(x.pool, t) >= 1
        BY <1>4, <2>1 DEF Returned
      <3>2. x.pool.buf[t] # NoBuf /\ x.pool.cnt[t] = RefsOn(x.pool, t) /\ x.pool.cnt[t] \in Int
        BY <1>1, <3>1, InUse
      <3>3. x.pool.cnt[t] > 0
        BY <3>1, <3>2
      <3> QED BY <1>4, <3>2, <3>3 DEF Returned
    <2>2. ASSUME NEW t \in Slots, ~x.pool.out[t] PROVE ~y.pool.out[t]
      BY <1>10, <2>2
    <2> QED BY <1>2, <2>1, <2>2 DEF GotBack
  <1> QED BY <1>1, <1>2, <1>5, <1>6, <1>7, <1>8, <1>11, <1>12 DEF MngrInv

\* Changes of the pool that the pictures do not show: event and the flag of the end.
LEMMA SignalIs ==
  ASSUME NEW x, NEW frm, NEW mv, NEW user, NEW shown,
         MngrInv(x, frm, mv, user, shown),
         NEW y, NEW r, y = [x EXCEPT !.pool = r], Signalled(x.pool, r)
  PROVE  /\ MngrInv(y, frm, mv, user, shown) /\ SamePicts(x, y) /\ y.mv = x.mv
         /\ y.pool.buf = x.pool.buf /\ y.pool.out = x.pool.out
         /\ FifoSlots(y.pool) = FifoSlots(x.pool)
  <1>1. /\ x \in PictMngrs /\ PoolInv(x.pool) /\ MvInv(x.mv)
        /\ NodesWhole(x) /\ CountsExact(x, frm, mv) /\ OutputWhole(x, user, shown)
    BY DEF MngrInv
  <1>2. SamePicts(x, y) /\ y.mv = x.mv /\ y.pool = r
    BY <1>1 DEF PictMngrs, SamePicts
  <1>3. /\ PoolInv(r) /\ r.buf = x.pool.buf /\ r.out = x.pool.out
        /\ FifoSlots(r) = FifoSlots(x.pool) /\ r \in FrmBufPools
        /\ \A t \in Slots : RefsOn(r, t) = RefsOn(x.pool, t)
    <2>1. /\ PoolInv(r) /\ FifoSlots(r) = FifoSlots(x.pool)
          /\ \A t \in Slots : RefsOn(r, t) = RefsOn(x.pool, t)
      BY <1>1, SignalsFree
    <2> QED BY <2>1 DEF Signalled
  <1>4. y \in PictMngrs
    BY <1>1, <1>3 DEF PictMngrs
  <1>5. CountsExact(y, frm, mv)
    BY <1>1, <1>2, <1>3, SameHeld DEF CountsExact
  <1>6. NodesWhole(y)
    BY <1>1, <1>2 DEF NodesWhole, SamePicts
  <1>7. OutputWhole(y, user, shown)
    BY <1>1, <1>2, <1>3, OutputSame
  <1> QED BY <1>1, <1>2, <1>3, <1>4, <1>5, <1>6, <1>7 DEF MngrInv

\* The slot of a buffer popped is new to the picture manager.
NewSlot(x, y, s) ==
    /\ s \in Slots /\ NoneHeld(x, s) /\ ~x.pool.out[s] /\ x.status[s] = "notNeeded"
    /\ SamePicts(x, y) /\ y.mv = x.mv /\ y.pool.buf = x.pool.buf /\ y.pool.out = x.pool.out

LEMMA PopBufferIs ==
  ASSUME NEW x, NEW frm, NEW mv, NEW user, NEW shown, Users(frm, mv),
         MngrInv(x, frm, mv, user, shown), x.pool.number > 0,
         NEW y, y = [x EXCEPT !.pool = Pop(@)], NEW s, s = x.pool.head
  PROVE  /\ MngrInv(y, MoreOf(frm, s), mv, user, shown) /\ Users(MoreOf(frm, s), mv)
         /\ NewSlot(x, y, s) /\ frm[s] = 0
  <1>1. /\ x \in PictMngrs /\ PoolInv(x.pool) /\ MvInv(x.mv)
        /\ NodesWhole(x) /\ CountsExact(x, frm, mv) /\ OutputWhole(x, user, shown)
    BY DEF MngrInv
  <1>2. /\ SamePicts(x, y) /\ y.mv = x.mv /\ y.pool = Pop(x.pool)
        /\ y = [x EXCEPT !.pool = y.pool]
    BY <1>1 DEF PictMngrs, SamePicts
  <1>3. Popped(x.pool, y.pool, s)
    BY <1>1, <1>2, PopIs
  <1>4. /\ PoolInv(y.pool) /\ s \in Slots
        /\ x.pool.buf[s] \in Bufs /\ x.pool.cnt[s] = 0 /\ ~x.pool.out[s]
        /\ y.pool.buf = x.pool.buf /\ y.pool.out = x.pool.out
        /\ \A t \in Slots : RefsOn(y.pool, t) = RefsOn(x.pool, t) + One(t = s)
    BY <1>3 DEF Popped
  <1>5. y \in PictMngrs
    <2>1. y.pool \in FrmBufPools
      BY <1>4 DEF PoolInv
    <2> QED BY <1>1, <1>2, <2>1 DEF PictMngrs
  <1>6. RefsOn(x.pool, s) = 0
    BY <1>4, FrmBufPoolAssumption DEF RefsOn
  <1>7. frm[s] = 0 /\ NoneHeld(x, s)
    <2>1. /\ frm[s] \in Nat /\ FrmHeld(x, s) \in Nat
          /\ RefsOn(x.pool, s) = frm[s] + FrmHeld(x, s)
      BY <1>1, <1>4, CountsAre
    <2>2. frm[s] = 0 /\ FrmHeld(x, s) = 0
      BY <1>6, <2>1
    <2>3. Lists(x)
      BY <1>1, MngrTypes
    <2> QED BY <2>2, <2>3, HeldNone
  <1>8. x.status[s] = "notNeeded"
    <2>1. ~ToBeOutput(x, s) /\ ~InDisplay(x, s)
      BY <1>7 DEF NoneHeld, ToBeOutput, InDisplay
    <2> QED BY <1>1, <1>4, <2>1 DEF OutputWhole
  <1>9. /\ MoreOf(frm, s) \in [Slots -> Nat]
        /\ \A t \in Slots : MoreOf(frm, s)[t] = frm[t] + One(t = s)
    <2>1. frm \in [Slots -> Nat]
      BY DEF Users
    <2>2. s \in Slots
      BY <1>4
    <2>3. MoreOf(frm, s) \in [Slots -> Nat]
      BY <2>1, <2>2, MoreIs
    <2>4. \A t \in Slots : MoreOf(frm, s)[t] = frm[t] + One(t = s)
      BY <2>1, <2>2, MoreIs
    <2> QED BY <2>3, <2>4
  <1>10. CountsExact(y, MoreOf(frm, s), mv)
    <2>1. ASSUME NEW t \in Slots
          PROVE  RefsOn(y.pool, t) = MoreOf(frm, s)[t] + FrmHeld(y, t)
      <3>1. /\ frm[t] \in Nat /\ FrmHeld(x, t) \in Nat
            /\ RefsOn(x.pool, t) = frm[t] + FrmHeld(x, t)
        BY <1>1, CountsAre
      <3>2. FrmHeld(y, t) = FrmHeld(x, t)
        BY <1>2, SameHeld
      <3>3. One(t = s) \in {0, 1}
        BY DEF One
      <3> QED BY <1>4, <1>9, <3>1, <3>2, <3>3
    <2>2. \A m \in MvIDs : y.mv.cnt[m] = mv[m] + MvHeld(y, m)
      BY <1>1, <1>2, SameHeld DEF CountsExact
    <2> QED BY <2>1, <2>2 DEF CountsExact
  <1>11. NodesWhole(y)
    BY <1>1, <1>2 DEF NodesWhole, SamePicts
  <1>12. OutputWhole(y, user, shown)
    BY <1>1, <1>2, <1>4, OutputSame
  <1>13. MngrInv(y, MoreOf(frm, s), mv, user, shown)
    BY <1>1, <1>2, <1>4, <1>5, <1>10, <1>11, <1>12 DEF MngrInv
  <1> QED BY <1>2, <1>4, <1>7, <1>8, <1>9, <1>13 DEF NewSlot, Users

NewMv(x, y, m) ==
    /\ m \in MvIDs /\ NoMvHeld(x, m) /\ SamePicts(x, y) /\ y.pool = x.pool

LEMMA GetMvIs ==
  ASSUME NEW x, NEW frm, NEW mv, NEW user, NEW shown, Users(frm, mv),
         MngrInv(x, frm, mv, user, shown), x.mv.sem > 0,
         NEW y, y = [x EXCEPT !.mv = GetFreeBufID(@)], NEW m, m = x.mv.free[Len(x.mv.free)]
  PROVE  /\ MngrInv(y, frm, MoreOf(mv, m), user, shown) /\ Users(frm, MoreOf(mv, m))
         /\ NewMv(x, y, m) /\ mv[m] = 0
  <1>1. /\ x \in PictMngrs /\ PoolInv(x.pool) /\ MvInv(x.mv) /\ CountsExact(x, frm, mv)
    BY DEF MngrInv
  <1>2. /\ SamePicts(x, y) /\ y.pool = x.pool /\ y.mv = GetFreeBufID(x.mv)
        /\ y = [x EXCEPT !.mv = y.mv]
    BY <1>1 DEF PictMngrs, SamePicts
  <1>3. MvTaken(x.mv, y.mv, m) /\ x.mv.cnt[m] = 0
    BY <1>1, <1>2, MvGetIs
  <1>4. m \in MvIDs /\ y.mv \in MvBufPools
    BY <1>3 DEF MvTaken, MvInv
  <1>5. y \in PictMngrs
    BY <1>1, <1>2, <1>4 DEF PictMngrs
  <1>6. MngrInv(y, frm, MoreOf(mv, m), user, shown) /\ Users(frm, MoreOf(mv, m))
    BY <1>2, <1>3, <1>4, <1>5, TakeMv
  <1>7. mv[m] = 0 /\ NoMvHeld(x, m)
    <2>1. mv[m] \in Nat /\ MvHeld(x, m) \in Nat /\ x.mv.cnt[m] = mv[m] + MvHeld(x, m)
      BY <1>1, <1>4, CountsAre
    <2>2. mv[m] = 0 /\ MvHeld(x, m) = 0
      BY <1>3, <2>1
    <2>3. Lists(x)
      BY <1>1, MngrTypes
    <2> QED BY <2>2, <2>3, HeldNone
  <1> QED BY <1>2, <1>4, <1>6, <1>7 DEF NewMv

\* The pictures stay where they are, and the buffers of those still held stay the same.
Gentle(x, y) ==
    /\ SamePicts(x, y)
    /\ \A t \in Slots : RefsOn(y.pool, t) >= 1 =>
          y.pool.buf[t] = x.pool.buf[t] /\ (~x.pool.out[t] => ~y.pool.out[t])

\* The first buffer of the FIFO goes to the application.
LEMMA UnusedIs ==
  ASSUME NEW x, NEW frm, NEW mv, NEW user, NEW shown, Users(frm, mv),
         MngrInv(x, frm, mv, user, shown), FifoSlots(x.pool) # <<>>,
         NEW b, b = x.pool.buf[x.pool.head],
         NEW y, y = [x EXCEPT !.pool = SignalCallbackReleaseIsDone(FlushOneDisplayBuffer(@), b)]
  PROVE  /\ b \in Bufs /\ MngrInv(y, frm, mv, user \cup {b}, shown)
         /\ Gentle(x, y)
  <1> DEFINE s == x.pool.head
             new == user \cup {b}
  <1>1. /\ x \in PictMngrs /\ PoolInv(x.pool) /\ MvInv(x.mv)
        /\ NodesWhole(x) /\ CountsExact(x, frm, mv) /\ OutputWhole(x, user, shown)
    BY DEF MngrInv
  <1>2. /\ SamePicts(x, y) /\ y.mv = x.mv
        /\ y.pool = SignalCallbackReleaseIsDone(FlushOneDisplayBuffer(x.pool), b)
        /\ y = [x EXCEPT !.pool = y.pool]
    BY <1>1 DEF PictMngrs, SamePicts
  <1>3. Withdrawn(x.pool, y.pool, s)
    BY <1>1, <1>2, WithdrawIs
  <1>4. /\ PoolInv(y.pool) /\ s \in Slots /\ y.pool \in FrmBufPools
        /\ x.pool.buf[s] \in Bufs /\ x.pool.cnt[s] = 0 /\ ~x.pool.out[s]
        /\ y.pool.buf = [x.pool.buf EXCEPT ![s] = NoBuf] /\ y.pool.out = x.pool.out
        /\ \A t \in Slots : RefsOn(y.pool, t) = RefsOn(x.pool, t)
    BY <1>3 DEF Withdrawn, PoolInv
  <1>b. b = x.pool.buf[s] /\ b \in Bufs /\ b # NoBuf
    BY <1>4, FrmBufPoolAssumption
  <1> HIDE DEF s
  <1>5. /\ y.pool.buf[s] = NoBuf
        /\ \A t \in Slots \ {s} : y.pool.buf[t] = x.pool.buf[t] /\ x.pool.buf[t] # b
    <2>1. x.pool.buf \in [Slots -> Bufs \cup {NoBuf}]
      BY <1>1 DEF PoolInv, FrmBufPools
    <2>2. \A t \in Slots : x.pool.buf[s] = x.pool.buf[t] /\ x.pool.buf[s] # NoBuf => s = t
      BY <1>1, <1>4 DEF PoolInv, SlotsWhole
    <2> QED BY <1>4, <1>b, <2>1, <2>2
  <1>6. y \in PictMngrs
    BY <1>1, <1>2, <1>4 DEF PictMngrs
  <1>7. CountsExact(y, frm, mv)
    BY <1>1, <1>2, <1>4, SameHeld DEF CountsExact
  <1>8. NodesWhole(y)
    BY <1>1, <1>2 DEF NodesWhole, SamePicts
  <1>9. /\ \A t : ToBeOutput(y, t) <=> ToBeOutput(x, t)
        /\ \A t : InDisplay(y, t) <=> InDisplay(x, t)
        /\ y.disp = x.disp /\ y.status = x.status
    BY <1>2 DEF ToBeOutput, InDisplay, SamePicts
  <1>10. OutputWhole(y, new, shown)
    <2> HIDE DEF ToBeOutput, InDisplay
    <2>1. ASSUME NEW t \in Slots
          PROVE  /\ ToBeOutput(y, t) => ~y.pool.out[t] /\ ~InDisplay(y, t)
                 /\ y.status[t] # "notNeeded" <=> ToBeOutput(y, t) \/ InDisplay(y, t)
                 /\ y.pool.buf[t] # NoBuf =>
                       (y.pool.buf[t] \in new <=>
                           y.pool.out[t] /\ (InDisplay(y, t) => shown /\ t = y.disp[1]))
      <3>1. /\ ToBeOutput(x, t) => ~x.pool.out[t] /\ ~InDisplay(x, t)
            /\ x.status[t] # "notNeeded" <=> ToBeOutput(x, t) \/ InDisplay(x, t)
            /\ x.pool.buf[t] # NoBuf =>
                       (x.pool.buf[t] \in user <=>
                           x.pool.out[t] /\ (InDisplay(x, t) => shown /\ t = x.disp[1]))
        BY <1>1 DEF OutputWhole
      <3>2. CASE t = s
        BY <1>4, <1>5, <1>9, <3>1, <3>2
      <3>3. CASE t # s
        <4>1. y.pool.buf[t] = x.pool.buf[t] /\ x.pool.buf[t] # b
          BY <1>5, <3>3
        <4> QED BY <1>4, <1>9, <3>1, <4>1
      <3> QED BY <3>2, <3>3
    <2>2. \A c \in Bufs : c \in new \/ \E t \in Slots : y.pool.buf[t] = c
      <3> SUFFICES ASSUME NEW c \in Bufs, c \notin new
                   PROVE  \E t \in Slots : y.pool.buf[t] = c
        OBVIOUS
      <3>1. PICK t \in Slots : x.pool.buf[t] = c
        BY <1>1 DEF OutputWhole
      <3>2. t # s
        BY <1>b, <3>1
      <3> QED BY <1>5, <3>1, <3>2
    <2> HIDE DEF new
    <2>3. /\ shown => y.disp # <<>>
          /\ \A i, j \in 1 .. Len(y.disp) : y.disp[i] = y.disp[j] => i = j
          /\ \A i \in 1 .. Len(y.disp) : y.pool.out[y.disp[i]] \/ (i = 1 /\ shown)
      BY <1>1, <1>4, <1>9, SMTT(30) DEF OutputWhole
    <2> QED BY <2>1, <2>2, <2>3 DEF OutputWhole
  <1>11. \A t \in Slots : RefsOn(y.pool, t) >= 1 => y.pool.buf[t] = x.pool.buf[t]
    <2>1. RefsOn(y.pool, s) = 0
      BY <1>5 DEF RefsOn
    <2> QED BY <1>4, <1>5, <2>1, SMTT(30)
  <1>12. Gentle(x, y)
    BY <1>2, <1>4, <1>11 DEF Gentle
  <1> QED BY <1>1, <1>2, <1>4, <1>6, <1>7, <1>8, <1>10, <1>12, <1>b DEF MngrInv

LEMMA MngrStarts ==
  ASSUME NEW frm, NEW mv, frm = [s \in Slots |-> 0], mv = [m \in MvIDs |-> 0],
         NEW shown, ~shown
  PROVE  MngrInv(PictMngr_Init, frm, mv, Bufs, shown)
  <1> DEFINE x == PictMngr_Init
  <1>1. /\ x.pool = FrmBufPool_Init /\ x.mv = MvBufPool_Init /\ x.nodes = <<>> /\ x.disp = <<>>
        /\ x.status = [s \in Slots |-> "notNeeded"] /\ x.dlt = <<>>
    BY DEF PictMngr_Init
  <1>2. PoolInv(x.pool) /\ MvInv(x.mv)
    BY <1>1, PoolStarts, MvStarts
  <1>3. x \in PictMngrs
    <2>1. FrmBufPool_Init \in FrmBufPools /\ MvBufPool_Init \in MvBufPools
      BY PoolStarts, MvStarts DEF PoolInv, MvInv
    <2>2. [s \in Slots |-> "notNeeded"] \in [Slots -> Statuses]
      BY DEF Statuses
    <2>3. <<>> \in Seq(DpbNodes) /\ <<>> \in Seq(Slots) /\ <<>> \in Seq(Slots \X MvIDs)
      BY EmptySeq
    <2> QED BY <2>1, <2>2, <2>3 DEF PictMngr_Init, PictMngrs
  <1> HIDE DEF x
  <1>4. Lists(x) /\ (\A s : NoneHeld(x, s)) /\ (\A m : NoMvHeld(x, m))
    <2>1. Lists(x)
      BY <1>3, MngrTypes
    <2> QED BY <1>1, <2>1 DEF NoneHeld, NoMvHeld
  <1>5. (\A s : FrmHeld(x, s) = 0) /\ (\A m : MvHeld(x, m) = 0)
    BY <1>4, HeldNone
  <1>6. \A s \in Slots : RefsOn(x.pool, s) = 0 /\ x.pool.buf[s] = NoBuf /\ ~x.pool.out[s]
    BY <1>1 DEF FrmBufPool_Init, RefsOn
  <1>7. \A m \in MvIDs : x.mv.cnt[m] = 0
    BY <1>1 DEF MvBufPool_Init
  <1>8. CountsExact(x, frm, mv)
    BY <1>5, <1>6, <1>7 DEF CountsExact
  <1>9. NodesWhole(x)
    BY <1>1 DEF NodesWhole
  <1>10. OutputWhole(x, Bufs, shown)
    <2>1. \A s : ~ToBeOutput(x, s) /\ ~InDisplay(x, s)
      BY <1>1 DEF ToBeOutput, InDisplay
    <2>2. \A s \in Slots : x.status[s] = "notNeeded"
      BY <1>1
    <2> HIDE DEF ToBeOutput, InDisplay
    <2> QED BY <1>1, <1>6, <2>1, <2>2 DEF OutputWhole
  <1>11. MngrInv(x, frm, mv, Bufs, shown)
    BY <1>2, <1>3, <1>8, <1>9, <1>10 DEF MngrInv
  <1> QED BY <1>11 DEF x
=============================================================================
