------------------------- MODULE DecPipelineProofs --------------------------
(***************************************************************************)
(* The theorems about the decoding pipeline: PipelineInv is kept by every  *)
(* step of the three threads, and the properties of the runs follow.       *)
(***************************************************************************)
EXTENDS DecPipeline, PictMngrProofs
-----------------------------------------------------------------------------
(* The ring of reference lists *)

\* Ranks less than a turn of the ring apart have entries of their own.
LEMMA RingApart ==
  ASSUME NEW R \in Nat, NEW i \in Nat, NEW j \in Nat, i < j, j - i < R
  PROVE  i % R # j % R
  <1>1. R \in Nat \ {0}
    OBVIOUS
  <1>2. i = R * (i \div R) + (i % R) /\ j = R * (j \div R) + (j % R)
    BY <1>1
  <1>3. i \div R \in Int /\ j \div R \in Int /\ i % R \in Int /\ j % R \in Int
    BY <1>1
  <1> DEFINE a == i \div R
             b == j \div R
             m == i % R
             n == j % R
  <1>4. /\ a \in Int /\ b \in Int /\ m \in Int /\ n \in Int
        /\ i = R * a + m /\ j = R * b + n
    BY <1>2, <1>3
  <1> HIDE DEF a, b, m, n
  <1>5. m # n
    <2> SUFFICES ASSUME m = n PROVE FALSE
      OBVIOUS
    <2>1. R * b - R * a > 0 /\ R * b - R * a < R
      BY <1>4
    <2>2. b >= a + 1 \/ b <= a
      BY <1>4
    <2>3. CASE b >= a + 1
      <3>1. R * b >= R * (a + 1)
        BY <1>4, <2>3
      <3>2. R * (a + 1) = R * a + R
        BY <1>4
      <3> QED BY <1>4, <2>1, <3>1, <3>2
    <2>4. CASE b <= a
      <3>1. R * b <= R * a
        BY <1>4, <2>4
      <3> QED BY <1>4, <2>1, <3>1
    <2> QED BY <2>2, <2>3, <2>4
  <1> QED BY <1>5 DEF m, n

LEMMA RingPlace ==
  ASSUME NEW i \in Nat
  PROVE  i % RefRing \in 0 .. RefRing - 1
  BY DecPipelineAssumption
-----------------------------------------------------------------------------
(* The holders of a buffer outside the picture manager *)

CmdsOn(s) == {c \in Command : c.frm = s}
CmdsWith(m) == {c \in Command : c.mv = m}
LockersOn(L, R, s) ==
    {i \in L : \E j \in 1 .. Len(R[i % RefRing]) : R[i % RefRing][j][1] = s}
LockersWith(L, R, m) ==
    {i \in L : \E j \in 1 .. Len(R[i % RefRing]) : R[i % RefRing][j][2] = m}

\* FrmUsers and MvUsers, of the picture or motion vector buffer r being prepared, the one d of
\* the command that has ended, the commands c and the lists R of the ranks in L
FrmOf(r, d, c, L, R) ==
    [s \in Slots |-> One(r = s) + One(d = s) + Count(c, CmdsOn(s))
                     + Cardinality(LockersOn(L, R, s))]
MvOf(r, d, c, L, R) ==
    [m \in MvIDs |-> One(r = m) + One(d = m) + Count(c, CmdsWith(m))
                     + Cardinality(LockersWith(L, R, m))]

Rings == [0 .. RefRing - 1 -> Seq(Slots \X MvIDs)]

LEMMA SomeCount ==
  ASSUME NEW S, NEW q, q \in Seq(S), NEW T
  PROVE  Len(q) \in Nat /\ Count(q, T) \in Nat
  <1>1. Len(q) \in Nat
    BY LenProperties
  <1>2. Count(q, T) \in 0 .. Len(q)
    BY CountIs
  <1> QED BY <1>1, <1>2

\* The same with the places of the lists as their domains
LEMMA LockersAre ==
  ASSUME NEW L, L \subseteq 0 .. MaxPics, NEW R, R \in Rings, NEW s
  PROVE  /\ {i \in L : \E j \in DOMAIN R[i % RefRing] : R[i % RefRing][j][1] = s}
               = LockersOn(L, R, s)
         /\ {i \in L : \E j \in DOMAIN R[i % RefRing] : R[i % RefRing][j][2] = s}
               = LockersWith(L, R, s)
  <1>1. ASSUME NEW i \in L PROVE DOMAIN R[i % RefRing] = 1 .. Len(R[i % RefRing])
    <2>1. i \in Nat
      BY DecPipelineAssumption
    <2>2. R[i % RefRing] \in Seq(Slots \X MvIDs)
      BY <2>1, RingPlace DEF Rings
    <2> QED BY <2>2
  <1> QED BY <1>1 DEF LockersOn, LockersWith

LEMMA LocksFinite ==
  ASSUME NEW L, L \subseteq 0 .. MaxPics, NEW R
  PROVE  /\ IsFiniteSet(L)
         /\ \A s : IsFiniteSet(LockersOn(L, R, s)) /\ Cardinality(LockersOn(L, R, s)) \in Nat
         /\ \A m : IsFiniteSet(LockersWith(L, R, m)) /\ Cardinality(LockersWith(L, R, m)) \in Nat
  <1>1. IsFiniteSet(L)
    <2>1. 0 \in Int /\ MaxPics \in Int
      BY DecPipelineAssumption
    <2> QED BY <2>1, FS_Interval, FS_Subset
  <1>2. \A s : LockersOn(L, R, s) \subseteq L
    BY DEF LockersOn
  <1>3. \A m : LockersWith(L, R, m) \subseteq L
    BY DEF LockersWith
  <1> QED BY <1>1, <1>2, <1>3, FS_Subset, FS_CardinalityType

LEMMA FrmOfIs ==
  ASSUME NEW r, NEW d, NEW c \in Seq(Command), NEW L, L \subseteq 0 .. MaxPics, NEW R
  PROVE  /\ FrmOf(r, d, c, L, R) \in [Slots -> Nat]
         /\ \A s \in Slots : /\ One(r = s) \in {0, 1} /\ One(d = s) \in {0, 1}
                             /\ Count(c, CmdsOn(s)) \in Nat
                             /\ Cardinality(LockersOn(L, R, s)) \in Nat
                             /\ FrmOf(r, d, c, L, R)[s] =
                                   One(r = s) + One(d = s) + Count(c, CmdsOn(s))
                                   + Cardinality(LockersOn(L, R, s))
  <1>1. ASSUME NEW s \in Slots
        PROVE  /\ One(r = s) \in {0, 1} /\ One(d = s) \in {0, 1}
               /\ Count(c, CmdsOn(s)) \in Nat /\ Cardinality(LockersOn(L, R, s)) \in Nat
    <2>1. Count(c, CmdsOn(s)) \in Nat
      BY SomeCount
    <2>2. Cardinality(LockersOn(L, R, s)) \in Nat
      BY LocksFinite
    <2> QED BY <2>1, <2>2 DEF One
  <1>2. \A s \in Slots : One(r = s) + One(d = s) + Count(c, CmdsOn(s))
                         + Cardinality(LockersOn(L, R, s)) \in Nat
    BY <1>1
  <1> QED BY <1>1, <1>2 DEF FrmOf

LEMMA MvOfIs ==
  ASSUME NEW r, NEW d, NEW c \in Seq(Command), NEW L, L \subseteq 0 .. MaxPics, NEW R
  PROVE  /\ MvOf(r, d, c, L, R) \in [MvIDs -> Nat]
         /\ \A m \in MvIDs : /\ One(r = m) \in {0, 1} /\ One(d = m) \in {0, 1}
                             /\ Count(c, CmdsWith(m)) \in Nat
                             /\ Cardinality(LockersWith(L, R, m)) \in Nat
                             /\ MvOf(r, d, c, L, R)[m] =
                                   One(r = m) + One(d = m) + Count(c, CmdsWith(m))
                                   + Cardinality(LockersWith(L, R, m))
  <1>1. ASSUME NEW m \in MvIDs
        PROVE  /\ One(r = m) \in {0, 1} /\ One(d = m) \in {0, 1}
               /\ Count(c, CmdsWith(m)) \in Nat /\ Cardinality(LockersWith(L, R, m)) \in Nat
    <2>1. Count(c, CmdsWith(m)) \in Nat
      BY SomeCount
    <2>2. Cardinality(LockersWith(L, R, m)) \in Nat
      BY LocksFinite
    <2> QED BY <2>1, <2>2 DEF One
  <1>2. \A m \in MvIDs : One(r = m) + One(d = m) + Count(c, CmdsWith(m))
                         + Cardinality(LockersWith(L, R, m)) \in Nat
    BY <1>1
  <1> QED BY <1>1, <1>2 DEF MvOf

\* The buffers of the picture being prepared
HeldRec == IF HoldsRec THEN recID ELSE NoSlot
HeldMv == IF HoldsMv THEN mvID ELSE NoMv

LEMMA UsersNow ==
  ASSUME PipelineTypes
  PROVE  /\ FrmUsers = FrmOf(HeldRec, done.frm, chan, Locked, refList)
         /\ MvUsers = MvOf(HeldMv, done.mv, chan, Locked, refList)
  <1>1. ASSUME NEW c \in Seq(Command)
        PROVE  /\ \A s : Cardinality({i \in DOMAIN c : c[i].frm = s}) = Count(c, CmdsOn(s))
               /\ \A m : Cardinality({i \in DOMAIN c : c[i].mv = m}) = Count(c, CmdsWith(m))
    <2>1. DOMAIN c = 1 .. Len(c) /\ \A i \in 1 .. Len(c) : c[i] \in Command
      OBVIOUS
    <2>2. \A s : {i \in DOMAIN c : c[i].frm = s} = {i \in 1 .. Len(c) : c[i] \in CmdsOn(s)}
      BY <2>1 DEF CmdsOn
    <2>3. \A m : {i \in DOMAIN c : c[i].mv = m} = {i \in 1 .. Len(c) : c[i] \in CmdsWith(m)}
      BY <2>1 DEF CmdsWith
    <2> QED BY <2>2, <2>3 DEF Count
  <1>3. Locked \subseteq 0 .. MaxPics
    BY DEF Locked
  <1>4. ASSUME NEW s \in Slots
        PROVE  One(HoldsRec /\ recID = s) = One(HeldRec = s)
    <2>1. NoSlot # s
      BY SlotsAre
    <2> QED BY <2>1 DEF HeldRec, One
  <1>5. ASSUME NEW m \in MvIDs
        PROVE  One(HoldsMv /\ mvID = m) = One(HeldMv = m)
    <2>1. NoMv # m
      BY MvBufPoolAssumption DEF MvIDs, NoMv
    <2> QED BY <2>1 DEF HeldMv, One
  <1>6. refList \in Rings /\ chan \in Seq(Command)
    BY DEF PipelineTypes, Rings
  <1> HIDE DEF Locked, HoldsRec, HoldsMv, HeldRec, HeldMv
  <1>7. FrmUsers = FrmOf(HeldRec, done.frm, chan, Locked, refList)
    <2>1. ASSUME NEW s \in Slots
          PROVE  One(HoldsRec /\ recID = s) + One(done.frm = s)
                 + Cardinality({i \in DOMAIN chan : chan[i].frm = s})
                 + Cardinality({i \in Locked : \E j \in DOMAIN refList[i % RefRing] :
                                  refList[i % RefRing][j][1] = s})
                 = One(HeldRec = s) + One(done.frm = s) + Count(chan, CmdsOn(s))
                   + Cardinality(LockersOn(Locked, refList, s))
      <3>1. {i \in Locked : \E j \in DOMAIN refList[i % RefRing] :
                                  refList[i % RefRing][j][1] = s}
            = LockersOn(Locked, refList, s)
        BY <1>3, <1>6, LockersAre
      <3>2. Cardinality({i \in DOMAIN chan : chan[i].frm = s}) = Count(chan, CmdsOn(s))
        BY <1>1, <1>6
      <3> QED BY <1>4, <3>1, <3>2
    <2> QED BY <2>1 DEF FrmUsers, FrmOf, Occurrences, RefsOf
  <1>8. MvUsers = MvOf(HeldMv, done.mv, chan, Locked, refList)
    <2>1. ASSUME NEW m \in MvIDs
          PROVE  One(HoldsMv /\ mvID = m) + One(done.mv = m)
                 + Cardinality({i \in DOMAIN chan : chan[i].mv = m})
                 + Cardinality({i \in Locked : \E j \in DOMAIN refList[i % RefRing] :
                                  refList[i % RefRing][j][2] = m})
                 = One(HeldMv = m) + One(done.mv = m) + Count(chan, CmdsWith(m))
                   + Cardinality(LockersWith(Locked, refList, m))
      <3>1. {i \in Locked : \E j \in DOMAIN refList[i % RefRing] :
                                  refList[i % RefRing][j][2] = m}
            = LockersWith(Locked, refList, m)
        BY <1>3, <1>6, LockersAre
      <3>2. Cardinality({i \in DOMAIN chan : chan[i].mv = m}) = Count(chan, CmdsWith(m))
        BY <1>1, <1>6
      <3> QED BY <1>5, <3>1, <3>2
    <2> QED BY <2>1 DEF MvUsers, MvOf, Occurrences, RefsOf
  <1> QED BY <1>7, <1>8

LEMMA UsersNext ==
  ASSUME PipelineTypes'
  PROVE  /\ FrmUsers' = FrmOf(HeldRec', done'.frm, chan', Locked', refList')
         /\ MvUsers' = MvOf(HeldMv', done'.mv, chan', Locked', refList')
  <1>1. ASSUME NEW c \in Seq(Command)
        PROVE  /\ \A s : Cardinality({i \in DOMAIN c : c[i].frm = s}) = Count(c, CmdsOn(s))
               /\ \A m : Cardinality({i \in DOMAIN c : c[i].mv = m}) = Count(c, CmdsWith(m))
    <2>1. DOMAIN c = 1 .. Len(c) /\ \A i \in 1 .. Len(c) : c[i] \in Command
      OBVIOUS
    <2>2. \A s : {i \in DOMAIN c : c[i].frm = s} = {i \in 1 .. Len(c) : c[i] \in CmdsOn(s)}
      BY <2>1 DEF CmdsOn
    <2>3. \A m : {i \in DOMAIN c : c[i].mv = m} = {i \in 1 .. Len(c) : c[i] \in CmdsWith(m)}
      BY <2>1 DEF CmdsWith
    <2> QED BY <2>2, <2>3 DEF Count
  <1>3. Locked' \subseteq 0 .. MaxPics
    BY DEF Locked
  <1>4. ASSUME NEW s \in Slots
        PROVE  One(HoldsRec' /\ recID' = s) = One(HeldRec' = s)
    <2>1. NoSlot # s
      BY SlotsAre
    <2> QED BY <2>1 DEF HeldRec, One
  <1>5. ASSUME NEW m \in MvIDs
        PROVE  One(HoldsMv' /\ mvID' = m) = One(HeldMv' = m)
    <2>1. NoMv # m
      BY MvBufPoolAssumption DEF MvIDs, NoMv
    <2> QED BY <2>1 DEF HeldMv, One
  <1>6. refList' \in Rings /\ chan' \in Seq(Command)
    BY DEF PipelineTypes, Rings
  <1> HIDE DEF Locked, HoldsRec, HoldsMv, HeldRec, HeldMv
  <1>9. FrmUsers' = FrmOf(HeldRec', done'.frm, chan', Locked', refList')
    <2>1. ASSUME NEW s \in Slots
          PROVE  One(HoldsRec' /\ recID' = s) + One(done'.frm = s)
                 + Cardinality({i \in DOMAIN chan' : chan'[i].frm = s})
                 + Cardinality({i \in Locked' : \E j \in DOMAIN refList'[i % RefRing] :
                                  refList'[i % RefRing][j][1] = s})
                 = One(HeldRec' = s) + One(done'.frm = s) + Count(chan', CmdsOn(s))
                   + Cardinality(LockersOn(Locked', refList', s))
      <3>1. {i \in Locked' : \E j \in DOMAIN refList'[i % RefRing] :
                                  refList'[i % RefRing][j][1] = s}
            = LockersOn(Locked', refList', s)
        BY <1>3, <1>6, LockersAre
      <3>2. Cardinality({i \in DOMAIN chan' : chan'[i].frm = s}) = Count(chan', CmdsOn(s))
        BY <1>1, <1>6
      <3> QED BY <1>4, <3>1, <3>2
    <2> QED BY <2>1 DEF FrmUsers, FrmOf, Occurrences, RefsOf
  <1>10. MvUsers' = MvOf(HeldMv', done'.mv, chan', Locked', refList')
    <2>1. ASSUME NEW m \in MvIDs
          PROVE  One(HoldsMv' /\ mvID' = m) + One(done'.mv = m)
                 + Cardinality({i \in DOMAIN chan' : chan'[i].mv = m})
                 + Cardinality({i \in Locked' : \E j \in DOMAIN refList'[i % RefRing] :
                                  refList'[i % RefRing][j][2] = m})
                 = One(HeldMv' = m) + One(done'.mv = m) + Count(chan', CmdsWith(m))
                   + Cardinality(LockersWith(Locked', refList', m))
      <3>1. {i \in Locked' : \E j \in DOMAIN refList'[i % RefRing] :
                                  refList'[i % RefRing][j][2] = m}
            = LockersWith(Locked', refList', m)
        BY <1>3, <1>6, LockersAre
      <3>2. Cardinality({i \in DOMAIN chan' : chan'[i].mv = m}) = Count(chan', CmdsWith(m))
        BY <1>1, <1>6
      <3> QED BY <1>5, <3>1, <3>2
    <2> QED BY <2>1 DEF MvUsers, MvOf, Occurrences, RefsOf
  <1> QED BY <1>9, <1>10

LEMMA FrmOfType ==
  ASSUME NEW r, NEW d, NEW c \in Seq(Command), NEW L \in SUBSET (0 .. MaxPics), NEW R
  PROVE  FrmOf(r, d, c, L, R) \in [Slots -> Nat] /\ MvOf(r, d, c, L, R) \in [MvIDs -> Nat]
  <1>1. L \subseteq 0 .. MaxPics
    OBVIOUS
  <1>2. FrmOf(r, d, c, L, R) \in [Slots -> Nat]
    BY <1>1, FrmOfIs
  <1>3. MvOf(r, d, c, L, R) \in [MvIDs -> Nat]
    BY <1>1, MvOfIs
  <1> QED BY <1>2, <1>3

LEMMA FrmOfAt ==
  ASSUME NEW r, NEW d, NEW c \in Seq(Command), NEW L \in SUBSET (0 .. MaxPics), NEW R,
         NEW s \in Slots
  PROVE  /\ One(d = s) \in Nat /\ One(r = s) \in Nat
         /\ Count(c, CmdsOn(s)) \in Nat /\ Cardinality(LockersOn(L, R, s)) \in Nat
         /\ FrmOf(r, d, c, L, R)[s] = One(r = s) + One(d = s) + Count(c, CmdsOn(s))
                                      + Cardinality(LockersOn(L, R, s))
  <1>1. L \subseteq 0 .. MaxPics
    OBVIOUS
  <1>2. Count(c, CmdsOn(s)) \in Nat /\ Cardinality(LockersOn(L, R, s)) \in Nat
    BY <1>1, FrmOfIs
  <1> QED BY <1>2 DEF FrmOf, One

LEMMA MvOfAt ==
  ASSUME NEW r, NEW d, NEW c \in Seq(Command), NEW L \in SUBSET (0 .. MaxPics), NEW R,
         NEW m \in MvIDs
  PROVE  /\ One(d = m) \in Nat /\ One(r = m) \in Nat
         /\ Count(c, CmdsWith(m)) \in Nat /\ Cardinality(LockersWith(L, R, m)) \in Nat
         /\ MvOf(r, d, c, L, R)[m] = One(r = m) + One(d = m) + Count(c, CmdsWith(m))
                                     + Cardinality(LockersWith(L, R, m))
  <1>1. L \subseteq 0 .. MaxPics
    OBVIOUS
  <1>2. Count(c, CmdsWith(m)) \in Nat /\ Cardinality(LockersWith(L, R, m)) \in Nat
    BY <1>1, MvOfIs
  <1> QED BY <1>2 DEF MvOf, One

LEMMA LocksAre ==
  ASSUME NEW L \in SUBSET (0 .. MaxPics), NEW R, NEW s
  PROVE  /\ IsFiniteSet(LockersOn(L, R, s)) /\ Cardinality(LockersOn(L, R, s)) \in Nat
         /\ IsFiniteSet(LockersWith(L, R, s)) /\ Cardinality(LockersWith(L, R, s)) \in Nat
  <1>1. L \subseteq 0 .. MaxPics
    OBVIOUS
  <1> QED BY <1>1, LocksFinite

LEMMA OneMoreOf ==
  ASSUME NEW S, NEW f \in [S -> Nat], NEW g \in [S -> Nat], NEW s \in S,
         \A t \in S : g[t] = f[t] + One(t = s)
  PROVE  g = MoreOf(f, s) /\ f = LessOf(g, s) /\ g[s] >= 1
  <1>1. \A t \in S : MoreOf(f, s)[t] = f[t] + One(t = s)
    BY MoreIs
  <1>2. MoreOf(f, s) \in [S -> Nat]
    BY MoreIs
  <1>3. LessOf(MoreOf(f, s), s) = f
    BY MoreIs
  <1> HIDE DEF MoreOf, LessOf
  <1>4. g = MoreOf(f, s)
    BY <1>1, <1>2
  <1>5. g[s] = f[s] + 1 /\ f[s] \in Nat
    BY DEF One
  <1> QED BY <1>3, <1>4, <1>5

\* A buffer held for the picture being prepared, or for the command that has ended
LEMMA HeldMore ==
  ASSUME NEW c \in Seq(Command), NEW L \in SUBSET (0 .. MaxPics), NEW R, NEW d,
         NEW s \in Slots, NEW f, f = FrmOf(NoSlot, d, c, L, R), NEW g,
         g = FrmOf(s, d, c, L, R) \/ g = FrmOf(d, s, c, L, R)
  PROVE  f \in [Slots -> Nat] /\ g \in [Slots -> Nat]
         /\ g = MoreOf(f, s) /\ f = LessOf(g, s) /\ g[s] >= 1
  <1>1. f \in [Slots -> Nat] /\ g \in [Slots -> Nat]
    <2>1. FrmOf(NoSlot, d, c, L, R) \in [Slots -> Nat]
      BY FrmOfType
    <2>2. FrmOf(s, d, c, L, R) \in [Slots -> Nat]
      BY FrmOfType
    <2>3. FrmOf(d, s, c, L, R) \in [Slots -> Nat]
      BY FrmOfType
    <2> QED BY <2>1, <2>2, <2>3
  <1>2. \A t \in Slots : g[t] = f[t] + One(t = s)
    <2> SUFFICES ASSUME NEW t \in Slots PROVE g[t] = f[t] + One(t = s)
      OBVIOUS
    <2> DEFINE u == One(d = t)
               v == Count(c, CmdsOn(t))
               w == Cardinality(LockersOn(L, R, t))
               y == One(s = t)
               z == One(NoSlot = t)
    <2>1. z = 0 /\ y = One(t = s) /\ y \in Nat
      BY SlotsAre DEF One
    <2>2. f[t] = z + u + v + w /\ u \in Nat /\ v \in Nat /\ w \in Nat
      BY FrmOfAt
    <2>3. g[t] = y + u + v + w \/ g[t] = u + y + v + w
      BY FrmOfAt
    <2> HIDE DEF u, v, w, y, z
    <2> QED BY <2>1, <2>2, <2>3
  <1> QED BY <1>1, <1>2, OneMoreOf

LEMMA HeldMvMore ==
  ASSUME NEW c \in Seq(Command), NEW L \in SUBSET (0 .. MaxPics), NEW R, NEW d,
         NEW s \in MvIDs, NEW f, f = MvOf(NoMv, d, c, L, R), NEW g,
         g = MvOf(s, d, c, L, R) \/ g = MvOf(d, s, c, L, R)
  PROVE  f \in [MvIDs -> Nat] /\ g \in [MvIDs -> Nat]
         /\ g = MoreOf(f, s) /\ f = LessOf(g, s) /\ g[s] >= 1
  <1>1. f \in [MvIDs -> Nat] /\ g \in [MvIDs -> Nat]
    <2>1. MvOf(NoMv, d, c, L, R) \in [MvIDs -> Nat]
      BY FrmOfType
    <2>2. MvOf(s, d, c, L, R) \in [MvIDs -> Nat]
      BY FrmOfType
    <2>3. MvOf(d, s, c, L, R) \in [MvIDs -> Nat]
      BY FrmOfType
    <2> QED BY <2>1, <2>2, <2>3
  <1>2. \A t \in MvIDs : g[t] = f[t] + One(t = s)
    <2> SUFFICES ASSUME NEW t \in MvIDs PROVE g[t] = f[t] + One(t = s)
      OBVIOUS
    <2> DEFINE u == One(d = t)
               v == Count(c, CmdsWith(t))
               w == Cardinality(LockersWith(L, R, t))
               y == One(s = t)
               z == One(NoMv = t)
    <2>1. z = 0 /\ y = One(t = s) /\ y \in Nat
      BY MvBufPoolAssumption DEF One, NoMv, MvIDs
    <2>2. f[t] = z + u + v + w /\ u \in Nat /\ v \in Nat /\ w \in Nat
      BY MvOfAt
    <2>3. g[t] = y + u + v + w \/ g[t] = u + y + v + w
      BY MvOfAt
    <2> HIDE DEF u, v, w, y, z
    <2> QED BY <2>1, <2>2, <2>3
  <1> QED BY <1>1, <1>2, OneMoreOf

\* NoSlot and NoMv may change places.
LEMMA HeldSwap ==
  ASSUME NEW c \in Seq(Command), NEW L \in SUBSET (0 .. MaxPics), NEW R, NEW r, NEW d
  PROVE  /\ FrmOf(r, d, c, L, R) = FrmOf(d, r, c, L, R)
         /\ MvOf(r, d, c, L, R) = MvOf(d, r, c, L, R)
  <1>1. \A s : One(r = s) \in Nat /\ One(d = s) \in Nat
    BY DEF One
  <1>2. \A s : One(r = s) + One(d = s) = One(d = s) + One(r = s)
    BY <1>1
  <1> QED BY <1>2 DEF FrmOf, MvOf

\* The first command ends.
LEMMA HeadHeld ==
  ASSUME NEW c \in Seq(Command), c # <<>>, NEW L \in SUBSET (0 .. MaxPics), NEW R, NEW r
  PROVE  /\ FrmOf(r, Head(c).frm, Tail(c), L, R) = FrmOf(r, NoSlot, c, L, R)
         /\ MvOf(r, Head(c).mv, Tail(c), L, R) = MvOf(r, NoMv, c, L, R)
  <1>1. Head(c) \in Command /\ Tail(c) \in Seq(Command)
    BY SeqHead
  <1> DEFINE e == Head(c)
             q == Tail(c)
  <1>2. \A T : Count(q, T) = Count(c, T) - One(e \in T)
    BY CountHead
  <1>3. e \in Command /\ q \in Seq(Command)
    BY <1>1
  <1> HIDE DEF e, q
  <1>4. ASSUME NEW s \in Slots
        PROVE  One(r = s) + One(e.frm = s) + Count(q, CmdsOn(s)) + Cardinality(LockersOn(L, R, s))
               = One(r = s) + One(NoSlot = s) + Count(c, CmdsOn(s))
                 + Cardinality(LockersOn(L, R, s))
    <2>1. e \in CmdsOn(s) <=> e.frm = s
      BY <1>3 DEF CmdsOn
    <2>2. One(NoSlot = s) = 0 /\ One(e.frm = s) = One(e \in CmdsOn(s))
      BY <2>1, SlotsAre DEF One
    <2>3. Count(q, CmdsOn(s)) = Count(c, CmdsOn(s)) - One(e \in CmdsOn(s))
      BY <1>2
    <2>4. Count(q, CmdsOn(s)) \in Nat
      BY <1>3, SomeCount
    <2>5. Count(c, CmdsOn(s)) \in Nat
      BY SomeCount
    <2>6. Cardinality(LockersOn(L, R, s)) \in Nat
      BY LocksAre
    <2>7. One(r = s) \in Nat /\ One(e \in CmdsOn(s)) \in Nat
      BY DEF One
    <2> QED BY <2>2, <2>3, <2>4, <2>5, <2>6, <2>7
  <1>5. ASSUME NEW m \in MvIDs
        PROVE  One(r = m) + One(e.mv = m) + Count(q, CmdsWith(m))
               + Cardinality(LockersWith(L, R, m))
               = One(r = m) + One(NoMv = m) + Count(c, CmdsWith(m))
                 + Cardinality(LockersWith(L, R, m))
    <2>1. e \in CmdsWith(m) <=> e.mv = m
      BY <1>3 DEF CmdsWith
    <2>2. One(NoMv = m) = 0 /\ One(e.mv = m) = One(e \in CmdsWith(m))
      BY <2>1, MvBufPoolAssumption DEF One, NoMv, MvIDs
    <2>3. Count(q, CmdsWith(m)) = Count(c, CmdsWith(m)) - One(e \in CmdsWith(m))
      BY <1>2
    <2>4. Count(q, CmdsWith(m)) \in Nat
      BY <1>3, SomeCount
    <2>5. Count(c, CmdsWith(m)) \in Nat
      BY SomeCount
    <2>6. Cardinality(LockersWith(L, R, m)) \in Nat
      BY LocksAre
    <2>7. One(r = m) \in Nat /\ One(e \in CmdsWith(m)) \in Nat
      BY DEF One
    <2> QED BY <2>2, <2>3, <2>4, <2>5, <2>6, <2>7
  <1>6. /\ FrmOf(r, e.frm, q, L, R) = FrmOf(r, NoSlot, c, L, R)
        /\ MvOf(r, e.mv, q, L, R) = MvOf(r, NoMv, c, L, R)
    BY <1>4, <1>5 DEF FrmOf, MvOf
  <1> QED BY <1>6 DEF e, q

\* A command is launched.
LEMMA EndHeld ==
  ASSUME NEW c \in Seq(Command), NEW e \in Command, NEW L \in SUBSET (0 .. MaxPics), NEW R,
         NEW d
  PROVE  FrmOf(NoSlot, d, Append(c, e), L, R) = FrmOf(e.frm, d, c, L, R)
  <1> DEFINE q == Append(c, e)
  <1>2. \A T : Count(q, T) = Count(c, T) + One(e \in T)
    BY CountEnd
  <1>3. q \in Seq(Command)
    BY SeqEnd
  <1> HIDE DEF q
  <1>4. ASSUME NEW s \in Slots
        PROVE  One(NoSlot = s) + One(d = s) + Count(q, CmdsOn(s)) + Cardinality(LockersOn(L, R, s))
               = One(e.frm = s) + One(d = s) + Count(c, CmdsOn(s))
                 + Cardinality(LockersOn(L, R, s))
    <2>1. e \in CmdsOn(s) <=> e.frm = s
      BY DEF CmdsOn
    <2>2. One(NoSlot = s) = 0 /\ One(e.frm = s) = One(e \in CmdsOn(s))
      BY <2>1, SlotsAre DEF One
    <2>3. Count(q, CmdsOn(s)) = Count(c, CmdsOn(s)) + One(e \in CmdsOn(s))
      BY <1>2
    <2>5. Count(c, CmdsOn(s)) \in Nat
      BY SomeCount
    <2>6. Cardinality(LockersOn(L, R, s)) \in Nat
      BY LocksAre
    <2>7. One(d = s) \in Nat /\ One(e \in CmdsOn(s)) \in Nat
      BY DEF One
    <2> QED BY <2>2, <2>3, <2>5, <2>6, <2>7
  <1>6. FrmOf(NoSlot, d, q, L, R) = FrmOf(e.frm, d, c, L, R)
    BY <1>4 DEF FrmOf
  <1> QED BY <1>6 DEF q

LEMMA EndHeldMv ==
  ASSUME NEW c \in Seq(Command), NEW e \in Command, NEW L \in SUBSET (0 .. MaxPics), NEW R,
         NEW d
  PROVE  MvOf(NoMv, d, Append(c, e), L, R) = MvOf(e.mv, d, c, L, R)
  <1> DEFINE q == Append(c, e)
  <1>2. \A T : Count(q, T) = Count(c, T) + One(e \in T)
    BY CountEnd
  <1>3. q \in Seq(Command)
    BY SeqEnd
  <1> HIDE DEF q
  <1>5. ASSUME NEW m \in MvIDs
        PROVE  One(NoMv = m) + One(d = m) + Count(q, CmdsWith(m))
               + Cardinality(LockersWith(L, R, m))
               = One(e.mv = m) + One(d = m) + Count(c, CmdsWith(m))
                 + Cardinality(LockersWith(L, R, m))
    <2>1. e \in CmdsWith(m) <=> e.mv = m
      BY DEF CmdsWith
    <2>2. One(NoMv = m) = 0 /\ One(e.mv = m) = One(e \in CmdsWith(m))
      BY <2>1, MvBufPoolAssumption DEF One, NoMv, MvIDs
    <2>3. Count(q, CmdsWith(m)) = Count(c, CmdsWith(m)) + One(e \in CmdsWith(m))
      BY <1>2
    <2>5. Count(c, CmdsWith(m)) \in Nat
      BY SomeCount
    <2>6. Cardinality(LockersWith(L, R, m)) \in Nat
      BY LocksAre
    <2>7. One(d = m) \in Nat /\ One(e \in CmdsWith(m)) \in Nat
      BY DEF One
    <2> QED BY <2>2, <2>3, <2>5, <2>6, <2>7
  <1>6. MvOf(NoMv, d, q, L, R) = MvOf(e.mv, d, c, L, R)
    BY <1>5 DEF MvOf
  <1> QED BY <1>6 DEF q

\* The references of one rank more are locked.
LEMMA RankLocked ==
  ASSUME NEW c \in Seq(Command), NEW L \in SUBSET (0 .. MaxPics), NEW R, NEW r, NEW d,
         NEW k \in 0 .. MaxPics, k \notin L, NEW list, list = R[k % RefRing],
         NEW J, J = 1 .. Len(list)
  PROVE  FrmOf(r, d, c, L \cup {k}, R) = WithFrm(FrmOf(r, d, c, L, R), list, J)
  <1> DEFINE M == L \cup {k}
  <1>0. M \in SUBSET (0 .. MaxPics)
    OBVIOUS
  <1>1. ASSUME NEW s \in Slots
        PROVE  FrmOf(r, d, c, M, R)[s] = WithFrm(FrmOf(r, d, c, L, R), list, J)[s]
    <2> DEFINE A == LockersOn(L, R, s)
               B == LockersOn(M, R, s)
               x == One(r = s) + One(d = s) + Count(c, CmdsOn(s))
    <2>0. k \notin A
      BY DEF LockersOn
    <2>1. k \notin A /\ IsFiniteSet(A) /\ Cardinality(A) \in Nat
      BY <2>0, LocksAre
    <2>2. B = IF Names(list, J, s) THEN A \cup {k} ELSE A
      BY DEF LockersOn, Names
    <2>3. Cardinality(B) = IF Names(list, J, s) THEN Cardinality(A) + 1 ELSE Cardinality(A)
      BY <2>1, <2>2, FS_AddElement
    <2>4. FrmOf(r, d, c, L, R)[s] = x + Cardinality(A)
      BY FrmOfAt
    <2>5. FrmOf(r, d, c, M, R)[s] = x + Cardinality(B)
      BY <1>0, FrmOfAt
    <2>6. x \in Nat
      <3>1. Count(c, CmdsOn(s)) \in Nat
        BY SomeCount
      <3> QED BY <3>1 DEF One
    <2>7. WithFrm(FrmOf(r, d, c, L, R), list, J)[s]
          = IF Names(list, J, s) THEN FrmOf(r, d, c, L, R)[s] + 1 ELSE FrmOf(r, d, c, L, R)[s]
      BY DEF WithFrm
    <2> HIDE DEF A, B, x, M
    <2> QED BY <2>1, <2>3, <2>4, <2>5, <2>6, <2>7
  <1>3. FrmOf(r, d, c, M, R) \in [Slots -> Nat]
    BY <1>0, FrmOfType
  <1>4. \A g : WithFrm(g, list, J) = [s \in Slots |-> WithFrm(g, list, J)[s]]
    BY DEF WithFrm
  <1>6. FrmOf(r, d, c, M, R) = [s \in Slots |-> FrmOf(r, d, c, M, R)[s]]
    BY <1>3
  <1> HIDE DEF M, WithFrm, FrmOf
  <1>8. FrmOf(r, d, c, M, R) = WithFrm(FrmOf(r, d, c, L, R), list, J)
    BY <1>1, <1>4, <1>6, Zenon
  <1> QED BY <1>8 DEF M

LEMMA RankLockedMv ==
  ASSUME NEW c \in Seq(Command), NEW L \in SUBSET (0 .. MaxPics), NEW R, NEW r, NEW d,
         NEW k \in 0 .. MaxPics, k \notin L, NEW list, list = R[k % RefRing],
         NEW J, J = 1 .. Len(list)
  PROVE  MvOf(r, d, c, L \cup {k}, R) = WithMv(MvOf(r, d, c, L, R), list, J)
  <1> DEFINE M == L \cup {k}
  <1>0. M \in SUBSET (0 .. MaxPics)
    OBVIOUS
  <1>2. ASSUME NEW m \in MvIDs
        PROVE  MvOf(r, d, c, M, R)[m] = WithMv(MvOf(r, d, c, L, R), list, J)[m]
    <2> DEFINE A == LockersWith(L, R, m)
               B == LockersWith(M, R, m)
               x == One(r = m) + One(d = m) + Count(c, CmdsWith(m))
    <2>0. k \notin A
      BY DEF LockersWith
    <2>1. k \notin A /\ IsFiniteSet(A) /\ Cardinality(A) \in Nat
      BY <2>0, LocksAre
    <2>2. B = IF NamesMv(list, J, m) THEN A \cup {k} ELSE A
      BY DEF LockersWith, NamesMv
    <2>3. Cardinality(B) = IF NamesMv(list, J, m) THEN Cardinality(A) + 1 ELSE Cardinality(A)
      BY <2>1, <2>2, FS_AddElement
    <2>4. MvOf(r, d, c, L, R)[m] = x + Cardinality(A)
      BY MvOfAt
    <2>5. MvOf(r, d, c, M, R)[m] = x + Cardinality(B)
      BY <1>0, MvOfAt
    <2>6. x \in Nat
      <3>1. Count(c, CmdsWith(m)) \in Nat
        BY SomeCount
      <3> QED BY <3>1 DEF One
    <2>7. WithMv(MvOf(r, d, c, L, R), list, J)[m]
          = IF NamesMv(list, J, m) THEN MvOf(r, d, c, L, R)[m] + 1 ELSE MvOf(r, d, c, L, R)[m]
      BY DEF WithMv
    <2> HIDE DEF A, B, x, M
    <2> QED BY <2>1, <2>3, <2>4, <2>5, <2>6, <2>7
  <1>3. MvOf(r, d, c, M, R) \in [MvIDs -> Nat]
    BY <1>0, FrmOfType
  <1>5. \A g : WithMv(g, list, J) = [m \in MvIDs |-> WithMv(g, list, J)[m]]
    BY DEF WithMv
  <1>7. MvOf(r, d, c, M, R) = [m \in MvIDs |-> MvOf(r, d, c, M, R)[m]]
    BY <1>3
  <1> HIDE DEF M, WithMv, MvOf
  <1>8. MvOf(r, d, c, M, R) = WithMv(MvOf(r, d, c, L, R), list, J)
    BY <1>2, <1>5, <1>7, Zenon
  <1> QED BY <1>8 DEF M

\* The ring changes where nothing is locked.
LEMMA RingElsewhere ==
  ASSUME NEW c, NEW L, NEW R, NEW Q, NEW r, NEW d,
         \A i \in L : Q[i % RefRing] = R[i % RefRing]
  PROVE  /\ FrmOf(r, d, c, L, Q) = FrmOf(r, d, c, L, R)
         /\ MvOf(r, d, c, L, Q) = MvOf(r, d, c, L, R)
  <1>1. \A s : LockersOn(L, Q, s) = LockersOn(L, R, s)
    BY DEF LockersOn
  <1>2. \A m : LockersWith(L, Q, m) = LockersWith(L, R, m)
    BY DEF LockersWith
  <1> QED BY <1>1, <1>2 DEF FrmOf, MvOf

\* The same facts of the expressions themselves
LEMMA HeldIs ==
  ASSUME NEW c \in Seq(Command), NEW L \in SUBSET (0 .. MaxPics), NEW R, NEW d,
         NEW s \in Slots
  PROVE  /\ FrmOf(s, d, c, L, R) = MoreOf(FrmOf(NoSlot, d, c, L, R), s)
         /\ FrmOf(NoSlot, d, c, L, R) = LessOf(FrmOf(s, d, c, L, R), s)
         /\ FrmOf(s, d, c, L, R)[s] >= 1
  <1> DEFINE f == FrmOf(NoSlot, d, c, L, R)
             g == FrmOf(s, d, c, L, R)
  <1>1. f = FrmOf(NoSlot, d, c, L, R) /\ g = FrmOf(s, d, c, L, R)
    OBVIOUS
  <1> HIDE DEF f, g
  <1>2. g = MoreOf(f, s) /\ f = LessOf(g, s) /\ g[s] >= 1
    BY <1>1, HeldMore, SMTT(30)
  <1> QED BY <1>1, <1>2

LEMMA HeldMvIs ==
  ASSUME NEW c \in Seq(Command), NEW L \in SUBSET (0 .. MaxPics), NEW R, NEW d,
         NEW s \in MvIDs
  PROVE  /\ MvOf(s, d, c, L, R) = MoreOf(MvOf(NoMv, d, c, L, R), s)
         /\ MvOf(NoMv, d, c, L, R) = LessOf(MvOf(s, d, c, L, R), s)
         /\ MvOf(s, d, c, L, R)[s] >= 1
  <1> DEFINE f == MvOf(NoMv, d, c, L, R)
             g == MvOf(s, d, c, L, R)
  <1>1. f = MvOf(NoMv, d, c, L, R) /\ g = MvOf(s, d, c, L, R)
    OBVIOUS
  <1> HIDE DEF f, g
  <1>2. g = MoreOf(f, s) /\ f = LessOf(g, s) /\ g[s] >= 1
    BY <1>1, HeldMvMore
  <1> QED BY <1>1, <1>2

\* The users g and k are the users f and h with those of the list.
Locking(f, h, g, k, list) ==
    g = WithFrm(f, list, 1 .. Len(list)) /\ k = WithMv(h, list, 1 .. Len(list))

LEMMA RankLocks ==
  ASSUME NEW c \in Seq(Command), NEW L \in SUBSET (0 .. MaxPics), NEW R, NEW r, NEW d,
         NEW t, NEW e, NEW k \in 0 .. MaxPics, k \notin L
  PROVE  Locking(FrmOf(r, d, c, L, R), MvOf(t, e, c, L, R), FrmOf(r, d, c, L \cup {k}, R),
                 MvOf(t, e, c, L \cup {k}, R), R[k % RefRing])
  <1> DEFINE list == R[k % RefRing]
             J == 1 .. Len(list)
             M == L \cup {k}
  <1>1. list = R[k % RefRing] /\ J = 1 .. Len(list) /\ M = L \cup {k}
    OBVIOUS
  <1> HIDE DEF list, J, M
  <1>2. FrmOf(r, d, c, M, R) = WithFrm(FrmOf(r, d, c, L, R), list, J)
    BY <1>1, RankLocked
  <1>3. MvOf(t, e, c, M, R) = WithMv(MvOf(t, e, c, L, R), list, J)
    BY <1>1, RankLockedMv
  <1> QED BY <1>1, <1>2, <1>3 DEF Locking
-----------------------------------------------------------------------------
(* The inductive invariant: types *)

\* What the theorems assume: the buffers fit into the slots of the pool, the DPB has a node
\* more than the level allows references, one of which is being decoded, and the driver takes
\* every command.
Sized == BufsFit /\ DpbSize >= NumRef + 2 /\ ~DriverMayFail

LEMMA UsersWhole == ASSUME PipelineTypes PROVE Users(FrmUsers, MvUsers)
  <1>1. /\ FrmUsers = FrmOf(HeldRec, done.frm, chan, Locked, refList)
        /\ MvUsers = MvOf(HeldMv, done.mv, chan, Locked, refList)
    BY UsersNow
  <1>2. Locked \in SUBSET (0 .. MaxPics)
    BY DEF Locked
  <1>3. chan \in Seq(Command)
    BY DEF PipelineTypes
  <1> HIDE DEF Locked, HeldRec, HeldMv, FrmUsers, MvUsers
  <1>4. FrmOf(HeldRec, done.frm, chan, Locked, refList) \in [Slots -> Nat]
    BY <1>2, <1>3, FrmOfType
  <1>5. MvOf(HeldMv, done.mv, chan, Locked, refList) \in [MvIDs -> Nat]
    BY <1>2, <1>3, FrmOfType
  <1> QED BY <1>1, <1>4, <1>5 DEF Users

\* The FIFO of a pool that holds buffers has a first slot.
LEMMA PopHead ==
  ASSUME NEW p, PoolInv(p), p.number > 0
  PROVE  p.head \in Slots
  BY PopIs DEF Popped

LEMMA FifoHead ==
  ASSUME NEW p, PoolInv(p), FifoSlots(p) # <<>>
  PROVE  p.head \in Slots /\ p.buf[p.head] \in Bufs
  <1> DEFINE r == SignalCallbackReleaseIsDone(FlushOneDisplayBuffer(p), p.buf[p.head])
  <1>1. Withdrawn(p, r, p.head)
    BY WithdrawIs
  <1> QED BY <1>1 DEF Withdrawn

\* The picture to show has a buffer.
LEMMA ShownBuffer ==
  ASSUME NEW x, NEW frm, NEW mv, NEW user_, NEW shown, Users(frm, mv),
         MngrInv(x, frm, mv, user_, shown), NEW s, s = GetDisplayBuffer(x), s # NoSlot
  PROVE  /\ x.disp # <<>> /\ s = Head(x.disp) /\ s \in Slots /\ x.status[s] = "ready"
         /\ x.pool.buf[s] \in Bufs
  <1>1. x.disp # <<>> /\ s = Head(x.disp) /\ x.status[s] = "ready"
    BY DEF GetDisplayBuffer
  <1>2. /\ x \in PictMngrs /\ PoolInv(x.pool)
    BY DEF MngrInv
  <1>3. x.disp \in Seq(Slots) /\ Len(x.disp) \in Nat
    BY <1>2, MngrTypes DEF Lists
  <1>4. s = x.disp[1] /\ 1 \in 1 .. Len(x.disp) /\ s \in Slots
    BY <1>1, <1>3, SeqHead
  <1>m. 0 \in MvIDs
    BY MvBufPoolAssumption DEF MvIDs
  <1>5. RefsOn(x.pool, s) >= 1
    <2>1. ~NoneHeld(x, s)
      BY <1>4 DEF NoneHeld
    <2> QED BY <1>4, <1>m, <2>1, HeldUsed
  <1>6. x.pool.buf[s] # NoBuf /\ x.pool.buf[s] \in Bufs
    BY <1>2, <1>4, <1>5, InUse
  <1> QED BY <1>1, <1>4, <1>6

LEMMA TypesStep ==
  ASSUME PipelineInv, Next
  PROVE  PipelineTypes'
  <1>0. /\ MngrInv(ctx, FrmUsers, MvUsers, user, Shown) /\ Users(FrmUsers, MvUsers)
        /\ PipelineTypes
    BY UsersWhole DEF PipelineInv
  <1> HIDE DEF FrmUsers, MvUsers, Shown
  <1>1. ASSUME NEW k \in PicKinds, ParseSlice(k) PROVE PipelineTypes'
    <2>1. pcD' \in LabelsD /\ pic' \in PicKinds \cup {NoPic}
      BY <1>1 DEF ParseSlice, LabelsD
    <2>2. pics' \in Nat
      BY <1>1, <1>0 DEF ParseSlice, PipelineTypes
    <2>3. stopped' \in BOOLEAN
      BY <1>1 DEF ParseSlice
    <2> QED BY <1>1, <2>1, <2>2, <2>3, <1>0 DEF ParseSlice, eVars, uVars, PipelineTypes
  <1>2. CASE GetSemaphore
    BY <1>2, <1>0 DEF GetSemaphore, DStep, dVars, eVars, uVars, PipelineTypes, LabelsD, LabelsE,
        Preparing, Begun, Flushing, CallbackThreads
  <1>3. CASE PopBuffer
    <2>1. ctx.pool.head \in Slots
      BY <1>3, <1>0, PopHead DEF PopBuffer, MngrInv
    <2> QED BY <1>0, <1>3, <2>1 DEF PopBuffer, DStep, eVars, uVars, PipelineTypes, LabelsD, Preparing
  <1>4. CASE PopWaits
    BY <1>4, <1>0 DEF PopWaits, DStep, dVars, eVars, uVars, PipelineTypes, LabelsD, LabelsE,
        Preparing, Begun, Flushing, CallbackThreads
  <1>5. CASE PopWakesUp
    BY <1>5, <1>0 DEF PopWakesUp, DStep, dVars, eVars, uVars, PipelineTypes, LabelsD, LabelsE,
        Preparing, Begun, Flushing, CallbackThreads
  <1>6. CASE PopFails
    BY <1>6, <1>0 DEF PopFails, DStep, dVars, eVars, uVars, PipelineTypes, LabelsD, LabelsE,
        Preparing, Begun, Flushing, CallbackThreads
  <1>7. CASE GetMv
    <2>1. mvID' \in MvIDs
      BY <1>7, <1>0, GetMvIs, UsersWhole DEF GetMv, NewMv
    <2> QED BY <1>0, <1>7, <2>1 DEF GetMv, DStep, eVars, uVars, PipelineTypes, LabelsD, Preparing
  <1>8. CASE ListRefs
    <2>1. RefBuffers(ctx) \in Seq(Slots \X MvIDs)
      BY <1>0, RefBuffersIs DEF MngrInv
    <2>2. refList' \in [0 .. RefRing - 1 -> Seq(Slots \X MvIDs)]
      BY <1>0, <1>8, <2>1 DEF ListRefs, PipelineTypes
    <2>3. pcD' \in LabelsD
      BY <1>8 DEF ListRefs, DStep, LabelsD, Preparing
    <2> QED BY <1>0, <1>8, <2>2, <2>3 DEF ListRefs, DStep, eVars, uVars, PipelineTypes
  <1>9. CASE LockRefs
    BY <1>9, <1>0 DEF LockRefs, DStep, dVars, eVars, uVars, PipelineTypes, LabelsD, LabelsE,
        Preparing, Begun, Flushing, CallbackThreads
  <1>10. CASE CancelFrame
    BY <1>10, <1>0 DEF CancelFrame, DStep, dVars, eVars, uVars, PipelineTypes, LabelsD, LabelsE,
        Preparing, Begun, Flushing, CallbackThreads
  <1>11. CASE CancelRefs
    BY <1>11, <1>0 DEF CancelRefs, DStep, dVars, eVars, uVars, PipelineTypes, LabelsD, LabelsE,
        Preparing, Begun, Flushing, CallbackThreads
  <1>12. CASE FlushDpb
    BY <1>12, <1>0 DEF FlushDpb, DStep, dVars, eVars, uVars, PipelineTypes, LabelsD, LabelsE,
        Preparing, Begun, Flushing, CallbackThreads
  <1>13. CASE Replace
    BY <1>13, <1>0 DEF Replace, DStep, dVars, eVars, uVars, PipelineTypes, LabelsD, LabelsE,
        Preparing, Begun, Flushing, CallbackThreads
  <1>14. CASE InsertPicture
    BY <1>14, <1>0 DEF InsertPicture, DStep, dVars, eVars, uVars, PipelineTypes, LabelsD,
        LabelsE, Preparing, Begun, Flushing, CallbackThreads
  <1>15. CASE MarkRefs
    BY <1>15, <1>0 DEF MarkRefs, DStep, dVars, eVars, uVars, PipelineTypes, LabelsD, LabelsE,
        Preparing, Begun, Flushing, CallbackThreads
  <1>16. CASE CleanDpb
    BY <1>16, <1>0 DEF CleanDpb, DStep, dVars, eVars, uVars, PipelineTypes, LabelsD, LabelsE,
        Preparing, Begun, Flushing, CallbackThreads
  <1>17. CASE Launch
    <2>1. HoldsRec /\ HoldsMv
      BY <1>17 DEF Launch, HoldsRec, HoldsMv, Begun
    <2>2. recID \in Slots /\ mvID \in MvIDs
      BY <2>1 DEF PipelineInv, PictureInv
    <2>3. blk1 % RefRing \in 0 .. RefRing - 1
      BY <1>0, RingPlace DEF PipelineTypes
    <2>4. refList[blk1 % RefRing] \in Seq(Slots \X MvIDs)
      BY <1>0, <2>3 DEF PipelineTypes
    <2>5. Current \in Command
      BY <2>2, <2>4 DEF Current, Command
    <2>6. Append(chan, Current) \in Seq(Command)
      BY <1>0, <2>5, SeqEnd DEF PipelineTypes
    <2> HIDE DEF Current, Command
    <2> QED BY <1>0, <1>17, <2>6 DEF Launch, eVars, uVars, PipelineTypes, LabelsD
  <1>18. CASE FlushToExit
    BY <1>18, <1>0 DEF FlushToExit, DStep, dVars, eVars, uVars, PipelineTypes, LabelsD, LabelsE,
        Preparing, Begun, Flushing, CallbackThreads
  <1>19. CASE WaitFrameSent
    BY <1>19, <1>0 DEF WaitFrameSent, DStep, dVars, eVars, uVars, PipelineTypes, LabelsD,
        LabelsE, Preparing, Begun, Flushing, CallbackThreads
  <1>20. CASE FlushAll
    BY <1>20, <1>0 DEF FlushAll, DStep, dVars, eVars, uVars, PipelineTypes, LabelsD, LabelsE,
        Preparing, Begun, Flushing, CallbackThreads
  <1>21. CASE ReleaseFrames
    <2>1. sem' \in Nat
      BY <1>21, <1>0, DecPipelineAssumption DEF ReleaseFrames, PipelineTypes
    <2> QED BY <1>21, <2>1, <1>0 DEF ReleaseFrames, DStep, eVars, uVars, PipelineTypes, LabelsD,
        Flushing
  <1>22. CASE SignalEos
    BY <1>22, <1>0 DEF SignalEos, dVars, eVars, uVars, PipelineTypes, LabelsD, LabelsE,
        Preparing, Begun, Flushing, CallbackThreads
  <1>23. CASE Terminate
    BY <1>23, <1>0 DEF Terminate, DStep, dVars, eVars, uVars, PipelineTypes, LabelsD, LabelsE,
        Preparing, Begun, Flushing, CallbackThreads
  <1>24. CASE TerminateMv
    BY <1>24, <1>0 DEF TerminateMv, DStep, dVars, eVars, uVars, PipelineTypes, LabelsD, LabelsE,
        Preparing, Begun, Flushing, CallbackThreads
  <1>25. CASE ExitThread
    BY <1>25, <1>0 DEF ExitThread, DStep, dVars, eVars, uVars, PipelineTypes, LabelsD, LabelsE,
        Preparing, Begun, Flushing, CallbackThreads
  <1>26. CASE pcD = "peek" /\ CallDisplay("D")
    <2>1. ctx.pool.buf[GetDisplayBuffer(ctx)] \in Bufs
      BY <1>26, <1>0, ShownBuffer DEF CallDisplay
    <2>2. user' \subseteq Bufs /\ showing' \in [CallbackThreads -> Bufs \cup {NoBuf}]
      BY <1>0, <1>26, <2>1 DEF CallDisplay, PipelineTypes
    <2> QED BY <1>0, <1>26, <2>2 DEF CallDisplay, dVars, eVars, PipelineTypes
  <1>27. CASE pcD = "peek" /\ SignalDisplayIsDone("D")
    <2>1. showing' \in [CallbackThreads -> Bufs \cup {NoBuf}]
      BY <1>0, <1>27 DEF SignalDisplayIsDone, PipelineTypes
    <2> QED BY <1>0, <1>27, <2>1 DEF SignalDisplayIsDone, dVars, eVars, uVars, PipelineTypes
  <1>28. CASE pcE = "peek" /\ CallDisplay("E")
    <2>1. ctx.pool.buf[GetDisplayBuffer(ctx)] \in Bufs
      BY <1>28, <1>0, ShownBuffer DEF CallDisplay
    <2>2. user' \subseteq Bufs /\ showing' \in [CallbackThreads -> Bufs \cup {NoBuf}]
      BY <1>0, <1>28, <2>1 DEF CallDisplay, PipelineTypes
    <2> QED BY <1>0, <1>28, <2>2 DEF CallDisplay, dVars, eVars, PipelineTypes
  <1>29. CASE pcE = "peek" /\ SignalDisplayIsDone("E")
    <2>1. showing' \in [CallbackThreads -> Bufs \cup {NoBuf}]
      BY <1>0, <1>29 DEF SignalDisplayIsDone, PipelineTypes
    <2> QED BY <1>0, <1>29, <2>1 DEF SignalDisplayIsDone, dVars, eVars, uVars, PipelineTypes
  <1>30. CASE EndOfInput
    BY <1>30, <1>0 DEF EndOfInput, DStep, dVars, eVars, uVars, PipelineTypes, LabelsD, LabelsE,
        Preparing, Begun, Flushing, CallbackThreads
  <1>31. CASE UnitError
    BY <1>31, <1>0 DEF UnitError, DStep, dVars, eVars, uVars, PipelineTypes, LabelsD, LabelsE,
        Preparing, Begun, Flushing, CallbackThreads
  <1>32. CASE EndCommand
    <2>1. Head(chan) \in Command /\ Tail(chan) \in Seq(Command)
      BY <1>0, <1>32, SeqHead DEF EndCommand, PipelineTypes
    <2> QED BY <1>0, <1>32, <2>1 DEF EndCommand, EStep, dVars, uVars, PipelineTypes, LabelsE
  <1>33. CASE UnlockRefs
    BY <1>33, <1>0 DEF UnlockRefs, EStep, dVars, eVars, uVars, PipelineTypes, LabelsD, LabelsE,
        Preparing, Begun, Flushing, CallbackThreads
  <1>34. CASE Advance
    BY <1>34, <1>0 DEF Advance, EStep, dVars, eVars, uVars, PipelineTypes, LabelsD, LabelsE,
        Preparing, Begun, Flushing, CallbackThreads
  <1>35. CASE UnlockPicture
    BY <1>35, <1>0 DEF UnlockPicture, EStep, dVars, eVars, uVars, PipelineTypes, LabelsD,
        LabelsE, Preparing, Begun, Flushing, CallbackThreads
  <1>36. CASE PostSemaphore
    BY <1>36, <1>0 DEF PostSemaphore, EStep, dVars, eVars, uVars, PipelineTypes, LabelsD,
        LabelsE, Preparing, Begun, Flushing, CallbackThreads
  <1>37. ASSUME NEW b \in Bufs, PutDecPict(b) PROVE PipelineTypes'
    BY <1>37, <1>0 DEF PutDecPict, UStep, dVars, eVars, uVars, PipelineTypes, LabelsD, LabelsE,
        Preparing, Begun, Flushing, CallbackThreads
  <1>38. CASE DecommitPool
    BY <1>38, <1>0 DEF DecommitPool, UStep, dVars, eVars, uVars, PipelineTypes, LabelsD,
        LabelsE, Preparing, Begun, Flushing, CallbackThreads
  <1>39. CASE DestroyFeeder
    <2>1. keepGoing' \in BOOLEAN
      BY <1>39 DEF DestroyFeeder
    <2>2. pcU' \in {"run", "stopFeeder", "join", "release", "destroyed"}
      BY <1>39 DEF DestroyFeeder
    <2> QED BY <1>39, <2>1, <2>2, <1>0 DEF DestroyFeeder, UStep, dVars, eVars, PipelineTypes
  <1>40. CASE DestroyChannel
    <2>1. <<>> \in Seq(Command)
      OBVIOUS
    <2> HIDE DEF Command
    <2> QED BY <1>0, <1>40, <2>1 DEF DestroyChannel, UStep, dVars, eVars, PipelineTypes
  <1>41. CASE ReleaseUnused
    <2>0. FifoSlots(ctx.pool) # <<>>
      BY <1>41 DEF ReleaseUnused
    <2>1. ctx.pool.buf[ctx.pool.head] \in Bufs
      BY <2>0, <1>0, FifoHead DEF MngrInv
    <2>2. user' \subseteq Bufs
      BY <1>0, <1>41, <2>1 DEF ReleaseUnused, PipelineTypes
    <2> QED BY <1>0, <1>41, <2>2 DEF ReleaseUnused, UStep, dVars, eVars, PipelineTypes
  <1>42. CASE Destroyed
    BY <1>42, <1>0 DEF Destroyed, UStep, dVars, eVars, uVars, PipelineTypes, LabelsD, LabelsE,
        Preparing, Begun, Flushing, CallbackThreads
  <1>43. CASE Over
    BY <1>0, <1>43 DEF Over, vars, dVars, eVars, uVars, PipelineTypes
  <1> QED BY <1>1, <1>2, <1>3, <1>4, <1>5, <1>6, <1>7, <1>8, <1>9, <1>10, <1>11, <1>12, <1>13,
      <1>14, <1>15, <1>16, <1>17, <1>18, <1>19, <1>20, <1>21, <1>22, <1>23, <1>24, <1>25, <1>26,
      <1>27, <1>28, <1>29, <1>30, <1>31, <1>32, <1>33, <1>34, <1>35, <1>36, <1>37, <1>38, <1>39,
      <1>40, <1>41, <1>42, <1>43 DEF Next, DNext, ENext, DestroyNext, DisplayD, DisplayE
-----------------------------------------------------------------------------
(* The inductive invariant: the semaphore *)
LEMMA SemaphoreStep ==
  ASSUME PipelineInv, Next, Sized
  PROVE  SemaphoreInv'
  <1>0. /\ sem \in Nat /\ blk1 \in Nat /\ blk2 \in Nat /\ pics \in Nat
        /\ StackSize \in Nat /\ MaxPics \in Nat /\ Len(chan) \in Nat /\ chan \in Seq(Command)
    BY DecPipelineAssumption DEF PipelineInv, PipelineTypes
  <1>1. SemaphoreInv
    BY DEF PipelineInv
  <1>3. ASSUME Launch PROVE Current \in Command
    <2>1. HoldsRec /\ HoldsMv
      BY <1>3 DEF Launch, HoldsRec, HoldsMv, Begun
    <2>2. recID \in Slots /\ mvID \in MvIDs
      BY <2>1 DEF PipelineInv, PictureInv
    <2>3. blk1 % RefRing \in 0 .. RefRing - 1
      BY <1>0, RingPlace
    <2>4. refList[blk1 % RefRing] \in Seq(Slots \X MvIDs)
      BY <2>3 DEF PipelineInv, PipelineTypes
    <2> QED BY <2>2, <2>4 DEF Current, Command
  <1>11. ASSUME NEW k \in PicKinds, ParseSlice(k) PROVE SemaphoreInv'
    BY <1>11, <1>0, <1>1 DEF ParseSlice, eVars, SemaphoreInv, Preparing, Begun, One
  <1>12. CASE GetSemaphore
    BY <1>12, <1>0, <1>1 DEF GetSemaphore, DStep, dVars, eVars, uVars, SemaphoreInv, Preparing,
        Begun, One
  <1>13. CASE PopBuffer
    BY <1>13, <1>0, <1>1 DEF PopBuffer, DStep, dVars, eVars, uVars, SemaphoreInv, Preparing,
        Begun, One
  <1>14. CASE PopWaits
    BY <1>14, <1>0, <1>1 DEF PopWaits, DStep, dVars, eVars, uVars, SemaphoreInv, Preparing,
        Begun, One
  <1>15. CASE PopWakesUp
    BY <1>15, <1>0, <1>1 DEF PopWakesUp, DStep, dVars, eVars, uVars, SemaphoreInv, Preparing,
        Begun, One
  <1>16. CASE PopFails
    BY <1>16, <1>0, <1>1 DEF PopFails, DStep, dVars, eVars, uVars, SemaphoreInv, Preparing,
        Begun, One
  <1>17. CASE GetMv
    BY <1>17, <1>0, <1>1 DEF GetMv, DStep, dVars, eVars, uVars, SemaphoreInv, Preparing, Begun,
        One
  <1>18. CASE ListRefs
    BY <1>18, <1>0, <1>1 DEF ListRefs, DStep, dVars, eVars, uVars, SemaphoreInv, Preparing,
        Begun, One
  <1>19. CASE LockRefs
    BY <1>19, <1>0, <1>1 DEF LockRefs, DStep, dVars, eVars, uVars, SemaphoreInv, Preparing,
        Begun, One
  <1>20. CASE CancelFrame
    BY <1>20, <1>0, <1>1 DEF CancelFrame, DStep, dVars, eVars, uVars, SemaphoreInv, Preparing,
        Begun, One
  <1>21. CASE CancelRefs
    BY <1>21, <1>0, <1>1 DEF CancelRefs, DStep, dVars, eVars, uVars, SemaphoreInv, Preparing,
        Begun, One
  <1>22. CASE FlushDpb
    BY <1>22, <1>0, <1>1 DEF FlushDpb, DStep, dVars, eVars, uVars, SemaphoreInv, Preparing,
        Begun, One
  <1>23. CASE Replace
    BY <1>23, <1>0, <1>1 DEF Replace, DStep, dVars, eVars, uVars, SemaphoreInv, Preparing,
        Begun, One
  <1>24. CASE InsertPicture
    BY <1>24, <1>0, <1>1 DEF InsertPicture, DStep, dVars, eVars, uVars, SemaphoreInv, Preparing,
        Begun, One
  <1>25. CASE MarkRefs
    BY <1>25, <1>0, <1>1 DEF MarkRefs, DStep, dVars, eVars, uVars, SemaphoreInv, Preparing,
        Begun, One
  <1>26. CASE CleanDpb
    BY <1>26, <1>0, <1>1 DEF CleanDpb, DStep, dVars, eVars, uVars, SemaphoreInv, Preparing,
        Begun, One
  <1>27. CASE Launch
    <2>1. chan' = Append(chan, Current) /\ Len(chan') = Len(chan) + 1
      BY <1>27, <1>0, <1>3, SeqEnd DEF Launch, Sized, PipelineTypes
    <2>2. pcD \in Preparing /\ pcD' = "idle"
      BY <1>27 DEF Launch, Preparing, Begun
    <2> QED BY <1>27, <1>0, <1>1, <2>1, <2>2 DEF Launch, eVars, SemaphoreInv, One, Preparing,
        Begun
  <1>28. CASE FlushToExit
    BY <1>28, <1>0, <1>1 DEF FlushToExit, DStep, dVars, eVars, uVars, SemaphoreInv, Preparing,
        Begun, One
  <1>29. CASE WaitFrameSent
    BY <1>29, <1>0, <1>1 DEF WaitFrameSent, DStep, dVars, eVars, uVars, SemaphoreInv, Preparing,
        Begun, One
  <1>30. CASE FlushAll
    BY <1>30, <1>0, <1>1 DEF FlushAll, DStep, dVars, eVars, uVars, SemaphoreInv, Preparing,
        Begun, One
  <1>31. CASE ReleaseFrames
    BY <1>31, <1>0, <1>1 DEF ReleaseFrames, DStep, dVars, eVars, uVars, SemaphoreInv, Preparing,
        Begun, One
  <1>32. CASE SignalEos
    BY <1>32, <1>0, <1>1 DEF SignalEos, dVars, eVars, uVars, SemaphoreInv, Preparing, Begun, One
  <1>33. CASE Terminate
    BY <1>33, <1>0, <1>1 DEF Terminate, DStep, dVars, eVars, uVars, SemaphoreInv, Preparing,
        Begun, One
  <1>34. CASE TerminateMv
    BY <1>34, <1>0, <1>1 DEF TerminateMv, DStep, dVars, eVars, uVars, SemaphoreInv, Preparing,
        Begun, One
  <1>35. CASE ExitThread
    BY <1>35, <1>0, <1>1 DEF ExitThread, DStep, dVars, eVars, uVars, SemaphoreInv, Preparing,
        Begun, One
  <1>36. CASE pcD = "peek" /\ CallDisplay("D")
    BY <1>36, <1>0, <1>1 DEF CallDisplay, dVars, eVars, uVars, SemaphoreInv, Preparing, Begun,
        One
  <1>37. CASE pcD = "peek" /\ SignalDisplayIsDone("D")
    BY <1>37, <1>0, <1>1 DEF SignalDisplayIsDone, dVars, eVars, uVars, SemaphoreInv, Preparing,
        Begun, One
  <1>38. CASE pcE = "peek" /\ CallDisplay("E")
    BY <1>38, <1>0, <1>1 DEF CallDisplay, dVars, eVars, uVars, SemaphoreInv, Preparing, Begun,
        One
  <1>39. CASE pcE = "peek" /\ SignalDisplayIsDone("E")
    BY <1>39, <1>0, <1>1 DEF SignalDisplayIsDone, dVars, eVars, uVars, SemaphoreInv, Preparing,
        Begun, One
  <1>40. CASE EndOfInput
    BY <1>40, <1>0, <1>1 DEF EndOfInput, DStep, dVars, eVars, uVars, SemaphoreInv, Preparing,
        Begun, One
  <1>41. CASE UnitError
    BY <1>41, <1>0, <1>1 DEF UnitError, DStep, dVars, eVars, uVars, SemaphoreInv, Preparing,
        Begun, One
  <1>42. CASE EndCommand
    <2>1. Len(chan') = Len(chan) - 1
      BY <1>42, <1>0, SeqHead DEF EndCommand, PipelineTypes
    <2> QED BY <1>42, <1>0, <1>1, <2>1 DEF EndCommand, EStep, dVars, SemaphoreInv, One,
        Preparing, Begun
  <1>43. CASE UnlockRefs
    BY <1>43, <1>0, <1>1 DEF UnlockRefs, EStep, dVars, eVars, uVars, SemaphoreInv, Preparing,
        Begun, One
  <1>44. CASE Advance
    BY <1>44, <1>0, <1>1 DEF Advance, EStep, dVars, eVars, uVars, SemaphoreInv, Preparing,
        Begun, One
  <1>45. CASE UnlockPicture
    BY <1>45, <1>0, <1>1 DEF UnlockPicture, EStep, dVars, eVars, uVars, SemaphoreInv, Preparing,
        Begun, One
  <1>46. CASE PostSemaphore
    BY <1>46, <1>0, <1>1 DEF PostSemaphore, EStep, dVars, eVars, uVars, SemaphoreInv, Preparing,
        Begun, One
  <1>47. ASSUME NEW b \in Bufs, PutDecPict(b) PROVE SemaphoreInv'
    BY <1>47, <1>0, <1>1 DEF PutDecPict, UStep, dVars, eVars, SemaphoreInv, One
  <1>48. CASE DecommitPool
    BY <1>48, <1>0, <1>1 DEF DecommitPool, UStep, dVars, eVars, uVars, SemaphoreInv, Preparing,
        Begun, One
  <1>49. CASE DestroyFeeder
    BY <1>49, <1>0, <1>1 DEF DestroyFeeder, UStep, dVars, eVars, uVars, SemaphoreInv, Preparing,
        Begun, One
  <1>50. CASE DestroyChannel
    <2>1. blk1 = blk2
      BY <1>50 DEF DestroyChannel, PipelineInv, RestInv
    <2>2. Len(chan) = 0
      BY <1>50, <1>0, <1>1, <2>1 DEF DestroyChannel, SemaphoreInv, One
    <2>3. Len(chan') = 0
      BY <1>50 DEF DestroyChannel
    <2> QED BY <1>50, <1>0, <1>1, <2>2, <2>3 DEF DestroyChannel, UStep, dVars, eVars,
        SemaphoreInv, One
  <1>51. CASE ReleaseUnused
    BY <1>51, <1>0, <1>1 DEF ReleaseUnused, UStep, dVars, eVars, uVars, SemaphoreInv, Preparing,
        Begun, One
  <1>52. CASE Destroyed
    BY <1>52, <1>0, <1>1 DEF Destroyed, UStep, dVars, eVars, uVars, SemaphoreInv, Preparing,
        Begun, One
  <1>53. CASE Over
    BY <1>53, <1>0, <1>1 DEF Over, vars, dVars, eVars, SemaphoreInv, One, Preparing, Begun
  <1> QED BY <1>11, <1>12, <1>13, <1>14, <1>15, <1>16, <1>17, <1>18, <1>19, <1>20, <1>21, <1>22,
      <1>23, <1>24, <1>25, <1>26, <1>27, <1>28, <1>29, <1>30, <1>31, <1>32, <1>33, <1>34, <1>35,
      <1>36, <1>37, <1>38, <1>39, <1>40, <1>41, <1>42, <1>43, <1>44, <1>45, <1>46, <1>47, <1>48,
      <1>49, <1>50, <1>51, <1>52, <1>53 DEF Next, DNext, ENext, DestroyNext, DisplayD, DisplayE
-----------------------------------------------------------------------------
(* Who holds the buffers outside the picture manager, step by step *)
\* The commands are the same after the step.
SameCommands ==
    /\ HeldRec' = HeldRec /\ HeldMv' = HeldMv /\ done' = done /\ chan' = chan
    /\ Locked' = Locked /\ \A i \in Locked : refList'[i % RefRing] = refList[i % RefRing]
UsersKept == FrmUsers' = FrmUsers /\ MvUsers' = MvUsers

LEMMA SameUsers ==
  ASSUME PipelineTypes, PipelineTypes', SameCommands
  PROVE  UsersKept
  <1>1. /\ FrmUsers = FrmOf(HeldRec, done.frm, chan, Locked, refList)
        /\ MvUsers = MvOf(HeldMv, done.mv, chan, Locked, refList)
    BY UsersNow
  <1>2. /\ FrmUsers' = FrmOf(HeldRec', done'.frm, chan', Locked', refList')
        /\ MvUsers' = MvOf(HeldMv', done'.mv, chan', Locked', refList')
    BY UsersNext
  <1>3. /\ FrmUsers' = FrmOf(HeldRec, done.frm, chan, Locked, refList')
        /\ MvUsers' = MvOf(HeldMv, done.mv, chan, Locked, refList')
    BY <1>2 DEF SameCommands
  <1>4. \A i \in Locked : refList'[i % RefRing] = refList[i % RefRing]
    BY DEF SameCommands
  <1> HIDE DEF FrmUsers, MvUsers, HeldRec, HeldMv, Locked
  <1>5. /\ FrmOf(HeldRec, done.frm, chan, Locked, refList')
              = FrmOf(HeldRec, done.frm, chan, Locked, refList)
        /\ MvOf(HeldMv, done.mv, chan, Locked, refList')
              = MvOf(HeldMv, done.mv, chan, Locked, refList)
    BY <1>4, RingElsewhere
  <1> QED BY <1>1, <1>3, <1>5 DEF UsersKept

\* The ranks of the commands on their way are less than a turn of the ring.
LEMMA RanksClose ==
  ASSUME PipelineInv
  PROVE  /\ sem \in Nat /\ blk1 \in Nat /\ blk2 \in Nat /\ RefRing \in Nat
         /\ MaxPics \in Nat /\ Len(chan) \in Nat /\ StackSize \in Nat /\ StackSize <= RefRing
         /\ Locked \in SUBSET (0 .. MaxPics)
         /\ blk2 <= blk1 /\ blk1 - blk2 <= StackSize
         /\ pcD \in Preparing => blk1 - blk2 < StackSize /\ blk1 \in 0 .. MaxPics
         /\ pcE \in {"unlockRefs", "advance"} => blk2 < blk1 /\ blk2 \in 0 .. MaxPics
         /\ pcD = "peek" => pcE = "idle"
  <1>1. /\ sem \in Nat /\ blk1 \in Nat /\ blk2 \in Nat /\ pics \in Nat
        /\ RefRing \in Nat /\ MaxPics \in Nat /\ Len(chan) \in Nat
        /\ StackSize \in Nat /\ StackSize <= RefRing
        /\ pcE \in LabelsE
    BY DecPipelineAssumption DEF PipelineInv, PipelineTypes
  <1>2. SemaphoreInv
    BY DEF PipelineInv
  <1>3. pcD = "peek" => pcD \in Flushing
    BY DEF Flushing
  <1>4. pcD \in Flushing => blk1 = blk2
    BY DEF PipelineInv, RestInv
  <1>5. Locked \in SUBSET (0 .. MaxPics)
    BY DEF Locked
  <1>6. /\ blk2 <= blk1 /\ blk1 - blk2 <= StackSize
        /\ pcD \in Preparing => blk1 - blk2 < StackSize
    BY <1>1, <1>2 DEF SemaphoreInv, One
  <1>7. blk1 <= MaxPics /\ (pcD \in Preparing => blk1 < MaxPics)
    BY <1>1, <1>2 DEF SemaphoreInv, One
  <1>8. pcE \in {"unlockRefs", "advance"} => blk2 < blk1
    BY <1>1, <1>2 DEF SemaphoreInv, One
  <1>9. pcD = "peek" => pcE = "idle"
    <2> SUFFICES ASSUME pcD = "peek" PROVE pcE = "idle"
      OBVIOUS
    <2>1. pcE \notin {"peek", "post"}
      BY <1>1, <1>2 DEF SemaphoreInv, One, Preparing, Begun
    <2>2. pcE \notin {"unlockRefs", "advance"}
      BY <1>1, <1>3, <1>4, <1>8
    <2> QED BY <1>1, <2>1, <2>2 DEF LabelsE
  <1> HIDE DEF Preparing, Locked
  <1> QED BY <1>1, <1>5, <1>6, <1>7, <1>8, <1>9

\* What every step but those that take or drop references keeps
LEMMA KeepsCommands ==
  ASSUME PipelineInv, Next
  PROVE  \/ SameCommands \/ Launch \/ EndCommand
         \/ PopBuffer \/ GetMv \/ LockRefs \/ CancelFrame \/ CancelRefs
         \/ UnlockRefs \/ UnlockPicture
  <1>0. /\ blk1 \in Nat /\ blk2 \in Nat /\ RefRing \in Nat /\ StackSize <= RefRing
        /\ StackSize \in Nat /\ MaxPics \in Nat /\ Len(chan) \in Nat
    BY RanksClose
  <1>1. pcD \in Preparing => blk1 - blk2 < StackSize
    BY RanksClose
  <1>11. ASSUME NEW k \in PicKinds, ParseSlice(k) PROVE SameCommands
    BY <1>11 DEF ParseSlice, eVars, SameCommands, HeldRec, HoldsRec, HeldMv, HoldsMv, Begun,
        Locked
  <1>12. CASE GetSemaphore
    BY <1>12 DEF GetSemaphore, DStep, dVars, eVars, uVars, SameCommands, HeldRec, HoldsRec,
        HeldMv, HoldsMv, Begun, Locked
  <1>13. CASE PopBuffer
    BY <1>13
  <1>14. CASE PopWaits
    BY <1>14 DEF PopWaits, DStep, dVars, eVars, uVars, SameCommands, HeldRec, HoldsRec, HeldMv,
        HoldsMv, Begun, Locked
  <1>15. CASE PopWakesUp
    BY <1>15 DEF PopWakesUp, DStep, dVars, eVars, uVars, SameCommands, HeldRec, HoldsRec,
        HeldMv, HoldsMv, Begun, Locked
  <1>16. CASE PopFails
    BY <1>16 DEF PopFails, DStep, dVars, eVars, uVars, SameCommands, HeldRec, HoldsRec, HeldMv,
        HoldsMv, Begun, Locked
  <1>17. CASE GetMv
    BY <1>17
  <1>18. CASE ListRefs
    <2>1. blk1 - blk2 < RefRing
      BY <1>18, <1>0, <1>1 DEF ListRefs, DStep, Preparing
    <2>2. ASSUME NEW i \in Locked PROVE i % RefRing # blk1 % RefRing
      <3>1. i \in Nat /\ i < blk1 /\ blk1 - i < RefRing
        BY <1>18, <1>0, <2>1 DEF Locked, ListRefs, DStep, Begun
      <3> QED BY <1>0, <3>1, RingApart
    <2>3. \A i \in Locked : refList'[i % RefRing] = refList[i % RefRing]
      BY <1>18, <2>2 DEF ListRefs, PipelineInv, PipelineTypes
    <2> QED BY <1>18, <2>3 DEF ListRefs, DStep, eVars, SameCommands, HeldRec, HoldsRec, HeldMv,
        HoldsMv, Begun, Locked
  <1>19. CASE LockRefs
    BY <1>19
  <1>20. CASE CancelFrame
    BY <1>20
  <1>21. CASE CancelRefs
    BY <1>21
  <1>22. CASE FlushDpb
    BY <1>22 DEF FlushDpb, DStep, dVars, eVars, uVars, SameCommands, HeldRec, HoldsRec, HeldMv,
        HoldsMv, Begun, Locked
  <1>23. CASE Replace
    BY <1>23 DEF Replace, DStep, dVars, eVars, uVars, SameCommands, HeldRec, HoldsRec, HeldMv,
        HoldsMv, Begun, Locked
  <1>24. CASE InsertPicture
    BY <1>24 DEF InsertPicture, DStep, dVars, eVars, uVars, SameCommands, HeldRec, HoldsRec,
        HeldMv, HoldsMv, Begun, Locked
  <1>25. CASE MarkRefs
    BY <1>25 DEF MarkRefs, DStep, dVars, eVars, uVars, SameCommands, HeldRec, HoldsRec, HeldMv,
        HoldsMv, Begun, Locked
  <1>26. CASE CleanDpb
    BY <1>26 DEF CleanDpb, DStep, dVars, eVars, uVars, SameCommands, HeldRec, HoldsRec, HeldMv,
        HoldsMv, Begun, Locked
  <1>27. CASE Launch
    BY <1>27
  <1>28. CASE FlushToExit
    BY <1>28 DEF FlushToExit, DStep, dVars, eVars, uVars, SameCommands, HeldRec, HoldsRec,
        HeldMv, HoldsMv, Begun, Locked
  <1>29. CASE WaitFrameSent
    BY <1>29 DEF WaitFrameSent, DStep, dVars, eVars, uVars, SameCommands, HeldRec, HoldsRec,
        HeldMv, HoldsMv, Begun, Locked
  <1>30. CASE FlushAll
    BY <1>30 DEF FlushAll, DStep, dVars, eVars, uVars, SameCommands, HeldRec, HoldsRec, HeldMv,
        HoldsMv, Begun, Locked
  <1>31. CASE ReleaseFrames
    BY <1>31 DEF ReleaseFrames, DStep, dVars, eVars, uVars, SameCommands, HeldRec, HoldsRec,
        HeldMv, HoldsMv, Begun, Locked
  <1>32. CASE SignalEos
    BY <1>32 DEF SignalEos, dVars, eVars, uVars, SameCommands, HeldRec, HoldsRec, HeldMv,
        HoldsMv, Begun, Locked
  <1>33. CASE Terminate
    BY <1>33 DEF Terminate, DStep, dVars, eVars, uVars, SameCommands, HeldRec, HoldsRec, HeldMv,
        HoldsMv, Begun, Locked
  <1>34. CASE TerminateMv
    BY <1>34 DEF TerminateMv, DStep, dVars, eVars, uVars, SameCommands, HeldRec, HoldsRec,
        HeldMv, HoldsMv, Begun, Locked
  <1>35. CASE ExitThread
    BY <1>35 DEF ExitThread, DStep, dVars, eVars, uVars, SameCommands, HeldRec, HoldsRec,
        HeldMv, HoldsMv, Begun, Locked
  <1>36. CASE pcD = "peek" /\ CallDisplay("D")
    BY <1>36 DEF CallDisplay, dVars, eVars, uVars, SameCommands, HeldRec, HoldsRec, HeldMv,
        HoldsMv, Begun, Locked
  <1>37. CASE pcD = "peek" /\ SignalDisplayIsDone("D")
    BY <1>37 DEF SignalDisplayIsDone, dVars, eVars, uVars, SameCommands, HeldRec, HoldsRec,
        HeldMv, HoldsMv, Begun, Locked
  <1>38. CASE pcE = "peek" /\ CallDisplay("E")
    BY <1>38 DEF CallDisplay, dVars, eVars, uVars, SameCommands, HeldRec, HoldsRec, HeldMv,
        HoldsMv, Begun, Locked
  <1>39. CASE pcE = "peek" /\ SignalDisplayIsDone("E")
    BY <1>39 DEF SignalDisplayIsDone, dVars, eVars, uVars, SameCommands, HeldRec, HoldsRec,
        HeldMv, HoldsMv, Begun, Locked
  <1>40. CASE EndOfInput
    BY <1>40 DEF EndOfInput, DStep, dVars, eVars, uVars, SameCommands, HeldRec, HoldsRec,
        HeldMv, HoldsMv, Begun, Locked
  <1>41. CASE UnitError
    BY <1>41 DEF UnitError, DStep, dVars, eVars, uVars, SameCommands, HeldRec, HoldsRec, HeldMv,
        HoldsMv, Begun, Locked
  <1>42. CASE EndCommand
    BY <1>42
  <1>43. CASE UnlockRefs
    BY <1>43
  <1>44. CASE Advance
    <2>1. Locked' = Locked
      BY <1>44, <1>0 DEF Advance, EStep, dVars, Locked
    <2> QED BY <1>44, <2>1 DEF Advance, EStep, dVars, SameCommands, HeldRec, HoldsRec, HeldMv,
        HoldsMv
  <1>45. CASE UnlockPicture
    BY <1>45
  <1>46. CASE PostSemaphore
    BY <1>46 DEF PostSemaphore, EStep, dVars, eVars, uVars, SameCommands, HeldRec, HoldsRec,
        HeldMv, HoldsMv, Begun, Locked
  <1>47. ASSUME NEW b \in Bufs, PutDecPict(b) PROVE SameCommands
    BY <1>47 DEF PutDecPict, UStep, dVars, eVars, uVars, SameCommands, HeldRec, HoldsRec,
        HeldMv, HoldsMv, Begun, Locked
  <1>48. CASE DecommitPool
    BY <1>48 DEF DecommitPool, UStep, dVars, eVars, uVars, SameCommands, HeldRec, HoldsRec,
        HeldMv, HoldsMv, Begun, Locked
  <1>49. CASE DestroyFeeder
    BY <1>49 DEF DestroyFeeder, UStep, dVars, eVars, uVars, SameCommands, HeldRec, HoldsRec,
        HeldMv, HoldsMv, Begun, Locked
  <1>50. CASE DestroyChannel
    <2>1. blk1 = blk2
      BY <1>50 DEF DestroyChannel, PipelineInv, RestInv
    <2>2. chan = <<>>
      BY <1>50, <1>0, <2>1 DEF DestroyChannel, PipelineInv, PipelineTypes, SemaphoreInv, One
    <2> QED BY <1>50, <2>2 DEF DestroyChannel, UStep, dVars, eVars, SameCommands, HeldRec,
        HoldsRec, HeldMv, HoldsMv, Locked
  <1>51. CASE ReleaseUnused
    BY <1>51 DEF ReleaseUnused, UStep, dVars, eVars, uVars, SameCommands, HeldRec, HoldsRec,
        HeldMv, HoldsMv, Begun, Locked
  <1>52. CASE Destroyed
    BY <1>52 DEF Destroyed, UStep, dVars, eVars, uVars, SameCommands, HeldRec, HoldsRec, HeldMv,
        HoldsMv, Begun, Locked
  <1>53. CASE Over
    BY <1>53 DEF Over, vars, dVars, eVars, SameCommands, HeldRec, HoldsRec, HeldMv, HoldsMv,
        Begun, Locked
  <1> QED BY <1>11, <1>12, <1>13, <1>14, <1>15, <1>16, <1>17, <1>18, <1>19, <1>20, <1>21, <1>22,
      <1>23, <1>24, <1>25, <1>26, <1>27, <1>28, <1>29, <1>30, <1>31, <1>32, <1>33, <1>34, <1>35,
      <1>36, <1>37, <1>38, <1>39, <1>40, <1>41, <1>42, <1>43, <1>44, <1>45, <1>46, <1>47, <1>48,
      <1>49, <1>50, <1>51, <1>52, <1>53 DEF Next, DNext, ENext, DestroyNext, DisplayD, DisplayE

\* The state of the commands, before and after a step
LEMMA UsersAround ==
  ASSUME PipelineTypes, PipelineTypes'
  PROVE  /\ FrmUsers = FrmOf(HeldRec, done.frm, chan, Locked, refList)
         /\ MvUsers = MvOf(HeldMv, done.mv, chan, Locked, refList)
         /\ FrmUsers' = FrmOf(HeldRec', done'.frm, chan', Locked', refList')
         /\ MvUsers' = MvOf(HeldMv', done'.mv, chan', Locked', refList')
         /\ chan \in Seq(Command) /\ chan' \in Seq(Command)
         /\ Locked \in SUBSET (0 .. MaxPics) /\ Locked' \in SUBSET (0 .. MaxPics)
  <1>1. chan \in Seq(Command) /\ chan' \in Seq(Command)
    BY DEF PipelineTypes
  <1>2. Locked \in SUBSET (0 .. MaxPics) /\ Locked' \in SUBSET (0 .. MaxPics)
    BY DEF Locked
  <1>3. /\ FrmUsers = FrmOf(HeldRec, done.frm, chan, Locked, refList)
        /\ MvUsers = MvOf(HeldMv, done.mv, chan, Locked, refList)
    BY UsersNow
  <1>4. /\ FrmUsers' = FrmOf(HeldRec', done'.frm, chan', Locked', refList')
        /\ MvUsers' = MvOf(HeldMv', done'.mv, chan', Locked', refList')
    BY UsersNext
  <1> QED BY <1>1, <1>2, <1>3, <1>4

LEMMA PopBufferUsers ==
  ASSUME PipelineTypes, PipelineTypes', PopBuffer, recID' \in Slots
  PROVE  FrmUsers' = MoreOf(FrmUsers, recID') /\ MvUsers' = MvUsers
  <1>1. /\ HeldRec = NoSlot /\ HeldRec' = recID' /\ HeldMv' = HeldMv /\ done' = done
        /\ chan' = chan /\ Locked' = Locked /\ refList' = refList
    BY DEF PopBuffer, DStep, eVars, uVars, HeldRec, HoldsRec, HeldMv, HoldsMv, Begun, Locked
  <1>2. /\ FrmUsers = FrmOf(NoSlot, done.frm, chan, Locked, refList)
        /\ MvUsers = MvOf(HeldMv, done.mv, chan, Locked, refList)
        /\ FrmUsers' = FrmOf(recID', done.frm, chan, Locked, refList)
        /\ MvUsers' = MvOf(HeldMv, done.mv, chan, Locked, refList)
        /\ chan \in Seq(Command) /\ Locked \in SUBSET (0 .. MaxPics)
    BY <1>1, UsersAround
  <1> HIDE DEF FrmUsers, MvUsers, HeldRec, HeldMv, Locked
  <1> QED BY <1>2, HeldIs

LEMMA GetMvUsers ==
  ASSUME PipelineTypes, PipelineTypes', GetMv, mvID' \in MvIDs
  PROVE  MvUsers' = MoreOf(MvUsers, mvID') /\ FrmUsers' = FrmUsers
  <1>1. /\ HeldMv = NoMv /\ HeldMv' = mvID' /\ HeldRec' = HeldRec /\ done' = done
        /\ chan' = chan /\ Locked' = Locked /\ refList' = refList
    BY DEF GetMv, DStep, eVars, uVars, HeldRec, HoldsRec, HeldMv, HoldsMv, Begun, Locked
  <1>2. /\ FrmUsers = FrmOf(HeldRec, done.frm, chan, Locked, refList)
        /\ MvUsers = MvOf(NoMv, done.mv, chan, Locked, refList)
        /\ FrmUsers' = FrmOf(HeldRec, done.frm, chan, Locked, refList)
        /\ MvUsers' = MvOf(mvID', done.mv, chan, Locked, refList)
        /\ chan \in Seq(Command) /\ Locked \in SUBSET (0 .. MaxPics)
    BY <1>1, UsersAround
  <1> HIDE DEF FrmUsers, MvUsers, HeldRec, HeldMv, Locked
  <1> QED BY <1>2, HeldMvIs

LEMMA LockRefsUsers ==
  ASSUME PipelineInv, PipelineTypes', LockRefs
  PROVE  Locking(FrmUsers, MvUsers, FrmUsers', MvUsers', refList[blk1 % RefRing])
  <1>0. PipelineTypes
    BY DEF PipelineInv
  <1>p. pcD = "lockRefs" /\ pcD' \in Begun
    BY DEF LockRefs, DStep, Begun
  <1>b. blk1 \in 0 .. MaxPics
    BY <1>p, RanksClose DEF Preparing
  <1>1. /\ HeldRec' = HeldRec /\ HeldMv' = HeldMv /\ done' = done
        /\ chan' = chan /\ refList' = refList
    BY <1>p DEF LockRefs, DStep, eVars, uVars, HeldRec, HoldsRec, HeldMv, HoldsMv
  <1>2. Locked' = Locked \cup {blk1} /\ blk1 \notin Locked
    BY <1>p, <1>b DEF LockRefs, DStep, eVars, Locked, Begun
  <1>3. /\ FrmUsers = FrmOf(HeldRec, done.frm, chan, Locked, refList)
        /\ MvUsers = MvOf(HeldMv, done.mv, chan, Locked, refList)
        /\ FrmUsers' = FrmOf(HeldRec, done.frm, chan, Locked \cup {blk1}, refList)
        /\ MvUsers' = MvOf(HeldMv, done.mv, chan, Locked \cup {blk1}, refList)
        /\ chan \in Seq(Command) /\ Locked \in SUBSET (0 .. MaxPics)
    BY <1>0, <1>1, <1>2, UsersAround
  <1> HIDE DEF FrmUsers, MvUsers, HeldRec, HeldMv, Locked
  <1> QED BY <1>b, <1>2, <1>3, RankLocks

LEMMA CancelRefsUsers ==
  ASSUME PipelineInv, PipelineTypes', CancelRefs
  PROVE  Locking(FrmUsers', MvUsers', FrmUsers, MvUsers, refList[blk1 % RefRing])
  <1>0. PipelineTypes
    BY DEF PipelineInv
  <1>b. blk1 \in 0 .. MaxPics
    BY RanksClose DEF Preparing, CancelRefs, DStep
  <1>1. /\ HeldRec' = HeldRec /\ HeldMv' = HeldMv /\ done' = done
        /\ chan' = chan /\ refList' = refList
    BY DEF CancelRefs, DStep, eVars, uVars, HeldRec, HoldsRec, HeldMv, HoldsMv, Begun
  <1>2. Locked = Locked' \cup {blk1} /\ blk1 \notin Locked'
    BY <1>b DEF CancelRefs, DStep, eVars, Locked, Begun
  <1>3. /\ FrmUsers = FrmOf(HeldRec, done.frm, chan, Locked' \cup {blk1}, refList)
        /\ MvUsers = MvOf(HeldMv, done.mv, chan, Locked' \cup {blk1}, refList)
        /\ FrmUsers' = FrmOf(HeldRec, done.frm, chan, Locked', refList)
        /\ MvUsers' = MvOf(HeldMv, done.mv, chan, Locked', refList)
        /\ chan \in Seq(Command) /\ Locked' \in SUBSET (0 .. MaxPics)
    BY <1>0, <1>1, <1>2, UsersAround
  <1> HIDE DEF FrmUsers, MvUsers, HeldRec, HeldMv, Locked
  <1> QED BY <1>b, <1>2, <1>3, RankLocks

LEMMA UnlockRefsUsers ==
  ASSUME PipelineInv, PipelineTypes', UnlockRefs
  PROVE  Locking(FrmUsers', MvUsers', FrmUsers, MvUsers, refList[blk2 % RefRing])
  <1>0. PipelineTypes
    BY DEF PipelineInv
  <1>b. blk2 \in 0 .. MaxPics /\ blk2 < blk1 /\ blk1 \in Nat /\ blk2 \in Nat
    BY RanksClose DEF UnlockRefs, EStep
  <1>1. /\ HeldRec' = HeldRec /\ HeldMv' = HeldMv /\ done' = done
        /\ chan' = chan /\ refList' = refList
    BY DEF UnlockRefs, EStep, dVars, uVars, HeldRec, HoldsRec, HeldMv, HoldsMv, Begun
  <1>2. Locked = Locked' \cup {blk2} /\ blk2 \notin Locked'
    BY <1>b DEF UnlockRefs, EStep, dVars, Locked, Begun
  <1>3. /\ FrmUsers = FrmOf(HeldRec, done.frm, chan, Locked' \cup {blk2}, refList)
        /\ MvUsers = MvOf(HeldMv, done.mv, chan, Locked' \cup {blk2}, refList)
        /\ FrmUsers' = FrmOf(HeldRec, done.frm, chan, Locked', refList)
        /\ MvUsers' = MvOf(HeldMv, done.mv, chan, Locked', refList)
        /\ chan \in Seq(Command) /\ Locked' \in SUBSET (0 .. MaxPics)
    BY <1>0, <1>1, <1>2, UsersAround
  <1> HIDE DEF FrmUsers, MvUsers, HeldRec, HeldMv, Locked
  <1> QED BY <1>b, <1>2, <1>3, RankLocks

\* The users after are those before, but for one of slot s and motion vector buffer m.
Leaving(f, h, g, k, s, m) ==
    g = LessOf(f, s) /\ k = LessOf(h, m) /\ f[s] >= 1 /\ h[m] >= 1

LEMMA CancelFrameUsers ==
  ASSUME PipelineInv, PipelineTypes', CancelFrame
  PROVE  /\ recID \in Slots /\ mvID \in MvIDs
         /\ Leaving(FrmUsers, MvUsers, FrmUsers', MvUsers', recID, mvID)
  <1>0. PipelineTypes
    BY DEF PipelineInv
  <1>p. HoldsRec /\ HoldsMv
    BY DEF CancelFrame, DStep, HoldsRec, HoldsMv, Begun
  <1>q. recID \in Slots /\ mvID \in MvIDs
    BY <1>p DEF PipelineInv, PictureInv
  <1>1. /\ HeldRec = recID /\ HeldMv = mvID /\ HeldRec' = NoSlot /\ HeldMv' = NoMv
        /\ done' = done /\ chan' = chan /\ refList' = refList
    BY <1>p DEF CancelFrame, DStep, eVars, uVars, HeldRec, HeldMv
  <1>2. Locked' = Locked
    BY DEF CancelFrame, DStep, eVars, Locked, Begun
  <1>3. /\ FrmUsers = FrmOf(recID, done.frm, chan, Locked, refList)
        /\ MvUsers = MvOf(mvID, done.mv, chan, Locked, refList)
        /\ FrmUsers' = FrmOf(NoSlot, done.frm, chan, Locked, refList)
        /\ MvUsers' = MvOf(NoMv, done.mv, chan, Locked, refList)
        /\ chan \in Seq(Command) /\ Locked \in SUBSET (0 .. MaxPics)
    BY <1>0, <1>1, <1>2, UsersAround
  <1> HIDE DEF FrmUsers, MvUsers, HeldRec, HeldMv, Locked
  <1>4. FrmUsers' = LessOf(FrmUsers, recID) /\ FrmUsers[recID] >= 1
    BY <1>q, <1>3, HeldIs
  <1>5. MvUsers' = LessOf(MvUsers, mvID) /\ MvUsers[mvID] >= 1
    BY <1>q, <1>3, HeldMvIs
  <1> QED BY <1>q, <1>4, <1>5 DEF Leaving

LEMMA UnlockPictureUsers ==
  ASSUME PipelineInv, PipelineTypes', UnlockPicture
  PROVE  /\ done.frm \in Slots /\ done.mv \in MvIDs
         /\ Leaving(FrmUsers, MvUsers, FrmUsers', MvUsers', done.frm, done.mv)
  <1>0. PipelineTypes
    BY DEF PipelineInv
  <1>q. done \in Command
    BY DEF UnlockPicture, EStep, PipelineInv, PictureInv
  <1>r. done.frm \in Slots /\ done.mv \in MvIDs
    BY <1>q DEF Command
  <1>1. /\ HeldRec' = HeldRec /\ HeldMv' = HeldMv /\ done'.frm = NoSlot /\ done'.mv = NoMv
        /\ chan' = chan /\ refList' = refList
    BY DEF UnlockPicture, EStep, dVars, uVars, HeldRec, HeldMv, HoldsRec, HoldsMv, NoCommand
  <1>2. Locked' = Locked
    BY DEF UnlockPicture, EStep, dVars, Locked, Begun
  <1> DEFINE s == done.frm
             m == done.mv
  <1>3. /\ FrmUsers = FrmOf(HeldRec, s, chan, Locked, refList)
        /\ MvUsers = MvOf(HeldMv, m, chan, Locked, refList)
        /\ FrmUsers' = FrmOf(HeldRec, NoSlot, chan, Locked, refList)
        /\ MvUsers' = MvOf(HeldMv, NoMv, chan, Locked, refList)
        /\ chan \in Seq(Command) /\ Locked \in SUBSET (0 .. MaxPics)
    BY <1>0, <1>1, <1>2, UsersAround
  <1>s. s \in Slots /\ m \in MvIDs
    BY <1>r
  <1> HIDE DEF FrmUsers, MvUsers, HeldRec, HeldMv, Locked, s, m
  <1>4. /\ FrmOf(HeldRec, NoSlot, chan, Locked, refList) = FrmOf(NoSlot, HeldRec, chan, Locked, refList)
        /\ MvOf(HeldMv, NoMv, chan, Locked, refList) = MvOf(NoMv, HeldMv, chan, Locked, refList)
    BY <1>3, HeldSwap
  <1>8. /\ FrmOf(HeldRec, s, chan, Locked, refList) = FrmOf(s, HeldRec, chan, Locked, refList)
        /\ MvOf(HeldMv, m, chan, Locked, refList) = MvOf(m, HeldMv, chan, Locked, refList)
    BY <1>3, HeldSwap
  <1>9. /\ FrmUsers = FrmOf(s, HeldRec, chan, Locked, refList)
        /\ FrmUsers' = FrmOf(NoSlot, HeldRec, chan, Locked, refList)
        /\ MvUsers = MvOf(m, HeldMv, chan, Locked, refList)
        /\ MvUsers' = MvOf(NoMv, HeldMv, chan, Locked, refList)
    BY <1>3, <1>4, <1>8
  <1>5. FrmUsers' = LessOf(FrmUsers, s) /\ FrmUsers[s] >= 1
    BY <1>s, <1>3, <1>9, HeldIs
  <1>6. MvUsers' = LessOf(MvUsers, m) /\ MvUsers[m] >= 1
    BY <1>s, <1>3, <1>9, HeldMvIs
  <1>7. Leaving(FrmUsers, MvUsers, FrmUsers', MvUsers', s, m)
    BY <1>5, <1>6 DEF Leaving
  <1> QED BY <1>s, <1>7 DEF s, m

LEMMA LaunchUsers ==
  ASSUME PipelineInv, PipelineTypes', Launch, Sized
  PROVE  Current \in Command /\ chan' = Append(chan, Current) /\ UsersKept
  <1>0. PipelineTypes
    BY DEF PipelineInv
  <1>p. HoldsRec /\ HoldsMv
    BY DEF Launch, HoldsRec, HoldsMv, Begun
  <1>q. recID \in Slots /\ mvID \in MvIDs
    BY <1>p DEF PipelineInv, PictureInv
  <1>b. blk1 \in 0 .. MaxPics /\ blk2 \in Nat /\ blk2 <= blk1 /\ MaxPics \in Nat
    BY RanksClose DEF Launch, Preparing, Begun
  <1>r. blk1 % RefRing \in 0 .. RefRing - 1
    BY <1>b, RingPlace
  <1>s. refList[blk1 % RefRing] \in Seq(Slots \X MvIDs)
    BY <1>0, <1>r DEF PipelineTypes
  <1>1. Current \in Command
    BY <1>q, <1>s DEF Current, Command
  <1>2. chan' = Append(chan, Current)
    BY DEF Launch, Sized
  <1>3. /\ HeldRec = recID /\ HeldMv = mvID /\ HeldRec' = NoSlot /\ HeldMv' = NoMv
        /\ done' = done /\ refList' = refList
    BY <1>p DEF Launch, eVars, HeldRec, HeldMv, HoldsRec, HoldsMv, Begun
  <1>a. pcE \in {"unlockRefs", "advance"} => blk2 < blk1
    BY RanksClose
  <1>4. Locked' = Locked
    BY <1>b, <1>a DEF Launch, eVars, Locked, Begun
  <1>5. Current.frm = recID /\ Current.mv = mvID
    BY DEF Current
  <1> DEFINE e == Current
  <1>6. /\ FrmUsers = FrmOf(e.frm, done.frm, chan, Locked, refList)
        /\ MvUsers = MvOf(e.mv, done.mv, chan, Locked, refList)
        /\ FrmUsers' = FrmOf(NoSlot, done.frm, Append(chan, e), Locked, refList)
        /\ MvUsers' = MvOf(NoMv, done.mv, Append(chan, e), Locked, refList)
        /\ chan \in Seq(Command) /\ Locked \in SUBSET (0 .. MaxPics)
    BY <1>0, <1>2, <1>3, <1>4, <1>5, UsersAround
  <1>7. e \in Command
    BY <1>1
  <1> HIDE DEF FrmUsers, MvUsers, HeldRec, HeldMv, Locked, e
  <1>8. FrmUsers' = FrmUsers /\ MvUsers' = MvUsers
    BY <1>6, <1>7, EndHeld, EndHeldMv
  <1> QED BY <1>1, <1>2, <1>8 DEF UsersKept

LEMMA EndCommandUsers ==
  ASSUME PipelineInv, PipelineTypes', EndCommand
  PROVE  Head(chan) \in Command /\ Head(chan) = chan[1] /\ UsersKept
  <1>0. PipelineTypes
    BY DEF PipelineInv
  <1>1. chan # <<>> /\ done = NoCommand
    BY DEF EndCommand, EStep, PipelineInv, PictureInv
  <1>2. Head(chan) \in Command /\ Head(chan) = chan[1]
    BY <1>0, <1>1, SeqHead DEF PipelineTypes
  <1>3. /\ HeldRec' = HeldRec /\ HeldMv' = HeldMv /\ done.frm = NoSlot /\ done.mv = NoMv
        /\ done' = Head(chan) /\ chan' = Tail(chan) /\ refList' = refList
    BY <1>1 DEF EndCommand, EStep, dVars, HeldRec, HeldMv, HoldsRec, HoldsMv, NoCommand
  <1>4. Locked' = Locked
    BY DEF EndCommand, EStep, dVars, Locked, Begun
  <1>5. /\ FrmUsers = FrmOf(HeldRec, NoSlot, chan, Locked, refList)
        /\ MvUsers = MvOf(HeldMv, NoMv, chan, Locked, refList)
        /\ FrmUsers' = FrmOf(HeldRec, Head(chan).frm, Tail(chan), Locked, refList)
        /\ MvUsers' = MvOf(HeldMv, Head(chan).mv, Tail(chan), Locked, refList)
        /\ chan \in Seq(Command) /\ Locked \in SUBSET (0 .. MaxPics)
    BY <1>0, <1>3, <1>4, UsersAround
  <1> HIDE DEF FrmUsers, MvUsers, HeldRec, HeldMv, Locked
  <1>6. FrmUsers' = FrmUsers /\ MvUsers' = MvUsers
    BY <1>1, <1>5, HeadHeld
  <1> QED BY <1>2, <1>6 DEF UsersKept
-----------------------------------------------------------------------------
(* The picture manager is whole after each step *)
MngrNext == MngrInv(ctx', FrmUsers', MvUsers', user', Shown')

LEMMA MngrNow ==
  ASSUME PipelineInv
  PROVE  /\ MngrInv(ctx, FrmUsers, MvUsers, user, Shown) /\ Users(FrmUsers, MvUsers)
         /\ PipelineTypes /\ ctx \in PictMngrs
  <1>1. MngrInv(ctx, FrmUsers, MvUsers, user, Shown) /\ PipelineTypes
    BY DEF PipelineInv
  <1>2. Users(FrmUsers, MvUsers)
    BY <1>1, UsersWhole
  <1> QED BY <1>1, <1>2 DEF MngrInv

LEMMA StillStep ==
  ASSUME PipelineInv, UsersKept, ctx' = ctx, user' = user, Shown' = Shown
  PROVE  MngrNext /\ Gentle(ctx, ctx')
  <1>1. MngrInv(ctx, FrmUsers, MvUsers, user, Shown)
    BY MngrNow
  <1>2. MngrNext
    BY <1>1 DEF MngrNext, UsersKept
  <1> QED BY <1>2 DEF Gentle, SamePicts

\* When the pool keeps what is held, so does the picture manager.
LEMMA DroppedGentle ==
  ASSUME NEW x, NEW y, Dropped(x, y)
  PROVE  Gentle(x, y)
  BY DEF Dropped, PoolKept, Gentle

LEMMA TookGentle ==
  ASSUME NEW x, NEW y, SamePicts(x, y), y.pool.buf = x.pool.buf, y.pool.out = x.pool.out
  PROVE  Gentle(x, y)
  BY DEF Gentle

LEMMA CallDisplayCtx ==
  ASSUME PipelineInv, UsersKept, NEW t \in CallbackThreads, ~Shown, CallDisplay(t)
  PROVE  MngrNext /\ Gentle(ctx, ctx')
  <1>1. /\ MngrInv(ctx, FrmUsers, MvUsers, user, Shown) /\ Users(FrmUsers, MvUsers)
        /\ showing \in [CallbackThreads -> Bufs \cup {NoBuf}]
    BY MngrNow DEF PipelineTypes
  <1> DEFINE s == GetDisplayBuffer(ctx)
             b == ctx.pool.buf[s]
  <1>2. /\ s # NoSlot /\ user' = user \cup {b} /\ ctx' = ctx
        /\ showing' = [showing EXCEPT ![t] = b]
    BY DEF CallDisplay
  <1>3. s = GetDisplayBuffer(ctx) /\ b = ctx.pool.buf[s]
    OBVIOUS
  <1> HIDE DEF s, b, FrmUsers, MvUsers, Shown
  <1>4. b \in Bufs
    BY <1>1, <1>2, <1>3, ShownBuffer
  <1>5. Shown'
    <2>1. showing'[t] = b
      BY <1>1, <1>2
    <2>2. b # NoBuf
      BY <1>4, FrmBufPoolAssumption
    <2> QED BY <2>1, <2>2 DEF Shown
  <1>6. MngrInv(ctx, FrmUsers, MvUsers, user \cup {b}, Shown')
    BY <1>1, <1>2, <1>3, <1>5, ShowIs
  <1>7. MngrNext
    BY <1>2, <1>6 DEF MngrNext, UsersKept
  <1> QED BY <1>2, <1>7 DEF Gentle, SamePicts

\* The event, or the flag of the end, changes in the pool.
LEMMA SignalCtx ==
  ASSUME PipelineInv, UsersKept, user' = user, Shown' = Shown,
         NEW r, ctx' = [ctx EXCEPT !.pool = r], Signalled(ctx.pool, r)
  PROVE  MngrNext /\ Gentle(ctx, ctx')
  <1>1. MngrInv(ctx, FrmUsers, MvUsers, user, Shown) /\ Users(FrmUsers, MvUsers)
    BY MngrNow
  <1> DEFINE x == ctx
             y == ctx'
             f == FrmUsers
             g == MvUsers
             u == user
             h == Shown
  <1>2. MngrInv(x, f, g, u, h) /\ y = [x EXCEPT !.pool = r] /\ Signalled(x.pool, r)
    BY <1>1
  <1> HIDE DEF x, y, f, g, u, h
  <1>3. /\ MngrInv(y, f, g, u, h) /\ SamePicts(x, y)
        /\ y.pool.buf = x.pool.buf /\ y.pool.out = x.pool.out
    <2>1. MngrInv(y, f, g, u, h)
      BY <1>2, SignalIs
    <2>2. SamePicts(x, y)
      BY <1>2, SignalIs
    <2>3. y.pool.buf = x.pool.buf
      BY <1>2, SignalIs, ZenonT(40)
    <2>4. y.pool.out = x.pool.out
      BY <1>2, SignalIs, ZenonT(40)
    <2> QED BY <2>1, <2>2, <2>3, <2>4
  <1>4. Gentle(x, y)
    BY <1>3, TookGentle
  <1> QED BY <1>3, <1>4 DEF MngrNext, UsersKept, x, y, f, g, u, h

LEMMA PopWakesUpCtx ==
  ASSUME PipelineInv, UsersKept, PopWakesUp
  PROVE  MngrNext /\ Gentle(ctx, ctx')
  <1>1. ctx.pool \in FrmBufPools /\ ctx \in PictMngrs
    BY MngrNow, MngrTypes
  <1> DEFINE p == ctx.pool
             r == [p EXCEPT !.event = FALSE]
  <1>2. ctx' = [ctx EXCEPT !.pool = r] /\ user' = user /\ showing' = showing
    BY <1>1 DEF PopWakesUp, DStep, uVars, PictMngrs
  <1>3. p \in FrmBufPools
    BY <1>1
  <1> HIDE DEF p
  <1>4. Signalled(p, r)
    BY <1>3 DEF Signalled, FrmBufPools
  <1>5. Shown' = Shown
    BY <1>2 DEF Shown
  <1> HIDE DEF r
  <1> QED BY <1>2, <1>4, <1>5, SignalCtx DEF p

LEMMA DecommitCtx ==
  ASSUME PipelineInv, UsersKept, DecommitPool
  PROVE  MngrNext /\ Gentle(ctx, ctx')
  <1>1. ctx.pool \in FrmBufPools /\ ctx \in PictMngrs
    BY MngrNow, MngrTypes
  <1> DEFINE p == ctx.pool
             r == Decommit(p)
  <1>2. ctx' = [ctx EXCEPT !.pool = r] /\ user' = user /\ showing' = showing
    BY <1>1 DEF DecommitPool, UStep, PictMngrs
  <1>3. p \in FrmBufPools
    BY <1>1
  <1> HIDE DEF p
  <1>4. Signalled(p, r)
    BY <1>3 DEF Signalled, FrmBufPools, Decommit
  <1>5. Shown' = Shown
    BY <1>2 DEF Shown
  <1> HIDE DEF r
  <1> QED BY <1>2, <1>4, <1>5, SignalCtx DEF p

LEMMA PutDecPictCtx ==
  ASSUME PipelineInv, UsersKept, Sized, NEW b \in Bufs, PutDecPict(b)
  PROVE  MngrNext /\ Gentle(ctx, ctx')
  <1>1. MngrInv(ctx, FrmUsers, MvUsers, user, Shown) /\ Users(FrmUsers, MvUsers)
    BY MngrNow
  <1> DEFINE x == ctx
             y == ctx'
             f == FrmUsers
             g == MvUsers
             u == user
             h == Shown
  <1>2. /\ u \subseteq Bufs /\ b \in u /\ user' = u \ {b} /\ showing' = showing
        /\ y = [x EXCEPT !.pool = PutDisplayBuffer(@, b)]
    BY DEF PipelineInv, PipelineTypes, PutDecPict, UStep
  <1>3. MngrInv(x, f, g, u, h) /\ BufsFit /\ Users(f, g)
    BY <1>1 DEF Sized
  <1>5. Shown' = Shown
    BY <1>2 DEF Shown
  <1> HIDE DEF x, y, f, g, u, h
  <1>6. MngrInv(y, f, g, u \ {b}, h) /\ GotBack(x, y)
    BY <1>2, <1>3, GetBackIs
  <1>7. Gentle(x, y)
    BY <1>6 DEF GotBack, Gentle
  <1> QED BY <1>2, <1>5, <1>6, <1>7 DEF MngrNext, UsersKept, x, y, f, g, u, h

LEMMA ReleaseUnusedCtx ==
  ASSUME PipelineInv, UsersKept, ReleaseUnused
  PROVE  MngrNext /\ Gentle(ctx, ctx')
  <1>1. MngrInv(ctx, FrmUsers, MvUsers, user, Shown) /\ Users(FrmUsers, MvUsers)
    BY MngrNow
  <1> DEFINE x == ctx
             y == ctx'
             f == FrmUsers
             g == MvUsers
             u == user
             h == Shown
             b == ctx.pool.buf[ctx.pool.head]
  <1>2. /\ user' = u \cup {b} /\ showing' = showing /\ b = x.pool.buf[x.pool.head]
        /\ FifoSlots(x.pool) # <<>>
        /\ y = [x EXCEPT !.pool = SignalCallbackReleaseIsDone(FlushOneDisplayBuffer(@), b)]
    BY DEF ReleaseUnused, UStep
  <1>3. MngrInv(x, f, g, u, h) /\ Users(f, g)
    BY <1>1
  <1>5. Shown' = Shown
    BY <1>2 DEF Shown
  <1> HIDE DEF x, y, f, g, u, h, b
  <1>6. MngrInv(y, f, g, u \cup {b}, h)
    BY <1>2, <1>3, UnusedIs
  <1>7. Gentle(x, y)
    BY <1>2, <1>3, UnusedIs
  <1> QED BY <1>2, <1>5, <1>6, <1>7 DEF MngrNext, UsersKept, x, y, f, g, u, h

\* The buffer that D pops is in no list.
LEMMA PopBufferCtx ==
  ASSUME PipelineInv, PipelineTypes', PopBuffer
  PROVE  /\ MngrNext /\ Gentle(ctx, ctx') /\ FrmUsers[recID'] = 0 /\ recID' \in Slots
         /\ NoneHeld(ctx, recID') /\ ~ctx.pool.out[recID'] /\ ctx.status[recID'] = "notNeeded"
  <1>1. MngrInv(ctx, FrmUsers, MvUsers, user, Shown) /\ Users(FrmUsers, MvUsers)
    BY MngrNow
  <1> DEFINE x == ctx
             y == ctx'
             f == FrmUsers
             g == MvUsers
             u == user
             h == Shown
             s == ctx.pool.head
  <1>2. /\ x.pool.number > 0 /\ y = [x EXCEPT !.pool = Pop(@)] /\ s = x.pool.head
        /\ recID' = s /\ user' = user /\ showing' = showing
    BY DEF PopBuffer, DStep, uVars
  <1>3. MngrInv(x, f, g, u, h) /\ Users(f, g)
    BY <1>1
  <1>4. Shown' = Shown
    BY <1>2 DEF Shown
  <1> HIDE DEF x, y, f, g, u, h, s
  <1>5. MngrInv(y, MoreOf(f, s), g, u, h)
    BY <1>2, <1>3, PopBufferIs
  <1>6. NewSlot(x, y, s)
    BY <1>2, <1>3, PopBufferIs
  <1>7. f[s] = 0
    BY <1>2, <1>3, PopBufferIs
  <1>8. Gentle(x, y)
    BY <1>6, TookGentle DEF NewSlot
  <1>9. recID' \in Slots
    BY <1>2, <1>6 DEF NewSlot
  <1>10. FrmUsers' = MoreOf(FrmUsers, recID') /\ MvUsers' = MvUsers
    BY <1>9, PopBufferUsers DEF PipelineInv
  <1>11. MngrNext
    BY <1>2, <1>4, <1>5, <1>10 DEF MngrNext, x, y, f, g, u, h
  <1> QED BY <1>2, <1>6, <1>7, <1>8, <1>9, <1>11 DEF NewSlot, x, y, f

LEMMA GetMvCtx ==
  ASSUME PipelineInv, PipelineTypes', GetMv
  PROVE  MngrNext /\ Gentle(ctx, ctx') /\ mvID' \in MvIDs /\ NoMvHeld(ctx, mvID')
  <1>1. MngrInv(ctx, FrmUsers, MvUsers, user, Shown) /\ Users(FrmUsers, MvUsers)
    BY MngrNow
  <1> DEFINE x == ctx
             y == ctx'
             f == FrmUsers
             g == MvUsers
             u == user
             h == Shown
             m == ctx.mv.free[Len(ctx.mv.free)]
  <1>2. /\ x.mv.sem > 0 /\ y = [x EXCEPT !.mv = GetFreeBufID(@)] /\ m = x.mv.free[Len(x.mv.free)]
        /\ mvID' = m /\ user' = user /\ showing' = showing
    BY DEF GetMv, DStep, uVars
  <1>3. MngrInv(x, f, g, u, h) /\ Users(f, g)
    BY <1>1
  <1>4. Shown' = Shown
    BY <1>2 DEF Shown
  <1> HIDE DEF x, y, f, g, u, h, m
  <1>5. MngrInv(y, f, MoreOf(g, m), u, h)
    BY <1>2, <1>3, GetMvIs
  <1>6. NewMv(x, y, m)
    BY <1>2, <1>3, GetMvIs
  <1>8. Gentle(x, y)
    BY <1>6, TookGentle DEF NewMv
  <1>9. mvID' \in MvIDs
    BY <1>2, <1>6 DEF NewMv
  <1>10. MvUsers' = MoreOf(MvUsers, mvID') /\ FrmUsers' = FrmUsers
    BY <1>9, GetMvUsers DEF PipelineInv
  <1>11. MngrNext
    BY <1>2, <1>4, <1>5, <1>10 DEF MngrNext, x, y, f, g, u, h
  <1> QED BY <1>2, <1>6, <1>8, <1>9, <1>11 DEF NewMv, x, y

\* The pictures that D locks are in the DPB.
LEMMA ListedHeld ==
  ASSUME NEW x, x \in PictMngrs, NodesWhole(x), NEW r, NamesNode(x, r)
  PROVE  r[1] \in Slots /\ r[2] \in MvIDs /\ ~NoneHeld(x, r[1]) /\ ~NoMvHeld(x, r[2])
  <1>1. PICK i \in 1 .. Len(x.nodes) :
           ~x.nodes[i].nonExisting /\ r = <<x.nodes[i].frm, x.nodes[i].mv>>
    BY DEF NamesNode
  <1>2. r[1] = x.nodes[i].frm /\ r[2] = x.nodes[i].mv
    BY <1>1
  <1> QED BY <1>1, <1>2 DEF NodesWhole, NoneHeld, NoMvHeld

LEMMA LockRefsCtx ==
  ASSUME PipelineInv, PipelineTypes', LockRefs
  PROVE  MngrNext /\ Gentle(ctx, ctx')
  <1>1. MngrInv(ctx, FrmUsers, MvUsers, user, Shown) /\ Users(FrmUsers, MvUsers)
    BY MngrNow
  <1>p. pcD = "lockRefs"
    BY DEF LockRefs, DStep
  <1>b. blk1 \in Nat
    BY RanksClose
  <1>c. blk1 % RefRing \in 0 .. RefRing - 1
    BY <1>b, RingPlace
  <1> DEFINE x == ctx
             y == ctx'
             f == FrmUsers
             g == MvUsers
             u == user
             h == Shown
             list == refList[blk1 % RefRing]
             J == 1 .. Len(list)
  <1>2. y = LockRefID(x, list) /\ user' = user /\ showing' = showing
    BY DEF LockRefs, DStep, uVars
  <1>3. MngrInv(x, f, g, u, h) /\ Users(f, g)
    BY <1>1
  <1>4. Shown' = Shown
    BY <1>2 DEF Shown
  <1>5. list \in Seq(Slots \X MvIDs)
    BY <1>c DEF PipelineInv, PipelineTypes
  <1>6. Distinct(list)
    BY <1>p DEF PipelineInv, ReferencesInv, RefsOf
  <1>7. \A j \in 1 .. Len(list) : NamesNode(x, list[j])
    BY <1>p DEF PipelineInv, ReferencesInv, RefsOf, NamesNode
  <1>8. Locking(f, g, FrmUsers', MvUsers', list)
    BY LockRefsUsers
  <1>j. J = 1 .. Len(list)
    OBVIOUS
  <1> HIDE DEF x, y, f, g, u, h, list, J
  <1>9. \A j \in 1 .. Len(list) : ~NoneHeld(x, list[j][1]) /\ ~NoMvHeld(x, list[j][2])
    BY <1>3, <1>7, ListedHeld DEF MngrInv
  <1>10. MngrInv(y, WithFrm(f, list, J), WithMv(g, list, J), u, h)
    BY <1>j, <1>2, <1>3, <1>5, <1>6, <1>9, LockListIs
  <1>11. Took(x, y)
    BY <1>j, <1>2, <1>3, <1>5, <1>6, <1>9, LockListIs
  <1>12. Gentle(x, y)
    BY <1>11, TookGentle DEF Took
  <1>13. FrmUsers' = WithFrm(f, list, J) /\ MvUsers' = WithMv(g, list, J)
    BY <1>8, <1>j DEF Locking
  <1> QED BY <1>2, <1>4, <1>10, <1>12, <1>13 DEF MngrNext, x, y, u, h

\* The references of a list are dropped.
LEMMA UnlockCtx ==
  ASSUME PipelineInv, PipelineTypes', Sized, NEW i \in Locked,
         ctx' = UnlockRefID(ctx, refList[i % RefRing]), user' = user, showing' = showing,
         Locking(FrmUsers', MvUsers', FrmUsers, MvUsers, refList[i % RefRing])
  PROVE  MngrNext /\ Gentle(ctx, ctx')
  <1>1. MngrInv(ctx, FrmUsers, MvUsers, user, Shown) /\ Users(FrmUsers, MvUsers)
    BY MngrNow
  <1>t. Users(FrmUsers', MvUsers')
    <2>1. /\ FrmUsers' = FrmOf(HeldRec', done'.frm, chan', Locked', refList')
          /\ MvUsers' = MvOf(HeldMv', done'.mv, chan', Locked', refList')
          /\ chan' \in Seq(Command) /\ Locked' \in SUBSET (0 .. MaxPics)
      BY UsersAround DEF PipelineInv
    <2> HIDE DEF FrmUsers, MvUsers, HeldRec, HeldMv, Locked
    <2> QED BY <2>1, FrmOfType DEF Users
  <1>b. i \in Nat
    BY DEF Locked
  <1>c. i % RefRing \in 0 .. RefRing - 1
    BY <1>b, RingPlace
  <1> DEFINE x == ctx
             y == ctx'
             f == FrmUsers'
             g == MvUsers'
             u == user
             h == Shown
             list == refList[i % RefRing]
             J == 1 .. Len(list)
  <1>2. y = UnlockRefID(x, list)
    OBVIOUS
  <1>4. Shown' = Shown
    BY DEF Shown
  <1>5. list \in Seq(Slots \X MvIDs)
    BY <1>c DEF PipelineInv, PipelineTypes
  <1>6. Distinct(list)
    BY DEF PipelineInv, ReferencesInv, RefsOf
  <1>8. Locking(f, g, FrmUsers, MvUsers, list)
    OBVIOUS
  <1>9. FrmUsers = WithFrm(f, list, J) /\ MvUsers = WithMv(g, list, J)
    BY <1>8 DEF Locking
  <1>3. MngrInv(x, WithFrm(f, list, J), WithMv(g, list, J), u, h)
        /\ Users(WithFrm(f, list, J), WithMv(g, list, J)) /\ Users(f, g) /\ BufsFit
    BY <1>1, <1>9, <1>t DEF Sized
  <1>j. J = 1 .. Len(list)
    OBVIOUS
  <1> HIDE DEF x, y, f, g, u, h, list, J
  <1>10. MngrInv(y, f, g, u, h)
    BY <1>j, <1>2, <1>3, <1>5, <1>6, UnlockListIs
  <1>11. Dropped(x, y)
    BY <1>j, <1>2, <1>3, <1>5, <1>6, UnlockListIs
  <1>12. Gentle(x, y)
    BY <1>11, DroppedGentle
  <1> QED BY <1>4, <1>10, <1>12 DEF MngrNext, x, y, f, g, u, h

LEMMA CancelRefsCtx ==
  ASSUME PipelineInv, PipelineTypes', Sized, CancelRefs
  PROVE  MngrNext /\ Gentle(ctx, ctx')
  <1>1. blk1 \in Locked
    <2>1. blk1 \in 0 .. MaxPics /\ pcD = "cancelRefs"
      BY RanksClose DEF Preparing, CancelRefs, DStep
    <2> QED BY <2>1 DEF Locked
  <1>2. /\ ctx' = UnlockRefID(ctx, refList[blk1 % RefRing])
        /\ user' = user /\ showing' = showing
    BY DEF CancelRefs, DStep, uVars
  <1>3. Locking(FrmUsers', MvUsers', FrmUsers, MvUsers, refList[blk1 % RefRing])
    BY CancelRefsUsers
  <1> HIDE DEF Locked, FrmUsers, MvUsers
  <1> QED BY <1>1, <1>2, <1>3, UnlockCtx

LEMMA UnlockRefsCtx ==
  ASSUME PipelineInv, PipelineTypes', Sized, UnlockRefs
  PROVE  MngrNext /\ Gentle(ctx, ctx')
  <1>1. blk2 \in Locked
    <2>1. blk2 \in 0 .. MaxPics /\ blk2 < blk1 /\ pcE = "unlockRefs" /\ blk2 \in Nat
      BY RanksClose DEF UnlockRefs, EStep
    <2> QED BY <2>1 DEF Locked
  <1>2. /\ ctx' = UnlockRefID(ctx, refList[blk2 % RefRing])
        /\ user' = user /\ showing' = showing
    BY DEF UnlockRefs, EStep, uVars
  <1>3. Locking(FrmUsers', MvUsers', FrmUsers, MvUsers, refList[blk2 % RefRing])
    BY UnlockRefsUsers
  <1> HIDE DEF Locked, FrmUsers, MvUsers
  <1> QED BY <1>1, <1>2, <1>3, UnlockCtx

\* The references of a picture are dropped.
LEMMA UnlockPictCtx ==
  ASSUME PipelineInv, Sized, NEW s \in Slots, NEW m \in MvIDs,
         ctx' = UnlockID(ctx, s, m), user' = user, showing' = showing,
         Leaving(FrmUsers, MvUsers, FrmUsers', MvUsers', s, m)
  PROVE  MngrNext /\ Gentle(ctx, ctx')
  <1>1. MngrInv(ctx, FrmUsers, MvUsers, user, Shown) /\ Users(FrmUsers, MvUsers)
    BY MngrNow
  <1> DEFINE x == ctx
             y == ctx'
             f == FrmUsers
             g == MvUsers
             u == user
             h == Shown
  <1>2. y = UnlockID(x, s, m)
    OBVIOUS
  <1>4. Shown' = Shown
    BY DEF Shown
  <1>3. MngrInv(x, f, g, u, h) /\ Users(f, g) /\ BufsFit
    BY <1>1 DEF Sized
  <1>5. FrmUsers' = LessOf(f, s) /\ MvUsers' = LessOf(g, m) /\ f[s] >= 1 /\ g[m] >= 1
    BY DEF Leaving
  <1> HIDE DEF x, y, f, g, u, h
  <1>10. MngrInv(y, LessOf(f, s), LessOf(g, m), u, h)
    BY <1>2, <1>3, <1>5, UnlockIDIs
  <1>11. Dropped(x, y)
    BY <1>2, <1>3, <1>5, UnlockIDIs
  <1>12. Gentle(x, y)
    BY <1>11, DroppedGentle
  <1> QED BY <1>4, <1>5, <1>10, <1>12 DEF MngrNext, x, y, u, h

LEMMA CancelFrameCtx ==
  ASSUME PipelineInv, PipelineTypes', Sized, CancelFrame
  PROVE  MngrNext /\ Gentle(ctx, ctx')
  <1>1. /\ ctx' = UnlockID(ctx, recID, mvID) /\ user' = user /\ showing' = showing
    BY DEF CancelFrame, DStep, uVars
  <1>2. /\ recID \in Slots /\ mvID \in MvIDs
        /\ Leaving(FrmUsers, MvUsers, FrmUsers', MvUsers', recID, mvID)
    BY CancelFrameUsers
  <1> HIDE DEF FrmUsers, MvUsers
  <1> QED BY <1>1, <1>2, UnlockPictCtx

LEMMA UnlockPictureCtx ==
  ASSUME PipelineInv, PipelineTypes', Sized, UnlockPicture
  PROVE  MngrNext /\ Gentle(ctx, ctx')
  <1>1. /\ ctx' = UnlockID(ctx, done.frm, done.mv) /\ user' = user /\ showing' = showing
    BY DEF UnlockPicture, EStep, uVars
  <1>2. /\ done.frm \in Slots /\ done.mv \in MvIDs
        /\ Leaving(FrmUsers, MvUsers, FrmUsers', MvUsers', done.frm, done.mv)
    BY UnlockPictureUsers
  <1> HIDE DEF FrmUsers, MvUsers
  <1> QED BY <1>1, <1>2, UnlockPictCtx

LEMMA KeptStep ==
  ASSUME UsersKept, user' = user, showing' = showing,
         MngrInv(ctx', FrmUsers, MvUsers, user, Shown)
  PROVE  MngrNext
  <1>1. Shown' = Shown
    BY DEF Shown
  <1> HIDE DEF FrmUsers, MvUsers, Shown
  <1> QED BY <1>1 DEF MngrNext, UsersKept

\* The steps of the DPB: the pictures that leave it go to the display list.
LEMMA FlushCtx ==
  ASSUME PipelineInv, UsersKept, ctx' = Flush(ctx), user' = user, showing' = showing
  PROVE  MngrNext /\ Thinned(ctx, ctx') /\ ctx'.nodes = <<>>
  <1>1. MngrInv(ctx, FrmUsers, MvUsers, user, Shown) /\ Users(FrmUsers, MvUsers)
    BY MngrNow
  <1> DEFINE y == ctx'
  <1>2. y = Flush(ctx)
    OBVIOUS
  <1> HIDE DEF y, FrmUsers, MvUsers, Shown
  <1>3. Sifted(ctx, y, FrmUsers, MvUsers, user, Shown) /\ y.nodes = <<>>
    BY <1>1, <1>2, FlushIs
  <1>4. MngrNext
    BY <1>3, KeptStep DEF Sifted, y
  <1> QED BY <1>3, <1>4 DEF Sifted, y

LEMMA FlushDpbCtx ==
  ASSUME PipelineInv, UsersKept, FlushDpb \/ FlushAll
  PROVE  MngrNext /\ Thinned(ctx, ctx') /\ ctx'.nodes = <<>>
  <1>1. ctx' = Flush(ctx) /\ user' = user /\ showing' = showing
    BY DEF FlushDpb, FlushAll, DStep, uVars
  <1> QED BY <1>1, FlushCtx

LEMMA ReplaceCtx ==
  ASSUME PipelineInv, UsersKept, Replace
  PROVE  MngrNext /\ Thinned(ctx, ctx')
  <1>1. MngrInv(ctx, FrmUsers, MvUsers, user, Shown) /\ Users(FrmUsers, MvUsers)
    BY MngrNow
  <1> DEFINE y == ctx'
             poc == pic.poc
  <1>2. y = ReplaceSamePOC(ctx, poc) /\ user' = user /\ showing' = showing
    BY DEF Replace, DStep, uVars
  <1> HIDE DEF y, poc, FrmUsers, MvUsers, Shown
  <1>3. Sifted(ctx, y, FrmUsers, MvUsers, user, Shown)
    BY <1>1, <1>2, ReplaceIs
  <1>4. MngrNext
    BY <1>2, <1>3, KeptStep DEF Sifted, y
  <1> QED BY <1>3, <1>4 DEF Sifted, y

LEMMA MarkRefsCtx ==
  ASSUME PipelineInv, UsersKept, MarkRefs
  PROVE  /\ MngrNext /\ Thinned(ctx, ctx')
         /\ RefCount(ctx') <= MaxRefFrames \/ RefCount(ctx') = RefCount(ctx) - 1
  <1>1. MngrInv(ctx, FrmUsers, MvUsers, user, Shown) /\ Users(FrmUsers, MvUsers)
    BY MngrNow
  <1> DEFINE y == ctx'
  <1>2. y = SlidingWindow(ctx) /\ user' = user /\ showing' = showing
    BY DEF MarkRefs, DStep, uVars
  <1> HIDE DEF y, FrmUsers, MvUsers, Shown
  <1>3. Slid(ctx, y, FrmUsers, MvUsers, user, Shown)
    BY <1>1, <1>2, SlidingIs
  <1>4. MngrNext
    BY <1>2, <1>3, KeptStep DEF Slid, Sifted, y
  <1> QED BY <1>3, <1>4 DEF Slid, Sifted, y

LEMMA CleanDpbCtx ==
  ASSUME PipelineInv, UsersKept, CleanDpb
  PROVE  /\ MngrNext /\ Thinned(ctx, ctx')
         /\ Len(ctx'.nodes) <= NumRef \/ Len(ctx'.nodes) <= RefCount(ctx)
  <1>1. MngrInv(ctx, FrmUsers, MvUsers, user, Shown) /\ Users(FrmUsers, MvUsers)
    BY MngrNow
  <1> DEFINE y == ctx'
  <1>2. y = Cleanup(ctx) /\ user' = user /\ showing' = showing
    BY DEF CleanDpb, DStep, uVars
  <1> HIDE DEF y, FrmUsers, MvUsers, Shown
  <1>3. Cleaned(ctx, y, FrmUsers, MvUsers, user, Shown)
    BY <1>1, <1>2, CleanupIs
  <1>4. MngrNext
    BY <1>2, <1>3, KeptStep DEF Cleaned, Sifted, y
  <1> QED BY <1>3, <1>4 DEF Cleaned, Sifted, y

\* The DPB has a free node for the next picture.
LEMMA NodesFew ==
  ASSUME PipelineInv, Sized, pcD \notin {"mark", "clean"}
  PROVE  Len(ctx.nodes) \in Nat /\ Len(ctx.nodes) < DpbSize
  <1>1. ctx \in PictMngrs
    BY MngrNow
  <1>2. Len(ctx.nodes) \in Nat
    BY <1>1, MngrTypes
  <1>3. Len(ctx.nodes) <= Least(NumRef)
    BY DEF PipelineInv, RoomInv, PicCount
  <1> QED BY <1>2, <1>3, PictMngrAssumption DEF Sized, Least

LEMMA ParseSliceCtx ==
  ASSUME PipelineInv, UsersKept, Sized, NEW k \in PicKinds, ParseSlice(k)
  PROVE  /\ MngrNext
         /\ (~k.gap /\ Gentle(ctx, ctx')) \/ Filled(ctx, ctx', FrmUsers, MvUsers, user, Shown)
  <1>1. MngrInv(ctx, FrmUsers, MvUsers, user, Shown) /\ Users(FrmUsers, MvUsers)
    BY MngrNow
  <1>2. user' = user /\ showing' = showing /\ pcD = "idle"
    BY DEF ParseSlice, uVars
  <1>3. CASE ~k.gap
    <2>1. ctx' = ctx
      BY <1>3 DEF ParseSlice
    <2>2. Shown' = Shown
      BY <1>2 DEF Shown
    <2> QED BY <1>2, <1>3, <2>1, <2>2, StillStep
  <1>4. CASE k.gap
    <2> DEFINE y == ctx'
               poc == k.poc
    <2>1. y = FillGap(ctx, poc) /\ poc \in Int
      BY <1>4, DecPipelineAssumption DEF ParseSlice
    <2>2. Len(ctx.nodes) < DpbSize
      BY <1>2, NodesFew
    <2> HIDE DEF y, poc, FrmUsers, MvUsers, Shown
    <2>3. Filled(ctx, y, FrmUsers, MvUsers, user, Shown)
      BY <1>1, <2>1, <2>2, FillGapIs
    <2>4. MngrNext
      BY <1>2, <2>3, KeptStep DEF Filled, y
    <2> QED BY <2>3, <2>4 DEF y
  <1> QED BY <1>3, <1>4

\* The buffers that D holds count a reference.
LEMMA HeldCounted ==
  ASSUME PipelineInv
  PROVE  /\ HoldsRec => recID \in Slots /\ FrmUsers[recID] >= 1
         /\ HoldsMv => mvID \in MvIDs /\ MvUsers[mvID] >= 1
  <1>1. /\ FrmUsers = FrmOf(HeldRec, done.frm, chan, Locked, refList)
        /\ MvUsers = MvOf(HeldMv, done.mv, chan, Locked, refList)
        /\ chan \in Seq(Command) /\ Locked \in SUBSET (0 .. MaxPics)
    BY UsersNow DEF PipelineInv, PipelineTypes, Locked
  <1>2. HoldsRec => recID \in Slots /\ HeldRec = recID
    BY DEF PipelineInv, PictureInv, HeldRec
  <1>3. HoldsMv => mvID \in MvIDs /\ HeldMv = mvID
    BY DEF PipelineInv, PictureInv, HeldMv
  <1> HIDE DEF FrmUsers, MvUsers, HeldRec, HeldMv, Locked, HoldsRec, HoldsMv
  <1>4. HoldsRec => FrmUsers[recID] >= 1
    BY <1>1, <1>2, HeldIs
  <1>5. HoldsMv => MvUsers[mvID] >= 1
    BY <1>1, <1>3, HeldMvIs
  <1> QED BY <1>2, <1>3, <1>4, <1>5

\* A slot with users has references.
LEMMA UsersCounted ==
  ASSUME NEW x, NEW frm, NEW mv, NEW u, NEW shown, Users(frm, mv),
         MngrInv(x, frm, mv, u, shown)
  PROVE  /\ \A s \in Slots : frm[s] >= 1 => RefsOn(x.pool, s) >= 1
         /\ \A m \in MvIDs : mv[m] >= 1 => x.mv.cnt[m] >= 1
  BY CountsAre DEF MngrInv

LEMMA InsertPictureCtx ==
  ASSUME PipelineInv, UsersKept, Sized, InsertPicture
  PROVE  /\ MngrNext /\ recID \in Slots
         /\ PicInserted(ctx, ctx', recID, IF pic.ref THEN "shortTerm" ELSE "unused",
                        FrmUsers, MvUsers, user, Shown)
         /\ Stored(ctx, ctx', {mvID}, 1)
  <1>1. MngrInv(ctx, FrmUsers, MvUsers, user, Shown) /\ Users(FrmUsers, MvUsers)
    BY MngrNow
  <1>2. user' = user /\ showing' = showing /\ pcD = "insert"
    BY DEF InsertPicture, DStep, uVars
  <1>h. HoldsRec /\ HoldsMv /\ pcD \in NotInserted
    BY <1>2 DEF HoldsRec, HoldsMv, Begun, NotInserted
  <1> DEFINE y == ctx'
             poc == pic.poc
             s == recID
             m == mvID
             marking == IF pic.ref THEN "shortTerm" ELSE "unused"
  <1>3. y = Insert(ctx, poc, s, m, marking, TRUE, FALSE) /\ marking \in Markings
    BY DEF InsertPicture, Markings
  <1>4. poc \in Int
    BY DecPipelineAssumption DEF PipelineInv, PipelineTypes, NoPic
  <1>5. Len(ctx.nodes) < DpbSize
    BY <1>2, NodesFew
  <1>6. Fresh(ctx, s, m)
    <2>1. s \in Slots /\ m \in MvIDs /\ FrmUsers[s] >= 1 /\ MvUsers[m] >= 1
      BY <1>h, HeldCounted
    <2>2. FrmHeld(ctx, s) = 0 /\ ~ctx.pool.out[s] /\ ctx.status[s] = "notNeeded"
          /\ MvHeld(ctx, m) = 0
      BY <1>h DEF PipelineInv, PictureInv
    <2>3. NoneHeld(ctx, s) /\ NoMvHeld(ctx, m)
      BY <1>1, <2>2, HeldNone, MngrTypes DEF MngrInv
    <2> HIDE DEF s, m, FrmUsers, MvUsers, Shown
    <2>4. RefsOn(ctx.pool, s) >= 1 /\ ctx.mv.cnt[m] >= 1
      BY <1>1, <2>1, UsersCounted
    <2> QED BY <2>1, <2>2, <2>3, <2>4 DEF Fresh
  <1>9. s \in Slots
    BY <1>6 DEF Fresh
  <1> HIDE DEF y, poc, s, m, marking, FrmUsers, MvUsers, Shown
  <1>7. PicInserted(ctx, y, s, marking, FrmUsers, MvUsers, user, Shown) /\ Stored(ctx, y, {m}, 1)
    BY <1>1, <1>3, <1>4, <1>5, <1>6, InsertIs
  <1>8. MngrNext
    BY <1>2, <1>7, KeptStep DEF PicInserted, y
  <1> QED BY <1>7, <1>8, <1>9 DEF y, s, m, marking

LEMMA EndCommandCtx ==
  ASSUME PipelineInv, PipelineTypes', Sized, EndCommand
  PROVE  /\ MngrNext /\ chan[1].frm \in Slots /\ ctx.status[chan[1].frm] = "notReady"
         /\ Ended(ctx, ctx', chan[1].frm, FrmUsers, MvUsers, user, Shown)
  <1>1. MngrInv(ctx, FrmUsers, MvUsers, user, Shown) /\ Users(FrmUsers, MvUsers) /\ BufsFit
    BY MngrNow DEF Sized
  <1>2. Head(chan) \in Command /\ Head(chan) = chan[1] /\ UsersKept
    BY EndCommandUsers
  <1>c. chan # <<>> /\ chan \in Seq(Command)
    BY DEF EndCommand, PipelineInv, PipelineTypes
  <1>d. 1 \in 1 .. Len(chan)
    BY <1>c, SeqHead
  <1> DEFINE y == ctx'
             s == chan[1].frm
  <1>3. y = EndDecoding(ctx, s) /\ user' = user /\ showing' = showing
    BY <1>2 DEF EndCommand, EStep, uVars
  <1>4. s \in Slots
    BY <1>2 DEF Command
  <1>5. ctx.status[s] = "notReady"
    BY <1>d DEF PipelineInv, PictureInv
  <1> HIDE DEF y, s, FrmUsers, MvUsers, Shown
  <1>6. Ended(ctx, y, s, FrmUsers, MvUsers, user, Shown)
    BY <1>1, <1>3, <1>4, <1>5, EndDecodingIs
  <1>8. MngrNext
    BY <1>2, <1>3, <1>6, KeptStep DEF Ended, y
  <1> QED BY <1>4, <1>5, <1>6, <1>8 DEF y, s

\* One thread shows pictures at a time.
LEMMA OneShows ==
  ASSUME PipelineInv
  PROVE  \A t, r \in CallbackThreads : showing[t] # NoBuf /\ showing[r] # NoBuf => t = r
  <1>1. pcD = "peek" => pcE = "idle"
    BY RanksClose
  <1> QED BY <1>1 DEF PipelineInv, ShowingInv, CallbackThreads

LEMMA SignalDisplayIsDoneCtx ==
  ASSUME PipelineInv, UsersKept, Sized, NEW t \in CallbackThreads, SignalDisplayIsDone(t)
  PROVE  /\ MngrNext /\ Unlisted(ctx, ctx') /\ PoolKept(ctx.pool, ctx'.pool)
         /\ ctx.disp # <<>> /\ ctx.status[Head(ctx.disp)] = "ready" /\ ~Shown'
         /\ Head(ctx.disp) \in Slots
  <1>1. MngrInv(ctx, FrmUsers, MvUsers, user, Shown) /\ Users(FrmUsers, MvUsers)
        /\ ctx \in PictMngrs
    BY MngrNow
  <1>2. showing[t] # NoBuf /\ showing' = [showing EXCEPT ![t] = NoBuf] /\ user' = user
    BY DEF SignalDisplayIsDone, uVars
  <1>3. /\ ctx.disp # <<>> /\ showing[t] = ctx.pool.buf[Head(ctx.disp)]
        /\ ctx.status[Head(ctx.disp)] = "ready"
    BY <1>2 DEF PipelineInv, ShowingInv
  <1>4. showing \in [CallbackThreads -> Bufs \cup {NoBuf}] /\ showing[t] \in Bufs
    BY <1>2 DEF PipelineInv, PipelineTypes
  <1>5. Head(ctx.disp) \in Slots
    BY <1>1, <1>3, SeqHead, MngrTypes DEF Lists
  <1>6. SlotOf(ctx.pool, showing[t]) # NoSlot
    <2>1. OneSlotEach(ctx.pool)
      BY <1>1 DEF MngrInv, PoolInv, SlotsWhole, OneSlotEach
    <2>2. SlotOf(ctx.pool, showing[t]) = Head(ctx.disp)
      BY <1>3, <1>4, <1>5, <2>1, SlotOfIs
    <2> QED BY <1>5, <2>2, SlotsAre
  <1>7. ctx.pool.ok = TRUE
    BY <1>1 DEF MngrInv, PoolInv, FrmBufPools
  <1>8. [ctx EXCEPT !.pool.ok = @ /\ SlotOf(ctx.pool, showing[t]) # NoSlot] = ctx
    BY <1>1, <1>6, <1>7 DEF PictMngrs, FrmBufPools
  <1>9. ctx' = ReleaseDisplayBuffer(ctx)
    BY <1>8 DEF SignalDisplayIsDone
  <1>10. ~Shown'
    BY <1>2, <1>4, OneShows DEF Shown
  <1>11. Shown
    BY <1>2 DEF Shown
  <1> DEFINE y == ctx'
             on == Shown
             off == Shown'
  <1>12. on /\ ~off /\ y = ReleaseDisplayBuffer(ctx) /\ BufsFit
         /\ MngrInv(ctx, FrmUsers, MvUsers, user, on)
    BY <1>1, <1>9, <1>10, <1>11 DEF Sized
  <1> HIDE DEF y, FrmUsers, MvUsers, on, off
  <1>13. MngrInv(y, FrmUsers, MvUsers, user, off)
    BY <1>1, <1>3, <1>12, ReleaseDisplayIs
  <1>14. Unlisted(ctx, y) /\ PoolKept(ctx.pool, y.pool)
    BY <1>1, <1>3, <1>12, ReleaseDisplayIs
  <1>15. MngrNext
    BY <1>2, <1>13 DEF MngrNext, UsersKept, y, off
  <1> QED BY <1>3, <1>5, <1>10, <1>14, <1>15 DEF y

LEMMA TerminateCtx ==
  ASSUME PipelineInv, UsersKept, Sized, Terminate
  PROVE  MngrNext /\ Purged(ctx, ctx') /\ ctx'.dlt = <<>>
  <1>1. MngrInv(ctx, FrmUsers, MvUsers, user, Shown) /\ Users(FrmUsers, MvUsers) /\ BufsFit
    BY MngrNow DEF Sized
  <1> DEFINE y == ctx'
  <1>2. y = ReleaseAll(ctx) /\ user' = user /\ showing' = showing
    BY DEF Terminate, DStep, uVars
  <1> HIDE DEF y, FrmUsers, MvUsers, Shown
  <1>3. MngrInv(y, FrmUsers, MvUsers, user, Shown) /\ Purged(ctx, y) /\ y.dlt = <<>>
    BY <1>1, <1>2, ReleaseAllIs
  <1>4. MngrNext
    BY <1>2, <1>3, KeptStep DEF y
  <1> QED BY <1>3, <1>4 DEF y

\* The labels between which a buffer or a list of references is taken or dropped
Taking ==
    \/ pcD = "pop" /\ pcD' = "getMv"
    \/ pcD = "getMv" /\ pcD' = "listRefs"
    \/ pcD \in {"lockRefs", "cancel", "cancelRefs"} /\ pcD' # pcD
    \/ pcD' = pcD /\ pcE = "unlockRefs" /\ pcE' = "advance"
    \/ pcD' = pcD /\ pcE = "peek" /\ pcE' = "post"

LEMMA UsersMostly ==
  ASSUME PipelineInv, Next, Sized
  PROVE  UsersKept \/ Taking
  <1>1. PipelineTypes /\ PipelineTypes'
    BY TypesStep DEF PipelineInv
  <1>2. CASE SameCommands
    BY <1>1, <1>2, SameUsers
  <1>3. CASE Launch
    BY <1>1, <1>3, LaunchUsers
  <1>4. CASE EndCommand
    BY <1>1, <1>4, EndCommandUsers
  <1>5. CASE PopBuffer
    BY <1>5 DEF PopBuffer, DStep, Taking
  <1>6. CASE GetMv
    BY <1>6 DEF GetMv, DStep, Taking
  <1>7. CASE LockRefs
    BY <1>7 DEF LockRefs, DStep, Taking
  <1>8. CASE CancelFrame
    BY <1>8 DEF CancelFrame, DStep, Taking
  <1>9. CASE CancelRefs
    BY <1>9 DEF CancelRefs, DStep, Taking
  <1>10. CASE UnlockRefs
    BY <1>10 DEF UnlockRefs, EStep, dVars, Taking
  <1>11. CASE UnlockPicture
    BY <1>11 DEF UnlockPicture, EStep, dVars, Taking
  <1> HIDE DEF SameCommands, UsersKept, Taking
  <1> QED BY <1>2, <1>3, <1>4, <1>5, <1>6, <1>7, <1>8, <1>9, <1>10, <1>11, KeepsCommands

LEMMA NothingMoves ==
  ASSUME PipelineInv, UsersKept, ctx' = ctx, user' = user, showing' = showing
  PROVE  MngrNext /\ Gentle(ctx, ctx')
  <1>1. Shown' = Shown
    BY DEF Shown
  <1> QED BY <1>1, StillStep

\* The steps that change the lists of the picture manager
DpbStep ==
    FlushDpb \/ FlushAll \/ Replace \/ MarkRefs \/ CleanDpb \/ InsertPicture \/ Terminate
Moved ==
    \/ Gentle(ctx, ctx') \/ EndCommand
    \/ UsersKept /\ DpbStep
    \/ UsersKept /\ \E k \in PicKinds : ParseSlice(k) /\ k.gap
    \/ UsersKept /\ \E t \in CallbackThreads : SignalDisplayIsDone(t)

\* The picture manager is whole after each step.
LEMMA MngrStep ==
  ASSUME PipelineInv, Next, Sized
  PROVE  MngrNext /\ Moved
  <1>0. PipelineTypes /\ PipelineTypes'
    BY TypesStep DEF PipelineInv
  <1>u. UsersKept \/ Taking
    BY UsersMostly
  <1>s. /\ showing["D"] # NoBuf => pcD = "peek"
        /\ showing["E"] # NoBuf => pcE = "peek"
        /\ pcD = "peek" => pcE = "idle"
    BY RanksClose DEF PipelineInv, ShowingInv
  <1>h. CallbackThreads = {"D", "E"}
    BY DEF CallbackThreads
  <1>1. ASSUME NEW k \in PicKinds, ParseSlice(k) PROVE (MngrNext /\ Moved)
    <2>1. UsersKept
      BY <1>1, <1>u DEF ParseSlice, eVars, Taking
    <2> HIDE DEF UsersKept
    <2>2. MngrNext
      BY <1>1, <2>1, ParseSliceCtx
    <2>3. k.gap \/ Gentle(ctx, ctx')
      <3>1. CASE ~k.gap
        <4>1. ctx' = ctx /\ user' = user /\ showing' = showing
          BY <1>1, <3>1 DEF ParseSlice, uVars
        <4> QED BY <2>1, <4>1, NothingMoves
      <3> QED BY <3>1
    <2> QED BY <1>1, <2>1, <2>2, <2>3 DEF Moved
  <1>2. CASE GetSemaphore
    <2>1. UsersKept
      BY <1>2, <1>u DEF GetSemaphore, DStep, dVars, eVars, uVars, Taking
    <2>2. ctx' = ctx /\ user' = user /\ showing' = showing
      BY <1>2 DEF GetSemaphore, DStep, dVars, eVars, uVars
    <2> HIDE DEF UsersKept, MngrNext, Gentle
    <2> QED BY <2>1, <2>2, NothingMoves DEF Moved
  <1>3. CASE PopBuffer
    BY <1>3, <1>0, PopBufferCtx DEF Moved
  <1>4. CASE PopWaits
    <2>1. UsersKept
      BY <1>4, <1>u DEF PopWaits, DStep, dVars, eVars, uVars, Taking
    <2>2. ctx' = ctx /\ user' = user /\ showing' = showing
      BY <1>4 DEF PopWaits, DStep, dVars, eVars, uVars
    <2> HIDE DEF UsersKept, MngrNext, Gentle
    <2> QED BY <2>1, <2>2, NothingMoves DEF Moved
  <1>5. CASE PopWakesUp
    <2>1. UsersKept
      BY <1>5, <1>u DEF PopWakesUp, DStep, dVars, eVars, uVars, Taking
    <2> QED BY <1>5, <2>1, PopWakesUpCtx DEF Moved
  <1>6. CASE PopFails
    <2>1. UsersKept
      BY <1>6, <1>u DEF PopFails, DStep, dVars, eVars, uVars, Taking
    <2>2. ctx' = ctx /\ user' = user /\ showing' = showing
      BY <1>6 DEF PopFails, DStep, dVars, eVars, uVars
    <2> HIDE DEF UsersKept, MngrNext, Gentle
    <2> QED BY <2>1, <2>2, NothingMoves DEF Moved
  <1>7. CASE GetMv
    BY <1>7, <1>0, GetMvCtx DEF Moved
  <1>8. CASE ListRefs
    <2>1. UsersKept
      BY <1>8, <1>u DEF ListRefs, DStep, dVars, eVars, uVars, Taking
    <2>2. ctx' = ctx /\ user' = user /\ showing' = showing
      BY <1>8 DEF ListRefs, DStep, dVars, eVars, uVars
    <2> HIDE DEF UsersKept, MngrNext, Gentle
    <2> QED BY <2>1, <2>2, NothingMoves DEF Moved
  <1>9. CASE LockRefs
    BY <1>9, <1>0, LockRefsCtx DEF Moved
  <1>10. CASE CancelFrame
    BY <1>10, <1>0, CancelFrameCtx DEF Moved
  <1>11. CASE CancelRefs
    BY <1>11, <1>0, CancelRefsCtx DEF Moved
  <1>12. CASE FlushDpb
    <2>1. UsersKept
      BY <1>12, <1>u DEF FlushDpb, DStep, dVars, eVars, uVars, Taking
    <2> HIDE DEF UsersKept
    <2> QED BY <1>12, <2>1, FlushDpbCtx DEF Moved, DpbStep
  <1>13. CASE Replace
    <2>1. UsersKept
      BY <1>13, <1>u DEF Replace, DStep, dVars, eVars, uVars, Taking
    <2> HIDE DEF UsersKept
    <2> QED BY <1>13, <2>1, ReplaceCtx DEF Moved, DpbStep
  <1>14. CASE InsertPicture
    <2>1. UsersKept
      BY <1>14, <1>u DEF InsertPicture, DStep, dVars, eVars, uVars, Taking
    <2> HIDE DEF UsersKept
    <2> QED BY <1>14, <2>1, InsertPictureCtx DEF Moved, DpbStep
  <1>15. CASE MarkRefs
    <2>1. UsersKept
      BY <1>15, <1>u DEF MarkRefs, DStep, dVars, eVars, uVars, Taking
    <2> HIDE DEF UsersKept
    <2> QED BY <1>15, <2>1, MarkRefsCtx DEF Moved, DpbStep
  <1>16. CASE CleanDpb
    <2>1. UsersKept
      BY <1>16, <1>u DEF CleanDpb, DStep, dVars, eVars, uVars, Taking
    <2> HIDE DEF UsersKept
    <2> QED BY <1>16, <2>1, CleanDpbCtx DEF Moved, DpbStep
  <1>17. CASE Launch
    <2>1. UsersKept
      BY <1>17, <1>u DEF Launch, dVars, eVars, uVars, Taking
    <2>2. ctx' = ctx /\ user' = user /\ showing' = showing
      BY <1>17 DEF Launch, dVars, eVars, uVars
    <2> HIDE DEF UsersKept, MngrNext, Gentle
    <2> QED BY <2>1, <2>2, NothingMoves DEF Moved
  <1>18. CASE FlushToExit
    <2>1. UsersKept
      BY <1>18, <1>u DEF FlushToExit, DStep, dVars, eVars, uVars, Taking
    <2>2. ctx' = ctx /\ user' = user /\ showing' = showing
      BY <1>18 DEF FlushToExit, DStep, dVars, eVars, uVars
    <2> HIDE DEF UsersKept, MngrNext, Gentle
    <2> QED BY <2>1, <2>2, NothingMoves DEF Moved
  <1>19. CASE WaitFrameSent
    <2>1. UsersKept
      BY <1>19, <1>u DEF WaitFrameSent, DStep, dVars, eVars, uVars, Taking
    <2>2. ctx' = ctx /\ user' = user /\ showing' = showing
      BY <1>19 DEF WaitFrameSent, DStep, dVars, eVars, uVars
    <2> HIDE DEF UsersKept, MngrNext, Gentle
    <2> QED BY <2>1, <2>2, NothingMoves DEF Moved
  <1>20. CASE FlushAll
    <2>1. UsersKept
      BY <1>20, <1>u DEF FlushAll, DStep, dVars, eVars, uVars, Taking
    <2> HIDE DEF UsersKept
    <2> QED BY <1>20, <2>1, FlushDpbCtx DEF Moved, DpbStep
  <1>21. CASE ReleaseFrames
    <2>1. UsersKept
      BY <1>21, <1>u DEF ReleaseFrames, DStep, dVars, eVars, uVars, Taking
    <2>2. ctx' = ctx /\ user' = user /\ showing' = showing
      BY <1>21 DEF ReleaseFrames, DStep, dVars, eVars, uVars
    <2> HIDE DEF UsersKept, MngrNext, Gentle
    <2> QED BY <2>1, <2>2, NothingMoves DEF Moved
  <1>22. CASE SignalEos
    <2>1. UsersKept
      BY <1>22, <1>u DEF SignalEos, dVars, eVars, uVars, Taking
    <2>2. ctx' = ctx /\ user' = user /\ showing' = showing
      BY <1>22 DEF SignalEos, dVars, eVars, uVars
    <2> HIDE DEF UsersKept, MngrNext, Gentle
    <2> QED BY <2>1, <2>2, NothingMoves DEF Moved
  <1>23. CASE Terminate
    <2>1. UsersKept
      BY <1>23, <1>u DEF Terminate, DStep, dVars, eVars, uVars, Taking
    <2> HIDE DEF UsersKept
    <2> QED BY <1>23, <2>1, TerminateCtx DEF Moved, DpbStep
  <1>24. CASE TerminateMv
    <2>1. UsersKept
      BY <1>24, <1>u DEF TerminateMv, DStep, dVars, eVars, uVars, Taking
    <2>2. ctx' = ctx /\ user' = user /\ showing' = showing
      BY <1>24 DEF TerminateMv, DStep, dVars, eVars, uVars
    <2> HIDE DEF UsersKept, MngrNext, Gentle
    <2> QED BY <2>1, <2>2, NothingMoves DEF Moved
  <1>25. CASE ExitThread
    <2>1. UsersKept
      BY <1>25, <1>u DEF ExitThread, DStep, dVars, eVars, uVars, Taking
    <2>2. ctx' = ctx /\ user' = user /\ showing' = showing
      BY <1>25 DEF ExitThread, DStep, dVars, eVars, uVars
    <2> HIDE DEF UsersKept, MngrNext, Gentle
    <2> QED BY <2>1, <2>2, NothingMoves DEF Moved
  <1>26. CASE pcD = "peek" /\ CallDisplay("D")
    <2>1. UsersKept
      BY <1>26, <1>u DEF CallDisplay, dVars, eVars, uVars, Taking
    <2>2. ~Shown
      BY <1>26, <1>s, <1>h DEF CallDisplay, Shown
    <2> QED BY <1>26, <1>h, <2>1, <2>2, CallDisplayCtx DEF Moved
  <1>27. CASE pcD = "peek" /\ SignalDisplayIsDone("D")
    <2>1. UsersKept
      BY <1>27, <1>u DEF SignalDisplayIsDone, dVars, eVars, uVars, Taking
    <2> HIDE DEF UsersKept
    <2> QED BY <1>27, <1>h, <2>1, SignalDisplayIsDoneCtx DEF Moved
  <1>28. CASE pcE = "peek" /\ CallDisplay("E")
    <2>1. UsersKept
      BY <1>28, <1>u DEF CallDisplay, dVars, eVars, uVars, Taking
    <2>2. ~Shown
      BY <1>28, <1>s, <1>h DEF CallDisplay, Shown
    <2> QED BY <1>28, <1>h, <2>1, <2>2, CallDisplayCtx DEF Moved
  <1>29. CASE pcE = "peek" /\ SignalDisplayIsDone("E")
    <2>1. UsersKept
      BY <1>29, <1>u DEF SignalDisplayIsDone, dVars, eVars, uVars, Taking
    <2> HIDE DEF UsersKept
    <2> QED BY <1>29, <1>h, <2>1, SignalDisplayIsDoneCtx DEF Moved
  <1>30. CASE EndOfInput
    <2>1. UsersKept
      BY <1>30, <1>u DEF EndOfInput, DStep, dVars, eVars, uVars, Taking
    <2>2. ctx' = ctx /\ user' = user /\ showing' = showing
      BY <1>30 DEF EndOfInput, DStep, dVars, eVars, uVars
    <2> HIDE DEF UsersKept, MngrNext, Gentle
    <2> QED BY <2>1, <2>2, NothingMoves DEF Moved
  <1>31. CASE UnitError
    <2>1. UsersKept
      BY <1>31, <1>u DEF UnitError, DStep, dVars, eVars, uVars, Taking
    <2>2. ctx' = ctx /\ user' = user /\ showing' = showing
      BY <1>31 DEF UnitError, DStep, dVars, eVars, uVars
    <2> HIDE DEF UsersKept, MngrNext, Gentle
    <2> QED BY <2>1, <2>2, NothingMoves DEF Moved
  <1>32. CASE EndCommand
    BY <1>32, <1>0, EndCommandCtx DEF Moved
  <1>33. CASE UnlockRefs
    BY <1>33, <1>0, UnlockRefsCtx DEF Moved
  <1>34. CASE Advance
    <2>1. UsersKept
      BY <1>34, <1>u DEF Advance, EStep, dVars, eVars, uVars, Taking
    <2>2. ctx' = ctx /\ user' = user /\ showing' = showing
      BY <1>34 DEF Advance, EStep, dVars, eVars, uVars
    <2> HIDE DEF UsersKept, MngrNext, Gentle
    <2> QED BY <2>1, <2>2, NothingMoves DEF Moved
  <1>35. CASE UnlockPicture
    BY <1>35, <1>0, UnlockPictureCtx DEF Moved
  <1>36. CASE PostSemaphore
    <2>1. UsersKept
      BY <1>36, <1>u DEF PostSemaphore, EStep, dVars, eVars, uVars, Taking
    <2>2. ctx' = ctx /\ user' = user /\ showing' = showing
      BY <1>36 DEF PostSemaphore, EStep, dVars, eVars, uVars
    <2> HIDE DEF UsersKept, MngrNext, Gentle
    <2> QED BY <2>1, <2>2, NothingMoves DEF Moved
  <1>37. ASSUME NEW b \in Bufs, PutDecPict(b) PROVE (MngrNext /\ Moved)
    <2>1. UsersKept
      BY <1>37, <1>u DEF PutDecPict, UStep, dVars, eVars, uVars, Taking
    <2> QED BY <1>37, <2>1, PutDecPictCtx DEF Moved
  <1>38. CASE DecommitPool
    <2>1. UsersKept
      BY <1>38, <1>u DEF DecommitPool, UStep, dVars, eVars, uVars, Taking
    <2> QED BY <1>38, <2>1, DecommitCtx DEF Moved
  <1>39. CASE DestroyFeeder
    <2>1. UsersKept
      BY <1>39, <1>u DEF DestroyFeeder, UStep, dVars, eVars, uVars, Taking
    <2>2. ctx' = ctx /\ user' = user /\ showing' = showing
      BY <1>39 DEF DestroyFeeder, UStep, dVars, eVars, uVars
    <2> HIDE DEF UsersKept, MngrNext, Gentle
    <2> QED BY <2>1, <2>2, NothingMoves DEF Moved
  <1>40. CASE DestroyChannel
    <2>1. UsersKept
      BY <1>40, <1>u DEF DestroyChannel, UStep, dVars, eVars, uVars, Taking
    <2>2. ctx' = ctx /\ user' = user /\ showing' = showing
      BY <1>40 DEF DestroyChannel, UStep, dVars, eVars, uVars
    <2> HIDE DEF UsersKept, MngrNext, Gentle
    <2> QED BY <2>1, <2>2, NothingMoves DEF Moved
  <1>41. CASE ReleaseUnused
    <2>1. UsersKept
      BY <1>41, <1>u DEF ReleaseUnused, UStep, dVars, eVars, uVars, Taking
    <2> QED BY <1>41, <2>1, ReleaseUnusedCtx DEF Moved
  <1>42. CASE Destroyed
    <2>1. UsersKept
      BY <1>42, <1>u DEF Destroyed, UStep, dVars, eVars, uVars, Taking
    <2>2. ctx' = ctx /\ user' = user /\ showing' = showing
      BY <1>42 DEF Destroyed, UStep, dVars, eVars, uVars
    <2> HIDE DEF UsersKept, MngrNext, Gentle
    <2> QED BY <2>1, <2>2, NothingMoves DEF Moved
  <1>43. CASE Over
    <2>1. UsersKept
      BY <1>43, <1>u DEF Over, dVars, eVars, uVars, vars, Taking
    <2>2. ctx' = ctx /\ user' = user /\ showing' = showing
      BY <1>43 DEF Over, dVars, eVars, uVars, vars
    <2> HIDE DEF UsersKept, MngrNext, Gentle
    <2> QED BY <2>1, <2>2, NothingMoves DEF Moved
  <1> HIDE DEF MngrNext, Moved
  <1> QED BY <1>1, <1>2, <1>3, <1>4, <1>5, <1>6, <1>7, <1>8, <1>9, <1>10, <1>11, <1>12, <1>13,
      <1>14, <1>15, <1>16, <1>17, <1>18, <1>19, <1>20, <1>21, <1>22, <1>23, <1>24, <1>25, <1>26,
      <1>27, <1>28, <1>29, <1>30, <1>31, <1>32, <1>33, <1>34, <1>35, <1>36, <1>37, <1>38, <1>39,
      <1>40, <1>41, <1>42, <1>43 DEF Next, DNext, ENext, DestroyNext, DisplayD, DisplayE
-----------------------------------------------------------------------------
(* What the steps keep of the picture manager *)
\* The first picture of the display list stays there, with its buffer.
HeadSame(x, y) ==
    x.disp # <<>> =>
        /\ y.disp # <<>> /\ Head(y.disp) = Head(x.disp)
        /\ y.pool.buf[Head(x.disp)] = x.pool.buf[Head(x.disp)]
        /\ x.status[Head(x.disp)] = "ready" => y.status[Head(x.disp)] = "ready"
\* What is in no list stays so, and a buffer that is held is not output.
Calm(x, y, f) ==
    /\ \A t \in Slots : NoneHeld(x, t) => NoneHeld(y, t)
    /\ \A m \in MvIDs : NoMvHeld(x, m) => NoMvHeld(y, m)
    /\ \A t \in Slots : NoneHeld(x, t) /\ f[t] >= 1 /\ ~x.pool.out[t] => ~y.pool.out[t]

LEMMA HeadIs ==
  ASSUME NEW x, x \in PictMngrs, x.disp # <<>>
  PROVE  /\ Head(x.disp) = x.disp[1] /\ Head(x.disp) \in Slots /\ 1 \in 1 .. Len(x.disp)
         /\ InDisplay(x, Head(x.disp)) /\ ~NoneHeld(x, Head(x.disp))
         /\ Len(x.disp) \in Nat /\ Len(x.disp) >= 1
  <1>1. x.disp \in Seq(Slots)
    BY MngrTypes DEF Lists
  <1>2. Head(x.disp) = x.disp[1] /\ Head(x.disp) \in Slots /\ 1 \in 1 .. Len(x.disp)
        /\ Len(x.disp) \in Nat /\ Len(x.disp) >= 1
    BY <1>1, SeqHead
  <1> QED BY <1>2 DEF InDisplay, NoneHeld

\* The head of a list that grows at its end
LEMMA HeadStays ==
  ASSUME NEW x, x \in PictMngrs, NEW y, y \in PictMngrs, x.disp # <<>>,
         Len(x.disp) <= Len(y.disp), \A i \in 1 .. Len(x.disp) : y.disp[i] = x.disp[i]
  PROVE  y.disp # <<>> /\ Head(y.disp) = Head(x.disp)
  <1>1. /\ Head(x.disp) = x.disp[1] /\ 1 \in 1 .. Len(x.disp) /\ Len(x.disp) >= 1
        /\ Len(x.disp) \in Nat
    BY HeadIs
  <1>2. y.disp # <<>>
    <2>1. Len(y.disp) \in Nat
      BY MngrTypes
    <2>2. Len(y.disp) # 0
      BY <1>1, <2>1
    <2> QED BY <2>2
  <1>3. Head(y.disp) = y.disp[1]
    BY <1>2, HeadIs
  <1> QED BY <1>1, <1>2, <1>3

LEMMA SameNodesStay ==
  ASSUME NEW x, NEW y, y.nodes = x.nodes
  PROVE  NodesStay(x, y)
  BY DEF NodesStay, RefCount, SameNode

LEMMA SameListsCalm ==
  ASSUME NEW x, NEW y, y.nodes = x.nodes, y.disp = x.disp, y.dlt = x.dlt
  PROVE  /\ \A t \in Slots : NoneHeld(x, t) => NoneHeld(y, t)
         /\ \A m \in MvIDs : NoMvHeld(x, m) => NoMvHeld(y, m)
  BY DEF NoneHeld, NoMvHeld

LEMMA GentleKeeps ==
  ASSUME NEW x, NEW f, NEW g, NEW u, NEW h, MngrInv(x, f, g, u, h),
         NEW y, NEW k, NEW l, NEW v, NEW w, MngrInv(y, k, l, v, w), Users(k, l), Gentle(x, y)
  PROVE  HeadSame(x, y) /\ Calm(x, y, k) /\ NodesStay(x, y) /\ y.status = x.status
  <1>1. y.nodes = x.nodes /\ y.disp = x.disp /\ y.dlt = x.dlt /\ y.status = x.status
    BY DEF Gentle, SamePicts
  <1>2. HeadSame(x, y)
    <2> SUFFICES ASSUME x.disp # <<>>
                 PROVE  y.pool.buf[Head(x.disp)] = x.pool.buf[Head(x.disp)]
      BY <1>1 DEF HeadSame
    <2>1. Head(y.disp) \in Slots /\ ~NoneHeld(y, Head(y.disp))
      BY <1>1, HeadIs DEF MngrInv
    <2> DEFINE s == Head(y.disp)
    <2>2. s \in Slots /\ ~NoneHeld(y, s) /\ s = Head(x.disp) /\ 0 \in MvIDs
      BY <1>1, <2>1, MvBufPoolAssumption DEF MvIDs
    <2> HIDE DEF s
    <2>3. RefsOn(y.pool, s) >= 1
      BY <2>2, HeldUsed
    <2> QED BY <2>2, <2>3 DEF Gentle
  <1>3. \A t \in Slots : k[t] >= 1 => RefsOn(y.pool, t) >= 1
    BY UsersCounted
  <1>4. Calm(x, y, k)
    BY <1>1, <1>3, SameListsCalm DEF Calm, Gentle
  <1> QED BY <1>1, <1>2, <1>4, SameNodesStay

LEMMA NoneNotOutput ==
  ASSUME NEW x, NEW t, NoneHeld(x, t)
  PROVE  ~ToBeOutput(x, t) /\ ~InDisplay(x, t)
  BY DEF NoneHeld, ToBeOutput, InDisplay

LEMMA ThinnedKeeps ==
  ASSUME NEW x, x \in PictMngrs, NEW y, y \in PictMngrs, Thinned(x, y), NEW f
  PROVE  HeadSame(x, y) /\ Calm(x, y, f) /\ y.status = x.status
  <1>1. Queued(x, y) /\ Steady(x, y)
    BY DEF Thinned
  <1>2. HeadSame(x, y)
    <2> SUFFICES ASSUME x.disp # <<>>
                 PROVE  y.disp # <<>> /\ Head(y.disp) = Head(x.disp)
      BY <1>1 DEF HeadSame, Steady
    <2> QED BY <1>1, HeadStays DEF Queued
  <1>3. Calm(x, y, f)
    BY <1>1, NoneNotOutput DEF Calm, Steady
  <1> QED BY <1>1, <1>2, <1>3 DEF Steady

LEMMA FaithfulKeeps ==
  ASSUME NEW x, x \in PictMngrs, NEW y, y \in PictMngrs, Faithful(x, y)
  PROVE  HeadSame(x, y) /\ y.status = x.status
  <1>2. HeadSame(x, y)
    <2> SUFFICES ASSUME x.disp # <<>>
                 PROVE  y.disp # <<>> /\ Head(y.disp) = Head(x.disp)
      BY DEF HeadSame, Faithful
    <2> QED BY HeadStays DEF Faithful
  <1> QED BY <1>2 DEF Faithful

LEMMA EndedKeeps ==
  ASSUME NEW x, x \in PictMngrs, NEW y, NEW s \in Slots, NEW f, NEW g, NEW u, NEW h,
         Ended(x, y, s, f, g, u, h)
  PROVE  HeadSame(x, y) /\ Calm(x, y, f) /\ NodesStay(x, y)
         /\ y.status = [x.status EXCEPT ![s] = "ready"]
  <1>1. Lasting(x, y, f) /\ NodesStay(x, y) /\ y.status = [x.status EXCEPT ![s] = "ready"]
        /\ y \in PictMngrs
    BY DEF Ended, MngrInv
  <1>2. HeadSame(x, y)
    <2> SUFFICES ASSUME x.disp # <<>>
                 PROVE  /\ y.disp # <<>> /\ Head(y.disp) = Head(x.disp)
                        /\ y.pool.buf[Head(x.disp)] = x.pool.buf[Head(x.disp)]
                        /\ x.status[Head(x.disp)] = "ready" => y.status[Head(x.disp)] = "ready"
      BY DEF HeadSame
    <2>1. y.disp # <<>> /\ Head(y.disp) = Head(x.disp)
      BY <1>1, HeadStays DEF Lasting
    <2>2. Head(x.disp) \in Slots /\ InDisplay(x, Head(x.disp))
      BY HeadIs
    <2>3. y.pool.buf[Head(x.disp)] = x.pool.buf[Head(x.disp)]
      BY <1>1, <2>2 DEF Lasting
    <2>4. x.status[Head(x.disp)] = "ready" => y.status[Head(x.disp)] = "ready"
      BY <1>1, <2>2, MngrTypes
    <2> QED BY <2>1, <2>3, <2>4
  <1>3. Calm(x, y, f)
    BY <1>1 DEF Calm, Lasting
  <1> QED BY <1>1, <1>2, <1>3

LEMMA PicInsertedKeeps ==
  ASSUME NEW x, x \in PictMngrs, NEW y, NEW s \in Slots, NEW f, NEW g, NEW u, NEW h, NEW mark,
         PicInserted(x, y, s, mark, f, g, u, h), NoneHeld(x, s)
  PROVE  HeadSame(x, y) /\ y.status = [x.status EXCEPT ![s] = "notReady"]
  <1>1. /\ y.disp = x.disp /\ y.pool.buf = x.pool.buf
        /\ y.status = [x.status EXCEPT ![s] = "notReady"]
    BY DEF PicInserted, Grown
  <1>2. ASSUME x.disp # <<>> PROVE Head(x.disp) # s /\ Head(x.disp) \in Slots
    BY <1>2, HeadIs
  <1> QED BY <1>1, <1>2, MngrTypes DEF HeadSame

LEMMA UnlistedKeeps ==
  ASSUME NEW x, x \in PictMngrs, NEW y, NEW f, NEW g, NEW u, NEW h, Users(f, g),
         MngrInv(y, f, g, u, h), Unlisted(x, y), PoolKept(x.pool, y.pool)
  PROVE  Calm(x, y, f) /\ NodesStay(x, y)
         /\ y.status = [x.status EXCEPT ![Head(x.disp)] = "notNeeded"]
  <1>1. /\ y.nodes = x.nodes /\ y.dlt = x.dlt
        /\ y.status = [x.status EXCEPT ![Head(x.disp)] = "notNeeded"]
        /\ \A t \in Slots : NoneHeld(x, t) => NoneHeld(y, t)
    BY DEF Unlisted
  <1>2. \A m \in MvIDs : NoMvHeld(x, m) => NoMvHeld(y, m)
    BY <1>1 DEF NoMvHeld
  <1>3. \A t \in Slots : f[t] >= 1 => RefsOn(y.pool, t) >= 1
    BY UsersCounted
  <1>4. \A t \in Slots : f[t] >= 1 => y.pool.out[t] = x.pool.out[t]
    BY <1>3 DEF PoolKept
  <1> QED BY <1>1, <1>2, <1>4, SameNodesStay DEF Calm

LEMMA PurgedKeeps ==
  ASSUME NEW x, x \in PictMngrs, NEW y, NEW f, NEW g, NEW u, NEW h, Users(f, g),
         MngrInv(y, f, g, u, h), Purged(x, y)
  PROVE  HeadSame(x, y) /\ Calm(x, y, f) /\ NodesStay(x, y) /\ y.status = x.status
  <1>1. /\ y.nodes = x.nodes /\ y.disp = x.disp /\ y.status = x.status
        /\ PoolKept(x.pool, y.pool)
        /\ \A t \in Slots : NoneHeld(x, t) => NoneHeld(y, t)
        /\ \A m \in MvIDs : NoMvHeld(x, m) => NoMvHeld(y, m)
    BY DEF Purged
  <1>2. HeadSame(x, y)
    <2> SUFFICES ASSUME x.disp # <<>>
                 PROVE  y.pool.buf[Head(x.disp)] = x.pool.buf[Head(x.disp)]
      BY <1>1 DEF HeadSame
    <2>1. Head(y.disp) \in Slots /\ ~NoneHeld(y, Head(y.disp))
      BY <1>1, HeadIs DEF MngrInv
    <2> DEFINE s == Head(y.disp)
    <2>2. s \in Slots /\ ~NoneHeld(y, s) /\ s = Head(x.disp) /\ 0 \in MvIDs
      BY <1>1, <2>1, MvBufPoolAssumption DEF MvIDs
    <2> HIDE DEF s
    <2>3. RefsOn(y.pool, s) >= 1
      BY <2>2, HeldUsed
    <2> QED BY <1>1, <2>2, <2>3 DEF PoolKept
  <1>3. \A t \in Slots : f[t] >= 1 => RefsOn(y.pool, t) >= 1
    BY UsersCounted
  <1>4. \A t \in Slots : f[t] >= 1 => y.pool.out[t] = x.pool.out[t]
    BY <1>1, <1>3 DEF PoolKept
  <1> QED BY <1>1, <1>2, <1>4, SameNodesStay DEF Calm

Signals == \E t \in CallbackThreads : SignalDisplayIsDone(t)
FillsGap == \E k \in PicKinds : ParseSlice(k) /\ k.gap
HeadKept == HeadSame(ctx, ctx') \/ Signals
CalmKept == Calm(ctx, ctx', FrmUsers') \/ InsertPicture \/ FillsGap
NodesKept ==
    NodesStay(ctx, ctx') \/ FlushDpb \/ FlushAll \/ Replace \/ MarkRefs \/ CleanDpb
    \/ InsertPicture \/ FillsGap
StatusKept ==
    \/ ctx'.status = ctx.status
    \/ /\ InsertPicture /\ recID \in Slots
       /\ ctx'.status = [ctx.status EXCEPT ![recID] = "notReady"]
    \/ /\ EndCommand /\ chan[1].frm \in Slots /\ ctx.status[chan[1].frm] = "notReady"
       /\ ctx'.status = [ctx.status EXCEPT ![chan[1].frm] = "ready"]
    \/ /\ Signals /\ Head(ctx.disp) \in Slots /\ ctx.status[Head(ctx.disp)] = "ready"
       /\ ctx.disp # <<>>
       /\ ctx'.status = [ctx.status EXCEPT ![Head(ctx.disp)] = "notNeeded"]

LEMMA UsersAfter ==
  ASSUME PipelineInv, Next
  PROVE  Users(FrmUsers', MvUsers')
  <1>1. PipelineTypes /\ PipelineTypes'
    BY TypesStep DEF PipelineInv
  <1>2. /\ FrmUsers' = FrmOf(HeldRec', done'.frm, chan', Locked', refList')
        /\ MvUsers' = MvOf(HeldMv', done'.mv, chan', Locked', refList')
        /\ chan' \in Seq(Command) /\ Locked' \in SUBSET (0 .. MaxPics)
    BY <1>1, UsersAround
  <1> HIDE DEF FrmUsers, MvUsers, HeldRec, HeldMv, Locked
  <1> QED BY <1>2, FrmOfType DEF Users

LEMMA MngrAround ==
  ASSUME PipelineInv, Next, Sized
  PROVE  /\ MngrInv(ctx, FrmUsers, MvUsers, user, Shown) /\ Users(FrmUsers, MvUsers)
         /\ MngrInv(ctx', FrmUsers', MvUsers', user', Shown') /\ Users(FrmUsers', MvUsers')
         /\ ctx \in PictMngrs /\ ctx' \in PictMngrs
  <1>1. MngrInv(ctx, FrmUsers, MvUsers, user, Shown) /\ Users(FrmUsers, MvUsers)
        /\ ctx \in PictMngrs
    BY MngrNow
  <1>2. Users(FrmUsers', MvUsers')
    BY UsersAfter
  <1>3. MngrInv(ctx', FrmUsers', MvUsers', user', Shown')
    BY MngrStep DEF MngrNext
  <1>4. ctx' \in PictMngrs
    BY <1>3 DEF MngrInv
  <1> HIDE DEF FrmUsers, MvUsers, Shown
  <1> QED BY <1>1, <1>2, <1>3, <1>4

LEMMA StepKeeps ==
  ASSUME PipelineInv, Next, Sized
  PROVE  HeadKept /\ CalmKept /\ NodesKept /\ StatusKept
  <1>1. /\ MngrInv(ctx, FrmUsers, MvUsers, user, Shown) /\ Users(FrmUsers, MvUsers)
        /\ MngrInv(ctx', FrmUsers', MvUsers', user', Shown') /\ Users(FrmUsers', MvUsers')
        /\ ctx \in PictMngrs /\ ctx' \in PictMngrs
    BY MngrAround
  <1>t. PipelineTypes'
    BY TypesStep
  <1>m. Moved
    BY MngrStep
  <1> DEFINE x == ctx
             y == ctx'
             f == FrmUsers
             g == MvUsers
             u == user
             h == Shown
             k == FrmUsers'
             l == MvUsers'
             v == user'
             w == Shown'
  <1>2. /\ MngrInv(x, f, g, u, h) /\ Users(f, g) /\ MngrInv(y, k, l, v, w) /\ Users(k, l)
        /\ x \in PictMngrs /\ y \in PictMngrs
    BY <1>1
  <1>k. UsersKept => k = f /\ l = g
    BY DEF UsersKept
  <1>3. CASE Gentle(ctx, ctx')
    <2>1. Gentle(x, y)
      BY <1>3
    <2> HIDE DEF x, y, f, g, u, h, k, l, v, w
    <2>2. HeadSame(x, y) /\ Calm(x, y, k) /\ NodesStay(x, y) /\ y.status = x.status
      BY <1>2, <2>1, GentleKeeps
    <2> QED BY <2>2 DEF HeadKept, CalmKept, NodesKept, StatusKept, x, y, k
  <1>4. CASE EndCommand
    <2>1. /\ chan[1].frm \in Slots /\ ctx.status[chan[1].frm] = "notReady"
          /\ Ended(ctx, ctx', chan[1].frm, FrmUsers, MvUsers, user, Shown)
      BY <1>4, <1>t, EndCommandCtx
    <2>2. UsersKept
      BY <1>4, <1>t, EndCommandUsers
    <2> DEFINE s == chan[1].frm
    <2>3. s \in Slots /\ Ended(x, y, s, f, g, u, h)
      BY <2>1
    <2>4. k = f
      BY <1>k, <2>2
    <2> HIDE DEF x, y, f, g, u, h, k, l, v, w, s
    <2>5. HeadSame(x, y) /\ Calm(x, y, f) /\ NodesStay(x, y)
          /\ y.status = [x.status EXCEPT ![s] = "ready"]
      BY <1>2, <2>3, EndedKeeps
    <2>6. Calm(x, y, k)
      BY <2>4, <2>5
    <2> QED BY <1>4, <2>1, <2>5, <2>6 DEF HeadKept, CalmKept, NodesKept, StatusKept, x, y, k, s
  <1>5. CASE UsersKept /\ DpbStep /\ ~InsertPicture /\ ~Terminate
    <2>1. Thinned(x, y)
      BY <1>5, FlushDpbCtx, ReplaceCtx, MarkRefsCtx, CleanDpbCtx DEF DpbStep
    <2> HIDE DEF x, y, f, g, u, h, k, l, v, w
    <2>2. HeadSame(x, y) /\ Calm(x, y, k) /\ y.status = x.status
      BY <1>2, <2>1, ThinnedKeeps
    <2> QED BY <1>5, <2>2 DEF HeadKept, CalmKept, NodesKept, StatusKept, DpbStep, x, y, k
  <1>6. CASE UsersKept /\ InsertPicture
    <2>1. /\ recID \in Slots
          /\ PicInserted(ctx, ctx', recID, IF pic.ref THEN "shortTerm" ELSE "unused",
                         FrmUsers, MvUsers, user, Shown)
      BY <1>6, InsertPictureCtx
    <2>h. HoldsRec /\ pcD \in NotInserted
      BY <1>6 DEF InsertPicture, DStep, HoldsRec, Begun, NotInserted
    <2>n. NoneHeld(ctx, recID)
      <3>1. FrmHeld(ctx, recID) = 0
        BY <2>h DEF PipelineInv, PictureInv
      <3> QED BY <1>1, <3>1, MngrTypes, HeldNone
    <2> DEFINE s == recID
               mark == IF pic.ref THEN "shortTerm" ELSE "unused"
    <2>2. s \in Slots /\ PicInserted(x, y, s, mark, f, g, u, h) /\ NoneHeld(x, s)
      BY <2>1, <2>n
    <2> HIDE DEF x, y, f, g, u, h, k, l, v, w, s, mark
    <2>3. HeadSame(x, y) /\ y.status = [x.status EXCEPT ![s] = "notReady"]
      BY <1>2, <2>2, PicInsertedKeeps
    <2> QED BY <1>6, <2>2, <2>3 DEF HeadKept, CalmKept, NodesKept, StatusKept, x, y, s
  <1>7. CASE UsersKept /\ Terminate
    <2>1. Purged(x, y) /\ k = f /\ l = g
      BY <1>7, <1>k, TerminateCtx
    <2> HIDE DEF x, y, f, g, u, h, k, l, v, w
    <2>2. HeadSame(x, y) /\ Calm(x, y, k) /\ NodesStay(x, y) /\ y.status = x.status
      BY <1>2, <2>1, PurgedKeeps
    <2> QED BY <2>2 DEF HeadKept, CalmKept, NodesKept, StatusKept, x, y, k
  <1>8. CASE UsersKept /\ FillsGap
    <2>1. PICK kind \in PicKinds : ParseSlice(kind) /\ kind.gap
      BY <1>8 DEF FillsGap
    <2>2. Filled(x, y, f, g, u, h)
      BY <1>8, <2>1, ParseSliceCtx
    <2> HIDE DEF x, y, f, g, u, h, k, l, v, w
    <2>3. HeadSame(x, y) /\ y.status = x.status
      BY <1>2, <2>2, FaithfulKeeps DEF Filled
    <2> QED BY <1>8, <2>3 DEF HeadKept, CalmKept, NodesKept, StatusKept, x, y
  <1>9. CASE UsersKept /\ Signals
    <2>1. PICK t \in CallbackThreads : SignalDisplayIsDone(t)
      BY <1>9 DEF Signals
    <2>2. /\ Unlisted(x, y) /\ PoolKept(x.pool, y.pool) /\ k = f /\ l = g
          /\ ctx.disp # <<>> /\ ctx.status[Head(ctx.disp)] = "ready" /\ Head(ctx.disp) \in Slots
      BY <1>9, <1>k, <2>1, SignalDisplayIsDoneCtx
    <2> HIDE DEF x, y, f, g, u, h, k, l, v, w
    <2>3. Calm(x, y, k) /\ NodesStay(x, y)
          /\ y.status = [x.status EXCEPT ![Head(x.disp)] = "notNeeded"]
      BY <1>2, <2>2, UnlistedKeeps
    <2> QED BY <1>9, <2>2, <2>3 DEF HeadKept, CalmKept, NodesKept, StatusKept, x, y, k
  <1> HIDE DEF HeadKept, CalmKept, NodesKept, StatusKept, UsersKept
  <1> QED BY <1>m, <1>3, <1>4, <1>5, <1>6, <1>7, <1>8, <1>9
          DEF Moved, DpbStep, FillsGap, Signals
-----------------------------------------------------------------------------
(* The inductive invariant: what is being shown *)
Calls == \E t \in CallbackThreads : CallDisplay(t)
PeeksNext == /\ showing'["D"] # NoBuf => pcD' = "peek"
             /\ showing'["E"] # NoBuf => pcE' = "peek"

LEMMA ShowingMoves ==
  ASSUME PipelineInv, Next
  PROVE  PeeksNext /\ (Signals \/ Calls \/ showing' = showing)
  <1>0. /\ showing["D"] # NoBuf => pcD = "peek"
        /\ showing["E"] # NoBuf => pcE = "peek"
        /\ showing \in [CallbackThreads -> Bufs \cup {NoBuf}]
    BY DEF PipelineInv, PipelineTypes, ShowingInv
  <1>h. CallbackThreads = {"D", "E"}
    BY DEF CallbackThreads
  <1>1. ASSUME NEW k \in PicKinds, ParseSlice(k) PROVE (PeeksNext /\ (Signals \/ Calls \/
      showing' = showing))
    BY <1>1, <1>0 DEF ParseSlice, dVars, eVars, uVars, PeeksNext
  <1>2. CASE GetSemaphore
    BY <1>2, <1>0 DEF GetSemaphore, DStep, dVars, eVars, uVars, PeeksNext
  <1>3. CASE PopBuffer
    BY <1>3, <1>0 DEF PopBuffer, DStep, dVars, eVars, uVars, PeeksNext
  <1>4. CASE PopWaits
    BY <1>4, <1>0 DEF PopWaits, DStep, dVars, eVars, uVars, PeeksNext
  <1>5. CASE PopWakesUp
    BY <1>5, <1>0 DEF PopWakesUp, DStep, dVars, eVars, uVars, PeeksNext
  <1>6. CASE PopFails
    BY <1>6, <1>0 DEF PopFails, DStep, dVars, eVars, uVars, PeeksNext
  <1>7. CASE GetMv
    BY <1>7, <1>0 DEF GetMv, DStep, dVars, eVars, uVars, PeeksNext
  <1>8. CASE ListRefs
    BY <1>8, <1>0 DEF ListRefs, DStep, dVars, eVars, uVars, PeeksNext
  <1>9. CASE LockRefs
    BY <1>9, <1>0 DEF LockRefs, DStep, dVars, eVars, uVars, PeeksNext
  <1>10. CASE CancelFrame
    BY <1>10, <1>0 DEF CancelFrame, DStep, dVars, eVars, uVars, PeeksNext
  <1>11. CASE CancelRefs
    BY <1>11, <1>0 DEF CancelRefs, DStep, dVars, eVars, uVars, PeeksNext
  <1>12. CASE FlushDpb
    BY <1>12, <1>0 DEF FlushDpb, DStep, dVars, eVars, uVars, PeeksNext
  <1>13. CASE Replace
    BY <1>13, <1>0 DEF Replace, DStep, dVars, eVars, uVars, PeeksNext
  <1>14. CASE InsertPicture
    BY <1>14, <1>0 DEF InsertPicture, DStep, dVars, eVars, uVars, PeeksNext
  <1>15. CASE MarkRefs
    BY <1>15, <1>0 DEF MarkRefs, DStep, dVars, eVars, uVars, PeeksNext
  <1>16. CASE CleanDpb
    BY <1>16, <1>0 DEF CleanDpb, DStep, dVars, eVars, uVars, PeeksNext
  <1>17. CASE Launch
    BY <1>17, <1>0 DEF Launch, dVars, eVars, uVars, PeeksNext
  <1>18. CASE FlushToExit
    BY <1>18, <1>0 DEF FlushToExit, DStep, dVars, eVars, uVars, PeeksNext
  <1>19. CASE WaitFrameSent
    BY <1>19, <1>0 DEF WaitFrameSent, DStep, dVars, eVars, uVars, PeeksNext
  <1>20. CASE FlushAll
    BY <1>20, <1>0 DEF FlushAll, DStep, dVars, eVars, uVars, PeeksNext
  <1>21. CASE ReleaseFrames
    BY <1>21, <1>0 DEF ReleaseFrames, DStep, dVars, eVars, uVars, PeeksNext
  <1>22. CASE SignalEos
    BY <1>22, <1>0 DEF SignalEos, dVars, eVars, uVars, PeeksNext
  <1>23. CASE Terminate
    BY <1>23, <1>0 DEF Terminate, DStep, dVars, eVars, uVars, PeeksNext
  <1>24. CASE TerminateMv
    BY <1>24, <1>0 DEF TerminateMv, DStep, dVars, eVars, uVars, PeeksNext
  <1>25. CASE ExitThread
    BY <1>25, <1>0 DEF ExitThread, DStep, dVars, eVars, uVars, PeeksNext
  <1>26. CASE pcD = "peek" /\ CallDisplay("D")
    <2>1. Calls
      BY <1>26, <1>h DEF Calls
    <2>2. PeeksNext
      BY <1>26, <1>0, <1>h DEF CallDisplay, PeeksNext, dVars, eVars
    <2> QED BY <2>1, <2>2
  <1>27. CASE pcD = "peek" /\ SignalDisplayIsDone("D")
    <2>1. Signals
      BY <1>27, <1>h DEF Signals
    <2>2. PeeksNext
      BY <1>27, <1>0, <1>h DEF SignalDisplayIsDone, PeeksNext, dVars, eVars
    <2> QED BY <2>1, <2>2
  <1>28. CASE pcE = "peek" /\ CallDisplay("E")
    <2>1. Calls
      BY <1>28, <1>h DEF Calls
    <2>2. PeeksNext
      BY <1>28, <1>0, <1>h DEF CallDisplay, PeeksNext, dVars, eVars
    <2> QED BY <2>1, <2>2
  <1>29. CASE pcE = "peek" /\ SignalDisplayIsDone("E")
    <2>1. Signals
      BY <1>29, <1>h DEF Signals
    <2>2. PeeksNext
      BY <1>29, <1>0, <1>h DEF SignalDisplayIsDone, PeeksNext, dVars, eVars
    <2> QED BY <2>1, <2>2
  <1>30. CASE EndOfInput
    BY <1>30, <1>0 DEF EndOfInput, DStep, dVars, eVars, uVars, PeeksNext
  <1>31. CASE UnitError
    BY <1>31, <1>0 DEF UnitError, DStep, dVars, eVars, uVars, PeeksNext
  <1>32. CASE EndCommand
    BY <1>32, <1>0 DEF EndCommand, EStep, dVars, eVars, uVars, PeeksNext
  <1>33. CASE UnlockRefs
    BY <1>33, <1>0 DEF UnlockRefs, EStep, dVars, eVars, uVars, PeeksNext
  <1>34. CASE Advance
    BY <1>34, <1>0 DEF Advance, EStep, dVars, eVars, uVars, PeeksNext
  <1>35. CASE UnlockPicture
    BY <1>35, <1>0 DEF UnlockPicture, EStep, dVars, eVars, uVars, PeeksNext
  <1>36. CASE PostSemaphore
    BY <1>36, <1>0 DEF PostSemaphore, EStep, dVars, eVars, uVars, PeeksNext
  <1>37. ASSUME NEW b \in Bufs, PutDecPict(b) PROVE (PeeksNext /\ (Signals \/ Calls \/ showing'
      = showing))
    BY <1>37, <1>0 DEF PutDecPict, UStep, dVars, eVars, uVars, PeeksNext
  <1>38. CASE DecommitPool
    BY <1>38, <1>0 DEF DecommitPool, UStep, dVars, eVars, uVars, PeeksNext
  <1>39. CASE DestroyFeeder
    BY <1>39, <1>0 DEF DestroyFeeder, UStep, dVars, eVars, uVars, PeeksNext
  <1>40. CASE DestroyChannel
    BY <1>40, <1>0 DEF DestroyChannel, UStep, dVars, eVars, uVars, PeeksNext
  <1>41. CASE ReleaseUnused
    BY <1>41, <1>0 DEF ReleaseUnused, UStep, dVars, eVars, uVars, PeeksNext
  <1>42. CASE Destroyed
    BY <1>42, <1>0 DEF Destroyed, UStep, dVars, eVars, uVars, PeeksNext
  <1>43. CASE Over
    BY <1>43, <1>0 DEF Over, vars, dVars, eVars, PeeksNext
  <1> HIDE DEF PeeksNext, Signals, Calls
  <1> QED BY <1>1, <1>2, <1>3, <1>4, <1>5, <1>6, <1>7, <1>8, <1>9, <1>10, <1>11, <1>12, <1>13,
      <1>14, <1>15, <1>16, <1>17, <1>18, <1>19, <1>20, <1>21, <1>22, <1>23, <1>24, <1>25, <1>26,
      <1>27, <1>28, <1>29, <1>30, <1>31, <1>32, <1>33, <1>34, <1>35, <1>36, <1>37, <1>38, <1>39,
      <1>40, <1>41, <1>42, <1>43 DEF Next, DNext, ENext, DestroyNext, DisplayD, DisplayE

LEMMA ShowingStep ==
  ASSUME PipelineInv, Next, Sized
  PROVE  ShowingInv'
  <1>0. showing \in [CallbackThreads -> Bufs \cup {NoBuf}] /\ PeeksNext
    BY ShowingMoves DEF PipelineInv, PipelineTypes
  <1>1. /\ MngrInv(ctx, FrmUsers, MvUsers, user, Shown) /\ Users(FrmUsers, MvUsers)
        /\ ctx \in PictMngrs
    BY MngrAround
  <1>2. \A t \in CallbackThreads : showing[t] # NoBuf =>
           /\ ctx.disp # <<>> /\ showing[t] = ctx.pool.buf[Head(ctx.disp)]
           /\ ctx.status[Head(ctx.disp)] = "ready"
    BY DEF PipelineInv, ShowingInv
  <1> SUFFICES ASSUME NEW t \in CallbackThreads, showing'[t] # NoBuf
               PROVE  /\ ctx'.disp # <<>>
                      /\ showing'[t] = ctx'.pool.buf[Head(ctx'.disp)]
                      /\ ctx'.status[Head(ctx'.disp)] = "ready"
    BY <1>0 DEF ShowingInv, PeeksNext
  <1>3. CASE Signals
    <2>1. PICK r \in CallbackThreads : SignalDisplayIsDone(r)
      BY <1>3 DEF Signals
    <2>2. showing[r] # NoBuf /\ showing' = [showing EXCEPT ![r] = NoBuf]
      BY <2>1 DEF SignalDisplayIsDone
    <2>3. t # r /\ showing[t] # NoBuf
      BY <1>0, <2>2
    <2> QED BY <2>2, <2>3, OneShows
  <1>4. CASE Calls
    <2>1. PICK r \in CallbackThreads : CallDisplay(r)
      BY <1>4 DEF Calls
    <2> DEFINE s == GetDisplayBuffer(ctx)
    <2>2. s = GetDisplayBuffer(ctx) /\ s # NoSlot
          /\ showing' = [showing EXCEPT ![r] = ctx.pool.buf[s]] /\ ctx' = ctx
      BY <2>1 DEF CallDisplay
    <2> HIDE DEF s, FrmUsers, MvUsers, Shown
    <2>3. ctx.disp # <<>> /\ s = Head(ctx.disp) /\ ctx.status[s] = "ready"
      BY <1>1, <2>2, ShownBuffer
    <2> QED BY <1>0, <1>2, <2>2, <2>3
  <1>5. CASE showing' = showing /\ ~Signals
    <2>1. HeadSame(ctx, ctx')
      BY <1>5, StepKeeps DEF HeadKept
    <2> QED BY <1>2, <1>5, <2>1 DEF HeadSame
  <1> QED BY <1>3, <1>4, <1>5, ShowingMoves
-----------------------------------------------------------------------------
(* The inductive invariant: the picture D prepares and the commands *)
PictMoves ==
    /\ HoldsRec' => PopBuffer \/ (HoldsRec /\ recID' = recID)
    /\ HoldsMv' => GetMv \/ (HoldsMv /\ mvID' = mvID)
    /\ pcD' \in NotInserted => PopBuffer \/ pcD \in NotInserted
    /\ pcD' \in Inserted => InsertPicture \/ (pcD \in Inserted /\ recID' = recID)
    /\ pcD \in Inserted => Launch \/ (pcD' \in Inserted /\ recID' = recID)
    /\ chan' = chan \/ EndCommand \/ Launch
DoneMoves ==
    /\ pcE' \in {"unlockRefs", "advance", "peek"} => done' \in Command
    /\ pcE' \in {"idle", "post"} => done' = NoCommand

LEMMA PictMove ==
  ASSUME PipelineInv, Next
  PROVE  PictMoves /\ DoneMoves
  <1>t. PipelineTypes'
    BY TypesStep
  <1>0. /\ pcE \in {"unlockRefs", "advance", "peek"} => done \in Command
        /\ pcE \in {"idle", "post"} => done = NoCommand
    BY DEF PipelineInv, PictureInv
  <1>1. ASSUME NEW k \in PicKinds, ParseSlice(k) PROVE (PictMoves /\ DoneMoves)
    BY <1>1, <1>0 DEF ParseSlice, dVars, eVars, uVars, PictMoves, DoneMoves, HoldsRec, HoldsMv,
        Begun, NotInserted, Inserted
  <1>2. CASE GetSemaphore
    BY <1>2, <1>0 DEF GetSemaphore, DStep, dVars, eVars, uVars, PictMoves, DoneMoves, HoldsRec,
        HoldsMv, Begun, NotInserted, Inserted
  <1>3. CASE PopBuffer
    BY <1>3, <1>0 DEF PopBuffer, DStep, dVars, eVars, uVars, PictMoves, DoneMoves, HoldsRec,
        HoldsMv, Begun, NotInserted, Inserted
  <1>4. CASE PopWaits
    BY <1>4, <1>0 DEF PopWaits, DStep, dVars, eVars, uVars, PictMoves, DoneMoves, HoldsRec,
        HoldsMv, Begun, NotInserted, Inserted
  <1>5. CASE PopWakesUp
    BY <1>5, <1>0 DEF PopWakesUp, DStep, dVars, eVars, uVars, PictMoves, DoneMoves, HoldsRec,
        HoldsMv, Begun, NotInserted, Inserted
  <1>6. CASE PopFails
    BY <1>6, <1>0 DEF PopFails, DStep, dVars, eVars, uVars, PictMoves, DoneMoves, HoldsRec,
        HoldsMv, Begun, NotInserted, Inserted
  <1>7. CASE GetMv
    BY <1>7, <1>0 DEF GetMv, DStep, dVars, eVars, uVars, PictMoves, DoneMoves, HoldsRec,
        HoldsMv, Begun, NotInserted, Inserted
  <1>8. CASE ListRefs
    BY <1>8, <1>0 DEF ListRefs, DStep, dVars, eVars, uVars, PictMoves, DoneMoves, HoldsRec,
        HoldsMv, Begun, NotInserted, Inserted
  <1>9. CASE LockRefs
    BY <1>9, <1>0 DEF LockRefs, DStep, dVars, eVars, uVars, PictMoves, DoneMoves, HoldsRec,
        HoldsMv, Begun, NotInserted, Inserted
  <1>10. CASE CancelFrame
    BY <1>10, <1>0 DEF CancelFrame, DStep, dVars, eVars, uVars, PictMoves, DoneMoves, HoldsRec,
        HoldsMv, Begun, NotInserted, Inserted
  <1>11. CASE CancelRefs
    BY <1>11, <1>0 DEF CancelRefs, DStep, dVars, eVars, uVars, PictMoves, DoneMoves, HoldsRec,
        HoldsMv, Begun, NotInserted, Inserted
  <1>12. CASE FlushDpb
    BY <1>12, <1>0 DEF FlushDpb, DStep, dVars, eVars, uVars, PictMoves, DoneMoves, HoldsRec,
        HoldsMv, Begun, NotInserted, Inserted
  <1>13. CASE Replace
    BY <1>13, <1>0 DEF Replace, DStep, dVars, eVars, uVars, PictMoves, DoneMoves, HoldsRec,
        HoldsMv, Begun, NotInserted, Inserted
  <1>14. CASE InsertPicture
    BY <1>14, <1>0 DEF InsertPicture, DStep, dVars, eVars, uVars, PictMoves, DoneMoves,
        HoldsRec, HoldsMv, Begun, NotInserted, Inserted
  <1>15. CASE MarkRefs
    BY <1>15, <1>0 DEF MarkRefs, DStep, dVars, eVars, uVars, PictMoves, DoneMoves, HoldsRec,
        HoldsMv, Begun, NotInserted, Inserted
  <1>16. CASE CleanDpb
    BY <1>16, <1>0 DEF CleanDpb, DStep, dVars, eVars, uVars, PictMoves, DoneMoves, HoldsRec,
        HoldsMv, Begun, NotInserted, Inserted
  <1>17. CASE Launch
    BY <1>17, <1>0 DEF Launch, dVars, eVars, uVars, PictMoves, DoneMoves, HoldsRec, HoldsMv,
        Begun, NotInserted, Inserted
  <1>18. CASE FlushToExit
    BY <1>18, <1>0 DEF FlushToExit, DStep, dVars, eVars, uVars, PictMoves, DoneMoves, HoldsRec,
        HoldsMv, Begun, NotInserted, Inserted
  <1>19. CASE WaitFrameSent
    BY <1>19, <1>0 DEF WaitFrameSent, DStep, dVars, eVars, uVars, PictMoves, DoneMoves,
        HoldsRec, HoldsMv, Begun, NotInserted, Inserted
  <1>20. CASE FlushAll
    BY <1>20, <1>0 DEF FlushAll, DStep, dVars, eVars, uVars, PictMoves, DoneMoves, HoldsRec,
        HoldsMv, Begun, NotInserted, Inserted
  <1>21. CASE ReleaseFrames
    BY <1>21, <1>0 DEF ReleaseFrames, DStep, dVars, eVars, uVars, PictMoves, DoneMoves,
        HoldsRec, HoldsMv, Begun, NotInserted, Inserted
  <1>22. CASE SignalEos
    BY <1>22, <1>0 DEF SignalEos, dVars, eVars, uVars, PictMoves, DoneMoves, HoldsRec, HoldsMv,
        Begun, NotInserted, Inserted
  <1>23. CASE Terminate
    BY <1>23, <1>0 DEF Terminate, DStep, dVars, eVars, uVars, PictMoves, DoneMoves, HoldsRec,
        HoldsMv, Begun, NotInserted, Inserted
  <1>24. CASE TerminateMv
    BY <1>24, <1>0 DEF TerminateMv, DStep, dVars, eVars, uVars, PictMoves, DoneMoves, HoldsRec,
        HoldsMv, Begun, NotInserted, Inserted
  <1>25. CASE ExitThread
    BY <1>25, <1>0 DEF ExitThread, DStep, dVars, eVars, uVars, PictMoves, DoneMoves, HoldsRec,
        HoldsMv, Begun, NotInserted, Inserted
  <1>26. CASE pcD = "peek" /\ CallDisplay("D")
    BY <1>26, <1>0 DEF CallDisplay, dVars, eVars, uVars, PictMoves, DoneMoves, HoldsRec,
        HoldsMv, Begun, NotInserted, Inserted
  <1>27. CASE pcD = "peek" /\ SignalDisplayIsDone("D")
    BY <1>27, <1>0 DEF SignalDisplayIsDone, dVars, eVars, uVars, PictMoves, DoneMoves, HoldsRec,
        HoldsMv, Begun, NotInserted, Inserted
  <1>28. CASE pcE = "peek" /\ CallDisplay("E")
    BY <1>28, <1>0 DEF CallDisplay, dVars, eVars, uVars, PictMoves, DoneMoves, HoldsRec,
        HoldsMv, Begun, NotInserted, Inserted
  <1>29. CASE pcE = "peek" /\ SignalDisplayIsDone("E")
    BY <1>29, <1>0 DEF SignalDisplayIsDone, dVars, eVars, uVars, PictMoves, DoneMoves, HoldsRec,
        HoldsMv, Begun, NotInserted, Inserted
  <1>30. CASE EndOfInput
    BY <1>30, <1>0 DEF EndOfInput, DStep, dVars, eVars, uVars, PictMoves, DoneMoves, HoldsRec,
        HoldsMv, Begun, NotInserted, Inserted
  <1>31. CASE UnitError
    BY <1>31, <1>0 DEF UnitError, DStep, dVars, eVars, uVars, PictMoves, DoneMoves, HoldsRec,
        HoldsMv, Begun, NotInserted, Inserted
  <1>32. CASE EndCommand
    <2>1. done' \in Command
      BY <1>32, <1>t, EndCommandUsers DEF EndCommand
    <2> QED BY <1>32, <2>1, <1>0 DEF EndCommand, EStep, dVars, uVars, PictMoves, DoneMoves,
        HoldsRec, HoldsMv, Begun, NotInserted, Inserted
  <1>33. CASE UnlockRefs
    BY <1>33, <1>0 DEF UnlockRefs, EStep, dVars, eVars, uVars, PictMoves, DoneMoves, HoldsRec,
        HoldsMv, Begun, NotInserted, Inserted
  <1>34. CASE Advance
    BY <1>34, <1>0 DEF Advance, EStep, dVars, eVars, uVars, PictMoves, DoneMoves, HoldsRec,
        HoldsMv, Begun, NotInserted, Inserted
  <1>35. CASE UnlockPicture
    BY <1>35, <1>0 DEF UnlockPicture, EStep, dVars, eVars, uVars, PictMoves, DoneMoves,
        HoldsRec, HoldsMv, Begun, NotInserted, Inserted
  <1>36. CASE PostSemaphore
    BY <1>36, <1>0 DEF PostSemaphore, EStep, dVars, eVars, uVars, PictMoves, DoneMoves,
        HoldsRec, HoldsMv, Begun, NotInserted, Inserted
  <1>37. ASSUME NEW b \in Bufs, PutDecPict(b) PROVE (PictMoves /\ DoneMoves)
    BY <1>37, <1>0 DEF PutDecPict, UStep, dVars, eVars, uVars, PictMoves, DoneMoves, HoldsRec,
        HoldsMv, Begun, NotInserted, Inserted
  <1>38. CASE DecommitPool
    BY <1>38, <1>0 DEF DecommitPool, UStep, dVars, eVars, uVars, PictMoves, DoneMoves, HoldsRec,
        HoldsMv, Begun, NotInserted, Inserted
  <1>39. CASE DestroyFeeder
    BY <1>39, <1>0 DEF DestroyFeeder, UStep, dVars, eVars, uVars, PictMoves, DoneMoves,
        HoldsRec, HoldsMv, Begun, NotInserted, Inserted
  <1>40. CASE DestroyChannel
    <2>1. blk1 = blk2
      BY <1>40 DEF DestroyChannel, PipelineInv, RestInv
    <2>2. chan = <<>>
      <3>1. Len(chan) \in Nat /\ blk1 \in Nat
        BY RanksClose
      <3>2. Len(chan) = 0
        BY <1>40, <2>1, <3>1 DEF DestroyChannel, PipelineInv, PipelineTypes, SemaphoreInv, One
      <3> QED BY <3>2 DEF PipelineInv, PipelineTypes
    <2> QED BY <1>40, <2>2, <1>0 DEF DestroyChannel, UStep, dVars, eVars, PictMoves, DoneMoves,
        HoldsRec, HoldsMv, Begun, NotInserted, Inserted
  <1>41. CASE ReleaseUnused
    BY <1>41, <1>0 DEF ReleaseUnused, UStep, dVars, eVars, uVars, PictMoves, DoneMoves,
        HoldsRec, HoldsMv, Begun, NotInserted, Inserted
  <1>42. CASE Destroyed
    BY <1>42, <1>0 DEF Destroyed, UStep, dVars, eVars, uVars, PictMoves, DoneMoves, HoldsRec,
        HoldsMv, Begun, NotInserted, Inserted
  <1>43. CASE Over
    BY <1>43, <1>0 DEF Over, vars, dVars, eVars, PictMoves, DoneMoves, HoldsRec, HoldsMv, Begun,
        NotInserted, Inserted
  <1> HIDE DEF PictMoves, DoneMoves
  <1> QED BY <1>1, <1>2, <1>3, <1>4, <1>5, <1>6, <1>7, <1>8, <1>9, <1>10, <1>11, <1>12, <1>13,
      <1>14, <1>15, <1>16, <1>17, <1>18, <1>19, <1>20, <1>21, <1>22, <1>23, <1>24, <1>25, <1>26,
      <1>27, <1>28, <1>29, <1>30, <1>31, <1>32, <1>33, <1>34, <1>35, <1>36, <1>37, <1>38, <1>39,
      <1>40, <1>41, <1>42, <1>43 DEF Next, DNext, ENext, DestroyNext, DisplayD, DisplayE

LEMMA HeldCountedNext ==
  ASSUME PipelineInv, Next
  PROVE  /\ HoldsRec' /\ recID' \in Slots => FrmUsers'[recID'] >= 1
         /\ HoldsMv' /\ mvID' \in MvIDs => MvUsers'[mvID'] >= 1
  <1>1. PipelineTypes /\ PipelineTypes'
    BY TypesStep DEF PipelineInv
  <1>2. /\ FrmUsers' = FrmOf(HeldRec', done'.frm, chan', Locked', refList')
        /\ MvUsers' = MvOf(HeldMv', done'.mv, chan', Locked', refList')
        /\ chan' \in Seq(Command) /\ Locked' \in SUBSET (0 .. MaxPics)
    BY <1>1, UsersAround
  <1>3. (HoldsRec' => HeldRec' = recID') /\ (HoldsMv' => HeldMv' = mvID')
    BY DEF HeldRec, HeldMv
  <1> HIDE DEF FrmUsers, MvUsers, HeldRec, HeldMv, Locked, HoldsRec, HoldsMv
  <1>4. HoldsRec' /\ recID' \in Slots => FrmUsers'[recID'] >= 1
    BY <1>2, <1>3, HeldIs
  <1>5. HoldsMv' /\ mvID' \in MvIDs => MvUsers'[mvID'] >= 1
    BY <1>2, <1>3, HeldMvIs
  <1> QED BY <1>4, <1>5

LEMMA StatusMoves ==
  ASSUME PipelineInv, Next, Sized, NEW s \in Slots
  PROVE  /\ ctx'.status[s] = "notReady" =>
                ctx.status[s] = "notReady" \/ (InsertPicture /\ s = recID)
         /\ ctx.status[s] = "notReady" =>
                ctx'.status[s] = "notReady" \/ (EndCommand /\ s = chan[1].frm)
         /\ ctx.status[s] = "notNeeded" => ctx'.status[s] = "notNeeded" \/ InsertPicture
  <1>1. ctx \in PictMngrs
    BY MngrNow
  <1>2. ctx.status \in [Slots -> Statuses]
    BY <1>1, MngrTypes
  <1>3. StatusKept
    BY StepKeeps
  <1> QED BY <1>2, <1>3 DEF StatusKept

LEMMA InsertStatus ==
  ASSUME PipelineInv, Next, Sized, InsertPicture
  PROVE  recID \in Slots /\ ctx'.status[recID] = "notReady" /\ recID' = recID
  <1>1. UsersKept
    BY UsersMostly DEF InsertPicture, DStep, eVars, Taking
  <1>2. /\ recID \in Slots
        /\ PicInserted(ctx, ctx', recID, IF pic.ref THEN "shortTerm" ELSE "unused",
                       FrmUsers, MvUsers, user, Shown)
    BY <1>1, InsertPictureCtx
  <1>3. ctx'.status = [ctx.status EXCEPT ![recID] = "notReady"]
    BY <1>2 DEF PicInserted
  <1>4. ctx.status \in [Slots -> Statuses]
    BY MngrNow, MngrTypes
  <1> QED BY <1>2, <1>3, <1>4 DEF InsertPicture

LEMMA EndStatus ==
  ASSUME PipelineInv, Next, Sized, EndCommand
  PROVE  chan[1].frm \in Slots /\ ctx'.status[chan[1].frm] = "ready"
  <1>1. /\ chan[1].frm \in Slots
        /\ Ended(ctx, ctx', chan[1].frm, FrmUsers, MvUsers, user, Shown)
    BY TypesStep, EndCommandCtx
  <1>3. ctx'.status = [ctx.status EXCEPT ![chan[1].frm] = "ready"]
    BY <1>1 DEF Ended
  <1>4. ctx.status \in [Slots -> Statuses]
    BY MngrNow, MngrTypes
  <1> QED BY <1>1, <1>3, <1>4

\* The command D is preparing; it has read no references before they are locked.
Preparation == [Current EXCEPT !.refs = IF pcD \in Begun THEN @ ELSE <<>>]

LEMMA InFlightIs ==
  ASSUME PipelineTypes
  PROVE  /\ Len(chan) \in Nat /\ Len(InFlight) = Len(chan) + One(HoldsRec)
         /\ \A k \in 1 .. Len(chan) : InFlight[k] = chan[k]
         /\ HoldsRec => InFlight[Len(chan) + 1] = Preparation
         /\ Preparation.frm = recID
         /\ Preparation.refs = IF pcD \in Begun THEN RefsOf(blk1) ELSE <<>>
         /\ DOMAIN InFlight = 1 .. Len(InFlight)
  <1>1. Len(chan) \in Nat /\ DOMAIN chan = 1 .. Len(chan)
    BY DEF PipelineTypes
  <1>2. /\ Preparation.frm = recID
        /\ Preparation.refs = IF pcD \in Begun THEN RefsOf(blk1) ELSE <<>>
    BY DEF Preparation, Current, RefsOf
  <1> DEFINE e == Preparation
             c == chan
  <1>3. InFlight = c \o (IF HoldsRec THEN <<e>> ELSE <<>>)
    BY DEF InFlight, Preparation
  <1>4. \E S : c \in Seq(S) /\ e \in S
    <2>1. c \in Seq(Command \cup {e})
      BY DEF PipelineTypes
    <2> QED BY <2>1
  <1>5. PICK S : c \in Seq(S) /\ e \in S
    BY <1>4
  <1> HIDE DEF e, c, HoldsRec
  <1>6. CASE HoldsRec
    <2>1. InFlight = Append(c, e)
      <3>1. InFlight = c \o <<e>>
        BY <1>3, <1>6
      <3>2. c \o <<e>> = Append(c, e)
        BY <1>5
      <3> QED BY <3>1, <3>2
    <2>2. /\ Len(c) \in Nat /\ Len(InFlight) = Len(c) + 1
          /\ DOMAIN InFlight = 1 .. Len(c) + 1
          /\ \A i \in 1 .. Len(c) : InFlight[i] = c[i]
          /\ InFlight[Len(c) + 1] = e
      BY <1>5, <2>1, SeqEnd
    <2> QED BY <1>1, <1>2, <1>6, <2>2 DEF c, e, One
  <1>7. CASE ~HoldsRec
    <2>1. InFlight = c
      BY <1>3, <1>5, <1>7
    <2> QED BY <1>1, <1>2, <1>7, <2>1 DEF c, e, One
  <1> QED BY <1>6, <1>7

\* Two commands never write the same picture.
LEMMA OneWriter ==
  ASSUME PipelineInv
  PROVE  /\ \A k, l \in 1 .. Len(chan) : k < l => chan[l].frm # chan[k].frm
         /\ HoldsRec => \A k \in 1 .. Len(chan) : chan[k].frm # recID
  <1>1. /\ Len(chan) \in Nat /\ Len(InFlight) = Len(chan) + One(HoldsRec)
        /\ \A k \in 1 .. Len(chan) : InFlight[k] = chan[k]
        /\ HoldsRec => InFlight[Len(chan) + 1] = Preparation
        /\ Preparation.frm = recID
    BY InFlightIs DEF PipelineInv
  <1>2. \A k \in 1 .. Len(InFlight), l \in 1 .. Len(InFlight) :
           k < l => InFlight[l].frm # InFlight[k].frm
    <2>1. Len(InFlight) \in Nat
      BY <1>1 DEF One
    <2> QED BY <2>1 DEF PipelineInv, ExclusiveInv
  <1>3. One(HoldsRec) = IF HoldsRec THEN 1 ELSE 0
    BY DEF One
  <1> HIDE DEF InFlight, HoldsRec, Preparation
  <1>4. \A k \in 1 .. Len(chan) : k \in 1 .. Len(InFlight)
    BY <1>1, <1>3
  <1>5. \A k, l \in 1 .. Len(chan) : k < l => chan[l].frm # chan[k].frm
    BY <1>1, <1>2, <1>4
  <1>6. ASSUME HoldsRec, NEW k \in 1 .. Len(chan) PROVE chan[k].frm # recID
    <2>1. k < Len(chan) + 1 /\ Len(chan) + 1 \in 1 .. Len(InFlight)
      BY <1>1, <1>3, <1>6
    <2> QED BY <1>1, <1>2, <1>4, <1>6, <2>1
  <1> QED BY <1>5, <1>6

\* A buffer nobody held before is in no list.
LEMMA PictureFresh ==
  ASSUME PipelineInv, Next, Sized
  PROVE  /\ HoldsRec' => recID' \in Slots
         /\ HoldsMv' => mvID' \in MvIDs
         /\ pcD' \in NotInserted =>
              /\ FrmHeld(ctx', recID') = 0 /\ ~ctx'.pool.out[recID']
              /\ ctx'.status[recID'] = "notNeeded"
         /\ HoldsMv' /\ pcD' \in NotInserted => MvHeld(ctx', mvID') = 0
  <1>1. /\ MngrInv(ctx, FrmUsers, MvUsers, user, Shown) /\ Users(FrmUsers, MvUsers)
        /\ ctx \in PictMngrs /\ ctx' \in PictMngrs
    BY MngrAround
  <1>t. PipelineTypes'
    BY TypesStep
  <1>2. PictMoves
    BY PictMove
  <1>h. /\ pcD \in NotInserted => HoldsRec
        /\ pcD' \in NotInserted => HoldsRec' /\ ~InsertPicture /\ ~FillsGap
    BY DEF NotInserted, HoldsRec, Begun, InsertPicture, DStep, FillsGap, ParseSlice
  <1>3. HoldsRec' => recID' \in Slots
    BY <1>2, <1>t, PopBufferCtx DEF PictMoves, PipelineInv, PictureInv
  <1>4. HoldsMv' => mvID' \in MvIDs
    BY <1>2, <1>t, GetMvCtx DEF PictMoves, PipelineInv, PictureInv
  <1>5. pcD' \in NotInserted => Calm(ctx, ctx', FrmUsers')
    BY <1>h, StepKeeps DEF CalmKept
  <1>l. Lists(ctx) /\ Lists(ctx')
    BY <1>1, MngrTypes
  <1>6. ASSUME pcD' \in NotInserted
        PROVE  /\ NoneHeld(ctx, recID') /\ ~ctx.pool.out[recID']
               /\ ctx.status[recID'] = "notNeeded"
    <2>1. CASE PopBuffer
      BY <1>t, <2>1, PopBufferCtx
    <2>2. CASE pcD \in NotInserted /\ recID' = recID
      <3>1. FrmHeld(ctx, recID) = 0 /\ ~ctx.pool.out[recID] /\ ctx.status[recID] = "notNeeded"
        BY <1>h, <2>2 DEF PipelineInv, PictureInv
      <3> QED BY <1>l, <2>2, <3>1, HeldNone
    <2> QED BY <1>2, <1>6, <1>h, <2>1, <2>2 DEF PictMoves
  <1>7. ASSUME pcD' \in NotInserted
        PROVE  /\ FrmHeld(ctx', recID') = 0 /\ ~ctx'.pool.out[recID']
               /\ ctx'.status[recID'] = "notNeeded"
    <2>1. recID' \in Slots /\ FrmUsers'[recID'] >= 1
      BY <1>3, <1>7, <1>h, HeldCountedNext
    <2>2. NoneHeld(ctx', recID') /\ ~ctx'.pool.out[recID']
      BY <1>5, <1>6, <1>7, <2>1 DEF Calm
    <2>3. ctx'.status[recID'] = "notNeeded"
      BY <1>6, <1>7, <1>h, <2>1, StatusMoves
    <2> QED BY <1>l, <2>2, <2>3, HeldNone
  <1>8. ASSUME HoldsMv', pcD' \in NotInserted PROVE MvHeld(ctx', mvID') = 0
    <2>1. CASE GetMv
      <3>1. mvID' \in MvIDs /\ NoMvHeld(ctx, mvID')
        BY <1>t, <2>1, GetMvCtx
      <3>2. NoMvHeld(ctx', mvID')
        BY <1>5, <1>8, <3>1 DEF Calm
      <3> QED BY <1>l, <3>2, HeldNone
    <2>2. CASE HoldsMv /\ mvID' = mvID
      <3>1. ~PopBuffer
        BY <1>8 DEF PopBuffer, DStep, HoldsMv, Begun
      <3>2. pcD \in NotInserted
        BY <1>2, <1>8, <3>1 DEF PictMoves
      <3>3. MvHeld(ctx, mvID) = 0 /\ mvID \in MvIDs
        BY <2>2, <3>2 DEF PipelineInv, PictureInv
      <3>4. NoMvHeld(ctx, mvID')
        BY <1>l, <2>2, <3>3, HeldNone
      <3>5. NoMvHeld(ctx', mvID')
        BY <1>5, <1>8, <2>2, <3>3, <3>4 DEF Calm
      <3> QED BY <1>l, <3>5, HeldNone
    <2> QED BY <1>2, <1>8, <2>1, <2>2 DEF PictMoves
  <1> HIDE DEF HoldsRec, HoldsMv, NotInserted
  <1> QED BY <1>3, <1>4, <1>7, <1>8

\* The picture being decoded is that of a command, or the one D has inserted.
LEMMA CommandsNotReady ==
  ASSUME PipelineInv, Next, Sized, NEW k \in 1 .. Len(chan')
  PROVE  ctx'.status[chan'[k].frm] = "notReady"
  <1>0. chan \in Seq(Command) /\ chan' \in Seq(Command)
    BY TypesStep DEF PipelineInv, PipelineTypes
  <1>c. \A i \in 1 .. Len(chan) : chan[i] \in Command
    BY <1>0
  <1>d. \A i \in 1 .. Len(chan) : chan[i].frm \in Slots
    BY <1>c DEF Command
  <1>e. \A i \in 1 .. Len(chan) : ctx.status[chan[i].frm] = "notReady"
    BY DEF PipelineInv, PictureInv
  <1>1. \A i \in 1 .. Len(chan) : ctx.status[chan[i].frm] = "notReady" /\ chan[i].frm \in Slots
    BY <1>d, <1>e
  <1>2. PictMoves
    BY PictMove
  <1>3. CASE EndCommand
    <2>1. chan # <<>> /\ chan' = Tail(chan)
      BY <1>3 DEF EndCommand
    <2>2. /\ Len(chan) \in Nat /\ Len(chan) > 0 /\ Len(chan') = Len(chan) - 1
          /\ \A i \in 1 .. Len(chan) - 1 : chan'[i] = chan[i + 1]
      BY <1>0, <2>1, SeqHead
    <2>3. k + 1 \in 1 .. Len(chan) /\ 1 \in 1 .. Len(chan) /\ 1 < k + 1 /\ chan'[k] = chan[k + 1]
      BY <2>2
    <2>4. chan[k + 1].frm # chan[1].frm
      BY <2>3, OneWriter
    <2> QED BY <1>1, <2>3, <2>4, StatusMoves
  <1>4. CASE chan' = chan /\ ~EndCommand
    BY <1>1, <1>4, StatusMoves
  <1>5. CASE Launch /\ ~EndCommand
    <2>1. Current \in Command /\ chan' = Append(chan, Current)
      BY <1>5, TypesStep, LaunchUsers
    <2>2. /\ Len(chan) \in Nat /\ Len(chan') = Len(chan) + 1
          /\ \A i \in 1 .. Len(chan) : chan'[i] = chan[i]
          /\ chan'[Len(chan) + 1] = Current
      BY <1>0, <2>1, SeqEnd
    <2>3. Current.frm = recID /\ recID \in Slots /\ ctx.status[recID] = "notReady"
      BY <1>5 DEF Launch, Current, PipelineInv, PictureInv, Inserted, HoldsRec, Begun
    <2>4. CASE k \in 1 .. Len(chan)
      BY <1>1, <1>5, <2>2, <2>4, StatusMoves
    <2>5. CASE k = Len(chan) + 1
      BY <1>5, <2>2, <2>3, <2>5, StatusMoves
    <2> QED BY <2>2, <2>4, <2>5
  <1> QED BY <1>2, <1>3, <1>4, <1>5 DEF PictMoves

LEMMA NotReadyDecoded ==
  ASSUME PipelineInv, Next, Sized, NEW s \in Slots, ctx'.status[s] = "notReady"
  PROVE  \/ \E i \in 1 .. Len(chan') : chan'[i].frm = s
         \/ pcD' \in Inserted /\ recID' = s
  <1>0. chan \in Seq(Command) /\ chan' \in Seq(Command)
    BY TypesStep DEF PipelineInv, PipelineTypes
  <1>1. ctx.status[s] = "notReady" \/ (InsertPicture /\ s = recID)
    BY StatusMoves
  <1>2. PictMoves
    BY PictMove
  <1>3. CASE InsertPicture /\ s = recID
    BY <1>3 DEF InsertPicture, DStep, Inserted
  <1>4. CASE ctx.status[s] = "notReady"
    <2>1. \/ \E i \in 1 .. Len(chan) : chan[i].frm = s
          \/ pcD \in Inserted /\ recID = s
      BY <1>4 DEF PipelineInv, PictureInv
    <2>l. ASSUME Launch
          PROVE  /\ Len(chan) \in Nat /\ Len(chan') = Len(chan) + 1
                 /\ \A i \in 1 .. Len(chan) : chan'[i] = chan[i]
                 /\ chan'[Len(chan) + 1].frm = recID
      <3>1. Current \in Command /\ chan' = Append(chan, Current) /\ Current.frm = recID
        BY <2>l, TypesStep, LaunchUsers DEF Current
      <3> QED BY <1>0, <3>1, SeqEnd
    <2>2. CASE pcD \in Inserted /\ recID = s
      <3>1. CASE Launch
        BY <2>2, <2>l, <3>1
      <3> QED BY <1>2, <2>2, <3>1 DEF PictMoves
    <2>3. ASSUME NEW i \in 1 .. Len(chan), chan[i].frm = s
          PROVE  \E j \in 1 .. Len(chan') : chan'[j].frm = s
      <3>1. CASE EndCommand
        <4>1. chan # <<>> /\ chan' = Tail(chan)
          BY <3>1 DEF EndCommand
        <4>2. /\ Len(chan) \in Nat /\ Len(chan') = Len(chan) - 1
              /\ \A j \in 1 .. Len(chan) - 1 : chan'[j] = chan[j + 1]
          BY <1>0, <4>1, SeqHead
        <4>3. i # 1
          BY <2>3, <3>1, EndStatus
        <4>4. i - 1 \in 1 .. Len(chan') /\ chan'[i - 1] = chan[i]
          BY <4>2, <4>3
        <4> QED BY <2>3, <4>4
      <3>2. CASE Launch
        <4>1. i \in 1 .. Len(chan') /\ chan'[i] = chan[i]
          BY <2>l, <3>2
        <4> QED BY <2>3, <4>1
      <3>3. CASE chan' = chan
        BY <2>3, <3>3
      <3> QED BY <1>2, <3>1, <3>2, <3>3 DEF PictMoves
    <2> QED BY <2>1, <2>2, <2>3
  <1> QED BY <1>1, <1>3, <1>4

LEMMA PictureStep ==
  ASSUME PipelineInv, Next, Sized
  PROVE  PictureInv'
  <1>1. /\ HoldsRec' => recID' \in Slots
        /\ HoldsMv' => mvID' \in MvIDs
        /\ pcD' \in NotInserted =>
              /\ FrmHeld(ctx', recID') = 0 /\ ~ctx'.pool.out[recID']
              /\ ctx'.status[recID'] = "notNeeded"
        /\ HoldsMv' /\ pcD' \in NotInserted => MvHeld(ctx', mvID') = 0
    BY PictureFresh
  <1>2. DoneMoves
    BY PictMove
  <1>3. \A k \in 1 .. Len(chan') : ctx'.status[chan'[k].frm] = "notReady"
    BY CommandsNotReady
  <1>4. \A s \in Slots : ctx'.status[s] = "notReady" =>
           \/ \E i \in 1 .. Len(chan') : chan'[i].frm = s
           \/ pcD' \in Inserted /\ recID' = s
    BY NotReadyDecoded
  <1>5. pcD' \in Inserted => ctx'.status[recID'] = "notReady"
    <2>1. PictMoves
      BY PictMove
    <2>2. CASE InsertPicture
      BY <2>2, InsertStatus
    <2>3. CASE pcD \in Inserted /\ recID' = recID
      <3>1. ctx.status[recID] = "notReady" /\ recID \in Slots
        BY <2>3 DEF PipelineInv, PictureInv, Inserted, HoldsRec, Begun
      <3>2. ctx'.status[recID] = "notReady" \/ (EndCommand /\ recID = chan[1].frm)
        BY <3>1, StatusMoves
      <3>3. ~(EndCommand /\ recID = chan[1].frm)
        <4> SUFFICES ASSUME EndCommand PROVE chan[1].frm # recID
          OBVIOUS
        <4>1. 1 \in 1 .. Len(chan)
          BY SeqHead DEF EndCommand, PipelineInv, PipelineTypes
        <4>2. HoldsRec
          BY <2>3 DEF HoldsRec, Begun, Inserted
        <4> QED BY <4>1, <4>2, OneWriter
      <3> QED BY <2>3, <3>2, <3>3
    <2> QED BY <2>1, <2>2, <2>3 DEF PictMoves
  <1> HIDE DEF HoldsRec, HoldsMv, NotInserted, Inserted
  <1> QED BY <1>1, <1>2, <1>3, <1>4, <1>5 DEF PictureInv, DoneMoves
-----------------------------------------------------------------------------
(* The inductive invariant: the reference lists *)
RankBase == blk2 - One(pcE \notin {"unlockRefs", "advance"})
RefMoves ==
    /\ EndCommand \/ RankBase' = RankBase
    /\ pcD' = "lockRefs" =>
          ListRefs \/ (pcD = "lockRefs" /\ blk1' = blk1 /\ refList' = refList)
    /\ \A i \in Locked' : i \in Locked \/ (LockRefs /\ i = blk1)
    /\ ListRefs \/ refList' = refList

LEMMA RefMove ==
  ASSUME PipelineInv, Next
  PROVE  RefMoves
  <1>0. /\ blk1 \in Nat /\ blk2 \in Nat /\ MaxPics \in Nat
        /\ pcE \in {"unlockRefs", "advance"} => blk2 < blk1
    BY RanksClose
  <1>1. ASSUME NEW k \in PicKinds, ParseSlice(k) PROVE RefMoves
    BY <1>1, <1>0 DEF ParseSlice, dVars, eVars, uVars, RefMoves, RankBase, One, Locked, Begun
  <1>2. CASE GetSemaphore
    BY <1>2, <1>0 DEF GetSemaphore, DStep, dVars, eVars, uVars, RefMoves, RankBase, One, Locked,
        Begun
  <1>3. CASE PopBuffer
    BY <1>3, <1>0 DEF PopBuffer, DStep, dVars, eVars, uVars, RefMoves, RankBase, One, Locked,
        Begun
  <1>4. CASE PopWaits
    BY <1>4, <1>0 DEF PopWaits, DStep, dVars, eVars, uVars, RefMoves, RankBase, One, Locked,
        Begun
  <1>5. CASE PopWakesUp
    BY <1>5, <1>0 DEF PopWakesUp, DStep, dVars, eVars, uVars, RefMoves, RankBase, One, Locked,
        Begun
  <1>6. CASE PopFails
    BY <1>6, <1>0 DEF PopFails, DStep, dVars, eVars, uVars, RefMoves, RankBase, One, Locked,
        Begun
  <1>7. CASE GetMv
    BY <1>7, <1>0 DEF GetMv, DStep, dVars, eVars, uVars, RefMoves, RankBase, One, Locked, Begun
  <1>8. CASE ListRefs
    BY <1>8, <1>0 DEF ListRefs, DStep, dVars, eVars, uVars, RefMoves, RankBase, One, Locked,
        Begun
  <1>9. CASE LockRefs
    BY <1>9, <1>0 DEF LockRefs, DStep, dVars, eVars, uVars, RefMoves, RankBase, One, Locked,
        Begun
  <1>10. CASE CancelFrame
    BY <1>10, <1>0 DEF CancelFrame, DStep, dVars, eVars, uVars, RefMoves, RankBase, One, Locked,
        Begun
  <1>11. CASE CancelRefs
    BY <1>11, <1>0 DEF CancelRefs, DStep, dVars, eVars, uVars, RefMoves, RankBase, One, Locked,
        Begun
  <1>12. CASE FlushDpb
    BY <1>12, <1>0 DEF FlushDpb, DStep, dVars, eVars, uVars, RefMoves, RankBase, One, Locked,
        Begun
  <1>13. CASE Replace
    BY <1>13, <1>0 DEF Replace, DStep, dVars, eVars, uVars, RefMoves, RankBase, One, Locked,
        Begun
  <1>14. CASE InsertPicture
    BY <1>14, <1>0 DEF InsertPicture, DStep, dVars, eVars, uVars, RefMoves, RankBase, One,
        Locked, Begun
  <1>15. CASE MarkRefs
    BY <1>15, <1>0 DEF MarkRefs, DStep, dVars, eVars, uVars, RefMoves, RankBase, One, Locked,
        Begun
  <1>16. CASE CleanDpb
    BY <1>16, <1>0 DEF CleanDpb, DStep, dVars, eVars, uVars, RefMoves, RankBase, One, Locked,
        Begun
  <1>17. CASE Launch
    BY <1>17, <1>0 DEF Launch, dVars, eVars, uVars, RefMoves, RankBase, One, Locked, Begun
  <1>18. CASE FlushToExit
    BY <1>18, <1>0 DEF FlushToExit, DStep, dVars, eVars, uVars, RefMoves, RankBase, One, Locked,
        Begun
  <1>19. CASE WaitFrameSent
    BY <1>19, <1>0 DEF WaitFrameSent, DStep, dVars, eVars, uVars, RefMoves, RankBase, One,
        Locked, Begun
  <1>20. CASE FlushAll
    BY <1>20, <1>0 DEF FlushAll, DStep, dVars, eVars, uVars, RefMoves, RankBase, One, Locked,
        Begun
  <1>21. CASE ReleaseFrames
    BY <1>21, <1>0 DEF ReleaseFrames, DStep, dVars, eVars, uVars, RefMoves, RankBase, One,
        Locked, Begun
  <1>22. CASE SignalEos
    BY <1>22, <1>0 DEF SignalEos, dVars, eVars, uVars, RefMoves, RankBase, One, Locked, Begun
  <1>23. CASE Terminate
    BY <1>23, <1>0 DEF Terminate, DStep, dVars, eVars, uVars, RefMoves, RankBase, One, Locked,
        Begun
  <1>24. CASE TerminateMv
    BY <1>24, <1>0 DEF TerminateMv, DStep, dVars, eVars, uVars, RefMoves, RankBase, One, Locked,
        Begun
  <1>25. CASE ExitThread
    BY <1>25, <1>0 DEF ExitThread, DStep, dVars, eVars, uVars, RefMoves, RankBase, One, Locked,
        Begun
  <1>26. CASE pcD = "peek" /\ CallDisplay("D")
    BY <1>26, <1>0 DEF CallDisplay, dVars, eVars, uVars, RefMoves, RankBase, One, Locked, Begun
  <1>27. CASE pcD = "peek" /\ SignalDisplayIsDone("D")
    BY <1>27, <1>0 DEF SignalDisplayIsDone, dVars, eVars, uVars, RefMoves, RankBase, One,
        Locked, Begun
  <1>28. CASE pcE = "peek" /\ CallDisplay("E")
    BY <1>28, <1>0 DEF CallDisplay, dVars, eVars, uVars, RefMoves, RankBase, One, Locked, Begun
  <1>29. CASE pcE = "peek" /\ SignalDisplayIsDone("E")
    BY <1>29, <1>0 DEF SignalDisplayIsDone, dVars, eVars, uVars, RefMoves, RankBase, One,
        Locked, Begun
  <1>30. CASE EndOfInput
    BY <1>30, <1>0 DEF EndOfInput, DStep, dVars, eVars, uVars, RefMoves, RankBase, One, Locked,
        Begun
  <1>31. CASE UnitError
    BY <1>31, <1>0 DEF UnitError, DStep, dVars, eVars, uVars, RefMoves, RankBase, One, Locked,
        Begun
  <1>32. CASE EndCommand
    BY <1>32, <1>0 DEF EndCommand, EStep, dVars, eVars, uVars, RefMoves, RankBase, One, Locked,
        Begun
  <1>33. CASE UnlockRefs
    BY <1>33, <1>0 DEF UnlockRefs, EStep, dVars, eVars, uVars, RefMoves, RankBase, One, Locked,
        Begun
  <1>34. CASE Advance
    BY <1>34, <1>0 DEF Advance, EStep, dVars, eVars, uVars, RefMoves, RankBase, One, Locked,
        Begun
  <1>35. CASE UnlockPicture
    BY <1>35, <1>0 DEF UnlockPicture, EStep, dVars, eVars, uVars, RefMoves, RankBase, One,
        Locked, Begun
  <1>36. CASE PostSemaphore
    BY <1>36, <1>0 DEF PostSemaphore, EStep, dVars, eVars, uVars, RefMoves, RankBase, One,
        Locked, Begun
  <1>37. ASSUME NEW b \in Bufs, PutDecPict(b) PROVE RefMoves
    BY <1>37, <1>0 DEF PutDecPict, UStep, dVars, eVars, uVars, RefMoves, RankBase, One, Locked,
        Begun
  <1>38. CASE DecommitPool
    BY <1>38, <1>0 DEF DecommitPool, UStep, dVars, eVars, uVars, RefMoves, RankBase, One,
        Locked, Begun
  <1>39. CASE DestroyFeeder
    BY <1>39, <1>0 DEF DestroyFeeder, UStep, dVars, eVars, uVars, RefMoves, RankBase, One,
        Locked, Begun
  <1>40. CASE DestroyChannel
    BY <1>40, <1>0 DEF DestroyChannel, UStep, dVars, eVars, uVars, RefMoves, RankBase, One,
        Locked, Begun
  <1>41. CASE ReleaseUnused
    BY <1>41, <1>0 DEF ReleaseUnused, UStep, dVars, eVars, uVars, RefMoves, RankBase, One,
        Locked, Begun
  <1>42. CASE Destroyed
    BY <1>42, <1>0 DEF Destroyed, UStep, dVars, eVars, uVars, RefMoves, RankBase, One, Locked,
        Begun
  <1>43. CASE Over
    BY <1>43, <1>0 DEF Over, vars, dVars, eVars, RefMoves, RankBase, One, Locked, Begun
  <1> HIDE DEF RefMoves
  <1> QED BY <1>1, <1>2, <1>3, <1>4, <1>5, <1>6, <1>7, <1>8, <1>9, <1>10, <1>11, <1>12, <1>13,
      <1>14, <1>15, <1>16, <1>17, <1>18, <1>19, <1>20, <1>21, <1>22, <1>23, <1>24, <1>25, <1>26,
      <1>27, <1>28, <1>29, <1>30, <1>31, <1>32, <1>33, <1>34, <1>35, <1>36, <1>37, <1>38, <1>39,
      <1>40, <1>41, <1>42, <1>43 DEF Next, DNext, ENext, DestroyNext, DisplayD, DisplayE

\* The commands on their way are those of the ranks from RankOf(1) on.
LEMMA RanksAre ==
  ASSUME PipelineInv
  PROVE  /\ \A k \in 1 .. Len(chan) : RankOf(k) \in Locked /\ RankOf(k) = RankBase + k
         /\ RankBase + Len(chan) + 1 = blk1 /\ RankBase \in Int
  <1>0. /\ blk1 \in Nat /\ blk2 \in Nat /\ MaxPics \in Nat /\ Len(chan) \in Nat
        /\ blk2 <= blk1
    BY RanksClose
  <1>1. /\ Len(chan) + One(pcE \in {"unlockRefs", "advance"}) = blk1 - blk2
        /\ blk1 + One(pcD \in {"getSem"} \cup Preparing) <= pics /\ pics <= MaxPics
        /\ pics \in Nat
    BY DEF PipelineInv, PipelineTypes, SemaphoreInv
  <1>2. blk1 <= MaxPics
    BY <1>0, <1>1, OneIs DEF One
  <1>3. RankBase \in Int /\ RankBase + Len(chan) + 1 = blk1
    BY <1>0, <1>1 DEF RankBase, One
  <1>4. ASSUME NEW k \in 1 .. Len(chan) PROVE RankOf(k) \in Locked /\ RankOf(k) = RankBase + k
    <2>1. RankOf(k) = RankBase + k
      BY <1>0 DEF RankOf, RankBase, One
    <2>2. CASE pcE \in {"unlockRefs", "advance"}
      <3>1. RankBase = blk2 /\ blk2 + k \in Nat /\ blk2 + k < blk1 /\ blk2 < blk2 + k
        BY <1>0, <1>3, <2>2 DEF RankBase, One
      <3> QED BY <1>0, <1>2, <2>1, <3>1 DEF Locked
    <2>3. CASE pcE \notin {"unlockRefs", "advance"}
      <3>1. RankBase + k = blk2 + k - 1 /\ blk2 + k - 1 \in Nat /\ blk2 + k - 1 < blk1
            /\ blk2 <= blk2 + k - 1
        BY <1>0, <1>3, <2>3 DEF RankBase, One
      <3> QED BY <1>0, <1>2, <2>1, <2>3, <3>1 DEF Locked
    <2> QED BY <2>1, <2>2, <2>3
  <1> QED BY <1>3, <1>4

\* The lists of the ranks that stay locked are the same.
LEMMA ListsSame ==
  ASSUME PipelineInv, Next
  PROVE  \A i \in Locked : refList'[i % RefRing] = refList[i % RefRing]
  <1>1. RefMoves
    BY RefMove
  <1>2. CASE ListRefs
    <2>1. SameCommands
      <3>1. pcD = "listRefs" /\ pcE' = pcE /\ pcD' = "lockRefs" /\ chan' = chan
        BY <1>2 DEF ListRefs, DStep, eVars
      <3> QED BY <1>2, <3>1, KeepsCommands DEF ListRefs, Launch, EndCommand, PopBuffer, GetMv,
              LockRefs, CancelFrame, CancelRefs, UnlockRefs, UnlockPicture, DStep, EStep
    <2> QED BY <2>1 DEF SameCommands
  <1>3. CASE refList' = refList
    BY <1>3
  <1> QED BY <1>1, <1>2, <1>3 DEF RefMoves

LEMMA LockedDistinct ==
  ASSUME PipelineInv, Next, NEW i \in Locked'
  PROVE  Distinct(refList'[i % RefRing])
  <1>1. i \in Locked \/ (LockRefs /\ i = blk1)
    BY RefMove DEF RefMoves
  <1>2. CASE i \in Locked
    <2>1. refList'[i % RefRing] = refList[i % RefRing]
      BY <1>2, ListsSame
    <2>2. Distinct(refList[i % RefRing])
      BY <1>2 DEF PipelineInv, ReferencesInv, RefsOf
    <2> QED BY <2>1, <2>2
  <1>3. CASE LockRefs /\ i = blk1
    <2>1. refList' = refList /\ pcD = "lockRefs"
      BY <1>3 DEF LockRefs, DStep
    <2>2. Distinct(refList[blk1 % RefRing])
      BY <2>1 DEF PipelineInv, ReferencesInv, RefsOf
    <2> QED BY <1>3, <2>1, <2>2
  <1> QED BY <1>1, <1>2, <1>3

LEMMA CommandsRefer ==
  ASSUME PipelineInv, Next, Sized, NEW k \in 1 .. Len(chan')
  PROVE  chan'[k].refs = refList'[(RankBase' + k) % RefRing]
  <1>0. chan \in Seq(Command) /\ chan' \in Seq(Command)
    BY TypesStep DEF PipelineInv, PipelineTypes
  <1>1. /\ \A i \in 1 .. Len(chan) : RankOf(i) \in Locked /\ RankOf(i) = RankBase + i
        /\ RankBase + Len(chan) + 1 = blk1 /\ RankBase \in Int
    BY RanksAre
  <1>2. \A i \in 1 .. Len(chan) : chan[i].refs = refList[RankOf(i) % RefRing]
    BY DEF PipelineInv, ReferencesInv, RefsOf
  <1>3. \A i \in 1 .. Len(chan) : chan[i].refs = refList'[(RankBase + i) % RefRing]
    BY <1>1, <1>2, ListsSame
  <1>4. EndCommand \/ RankBase' = RankBase
    BY RefMove DEF RefMoves
  <1>5. chan' = chan \/ EndCommand \/ Launch
    BY PictMove DEF PictMoves
  <1>6. CASE EndCommand
    <2>1. chan # <<>> /\ chan' = Tail(chan) /\ pcE = "idle" /\ pcE' = "unlockRefs" /\ blk2' = blk2
      BY <1>6 DEF EndCommand, EStep
    <2>2. /\ Len(chan) \in Nat /\ Len(chan') = Len(chan) - 1
          /\ \A i \in 1 .. Len(chan) - 1 : chan'[i] = chan[i + 1]
      BY <1>0, <2>1, SeqHead
    <2>3. blk2 \in Nat
      BY RanksClose
    <2>4. RankBase' = RankBase + 1
      BY <2>1, <2>3 DEF RankBase, One
    <2>5. k + 1 \in 1 .. Len(chan) /\ chan'[k] = chan[k + 1] /\ RankBase' + k = RankBase + (k + 1)
      BY <1>1, <2>2, <2>4
    <2> QED BY <1>3, <2>5
  <1>7. CASE chan' = chan /\ ~EndCommand
    BY <1>3, <1>4, <1>7
  <1>8. CASE Launch /\ ~EndCommand
    <2>1. Current \in Command /\ chan' = Append(chan, Current)
      BY <1>8, TypesStep, LaunchUsers
    <2>2. /\ Len(chan) \in Nat /\ Len(chan') = Len(chan) + 1
          /\ \A i \in 1 .. Len(chan) : chan'[i] = chan[i]
          /\ chan'[Len(chan) + 1] = Current
      BY <1>0, <2>1, SeqEnd
    <2>3. Current.refs = refList[blk1 % RefRing] /\ refList' = refList
      BY <1>8 DEF Launch, Current
    <2>4. CASE k \in 1 .. Len(chan)
      BY <1>3, <1>4, <1>8, <2>2, <2>4
    <2>5. CASE k = Len(chan) + 1
      <3>1. RankBase' + k = blk1
        BY <1>1, <1>4, <1>8, <2>2, <2>5
      <3> QED BY <2>2, <2>3, <2>5, <3>1
    <2> QED BY <2>2, <2>4, <2>5
  <1> QED BY <1>5, <1>6, <1>7, <1>8

\* The list D has read names pictures of the DPB until they are locked.
LEMMA ListNames ==
  ASSUME PipelineInv, Next, Sized, pcD' = "lockRefs"
  PROVE  /\ Distinct(refList'[blk1' % RefRing])
         /\ \A j \in 1 .. Len(refList'[blk1' % RefRing]) :
               NamesNode(ctx', refList'[blk1' % RefRing][j])
  <1>1. ListRefs \/ (pcD = "lockRefs" /\ blk1' = blk1 /\ refList' = refList)
    BY RefMove DEF RefMoves
  <1>2. CASE ListRefs
    <2>1. ctx \in PictMngrs /\ NodesWhole(ctx)
      BY MngrNow DEF MngrInv
    <2>2. /\ blk1' = blk1 /\ ctx' = ctx
          /\ refList' = [refList EXCEPT ![blk1 % RefRing] = RefBuffers(ctx)]
      BY <1>2 DEF ListRefs, DStep
    <2>3. refList \in Rings /\ blk1 \in Nat
      BY DEF PipelineInv, PipelineTypes, Rings
    <2>4. blk1 % RefRing \in 0 .. RefRing - 1
      BY <2>3, RingPlace
    <2>5. refList'[blk1 % RefRing] = RefBuffers(ctx)
      BY <2>2, <2>3, <2>4 DEF Rings
    <2>6. /\ Distinct(RefBuffers(ctx))
          /\ \A j \in 1 .. Len(RefBuffers(ctx)) : NamesNode(ctx, RefBuffers(ctx)[j])
      BY <2>1, RefBuffersIs
    <2> QED BY <2>2, <2>5, <2>6
  <1>3. CASE pcD = "lockRefs" /\ blk1' = blk1 /\ refList' = refList
    <2>1. NodesStay(ctx, ctx')
      <3>1. pcD = "lockRefs" /\ pcD' = "lockRefs"
        BY <1>3
      <3>2. NodesKept
        BY StepKeeps
      <3> QED BY <3>1, <3>2 DEF NodesKept, FlushDpb, FlushAll, Replace, MarkRefs, CleanDpb,
              InsertPicture, FillsGap, ParseSlice, DStep
    <2> DEFINE list == refList[blk1 % RefRing]
    <2>2. Distinct(list) /\ \A j \in 1 .. Len(list) : NamesNode(ctx, list[j])
      BY <1>3 DEF PipelineInv, ReferencesInv, RefsOf, NamesNode
    <2>3. ASSUME NEW r, NamesNode(ctx, r) PROVE NamesNode(ctx', r)
      <3>1. PICK i \in 1 .. Len(ctx.nodes) :
               ~ctx.nodes[i].nonExisting /\ r = <<ctx.nodes[i].frm, ctx.nodes[i].mv>>
        BY <2>3 DEF NamesNode
      <3>2. i \in 1 .. Len(ctx'.nodes) /\ SameNode(ctx.nodes[i], ctx'.nodes[i])
        BY <2>1 DEF NodesStay
      <3>3. /\ ctx'.nodes[i].frm = ctx.nodes[i].frm /\ ctx'.nodes[i].mv = ctx.nodes[i].mv
            /\ ctx'.nodes[i].nonExisting = ctx.nodes[i].nonExisting
        BY <3>2 DEF SameNode
      <3> QED BY <3>1, <3>2, <3>3 DEF NamesNode
    <2> QED BY <1>3, <2>2, <2>3
  <1> QED BY <1>1, <1>2, <1>3

LEMMA ReferencesStep ==
  ASSUME PipelineInv, Next, Sized
  PROVE  ReferencesInv'
  <1>1. \A i \in Locked' : Distinct(refList'[i % RefRing])
    BY LockedDistinct
  <1>2. \A k \in 1 .. Len(chan') : chan'[k].refs = refList'[(RankBase' + k) % RefRing]
    BY CommandsRefer
  <1>3. ASSUME NEW k \in 1 .. Len(chan') PROVE RankOf(k)' = RankBase' + k
    <2>1. blk2' \in Nat /\ chan' \in Seq(Command)
      BY TypesStep DEF PipelineTypes
    <2> QED BY <2>1 DEF RankOf, RankBase, One
  <1>4. pcD' = "lockRefs" =>
          /\ Distinct(refList'[blk1' % RefRing])
          /\ \A j \in 1 .. Len(refList'[blk1' % RefRing]) :
                NamesNode(ctx', refList'[blk1' % RefRing][j])
    BY ListNames
  <1> HIDE DEF Locked, RankBase, RankOf, Next, PipelineInv
  <1> QED BY <1>1, <1>2, <1>3, <1>4 DEF ReferencesInv, RefsOf, NamesNode
-----------------------------------------------------------------------------
(* The inductive invariant: who writes and who reads a picture *)
Exclusive(q) ==
    \A k \in 1 .. Len(q) :
        /\ \A l \in k + 1 .. Len(q) : q[l].frm # q[k].frm
        /\ \A l \in k .. Len(q), j \in 1 .. Len(q[k].refs) : q[k].refs[j][1] # q[l].frm
SameCommand(c, d) == c.frm = d.frm /\ c.refs = d.refs

\* Command l neither writes what command k writes, nor what it reads.
Separate(q, k, l) ==
    /\ k < l => q[l].frm # q[k].frm
    /\ \A j \in 1 .. Len(q[k].refs) : q[k].refs[j][1] # q[l].frm

LEMMA ExclusiveIs ==
  ASSUME NEW q, Len(q) \in Nat
  PROVE  Exclusive(q) <=> \A k, l \in 1 .. Len(q) : k <= l => Separate(q, k, l)
  <1>1. ASSUME Exclusive(q), NEW k \in 1 .. Len(q), NEW l \in 1 .. Len(q), k <= l
        PROVE  Separate(q, k, l)
    <2>1. l \in k .. Len(q) /\ (k < l => l \in k + 1 .. Len(q))
      BY <1>1
    <2> QED BY <1>1, <2>1 DEF Exclusive, Separate
  <1>2. ASSUME \A k, l \in 1 .. Len(q) : k <= l => Separate(q, k, l)
        PROVE  Exclusive(q)
    <2>1. ASSUME NEW k \in 1 .. Len(q), NEW l \in k + 1 .. Len(q)
          PROVE  q[l].frm # q[k].frm
      <3>1. l \in 1 .. Len(q) /\ k < l /\ k <= l
        BY <2>1
      <3>2. Separate(q, k, l)
        BY <1>2, <3>1
      <3> QED BY <3>1, <3>2 DEF Separate
    <2>2. ASSUME NEW k \in 1 .. Len(q), NEW l \in k .. Len(q), NEW j \in 1 .. Len(q[k].refs)
          PROVE  q[k].refs[j][1] # q[l].frm
      <3>1. l \in 1 .. Len(q) /\ k <= l
        BY <2>2
      <3>2. Separate(q, k, l)
        BY <1>2, <3>1
      <3> QED BY <2>2, <3>2 DEF Separate
    <2> QED BY <2>1, <2>2 DEF Exclusive
  <1> QED BY <1>1, <1>2

\* The first command goes, or the last one.
LEMMA ExclusiveShift ==
  ASSUME NEW q, Len(q) \in Nat, Exclusive(q), NEW r, Len(r) \in Nat, Len(r) = Len(q) - 1,
         \A i \in 1 .. Len(r) : SameCommand(q[i + 1], r[i])
  PROVE  Exclusive(r)
  <1>1. ASSUME NEW k \in 1 .. Len(r), NEW l \in 1 .. Len(r), k <= l
        PROVE  Separate(r, k, l)
    <2>1. k + 1 \in 1 .. Len(q) /\ l + 1 \in 1 .. Len(q) /\ k + 1 <= l + 1 /\ (k < l => k + 1 < l + 1)
      BY <1>1
    <2>2. SameCommand(q[k + 1], r[k]) /\ SameCommand(q[l + 1], r[l])
      OBVIOUS
    <2>3. Separate(q, k + 1, l + 1)
      BY <2>1, ExclusiveIs
    <2> QED BY <2>1, <2>2, <2>3 DEF SameCommand, Separate
  <1> QED BY <1>1, ExclusiveIs

LEMMA ExclusivePart ==
  ASSUME NEW q, Len(q) \in Nat, Exclusive(q), NEW r, Len(r) \in Nat, Len(r) <= Len(q),
         \A i \in 1 .. Len(r) : SameCommand(q[i], r[i])
  PROVE  Exclusive(r)
  <1>1. ASSUME NEW k \in 1 .. Len(r), NEW l \in 1 .. Len(r), k <= l
        PROVE  Separate(r, k, l)
    <2>1. k \in 1 .. Len(q) /\ l \in 1 .. Len(q)
      OBVIOUS
    <2>2. SameCommand(q[k], r[k]) /\ SameCommand(q[l], r[l])
      OBVIOUS
    <2>3. Separate(q, k, l)
      BY <1>1, <2>1, ExclusiveIs
    <2> QED BY <2>2, <2>3 DEF SameCommand, Separate
  <1> QED BY <1>1, ExclusiveIs

\* The last command is new, or has new references.
LEMMA ExclusiveEnd ==
  ASSUME NEW q, Len(q) \in Nat, Exclusive(q), NEW r, Len(r) \in Nat, Len(r) >= 1,
         Len(r) - 1 <= Len(q),
         \A i \in 1 .. Len(r) - 1 : SameCommand(q[i], r[i]),
         \A i \in 1 .. Len(r) - 1 : q[i].frm # r[Len(r)].frm,
         \A i \in 1 .. Len(r) - 1 : \A j \in 1 .. Len(q[i].refs) :
            q[i].refs[j][1] # r[Len(r)].frm,
         \A j \in 1 .. Len(r[Len(r)].refs) : r[Len(r)].refs[j][1] # r[Len(r)].frm
  PROVE  Exclusive(r)
  <1>1. ASSUME NEW k \in 1 .. Len(r), NEW l \in 1 .. Len(r), k <= l
        PROVE  Separate(r, k, l)
    <2>1. CASE k = Len(r)
      BY <1>1, <2>1 DEF Separate
    <2>2. CASE k # Len(r) /\ l # Len(r)
      <3>1. k \in 1 .. Len(q) /\ l \in 1 .. Len(q) /\ k \in 1 .. Len(r) - 1 /\ l \in 1 .. Len(r) - 1
        BY <2>2
      <3>2. SameCommand(q[k], r[k]) /\ SameCommand(q[l], r[l])
        BY <3>1
      <3>3. Separate(q, k, l)
        BY <1>1, <3>1, ExclusiveIs
      <3> QED BY <3>2, <3>3 DEF SameCommand, Separate
    <2>3. CASE k # Len(r) /\ l = Len(r)
      <3>1. k \in 1 .. Len(r) - 1
        BY <2>3
      <3>2. SameCommand(q[k], r[k])
        BY <3>1
      <3> QED BY <2>3, <3>1, <3>2 DEF SameCommand, Separate
    <2> QED BY <2>1, <2>2, <2>3
  <1> QED BY <1>1, ExclusiveIs

\* The commands in flight after the step
LEMMA InFlightNext ==
  ASSUME PipelineTypes'
  PROVE  /\ Len(chan') \in Nat /\ Len(InFlight') = Len(chan') + One(HoldsRec')
         /\ \A k \in 1 .. Len(chan') : InFlight'[k] = chan'[k]
         /\ HoldsRec' => InFlight'[Len(chan') + 1] = Preparation'
         /\ Preparation'.frm = recID'
         /\ Preparation'.refs = IF pcD' \in Begun THEN refList'[blk1' % RefRing] ELSE <<>>
  <1>1. Len(chan') \in Nat /\ DOMAIN chan' = 1 .. Len(chan')
    BY DEF PipelineTypes
  <1>2. /\ Preparation'.frm = recID'
        /\ Preparation'.refs = IF pcD' \in Begun THEN refList'[blk1' % RefRing] ELSE <<>>
    BY DEF Preparation, Current
  <1> DEFINE e == Preparation'
             c == chan'
             z == InFlight'
  <1>3. z = c \o (IF HoldsRec' THEN <<e>> ELSE <<>>)
    BY DEF InFlight, Preparation
  <1>4. \E S : c \in Seq(S) /\ e \in S
    <2>1. c \in Seq(Command \cup {e})
      BY DEF PipelineTypes
    <2> QED BY <2>1
  <1>5. PICK S : c \in Seq(S) /\ e \in S
    BY <1>4
  <1> HIDE DEF e, c, z, HoldsRec
  <1>6. CASE HoldsRec'
    <2>1. z = Append(c, e)
      <3>1. z = c \o <<e>>
        BY <1>3, <1>6
      <3>2. c \o <<e>> = Append(c, e)
        BY <1>5
      <3> QED BY <3>1, <3>2
    <2>2. /\ Len(c) \in Nat /\ Len(z) = Len(c) + 1
          /\ DOMAIN z = 1 .. Len(c) + 1
          /\ \A i \in 1 .. Len(c) : z[i] = c[i]
          /\ z[Len(c) + 1] = e
      BY <1>5, <2>1, SeqEnd
    <2> QED BY <1>1, <1>2, <1>6, <2>2 DEF c, e, z, One
  <1>7. CASE ~HoldsRec'
    <2>1. z = c
      BY <1>3, <1>5, <1>7
    <2> QED BY <1>1, <1>2, <1>7, <2>1 DEF c, e, z, One
  <1> QED BY <1>6, <1>7

FlightStays ==
    /\ HoldsRec' <=> HoldsRec
    /\ HoldsRec => /\ recID' = recID /\ (pcD' \in Begun <=> pcD \in Begun)
                   /\ pcD \in Begun => refList' = refList /\ blk1' = blk1
FlightMoves == Launch \/ PopBuffer \/ LockRefs \/ CancelFrame \/ FlightStays

LEMMA FlightMove ==
  ASSUME PipelineInv, Next
  PROVE  FlightMoves
  <1>1. ASSUME NEW k \in PicKinds, ParseSlice(k) PROVE FlightMoves
    BY <1>1 DEF ParseSlice, dVars, eVars, uVars, FlightMoves, FlightStays, HoldsRec, Begun
  <1>2. CASE GetSemaphore
    BY <1>2 DEF GetSemaphore, DStep, dVars, eVars, uVars, FlightMoves, FlightStays, HoldsRec,
        Begun
  <1>3. CASE PopBuffer
    BY <1>3 DEF FlightMoves
  <1>4. CASE PopWaits
    BY <1>4 DEF PopWaits, DStep, dVars, eVars, uVars, FlightMoves, FlightStays, HoldsRec, Begun
  <1>5. CASE PopWakesUp
    BY <1>5 DEF PopWakesUp, DStep, dVars, eVars, uVars, FlightMoves, FlightStays, HoldsRec,
        Begun
  <1>6. CASE PopFails
    BY <1>6 DEF PopFails, DStep, dVars, eVars, uVars, FlightMoves, FlightStays, HoldsRec, Begun
  <1>7. CASE GetMv
    BY <1>7 DEF GetMv, DStep, dVars, eVars, uVars, FlightMoves, FlightStays, HoldsRec, Begun
  <1>8. CASE ListRefs
    BY <1>8 DEF ListRefs, DStep, dVars, eVars, uVars, FlightMoves, FlightStays, HoldsRec, Begun
  <1>9. CASE LockRefs
    BY <1>9 DEF FlightMoves
  <1>10. CASE CancelFrame
    BY <1>10 DEF FlightMoves
  <1>11. CASE CancelRefs
    BY <1>11 DEF CancelRefs, DStep, dVars, eVars, uVars, FlightMoves, FlightStays, HoldsRec,
        Begun
  <1>12. CASE FlushDpb
    BY <1>12 DEF FlushDpb, DStep, dVars, eVars, uVars, FlightMoves, FlightStays, HoldsRec, Begun
  <1>13. CASE Replace
    BY <1>13 DEF Replace, DStep, dVars, eVars, uVars, FlightMoves, FlightStays, HoldsRec, Begun
  <1>14. CASE InsertPicture
    BY <1>14 DEF InsertPicture, DStep, dVars, eVars, uVars, FlightMoves, FlightStays, HoldsRec,
        Begun
  <1>15. CASE MarkRefs
    BY <1>15 DEF MarkRefs, DStep, dVars, eVars, uVars, FlightMoves, FlightStays, HoldsRec, Begun
  <1>16. CASE CleanDpb
    BY <1>16 DEF CleanDpb, DStep, dVars, eVars, uVars, FlightMoves, FlightStays, HoldsRec, Begun
  <1>17. CASE Launch
    BY <1>17 DEF FlightMoves
  <1>18. CASE FlushToExit
    BY <1>18 DEF FlushToExit, DStep, dVars, eVars, uVars, FlightMoves, FlightStays, HoldsRec,
        Begun
  <1>19. CASE WaitFrameSent
    BY <1>19 DEF WaitFrameSent, DStep, dVars, eVars, uVars, FlightMoves, FlightStays, HoldsRec,
        Begun
  <1>20. CASE FlushAll
    BY <1>20 DEF FlushAll, DStep, dVars, eVars, uVars, FlightMoves, FlightStays, HoldsRec, Begun
  <1>21. CASE ReleaseFrames
    BY <1>21 DEF ReleaseFrames, DStep, dVars, eVars, uVars, FlightMoves, FlightStays, HoldsRec,
        Begun
  <1>22. CASE SignalEos
    BY <1>22 DEF SignalEos, dVars, eVars, uVars, FlightMoves, FlightStays, HoldsRec, Begun
  <1>23. CASE Terminate
    BY <1>23 DEF Terminate, DStep, dVars, eVars, uVars, FlightMoves, FlightStays, HoldsRec,
        Begun
  <1>24. CASE TerminateMv
    BY <1>24 DEF TerminateMv, DStep, dVars, eVars, uVars, FlightMoves, FlightStays, HoldsRec,
        Begun
  <1>25. CASE ExitThread
    BY <1>25 DEF ExitThread, DStep, dVars, eVars, uVars, FlightMoves, FlightStays, HoldsRec,
        Begun
  <1>26. CASE pcD = "peek" /\ CallDisplay("D")
    BY <1>26 DEF CallDisplay, dVars, eVars, uVars, FlightMoves, FlightStays, HoldsRec, Begun
  <1>27. CASE pcD = "peek" /\ SignalDisplayIsDone("D")
    BY <1>27 DEF SignalDisplayIsDone, dVars, eVars, uVars, FlightMoves, FlightStays, HoldsRec,
        Begun
  <1>28. CASE pcE = "peek" /\ CallDisplay("E")
    BY <1>28 DEF CallDisplay, dVars, eVars, uVars, FlightMoves, FlightStays, HoldsRec, Begun
  <1>29. CASE pcE = "peek" /\ SignalDisplayIsDone("E")
    BY <1>29 DEF SignalDisplayIsDone, dVars, eVars, uVars, FlightMoves, FlightStays, HoldsRec,
        Begun
  <1>30. CASE EndOfInput
    BY <1>30 DEF EndOfInput, DStep, dVars, eVars, uVars, FlightMoves, FlightStays, HoldsRec,
        Begun
  <1>31. CASE UnitError
    BY <1>31 DEF UnitError, DStep, dVars, eVars, uVars, FlightMoves, FlightStays, HoldsRec,
        Begun
  <1>32. CASE EndCommand
    BY <1>32 DEF EndCommand, EStep, dVars, eVars, uVars, FlightMoves, FlightStays, HoldsRec,
        Begun
  <1>33. CASE UnlockRefs
    BY <1>33 DEF UnlockRefs, EStep, dVars, eVars, uVars, FlightMoves, FlightStays, HoldsRec,
        Begun
  <1>34. CASE Advance
    BY <1>34 DEF Advance, EStep, dVars, eVars, uVars, FlightMoves, FlightStays, HoldsRec, Begun
  <1>35. CASE UnlockPicture
    BY <1>35 DEF UnlockPicture, EStep, dVars, eVars, uVars, FlightMoves, FlightStays, HoldsRec,
        Begun
  <1>36. CASE PostSemaphore
    BY <1>36 DEF PostSemaphore, EStep, dVars, eVars, uVars, FlightMoves, FlightStays, HoldsRec,
        Begun
  <1>37. ASSUME NEW b \in Bufs, PutDecPict(b) PROVE FlightMoves
    BY <1>37 DEF PutDecPict, UStep, dVars, eVars, uVars, FlightMoves, FlightStays, HoldsRec,
        Begun
  <1>38. CASE DecommitPool
    BY <1>38 DEF DecommitPool, UStep, dVars, eVars, uVars, FlightMoves, FlightStays, HoldsRec,
        Begun
  <1>39. CASE DestroyFeeder
    BY <1>39 DEF DestroyFeeder, UStep, dVars, eVars, uVars, FlightMoves, FlightStays, HoldsRec,
        Begun
  <1>40. CASE DestroyChannel
    BY <1>40 DEF DestroyChannel, UStep, dVars, eVars, uVars, FlightMoves, FlightStays, HoldsRec,
        Begun
  <1>41. CASE ReleaseUnused
    BY <1>41 DEF ReleaseUnused, UStep, dVars, eVars, uVars, FlightMoves, FlightStays, HoldsRec,
        Begun
  <1>42. CASE Destroyed
    BY <1>42 DEF Destroyed, UStep, dVars, eVars, uVars, FlightMoves, FlightStays, HoldsRec,
        Begun
  <1>43. CASE Over
    BY <1>43 DEF Over, vars, dVars, eVars, FlightMoves, FlightStays, HoldsRec, Begun
  <1> HIDE DEF FlightMoves
  <1> QED BY <1>1, <1>2, <1>3, <1>4, <1>5, <1>6, <1>7, <1>8, <1>9, <1>10, <1>11, <1>12, <1>13,
      <1>14, <1>15, <1>16, <1>17, <1>18, <1>19, <1>20, <1>21, <1>22, <1>23, <1>24, <1>25, <1>26,
      <1>27, <1>28, <1>29, <1>30, <1>31, <1>32, <1>33, <1>34, <1>35, <1>36, <1>37, <1>38, <1>39,
      <1>40, <1>41, <1>42, <1>43 DEF Next, DNext, ENext, DestroyNext, DisplayD, DisplayE

LEMMA NoUserOf ==
  ASSUME NEW r, NEW d, NEW c \in Seq(Command), NEW L \in SUBSET (0 .. MaxPics), NEW R,
         NEW s \in Slots, FrmOf(r, d, c, L, R)[s] = 0
  PROVE  Count(c, CmdsOn(s)) = 0 /\ Cardinality(LockersOn(L, R, s)) = 0
  <1>1. /\ One(d = s) \in Nat /\ One(r = s) \in Nat
        /\ Count(c, CmdsOn(s)) \in Nat /\ Cardinality(LockersOn(L, R, s)) \in Nat
        /\ FrmOf(r, d, c, L, R)[s] = One(r = s) + One(d = s) + Count(c, CmdsOn(s))
                                      + Cardinality(LockersOn(L, R, s))
    BY FrmOfAt
  <1> QED BY <1>1

\* Nobody that reads or writes a buffer is left when no one counts as its user.
LEMMA NoUser ==
  ASSUME PipelineInv, NEW s \in Slots, FrmUsers[s] = 0
  PROVE  /\ \A k \in 1 .. Len(chan) : chan[k].frm # s
         /\ \A i \in Locked : \A j \in 1 .. Len(RefsOf(i)) : RefsOf(i)[j][1] # s
  <1>1. /\ FrmUsers = FrmOf(HeldRec, done.frm, chan, Locked, refList)
        /\ chan \in Seq(Command) /\ Locked \in SUBSET (0 .. MaxPics)
    BY UsersNow, RanksClose DEF PipelineInv, PipelineTypes
  <1> DEFINE a == HeldRec
             d == done.frm
  <1>a. FrmUsers = FrmOf(a, d, chan, Locked, refList)
    BY <1>1
  <1> HIDE DEF FrmUsers, Locked, HeldRec, a, d
  <1>2. FrmOf(a, d, chan, Locked, refList)[s] = 0
    BY <1>a
  <1>3. Count(chan, CmdsOn(s)) = 0 /\ Cardinality(LockersOn(Locked, refList, s)) = 0
    BY <1>1, <1>2, NoUserOf
  <1>4. \A k \in 1 .. Len(chan) : chan[k] \notin CmdsOn(s)
    BY <1>1, <1>3, CountIs
  <1>5. \A k \in 1 .. Len(chan) : chan[k] \in Command
    BY <1>1
  <1>6. \A k \in 1 .. Len(chan) : chan[k].frm # s
    BY <1>4, <1>5 DEF CmdsOn
  <1>7. LockersOn(Locked, refList, s) = {}
    BY <1>1, <1>3, LocksAre, FS_EmptySet
  <1>8. \A i \in Locked : \A j \in 1 .. Len(RefsOf(i)) : RefsOf(i)[j][1] # s
    BY <1>7 DEF LockersOn, RefsOf
  <1> QED BY <1>6, <1>8

\* The picture D has just popped is read and written by nobody.
LEMMA PoppedExclusive ==
  ASSUME PipelineInv, Next, Sized, PopBuffer
  PROVE  Exclusive(InFlight')
  <1>0. PipelineTypes /\ PipelineTypes'
    BY TypesStep DEF PipelineInv
  <1>1. /\ Len(chan) \in Nat /\ Len(InFlight) = Len(chan) + One(HoldsRec)
        /\ \A k \in 1 .. Len(chan) : InFlight[k] = chan[k]
    BY <1>0, InFlightIs
  <1>2. /\ Len(InFlight') = Len(chan') + One(HoldsRec')
        /\ \A k \in 1 .. Len(chan') : InFlight'[k] = chan'[k]
        /\ HoldsRec' => InFlight'[Len(chan') + 1] = Preparation'
        /\ Preparation'.frm = recID'
        /\ Preparation'.refs = IF pcD' \in Begun THEN refList'[blk1' % RefRing] ELSE <<>>
    BY <1>0, InFlightNext
  <1>3. chan' = chan /\ HoldsRec' /\ ~HoldsRec /\ pcD' \notin Begun
    BY DEF PopBuffer, DStep, HoldsRec, Begun
  <1>4. recID' \in Slots /\ FrmUsers[recID'] = 0
    BY <1>0, PopBufferCtx
  <1>5. /\ \A k \in 1 .. Len(chan) : chan[k].frm # recID'
        /\ \A i \in Locked : \A j \in 1 .. Len(RefsOf(i)) : RefsOf(i)[j][1] # recID'
    BY <1>4, NoUser
  <1>6. \A k \in 1 .. Len(chan) : RankOf(k) \in Locked /\ chan[k].refs = RefsOf(RankOf(k))
    BY RanksAre DEF PipelineInv, ReferencesInv
  <1>7. \A k \in 1 .. Len(chan) : \A j \in 1 .. Len(chan[k].refs) : chan[k].refs[j][1] # recID'
    BY <1>5, <1>6
  <1>8. Exclusive(InFlight)
    BY DEF PipelineInv, ExclusiveInv, Exclusive
  <1> DEFINE q == InFlight
             r == InFlight'
  <1>9. Len(q) \in Nat /\ Len(q) = Len(chan) /\ Len(r) = Len(chan) + 1 /\ Len(r) \in Nat
    BY <1>1, <1>2, <1>3 DEF One
  <1>10. r[Len(r)].frm = recID' /\ r[Len(r)].refs = <<>>
    BY <1>2, <1>3, <1>9
  <1>a. \A i \in 1 .. Len(r) - 1 : i \in 1 .. Len(chan)
    BY <1>1, <1>9
  <1>b. \A i \in 1 .. Len(chan) : q[i] = chan[i] /\ r[i] = chan[i]
    BY <1>1, <1>2, <1>3
  <1> HIDE DEF q, r
  <1>11. \A i \in 1 .. Len(r) - 1 : q[i] = chan[i] /\ r[i] = chan[i] /\ i \in 1 .. Len(chan)
    BY <1>a, <1>b
  <1>c. Len(r) >= 1 /\ Len(r) - 1 <= Len(q)
    BY <1>1, <1>9
  <1>12. \A i \in 1 .. Len(r) - 1 : SameCommand(q[i], r[i])
    BY <1>11 DEF SameCommand, Separate
  <1>13. \A i \in 1 .. Len(r) - 1 : q[i].frm # r[Len(r)].frm
    BY <1>5, <1>10, <1>11
  <1>14. \A i \in 1 .. Len(r) - 1 : \A j \in 1 .. Len(q[i].refs) :
            q[i].refs[j][1] # r[Len(r)].frm
    BY <1>7, <1>10, <1>11
  <1>15. \A j \in 1 .. Len(r[Len(r)].refs) : r[Len(r)].refs[j][1] # r[Len(r)].frm
    BY <1>10
  <1>16. Exclusive(q)
    BY <1>8 DEF q
  <1>17. Exclusive(r)
    BY <1>9, <1>c, <1>12, <1>13, <1>14, <1>15, <1>16, ExclusiveEnd
  <1> QED BY <1>17 DEF r

\* The references D locks name pictures of the DPB, which its own is not.
LEMMA LockedExclusive ==
  ASSUME PipelineInv, Next, Sized, LockRefs
  PROVE  Exclusive(InFlight')
  <1>0. PipelineTypes /\ PipelineTypes'
    BY TypesStep DEF PipelineInv
  <1>1. /\ Len(chan) \in Nat /\ Len(InFlight) = Len(chan) + One(HoldsRec)
        /\ \A k \in 1 .. Len(chan) : InFlight[k] = chan[k]
        /\ HoldsRec => InFlight[Len(chan) + 1] = Preparation
        /\ Preparation.frm = recID
    BY <1>0, InFlightIs
  <1>2. /\ Len(InFlight') = Len(chan') + One(HoldsRec')
        /\ \A k \in 1 .. Len(chan') : InFlight'[k] = chan'[k]
        /\ HoldsRec' => InFlight'[Len(chan') + 1] = Preparation'
        /\ Preparation'.frm = recID'
        /\ Preparation'.refs = IF pcD' \in Begun THEN refList'[blk1' % RefRing] ELSE <<>>
    BY <1>0, InFlightNext
  <1>3. /\ chan' = chan /\ HoldsRec' /\ HoldsRec /\ recID' = recID /\ blk1' = blk1
        /\ refList' = refList /\ pcD = "lockRefs" /\ pcD' \in Begun
    BY DEF LockRefs, DStep, HoldsRec, Begun
  <1>4. recID \in Slots /\ FrmHeld(ctx, recID) = 0
    BY <1>3 DEF PipelineInv, PictureInv, NotInserted
  <1>5. ctx \in PictMngrs /\ NodesWhole(ctx)
    BY MngrNow DEF MngrInv
  <1>6. NoneHeld(ctx, recID)
    BY <1>4, <1>5, HeldNone, MngrTypes
  <1>7. \A j \in 1 .. Len(RefsOf(blk1)) : NamesNode(ctx, RefsOf(blk1)[j])
    BY <1>3 DEF PipelineInv, ReferencesInv, NamesNode
  <1>8. \A j \in 1 .. Len(RefsOf(blk1)) : ~NoneHeld(ctx, RefsOf(blk1)[j][1])
    BY <1>5, <1>7, ListedHeld
  <1>9. \A j \in 1 .. Len(RefsOf(blk1)) : RefsOf(blk1)[j][1] # recID
    BY <1>6, <1>8
  <1>10. Exclusive(InFlight)
    BY DEF PipelineInv, ExclusiveInv, Exclusive
  <1> DEFINE q == InFlight
             r == InFlight'
             n == Len(chan) + 1
  <1>11. n \in Nat /\ n >= 1 /\ Len(q) = n /\ Len(r) = n /\ n - 1 = Len(chan)
    BY <1>1, <1>2, <1>3 DEF One
  <1>12. q[n].frm = recID /\ r[n].frm = recID /\ r[n].refs = RefsOf(blk1)
    BY <1>1, <1>2, <1>3 DEF RefsOf
  <1>13. \A i \in 1 .. n - 1 : q[i] = chan[i] /\ r[i] = chan[i]
    BY <1>1, <1>2, <1>3, <1>11
  <1> HIDE DEF q, r, n
  <1>14. \A i \in 1 .. n - 1 : Separate(q, i, n) /\ i < n
    <2>1. Exclusive(q) /\ Len(q) \in Nat
      BY <1>10, <1>11 DEF q
    <2>2. \A k, l \in 1 .. Len(q) : k <= l => Separate(q, k, l)
      BY <2>1, ExclusiveIs
    <2>3. n \in 1 .. Len(q) /\ \A i \in 1 .. n - 1 : i \in 1 .. Len(q) /\ i <= n /\ i < n
      BY <1>11
    <2> QED BY <2>2, <2>3
  <1>15. \A i \in 1 .. n - 1 : SameCommand(q[i], r[i])
    BY <1>13 DEF SameCommand
  <1>16. \A i \in 1 .. n - 1 : q[i].frm # r[n].frm
    BY <1>12, <1>14 DEF Separate
  <1>17. \A i \in 1 .. n - 1 : \A j \in 1 .. Len(q[i].refs) : q[i].refs[j][1] # r[n].frm
    BY <1>12, <1>14 DEF Separate
  <1>18. \A j \in 1 .. Len(r[n].refs) : r[n].refs[j][1] # r[n].frm
    BY <1>9, <1>12
  <1>19. Exclusive(q) /\ Len(q) - 1 <= Len(q)
    BY <1>10, <1>11 DEF q
  <1>20. Exclusive(r)
    BY <1>11, <1>15, <1>16, <1>17, <1>18, <1>19, ExclusiveEnd
  <1> QED BY <1>20 DEF r

LEMMA ExclusiveStep ==
  ASSUME PipelineInv, Next, Sized
  PROVE  ExclusiveInv'
  <1>0. PipelineTypes /\ PipelineTypes'
    BY TypesStep DEF PipelineInv
  <1>1. /\ Len(chan) \in Nat /\ Len(InFlight) = Len(chan) + One(HoldsRec)
        /\ \A k \in 1 .. Len(chan) : InFlight[k] = chan[k]
        /\ HoldsRec => InFlight[Len(chan) + 1] = Preparation
        /\ Preparation.frm = recID
        /\ Preparation.refs = IF pcD \in Begun THEN RefsOf(blk1) ELSE <<>>
    BY <1>0, InFlightIs
  <1>2. /\ Len(chan') \in Nat /\ Len(InFlight') = Len(chan') + One(HoldsRec')
        /\ \A k \in 1 .. Len(chan') : InFlight'[k] = chan'[k]
        /\ HoldsRec' => InFlight'[Len(chan') + 1] = Preparation'
        /\ Preparation'.frm = recID'
        /\ Preparation'.refs = IF pcD' \in Begun THEN refList'[blk1' % RefRing] ELSE <<>>
    BY <1>0, InFlightNext
  <1>c. chan \in Seq(Command)
    BY <1>0 DEF PipelineTypes
  <1>3. Exclusive(InFlight)
    BY DEF PipelineInv, ExclusiveInv, Exclusive
  <1>4. FlightMoves
    BY FlightMove
  <1>5. chan' = chan \/ EndCommand \/ Launch
    BY PictMove DEF PictMoves
  <1> DEFINE q == InFlight
             r == InFlight'
             e == Preparation
             f == Preparation'
  <1>6. Len(q) \in Nat /\ Len(r) \in Nat
    BY <1>1, <1>2 DEF One
  <1> HIDE DEF q, r, e, f, InFlight, Preparation
  <1>7. CASE Launch
    <2>1. pcD = "launch" /\ pcD' = "idle" /\ recID' = recID
      BY <1>7 DEF Launch
    <2>2. HoldsRec /\ ~HoldsRec' /\ pcD \in Begun
      BY <2>1 DEF HoldsRec, Begun
    <2>3. Current \in Command /\ chan' = Append(chan, Current)
      BY <1>7, TypesStep, LaunchUsers
    <2>4. /\ Len(chan') = Len(chan) + 1
          /\ \A i \in 1 .. Len(chan) : chan'[i] = chan[i]
          /\ chan'[Len(chan) + 1] = Current
      BY <1>c, <2>3, SeqEnd
    <2>5. Current.frm = recID /\ Current.refs = RefsOf(blk1)
      BY DEF Current, RefsOf
    <2>6. SameCommand(q[Len(chan) + 1], r[Len(chan) + 1])
      <3>1. q[Len(chan) + 1] = e /\ e.frm = recID /\ e.refs = RefsOf(blk1)
        BY <1>1, <2>2 DEF q, e
      <3>2. Len(chan) + 1 \in 1 .. Len(chan')
        BY <1>1, <2>4
      <3>3. r[Len(chan) + 1] = Current
        BY <1>2, <2>4, <3>2 DEF r
      <3> QED BY <2>5, <3>1, <3>3 DEF SameCommand, Separate
    <2>7. \A i \in 1 .. Len(chan) : SameCommand(q[i], r[i])
      BY <1>1, <1>2, <2>4 DEF q, r, SameCommand
    <2>8. Len(r) = Len(chan) + 1 /\ Len(q) = Len(chan) + 1
      BY <1>1, <1>2, <2>2, <2>4 DEF q, r, One
    <2>9. \A i \in 1 .. Len(r) : SameCommand(q[i], r[i])
      BY <1>1, <2>6, <2>7, <2>8
    <2>10. Exclusive(q)
      BY <1>3 DEF q
    <2>11. Exclusive(r)
      BY <1>6, <2>8, <2>9, <2>10, ExclusivePart
    <2> QED BY <2>11 DEF r, Exclusive, ExclusiveInv
  <1>8. CASE PopBuffer
    <2>1. Exclusive(r)
      BY <1>8, PoppedExclusive DEF r
    <2> QED BY <2>1 DEF r, Exclusive, ExclusiveInv
  <1>9. CASE LockRefs
    <2>1. Exclusive(r)
      BY <1>9, LockedExclusive DEF r
    <2> QED BY <2>1 DEF r, Exclusive, ExclusiveInv
  <1>10. CASE CancelFrame
    <2>1. HoldsRec /\ ~HoldsRec' /\ chan' = chan
      BY <1>10 DEF CancelFrame, DStep, HoldsRec, Begun
    <2>2. Len(r) = Len(chan) /\ Len(q) = Len(chan) + 1
      BY <1>1, <1>2, <2>1 DEF q, r, One
    <2>3. \A i \in 1 .. Len(r) : SameCommand(q[i], r[i])
      BY <1>1, <1>2, <2>1, <2>2 DEF q, r, SameCommand
    <2>4. Exclusive(q) /\ Len(r) <= Len(q)
      BY <1>1, <1>3, <2>2 DEF q
    <2>5. Exclusive(r)
      BY <1>6, <2>3, <2>4, ExclusivePart
    <2> QED BY <2>5 DEF r, Exclusive, ExclusiveInv
  <1>11. CASE FlightStays /\ ~Launch
    <2>1. f.frm = recID' /\ e.frm = recID
      BY <1>1, <1>2 DEF e, f
    <2>2. HoldsRec => f.frm = e.frm
      BY <1>11, <2>1 DEF FlightStays
    <2>3. HoldsRec => f.refs = e.refs
      BY <1>1, <1>2, <1>11 DEF FlightStays, RefsOf, e, f
    <2>4. HoldsRec => SameCommand(e, f)
      BY <2>2, <2>3 DEF SameCommand, Separate
    <2>5. HoldsRec' <=> HoldsRec
      BY <1>11 DEF FlightStays
    <2>6. CASE EndCommand
      <3>1. chan # <<>> /\ chan' = Tail(chan)
        BY <2>6 DEF EndCommand
      <3>2. /\ Len(chan) > 0 /\ Len(chan') = Len(chan) - 1
            /\ \A i \in 1 .. Len(chan) - 1 : chan'[i] = chan[i + 1]
        BY <1>c, <3>1, SeqHead
      <3>3. Len(r) = Len(q) - 1 /\ Len(r) \in 0 .. Len(chan) /\ Len(r) >= Len(chan) - 1
        BY <1>1, <1>2, <2>5, <3>2 DEF q, r, One
      <3>4. ASSUME NEW i \in 1 .. Len(r) PROVE SameCommand(q[i + 1], r[i])
        <4>1. CASE i \in 1 .. Len(chan) - 1
          <5>1. i + 1 \in 1 .. Len(chan) /\ i \in 1 .. Len(chan')
            BY <1>1, <3>2, <4>1
          <5>2. q[i + 1] = chan[i + 1] /\ r[i] = chan[i + 1]
            BY <1>1, <1>2, <3>2, <4>1, <5>1 DEF q, r
          <5> QED BY <5>2 DEF SameCommand, Separate
        <4>2. CASE i \notin 1 .. Len(chan) - 1
          <5>1. HoldsRec /\ HoldsRec' /\ i = Len(chan)
            BY <1>1, <1>2, <2>5, <3>2, <3>3, <4>2 DEF r, One
          <5>3. i = Len(chan') + 1
            BY <1>1, <3>2, <5>1
          <5>2. q[i + 1] = e /\ r[i] = f
            BY <1>1, <1>2, <5>1, <5>3 DEF q, r, e, f
          <5> QED BY <2>4, <5>1, <5>2
        <4> QED BY <4>1, <4>2
      <3>5. Exclusive(q)
        BY <1>3 DEF q
      <3>6. Exclusive(r)
        BY <1>6, <3>3, <3>4, <3>5, ExclusiveShift
      <3> QED BY <3>6 DEF r, Exclusive, ExclusiveInv
    <2>7. CASE chan' = chan
      <3>1. Len(r) = Len(q) /\ Len(r) \in Len(chan) .. Len(chan) + 1
        BY <1>1, <1>2, <2>5, <2>7 DEF q, r, One
      <3>2. ASSUME NEW i \in 1 .. Len(r) PROVE SameCommand(q[i], r[i])
        <4>1. CASE i \in 1 .. Len(chan)
          BY <1>1, <1>2, <2>7, <4>1 DEF q, r, SameCommand
        <4>2. CASE i \notin 1 .. Len(chan)
          <5>1. HoldsRec /\ HoldsRec' /\ i = Len(chan) + 1
            BY <1>1, <1>2, <2>5, <2>7, <3>1, <4>2 DEF r, One
          <5>2. q[i] = e /\ r[i] = f
            BY <1>1, <1>2, <2>7, <5>1 DEF q, r, e, f
          <5> QED BY <2>4, <5>1, <5>2
        <4> QED BY <4>1, <4>2
      <3>3. Exclusive(q) /\ Len(r) <= Len(q)
        BY <1>3, <1>6, <3>1 DEF q
      <3>4. Exclusive(r)
        BY <1>6, <3>2, <3>3, ExclusivePart
      <3> QED BY <3>4 DEF r, Exclusive, ExclusiveInv
    <2> QED BY <1>5, <1>11, <2>6, <2>7
  <1> QED BY <1>4, <1>7, <1>8, <1>9, <1>10, <1>11 DEF FlightMoves
-----------------------------------------------------------------------------
(* The inductive invariant: the room in the DPB *)
RoomMoves ==
    /\ pcD = "mark" => MarkRefs \/ pcD' = "mark"
    /\ pcD = "clean" => CleanDpb \/ pcD' = "clean"
    /\ pcD' = "mark" => InsertPicture \/ pcD = "mark"
    /\ pcD' \in {"replace", "insert"} /\ pic'.idr =>
          FlushDpb \/ (pcD \in {"replace", "insert"} /\ pic.idr)

LEMMA RoomMove ==
  ASSUME PipelineInv, Next
  PROVE  RoomMoves
  <1>1. ASSUME NEW k \in PicKinds, ParseSlice(k) PROVE RoomMoves
    BY <1>1 DEF ParseSlice, dVars, eVars, uVars, RoomMoves
  <1>2. CASE GetSemaphore
    BY <1>2 DEF GetSemaphore, DStep, dVars, eVars, uVars, RoomMoves
  <1>3. CASE PopBuffer
    BY <1>3 DEF PopBuffer, DStep, dVars, eVars, uVars, RoomMoves
  <1>4. CASE PopWaits
    BY <1>4 DEF PopWaits, DStep, dVars, eVars, uVars, RoomMoves
  <1>5. CASE PopWakesUp
    BY <1>5 DEF PopWakesUp, DStep, dVars, eVars, uVars, RoomMoves
  <1>6. CASE PopFails
    BY <1>6 DEF PopFails, DStep, dVars, eVars, uVars, RoomMoves
  <1>7. CASE GetMv
    BY <1>7 DEF GetMv, DStep, dVars, eVars, uVars, RoomMoves
  <1>8. CASE ListRefs
    BY <1>8 DEF ListRefs, DStep, dVars, eVars, uVars, RoomMoves
  <1>9. CASE LockRefs
    BY <1>9 DEF LockRefs, DStep, dVars, eVars, uVars, RoomMoves
  <1>10. CASE CancelFrame
    BY <1>10 DEF CancelFrame, DStep, dVars, eVars, uVars, RoomMoves
  <1>11. CASE CancelRefs
    BY <1>11 DEF CancelRefs, DStep, dVars, eVars, uVars, RoomMoves
  <1>12. CASE FlushDpb
    BY <1>12 DEF FlushDpb, DStep, dVars, eVars, uVars, RoomMoves
  <1>13. CASE Replace
    BY <1>13 DEF Replace, DStep, dVars, eVars, uVars, RoomMoves
  <1>14. CASE InsertPicture
    BY <1>14 DEF InsertPicture, DStep, dVars, eVars, uVars, RoomMoves
  <1>15. CASE MarkRefs
    BY <1>15 DEF RoomMoves, MarkRefs, DStep
  <1>16. CASE CleanDpb
    BY <1>16 DEF RoomMoves, CleanDpb, DStep
  <1>17. CASE Launch
    BY <1>17 DEF Launch, dVars, eVars, uVars, RoomMoves
  <1>18. CASE FlushToExit
    BY <1>18 DEF FlushToExit, DStep, dVars, eVars, uVars, RoomMoves
  <1>19. CASE WaitFrameSent
    BY <1>19 DEF WaitFrameSent, DStep, dVars, eVars, uVars, RoomMoves
  <1>20. CASE FlushAll
    BY <1>20 DEF FlushAll, DStep, dVars, eVars, uVars, RoomMoves
  <1>21. CASE ReleaseFrames
    BY <1>21 DEF ReleaseFrames, DStep, dVars, eVars, uVars, RoomMoves
  <1>22. CASE SignalEos
    BY <1>22 DEF SignalEos, dVars, eVars, uVars, RoomMoves
  <1>23. CASE Terminate
    BY <1>23 DEF Terminate, DStep, dVars, eVars, uVars, RoomMoves
  <1>24. CASE TerminateMv
    BY <1>24 DEF TerminateMv, DStep, dVars, eVars, uVars, RoomMoves
  <1>25. CASE ExitThread
    BY <1>25 DEF ExitThread, DStep, dVars, eVars, uVars, RoomMoves
  <1>26. CASE pcD = "peek" /\ CallDisplay("D")
    BY <1>26 DEF CallDisplay, dVars, eVars, uVars, RoomMoves
  <1>27. CASE pcD = "peek" /\ SignalDisplayIsDone("D")
    BY <1>27 DEF SignalDisplayIsDone, dVars, eVars, uVars, RoomMoves
  <1>28. CASE pcE = "peek" /\ CallDisplay("E")
    BY <1>28 DEF CallDisplay, dVars, eVars, uVars, RoomMoves
  <1>29. CASE pcE = "peek" /\ SignalDisplayIsDone("E")
    BY <1>29 DEF SignalDisplayIsDone, dVars, eVars, uVars, RoomMoves
  <1>30. CASE EndOfInput
    BY <1>30 DEF EndOfInput, DStep, dVars, eVars, uVars, RoomMoves
  <1>31. CASE UnitError
    BY <1>31 DEF UnitError, DStep, dVars, eVars, uVars, RoomMoves
  <1>32. CASE EndCommand
    BY <1>32 DEF EndCommand, EStep, dVars, eVars, uVars, RoomMoves
  <1>33. CASE UnlockRefs
    BY <1>33 DEF UnlockRefs, EStep, dVars, eVars, uVars, RoomMoves
  <1>34. CASE Advance
    BY <1>34 DEF Advance, EStep, dVars, eVars, uVars, RoomMoves
  <1>35. CASE UnlockPicture
    BY <1>35 DEF UnlockPicture, EStep, dVars, eVars, uVars, RoomMoves
  <1>36. CASE PostSemaphore
    BY <1>36 DEF PostSemaphore, EStep, dVars, eVars, uVars, RoomMoves
  <1>37. ASSUME NEW b \in Bufs, PutDecPict(b) PROVE RoomMoves
    BY <1>37 DEF PutDecPict, UStep, dVars, eVars, uVars, RoomMoves
  <1>38. CASE DecommitPool
    BY <1>38 DEF DecommitPool, UStep, dVars, eVars, uVars, RoomMoves
  <1>39. CASE DestroyFeeder
    BY <1>39 DEF DestroyFeeder, UStep, dVars, eVars, uVars, RoomMoves
  <1>40. CASE DestroyChannel
    BY <1>40 DEF DestroyChannel, UStep, dVars, eVars, uVars, RoomMoves
  <1>41. CASE ReleaseUnused
    BY <1>41 DEF ReleaseUnused, UStep, dVars, eVars, uVars, RoomMoves
  <1>42. CASE Destroyed
    BY <1>42 DEF Destroyed, UStep, dVars, eVars, uVars, RoomMoves
  <1>43. CASE Over
    BY <1>43 DEF Over, vars, dVars, eVars, RoomMoves
  <1> HIDE DEF RoomMoves
  <1> QED BY <1>1, <1>2, <1>3, <1>4, <1>5, <1>6, <1>7, <1>8, <1>9, <1>10, <1>11, <1>12, <1>13,
      <1>14, <1>15, <1>16, <1>17, <1>18, <1>19, <1>20, <1>21, <1>22, <1>23, <1>24, <1>25, <1>26,
      <1>27, <1>28, <1>29, <1>30, <1>31, <1>32, <1>33, <1>34, <1>35, <1>36, <1>37, <1>38, <1>39,
      <1>40, <1>41, <1>42, <1>43 DEF Next, DNext, ENext, DestroyNext, DisplayD, DisplayE

LEMMA CountsOf ==
  ASSUME NEW x, x \in PictMngrs
  PROVE  /\ RefCount(x) \in Nat /\ Len(x.nodes) \in Nat /\ RefCount(x) <= Len(x.nodes)
         /\ Len(x.nodes) = 0 => x.nodes = <<>>
         /\ x.nodes = <<>> => Len(x.nodes) = 0
  <1>1. Lists(x) /\ x.nodes \in Seq(DpbNodes)
    BY MngrTypes DEF Lists
  <1>2. RefCount(x) \in Nat /\ Len(x.nodes) \in Nat /\ RefCount(x) <= Len(x.nodes)
    BY <1>1, RefCountIs
  <1>3. Len(x.nodes) = 0 => x.nodes = <<>>
    BY <1>1
  <1>4. x.nodes = <<>> => Len(x.nodes) = 0
    OBVIOUS
  <1> QED BY <1>2, <1>3, <1>4

LEMMA LeastIs ==
  /\ Least(NumRef) \in Nat /\ Least(NumRef) >= 1 /\ NumRef <= Least(NumRef)
  /\ Least(MaxRefFrames) \in Nat /\ Least(MaxRefFrames) >= 1
  /\ MaxRefFrames <= Least(MaxRefFrames) /\ Least(MaxRefFrames) <= Least(NumRef)
  /\ NumRef \in Nat /\ MaxRefFrames \in Nat
  BY PictMngrAssumption DEF Least

\* The nodes and the references after the step, as many as before but for those of InsertPicture
\* and of a gap
Fewer == Len(ctx'.nodes) <= Len(ctx.nodes) /\ RefCount(ctx') <= RefCount(ctx)
LEMMA FewerStep ==
  ASSUME PipelineInv, Next, Sized
  PROVE  Fewer \/ InsertPicture \/ FillsGap
  <1>1. ctx \in PictMngrs /\ ctx' \in PictMngrs
    BY MngrAround
  <1>2. /\ RefCount(ctx) \in Nat /\ Len(ctx.nodes) \in Nat
        /\ RefCount(ctx') \in Nat /\ Len(ctx'.nodes) \in Nat
    BY <1>1, CountsOf
  <1>3. NodesKept
    BY StepKeeps
  <1>4. CASE NodesStay(ctx, ctx')
    BY <1>2, <1>4 DEF NodesStay, Fewer
  <1>5. CASE FlushDpb \/ FlushAll \/ Replace \/ MarkRefs \/ CleanDpb
    <2>1. UsersKept
      BY <1>5, UsersMostly DEF Taking, FlushDpb, FlushAll, Replace, MarkRefs, CleanDpb, DStep, eVars
    <2> HIDE DEF UsersKept
    <2>2. Thinned(ctx, ctx')
      BY <1>5, <2>1, FlushDpbCtx, ReplaceCtx, MarkRefsCtx, CleanDpbCtx
    <2> QED BY <2>2 DEF Thinned, Fewer
  <1> QED BY <1>3, <1>4, <1>5 DEF NodesKept

Room ==
    /\ pcD \notin {"mark", "clean"} => Len(ctx.nodes) <= Least(NumRef)
    /\ Len(ctx.nodes) <= Least(NumRef) + 1
    /\ pcD # "mark" => RefCount(ctx) <= Least(MaxRefFrames)
    /\ RefCount(ctx) <= Least(MaxRefFrames) + 1
    /\ pcD \in {"replace", "insert"} /\ pic.idr => ctx.nodes = <<>>

LEMMA RoomNow == RoomInv <=> Room
  BY DEF RoomInv, Room, PicCount

LEMMA InsertRoom ==
  ASSUME PipelineInv, Next, Sized, InsertPicture
  PROVE  Room'
  <1>1. UsersKept
    BY UsersMostly DEF Taking, InsertPicture, DStep, eVars
  <1>2. ctx \in PictMngrs /\ ctx' \in PictMngrs /\ Room
    BY MngrAround, RoomNow DEF PipelineInv
  <1> HIDE DEF UsersKept
  <1>3. PicInserted(ctx, ctx', recID, IF pic.ref THEN "shortTerm" ELSE "unused",
                    FrmUsers, MvUsers, user, Shown)
    BY <1>1, InsertPictureCtx
  <1> DEFINE mark == IF pic.ref THEN "shortTerm" ELSE "unused"
  <1>4. RefCount(ctx') <= RefCount(ctx) + One(mark # "unused") /\ Len(ctx'.nodes) <= Len(ctx.nodes) + 1
    BY <1>3 DEF PicInserted, Grown
  <1>5. One(mark # "unused") <= 1 /\ One(mark # "unused") \in Nat /\ (~pic.ref => One(mark # "unused") = 0)
    BY DEF One
  <1> HIDE DEF mark
  <1>6. /\ RefCount(ctx) \in Nat /\ Len(ctx.nodes) \in Nat /\ RefCount(ctx) <= Len(ctx.nodes)
        /\ RefCount(ctx') \in Nat /\ Len(ctx'.nodes) \in Nat
        /\ ctx.nodes = <<>> => Len(ctx.nodes) = 0
    BY <1>2, CountsOf
  <1>7. /\ pcD = "insert" /\ pcD' = (IF pic.ref /\ ~pic.idr THEN "mark" ELSE "clean")
        /\ pic' = pic
    BY DEF InsertPicture, DStep
  <1>8. /\ Len(ctx.nodes) <= Least(NumRef) /\ RefCount(ctx) <= Least(MaxRefFrames)
        /\ pic.idr => Len(ctx.nodes) = 0
    BY <1>2, <1>6, <1>7 DEF Room
  <1>9. Len(ctx'.nodes) <= Least(NumRef) + 1
    BY <1>4, <1>6, <1>8, LeastIs
  <1>10. RefCount(ctx') <= Least(MaxRefFrames) + 1
    BY <1>4, <1>5, <1>6, <1>8, LeastIs
  <1>11. pcD' # "mark" => RefCount(ctx') <= Least(MaxRefFrames)
    <2>1. CASE ~pic.ref
      BY <1>4, <1>5, <1>6, <1>8, <2>1, LeastIs
    <2>2. CASE pic.idr
      BY <1>4, <1>5, <1>6, <1>8, <2>2, LeastIs
    <2> QED BY <1>7, <2>1, <2>2
  <1> QED BY <1>7, <1>9, <1>10, <1>11 DEF Room

LEMMA GapRoom ==
  ASSUME PipelineInv, Next, Sized, FillsGap
  PROVE  Room'
  <1>2. ctx \in PictMngrs /\ ctx' \in PictMngrs /\ Room
    BY MngrAround, RoomNow DEF PipelineInv
  <1>1. PICK k \in PicKinds : ParseSlice(k) /\ k.gap
    BY DEF FillsGap
  <1>3. pcD = "idle" /\ pcD' = "getSem" /\ UsersKept
    BY <1>1, UsersMostly DEF ParseSlice, Taking, eVars
  <1> HIDE DEF UsersKept
  <1>4. Filled(ctx, ctx', FrmUsers, MvUsers, user, Shown)
    BY <1>1, <1>3, ParseSliceCtx
  <1>5. /\ RefCount(ctx') <= MaxRefFrames \/ RefCount(ctx') <= RefCount(ctx)
        /\ Len(ctx'.nodes) <= NumRef \/ Len(ctx'.nodes) <= RefCount(ctx)
    BY <1>4 DEF Filled
  <1>6. /\ RefCount(ctx) \in Nat /\ RefCount(ctx') \in Nat /\ Len(ctx'.nodes) \in Nat
    BY <1>2, CountsOf
  <1>7. RefCount(ctx) <= Least(MaxRefFrames)
    BY <1>2, <1>3 DEF Room
  <1> QED BY <1>3, <1>5, <1>6, <1>7, LeastIs DEF Room

LEMMA RoomStep ==
  ASSUME PipelineInv, Next, Sized
  PROVE  RoomInv'
  <1>1. ctx \in PictMngrs /\ ctx' \in PictMngrs /\ Room
    BY MngrAround, RoomNow DEF PipelineInv
  <1>2. RoomMoves
    BY RoomMove
  <1>3. /\ RefCount(ctx) \in Nat /\ Len(ctx.nodes) \in Nat
        /\ RefCount(ctx') \in Nat /\ Len(ctx'.nodes) \in Nat
        /\ ctx.nodes = <<>> => Len(ctx.nodes) = 0
        /\ Len(ctx'.nodes) = 0 => ctx'.nodes = <<>>
    BY <1>1, CountsOf
  <1>4. ASSUME Fewer, ~InsertPicture PROVE Room'
    <2>0. Len(ctx'.nodes) <= Len(ctx.nodes) /\ RefCount(ctx') <= RefCount(ctx)
      BY <1>4 DEF Fewer
    <2>1. /\ Len(ctx'.nodes) <= Least(NumRef) + 1 /\ RefCount(ctx') <= Least(MaxRefFrames) + 1
      BY <1>1, <1>3, <2>0, LeastIs DEF Room
    <2>2. pcD' \notin {"mark", "clean"} => Len(ctx'.nodes) <= Least(NumRef)
      <3>1. CASE CleanDpb
        <4>1. UsersKept /\ pcD = "clean"
          BY <3>1, UsersMostly DEF Taking, CleanDpb, DStep, eVars
        <4> HIDE DEF UsersKept
        <4>2. Len(ctx'.nodes) <= NumRef \/ Len(ctx'.nodes) <= RefCount(ctx)
          BY <3>1, <4>1, CleanDpbCtx
        <4>3. RefCount(ctx) <= Least(MaxRefFrames)
          BY <1>1, <4>1 DEF Room
        <4> QED BY <1>3, <4>2, <4>3, LeastIs
      <3>2. CASE pcD' \notin {"mark", "clean"} /\ ~CleanDpb
        <4>1. pcD \notin {"mark", "clean"}
          BY <1>2, <3>2 DEF RoomMoves, MarkRefs, DStep
        <4>2. Len(ctx.nodes) <= Least(NumRef)
          BY <1>1, <4>1 DEF Room
        <4> QED BY <1>3, <2>0, <4>2, LeastIs
      <3> QED BY <3>1, <3>2
    <2>3. pcD' # "mark" => RefCount(ctx') <= Least(MaxRefFrames)
      <3>1. CASE MarkRefs
        <4>1. UsersKept
          BY <3>1, UsersMostly DEF Taking, MarkRefs, DStep, eVars
        <4> HIDE DEF UsersKept
        <4>2. RefCount(ctx') <= MaxRefFrames \/ RefCount(ctx') = RefCount(ctx) - 1
          BY <3>1, <4>1, MarkRefsCtx
        <4>3. RefCount(ctx) <= Least(MaxRefFrames) + 1
          BY <1>1 DEF Room
        <4> QED BY <1>3, <4>2, <4>3, LeastIs
      <3>2. CASE pcD' # "mark" /\ ~MarkRefs
        <4>1. pcD # "mark"
          BY <1>2, <3>2 DEF RoomMoves
        <4>2. RefCount(ctx) <= Least(MaxRefFrames)
          BY <1>1, <4>1 DEF Room
        <4> QED BY <1>3, <2>0, <4>2, LeastIs
      <3> QED BY <3>1, <3>2
    <2>4. pcD' \in {"replace", "insert"} /\ pic'.idr => ctx'.nodes = <<>>
      <3>1. CASE FlushDpb
        <4>1. UsersKept
          BY <3>1, UsersMostly DEF Taking, FlushDpb, DStep, eVars
        <4> HIDE DEF UsersKept
        <4> QED BY <3>1, <4>1, FlushDpbCtx
      <3>2. CASE pcD \in {"replace", "insert"} /\ pic.idr
        <4>1. Len(ctx.nodes) = 0
          BY <1>1, <1>3, <3>2 DEF Room
        <4> QED BY <1>3, <2>0, <4>1
      <3> QED BY <1>2, <3>1, <3>2 DEF RoomMoves
    <2> QED BY <2>1, <2>2, <2>3, <2>4 DEF Room
  <1>5. Room'
    BY <1>4, FewerStep, InsertRoom, GapRoom
  <1> QED BY <1>5 DEF RoomInv, Room, PicCount
-----------------------------------------------------------------------------
(* The inductive invariant: what is left after a flush *)
Ending == {"signalEos", "terminate", "terminateMv"}
Resting == {"idle", "waitSent", "exited"} \cup Flushing
Emptied == ctx.nodes = <<>> /\ ctx.dlt = <<>> /\ ctx.disp = <<>>
RestMoves ==
    /\ pcD' \in Flushing => WaitFrameSent \/ (pcD \in Flushing /\ blk1' = blk1 /\ blk2' = blk2)
    /\ pcD' \in Flushing \ {"flushAll"} => FlushAll \/ pcD \in Flushing \ {"flushAll"}
    /\ pcD' \in Ending => ReleaseFrames \/ (pcD \in Ending /\ sem' = sem)
    /\ pcD' = "terminateMv" => Terminate \/ pcD = "terminateMv"
    /\ stopped' \/ pics' = 0 =>
          \/ TerminateMv
          \/ /\ stopped \/ pics = 0
             /\ pcD' \in Resting /\ blk1' = blk1 /\ blk2' = blk2
    /\ pcD' = "exited" => stopped' \/ pics' = 0
    /\ pcU' \in {"release", "destroyed"} => pcD' = "exited" /\ pcE' = "idle"
    /\ pcU' = "destroyed" => FifoSlots(ctx.pool) = <<>> /\ ctx' = ctx
\* What D and the hardware do while every command has ended
RestFacts ==
    /\ blk1 \in Nat /\ blk2 \in Nat /\ sem \in Nat /\ pics \in Nat
    /\ pcD \in Flushing => blk1 = blk2
    /\ blk1 = blk2 => chan = <<>> /\ pcE \notin {"unlockRefs", "advance"}
    /\ pcD \in Ending => pcE \notin {"peek", "post"}
    /\ stopped \/ pics = 0 => pcD \in Resting /\ blk1 = blk2
    /\ pcD = "exited" => stopped \/ pics = 0
    /\ pcU \in {"release", "destroyed"} => pcD = "exited" /\ pcE = "idle"
    /\ pcU = "destroyed" => FifoSlots(ctx.pool) = <<>>

LEMMA RestNow ==
  ASSUME PipelineInv
  PROVE  RestFacts
  <1>1. /\ blk1 \in Nat /\ blk2 \in Nat /\ sem \in Nat /\ Len(chan) \in Nat
        /\ pcE \in {"unlockRefs", "advance"} => blk2 < blk1
    BY RanksClose
  <1>2. chan \in Seq(Command) /\ pics \in Nat
    BY DEF PipelineInv, PipelineTypes
  <1>3. /\ Len(chan) + One(pcE \in {"unlockRefs", "advance"}) = blk1 - blk2
        /\ sem + (blk1 - blk2) + One(pcE \in {"peek", "post"}) + One(pcD \in Preparing)
              + (IF pcD \in {"flushAll", "peek"} THEN StackSize ELSE 0) = StackSize
    BY DEF PipelineInv, SemaphoreInv
  <1>4. blk1 = blk2 => Len(chan) = 0 /\ pcE \notin {"unlockRefs", "advance"}
    BY <1>1, <1>3 DEF One
  <1>5. blk1 = blk2 => chan = <<>> /\ pcE \notin {"unlockRefs", "advance"}
    BY <1>2, <1>4
  <1>6. /\ pcD \in Flushing => blk1 = blk2
        /\ pcD \in Ending => sem = StackSize
        /\ stopped \/ pics = 0 => pcD \in Resting /\ blk1 = blk2
        /\ pcD = "exited" => stopped \/ pics = 0
        /\ pcU \in {"release", "destroyed"} => pcD = "exited" /\ pcE = "idle"
        /\ pcU = "destroyed" => FifoSlots(ctx.pool) = <<>>
    BY DEF PipelineInv, RestInv, Ending, Resting
  <1>7. pcD \in Ending => blk1 = blk2 /\ pcD \notin Preparing \cup {"flushAll", "peek"}
    BY <1>6 DEF Ending, Flushing, Preparing, Begun
  <1>8. pcD \in Ending => pcE \notin {"peek", "post"}
    BY <1>1, <1>3, <1>6, <1>7 DEF One
  <1> QED BY <1>1, <1>2, <1>5, <1>6, <1>8 DEF RestFacts

LEMMA RestMove ==
  ASSUME PipelineInv, Next
  PROVE  RestMoves
  <1>0. RestFacts
    BY RestNow
  <1>1. ASSUME NEW k \in PicKinds, ParseSlice(k) PROVE RestMoves
    BY <1>1, <1>0 DEF ParseSlice, dVars, eVars, uVars, RestMoves, RestFacts, Ending, Resting,
        Flushing
  <1>2. CASE GetSemaphore
    BY <1>2, <1>0 DEF GetSemaphore, DStep, dVars, eVars, uVars, RestMoves, RestFacts, Ending,
        Resting, Flushing
  <1>3. CASE PopBuffer
    BY <1>3, <1>0 DEF PopBuffer, DStep, dVars, eVars, uVars, RestMoves, RestFacts, Ending,
        Resting, Flushing
  <1>4. CASE PopWaits
    BY <1>4, <1>0 DEF PopWaits, DStep, dVars, eVars, uVars, RestMoves, RestFacts, Ending,
        Resting, Flushing
  <1>5. CASE PopWakesUp
    BY <1>5, <1>0 DEF PopWakesUp, DStep, dVars, eVars, uVars, RestMoves, RestFacts, Ending,
        Resting, Flushing
  <1>6. CASE PopFails
    BY <1>6, <1>0 DEF PopFails, DStep, dVars, eVars, uVars, RestMoves, RestFacts, Ending,
        Resting, Flushing
  <1>7. CASE GetMv
    BY <1>7, <1>0 DEF GetMv, DStep, dVars, eVars, uVars, RestMoves, RestFacts, Ending, Resting,
        Flushing
  <1>8. CASE ListRefs
    BY <1>8, <1>0 DEF ListRefs, DStep, dVars, eVars, uVars, RestMoves, RestFacts, Ending,
        Resting, Flushing
  <1>9. CASE LockRefs
    BY <1>9, <1>0 DEF LockRefs, DStep, dVars, eVars, uVars, RestMoves, RestFacts, Ending,
        Resting, Flushing
  <1>10. CASE CancelFrame
    BY <1>10, <1>0 DEF CancelFrame, DStep, dVars, eVars, uVars, RestMoves, RestFacts, Ending,
        Resting, Flushing
  <1>11. CASE CancelRefs
    BY <1>11, <1>0 DEF CancelRefs, DStep, dVars, eVars, uVars, RestMoves, RestFacts, Ending,
        Resting, Flushing
  <1>12. CASE FlushDpb
    BY <1>12, <1>0 DEF FlushDpb, DStep, dVars, eVars, uVars, RestMoves, RestFacts, Ending,
        Resting, Flushing
  <1>13. CASE Replace
    BY <1>13, <1>0 DEF Replace, DStep, dVars, eVars, uVars, RestMoves, RestFacts, Ending,
        Resting, Flushing
  <1>14. CASE InsertPicture
    BY <1>14, <1>0 DEF InsertPicture, DStep, dVars, eVars, uVars, RestMoves, RestFacts, Ending,
        Resting, Flushing
  <1>15. CASE MarkRefs
    BY <1>15, <1>0 DEF MarkRefs, DStep, dVars, eVars, uVars, RestMoves, RestFacts, Ending,
        Resting, Flushing
  <1>16. CASE CleanDpb
    BY <1>16, <1>0 DEF CleanDpb, DStep, dVars, eVars, uVars, RestMoves, RestFacts, Ending,
        Resting, Flushing
  <1>17. CASE Launch
    BY <1>17, <1>0 DEF Launch, dVars, eVars, uVars, RestMoves, RestFacts, Ending, Resting,
        Flushing
  <1>18. CASE FlushToExit
    BY <1>18, <1>0 DEF FlushToExit, DStep, dVars, eVars, uVars, RestMoves, RestFacts, Ending,
        Resting, Flushing
  <1>19. CASE WaitFrameSent
    BY <1>19, <1>0 DEF WaitFrameSent, DStep, dVars, eVars, uVars, RestMoves, RestFacts, Ending,
        Resting, Flushing
  <1>20. CASE FlushAll
    BY <1>20, <1>0 DEF FlushAll, DStep, dVars, eVars, uVars, RestMoves, RestFacts, Ending,
        Resting, Flushing
  <1>21. CASE ReleaseFrames
    BY <1>21, <1>0 DEF ReleaseFrames, DStep, dVars, eVars, uVars, RestMoves, RestFacts, Ending,
        Resting, Flushing
  <1>22. CASE SignalEos
    BY <1>22, <1>0 DEF SignalEos, dVars, eVars, uVars, RestMoves, RestFacts, Ending, Resting,
        Flushing
  <1>23. CASE Terminate
    BY <1>23, <1>0 DEF Terminate, DStep, dVars, eVars, uVars, RestMoves, RestFacts, Ending,
        Resting, Flushing
  <1>24. CASE TerminateMv
    BY <1>24, <1>0 DEF TerminateMv, DStep, dVars, eVars, uVars, RestMoves, RestFacts, Ending,
        Resting, Flushing
  <1>25. CASE ExitThread
    BY <1>25, <1>0 DEF ExitThread, DStep, dVars, eVars, uVars, RestMoves, RestFacts, Ending,
        Resting, Flushing
  <1>26. CASE pcD = "peek" /\ CallDisplay("D")
    BY <1>26, <1>0 DEF CallDisplay, dVars, eVars, uVars, RestMoves, RestFacts, Ending, Resting,
        Flushing
  <1>27. CASE pcD = "peek" /\ SignalDisplayIsDone("D")
    BY <1>27, <1>0 DEF SignalDisplayIsDone, dVars, eVars, uVars, RestMoves, RestFacts, Ending,
        Resting, Flushing
  <1>28. CASE pcE = "peek" /\ CallDisplay("E")
    BY <1>28, <1>0 DEF CallDisplay, dVars, eVars, uVars, RestMoves, RestFacts, Ending, Resting,
        Flushing
  <1>29. CASE pcE = "peek" /\ SignalDisplayIsDone("E")
    BY <1>29, <1>0 DEF SignalDisplayIsDone, dVars, eVars, uVars, RestMoves, RestFacts, Ending,
        Resting, Flushing
  <1>30. CASE EndOfInput
    BY <1>30, <1>0 DEF EndOfInput, DStep, dVars, eVars, uVars, RestMoves, RestFacts, Ending,
        Resting, Flushing
  <1>31. CASE UnitError
    BY <1>31, <1>0 DEF UnitError, DStep, dVars, eVars, uVars, RestMoves, RestFacts, Ending,
        Resting, Flushing
  <1>32. CASE EndCommand
    BY <1>32, <1>0 DEF EndCommand, EStep, dVars, eVars, uVars, RestMoves, RestFacts, Ending,
        Resting, Flushing
  <1>33. CASE UnlockRefs
    BY <1>33, <1>0 DEF UnlockRefs, EStep, dVars, eVars, uVars, RestMoves, RestFacts, Ending,
        Resting, Flushing
  <1>34. CASE Advance
    BY <1>34, <1>0 DEF Advance, EStep, dVars, eVars, uVars, RestMoves, RestFacts, Ending,
        Resting, Flushing
  <1>35. CASE UnlockPicture
    BY <1>35, <1>0 DEF UnlockPicture, EStep, dVars, eVars, uVars, RestMoves, RestFacts, Ending,
        Resting, Flushing
  <1>36. CASE PostSemaphore
    BY <1>36, <1>0 DEF PostSemaphore, EStep, dVars, eVars, uVars, RestMoves, RestFacts, Ending,
        Resting, Flushing
  <1>37. ASSUME NEW b \in Bufs, PutDecPict(b) PROVE RestMoves
    BY <1>37, <1>0 DEF PutDecPict, UStep, dVars, eVars, uVars, RestMoves, RestFacts, Ending,
        Resting, Flushing
  <1>38. CASE DecommitPool
    BY <1>38, <1>0 DEF DecommitPool, UStep, dVars, eVars, uVars, RestMoves, RestFacts, Ending,
        Resting, Flushing
  <1>39. CASE DestroyFeeder
    BY <1>39, <1>0 DEF DestroyFeeder, UStep, dVars, eVars, uVars, RestMoves, RestFacts, Ending,
        Resting, Flushing
  <1>40. CASE DestroyChannel
    BY <1>40, <1>0 DEF DestroyChannel, UStep, dVars, eVars, uVars, RestMoves, RestFacts, Ending,
        Resting, Flushing
  <1>41. CASE ReleaseUnused
    BY <1>41, <1>0 DEF ReleaseUnused, UStep, dVars, eVars, uVars, RestMoves, RestFacts, Ending,
        Resting, Flushing
  <1>42. CASE Destroyed
    BY <1>42, <1>0 DEF Destroyed, UStep, dVars, eVars, uVars, RestMoves, RestFacts, Ending,
        Resting, Flushing
  <1>43. CASE Over
    BY <1>43, <1>0 DEF Over, vars, dVars, eVars, uVars, RestMoves, RestFacts, Ending, Resting,
        Flushing
  <1> HIDE DEF RestMoves
  <1> QED BY <1>1, <1>2, <1>3, <1>4, <1>5, <1>6, <1>7, <1>8, <1>9, <1>10, <1>11, <1>12, <1>13,
      <1>14, <1>15, <1>16, <1>17, <1>18, <1>19, <1>20, <1>21, <1>22, <1>23, <1>24, <1>25, <1>26,
      <1>27, <1>28, <1>29, <1>30, <1>31, <1>32, <1>33, <1>34, <1>35, <1>36, <1>37, <1>38, <1>39,
      <1>40, <1>41, <1>42, <1>43 DEF Next, DNext, ENext, DestroyNext, DisplayD, DisplayE

\* A picture manager that holds nothing holds nothing after a step that adds no picture.
LEMMA EmptyStays ==
  ASSUME PipelineInv, Next, Sized, Emptied, ~InsertPicture, ~FillsGap
  PROVE  Emptied'
  <1>1. ctx \in PictMngrs /\ ctx' \in PictMngrs
    BY MngrAround
  <1>2. \A t \in Slots : NoneHeld(ctx, t)
    BY DEF Emptied, NoneHeld
  <1>3. \A t \in Slots : NoneHeld(ctx', t)
    BY <1>2, StepKeeps DEF CalmKept, Calm
  <1>4. ctx'.disp \in Seq(Slots) /\ ctx'.dlt \in Seq(Slots \X MvIDs)
    BY <1>1, MngrTypes DEF Lists
  <1>5. ctx'.disp = <<>>
    <2>1. ASSUME ctx'.disp # <<>> PROVE FALSE
      <3>1. 1 \in 1 .. Len(ctx'.disp) /\ ctx'.disp[1] \in Slots
        BY <1>4, <2>1
      <3> QED BY <1>3, <3>1 DEF NoneHeld
    <2> QED BY <2>1
  <1>6. ctx'.dlt = <<>>
    <2>1. ASSUME ctx'.dlt # <<>> PROVE FALSE
      <3>1. 1 \in 1 .. Len(ctx'.dlt) /\ ctx'.dlt[1] \in Slots \X MvIDs
        BY <1>4, <2>1
      <3>2. ctx'.dlt[1][1] \in Slots
        BY <3>1
      <3> QED BY <1>3, <3>1, <3>2 DEF NoneHeld
    <2> QED BY <2>1
  <1>7. ctx'.nodes = <<>>
    <2>1. Len(ctx.nodes) = 0 /\ Len(ctx'.nodes) \in Nat /\ (Len(ctx'.nodes) = 0 => ctx'.nodes = <<>>)
      BY <1>1, CountsOf DEF Emptied
    <2>2. Len(ctx'.nodes) <= Len(ctx.nodes)
      BY FewerStep DEF Fewer
    <2> QED BY <2>1, <2>2
  <1> QED BY <1>5, <1>6, <1>7 DEF Emptied

\* D finds nothing to show once every command has ended: the display list is empty.
LEMMA AllShown ==
  ASSUME PipelineInv, ReleaseFrames
  PROVE  ctx.disp = <<>>
  <1>1. pcD = "peek" /\ GetDisplayBuffer(ctx) = NoSlot
    BY DEF ReleaseFrames, DStep
  <1>2. MngrInv(ctx, FrmUsers, MvUsers, user, Shown) /\ ctx \in PictMngrs
    BY MngrNow
  <1>3. chan = <<>>
    BY <1>1, RestNow DEF RestFacts, Flushing
  <1>4. SUFFICES ASSUME ctx.disp # <<>> PROVE FALSE
    OBVIOUS
  <1> DEFINE s == Head(ctx.disp)
  <1>5. s \in Slots /\ InDisplay(ctx, s) /\ Len(ctx.disp) \in Nat
    BY <1>2, <1>4, HeadIs
  <1>6. ctx.status \in [Slots -> Statuses]
    BY <1>2, MngrTypes
  <1>7. ctx.status[s] # "ready"
    BY <1>1, <1>4, <1>5, SlotsAre DEF GetDisplayBuffer
  <1>8. ctx.status[s] # "notReady"
    BY <1>1, <1>3, <1>5 DEF PipelineInv, PictureInv, Inserted
  <1> QED BY <1>2, <1>5, <1>6, <1>7, <1>8 DEF MngrInv, OutputWhole, Statuses, InDisplay

LEMMA DispStays ==
  ASSUME PipelineInv, Next, Sized, pcD \in Ending
  PROVE  ctx'.disp = <<>>
  <1>1. ctx.disp = <<>> /\ blk1 = blk2
    BY DEF PipelineInv, RestInv, Ending, Flushing
  <1>2. chan = <<>>
    BY <1>1, RestNow DEF RestFacts
  <1>3. Moved
    BY MngrStep
  <1>4. CASE Gentle(ctx, ctx')
    BY <1>1, <1>4 DEF Gentle, SamePicts
  <1>5. CASE EndCommand
    BY <1>2, <1>5 DEF EndCommand
  <1>6. CASE UsersKept /\ DpbStep
    <2>1. Terminate
      BY <1>6 DEF DpbStep, Ending, FlushDpb, FlushAll, Replace, MarkRefs, CleanDpb, InsertPicture, DStep
    <2>2. Purged(ctx, ctx')
      BY <1>6, <2>1, TerminateCtx
    <2> QED BY <1>1, <2>2 DEF Purged
  <1>7. CASE UsersKept /\ \E k \in PicKinds : ParseSlice(k) /\ k.gap
    BY <1>7 DEF ParseSlice, Ending
  <1>8. CASE UsersKept /\ \E t \in CallbackThreads : SignalDisplayIsDone(t)
    <2>1. PICK t \in CallbackThreads : SignalDisplayIsDone(t)
      BY <1>8
    <2> HIDE DEF UsersKept
    <2> QED BY <1>1, <1>8, <2>1, SignalDisplayIsDoneCtx
  <1> QED BY <1>3, <1>4, <1>5, <1>6, <1>7, <1>8 DEF Moved

\* The steps that begin and end a flush
LEMMA FlushBounds ==
  ASSUME PipelineInv, Next, Sized
  PROVE  /\ WaitFrameSent => blk1' = blk2'
         /\ FlushAll => ctx'.nodes = <<>>
         /\ ReleaseFrames => ctx'.disp = <<>> /\ sem' = StackSize
         /\ Terminate => ctx'.dlt = <<>>
         /\ TerminateMv => Emptied' /\ blk1' = blk2' /\ pcD' = "idle"
  <1>0. /\ blk1 \in Nat /\ blk2 \in Nat /\ sem \in Nat /\ blk2 <= blk1 /\ StackSize \in Nat
    BY RanksClose
  <1>s. sem + (blk1 - blk2) + One(pcE \in {"peek", "post"}) + One(pcD \in Preparing)
              + (IF pcD \in {"flushAll", "peek"} THEN StackSize ELSE 0) = StackSize
    BY DEF PipelineInv, SemaphoreInv
  <1>1. ASSUME WaitFrameSent PROVE blk1' = blk2'
    <2>1. sem = StackSize /\ blk1' = blk1 /\ blk2' = blk2
      BY <1>1 DEF WaitFrameSent, DStep
    <2>2. blk1 - blk2 = 0
      BY <1>0, <1>s, <2>1 DEF One
    <2> QED BY <1>0, <2>1, <2>2
  <1>2. ASSUME FlushAll PROVE ctx'.nodes = <<>>
    <2>1. UsersKept
      BY <1>2, UsersMostly DEF Taking, FlushAll, DStep, eVars
    <2> HIDE DEF UsersKept
    <2> QED BY <1>2, <2>1, FlushDpbCtx
  <1>3. ASSUME ReleaseFrames PROVE ctx'.disp = <<>> /\ sem' = StackSize
    <2>1. ctx.disp = <<>> /\ ctx' = ctx /\ pcD = "peek" /\ sem' = sem + StackSize
      BY <1>3, AllShown DEF ReleaseFrames, DStep
    <2>2. sem = 0
      BY <1>0, <1>s, <2>1 DEF One
    <2> QED BY <1>0, <2>1, <2>2
  <1>4. ASSUME Terminate PROVE ctx'.dlt = <<>>
    <2>1. UsersKept
      BY <1>4, UsersMostly DEF Taking, Terminate, DStep, eVars
    <2> HIDE DEF UsersKept
    <2> QED BY <1>4, <2>1, TerminateCtx
  <1>5. ASSUME TerminateMv PROVE Emptied' /\ blk1' = blk2' /\ pcD' = "idle"
    <2>1. pcD = "terminateMv" /\ ctx' = ctx /\ blk1' = blk1 /\ blk2' = blk2 /\ pcD' = "idle"
      BY <1>5 DEF TerminateMv, DStep
    <2>2. Emptied /\ blk1 = blk2
      BY <2>1 DEF PipelineInv, RestInv, Flushing, Emptied
    <2> QED BY <2>1, <2>2 DEF Emptied
  <1> QED BY <1>1, <1>2, <1>3, <1>4, <1>5

LEMMA RestStep ==
  ASSUME PipelineInv, Next, Sized
  PROVE  RestInv'
  <1>1. RestMoves /\ RestFacts
    BY RestMove, RestNow
  <1>2. ctx \in PictMngrs /\ ctx' \in PictMngrs
    BY MngrAround
  <1>b. /\ WaitFrameSent => blk1' = blk2'
        /\ FlushAll => ctx'.nodes = <<>>
        /\ ReleaseFrames => ctx'.disp = <<>> /\ sem' = StackSize
        /\ Terminate => ctx'.dlt = <<>>
        /\ TerminateMv => Emptied' /\ blk1' = blk2' /\ pcD' = "idle"
    BY FlushBounds
  <1>f. pcD \in Resting => ~InsertPicture
    BY DEF InsertPicture, DStep, Resting, Flushing
  <1>g. FillsGap => pcD = "idle" /\ pcD' = "getSem" /\ stopped' = FALSE /\ pics' = pics + 1
    BY DEF FillsGap, ParseSlice
  <1>3. pcD' \in Flushing => blk1' = blk2'
    BY <1>1, <1>b DEF RestMoves, RestFacts
  <1>4. pcD' \in Flushing \ {"flushAll"} => ctx'.nodes = <<>>
    <2>1. CASE pcD \in Flushing \ {"flushAll"}
      <3>1. ctx.nodes = <<>>
        BY <2>1 DEF PipelineInv, RestInv
      <3>2. ~InsertPicture /\ ~FillsGap
        BY <1>f, <1>g, <2>1 DEF Resting, Flushing
      <3>3. Len(ctx'.nodes) <= Len(ctx.nodes)
        BY <3>2, FewerStep DEF Fewer
      <3>4. Len(ctx.nodes) = 0 /\ Len(ctx'.nodes) \in Nat /\ (Len(ctx'.nodes) = 0 => ctx'.nodes = <<>>)
        BY <1>2, <3>1, CountsOf
      <3> QED BY <3>3, <3>4
    <2> QED BY <1>1, <1>b, <2>1 DEF RestMoves
  <1>5. pcD' \in Ending => ctx'.disp = <<>> /\ sem' = StackSize
    <2>1. CASE pcD \in Ending /\ sem' = sem
      <3>1. ctx'.disp = <<>>
        BY <2>1, DispStays
      <3>2. sem = StackSize
        BY <2>1 DEF PipelineInv, RestInv, Ending
      <3> QED BY <2>1, <3>1, <3>2
    <2> QED BY <1>1, <1>b, <2>1 DEF RestMoves
  <1>6. pcD' = "terminateMv" => ctx'.dlt = <<>>
    <2>1. CASE pcD = "terminateMv"
      <3>1. Emptied
        BY <2>1 DEF PipelineInv, RestInv, Flushing, Emptied
      <3>2. ~InsertPicture /\ ~FillsGap
        BY <1>f, <1>g, <2>1 DEF Resting, Flushing
      <3>3. Emptied'
        BY <3>1, <3>2, EmptyStays
      <3> QED BY <3>3 DEF Emptied
    <2> QED BY <1>1, <1>b, <2>1 DEF RestMoves
  <1>7. ASSUME stopped' \/ pics' = 0 PROVE pcD' \in Resting /\ blk1' = blk2' /\ Emptied'
    <2>1. CASE TerminateMv
      BY <1>b, <2>1 DEF Resting
    <2>2. CASE /\ stopped \/ pics = 0
               /\ pcD' \in Resting /\ blk1' = blk1 /\ blk2' = blk2
      <3>1. Emptied /\ pcD \in Resting /\ blk1 = blk2
        BY <2>2 DEF PipelineInv, RestInv, Emptied, Resting
      <3>2. pics \in Nat
        BY <1>1 DEF RestFacts
      <3>3. ~InsertPicture /\ ~FillsGap
        BY <1>f, <1>g, <1>7, <2>2, <3>1, <3>2
      <3>4. Emptied'
        BY <3>1, <3>3, EmptyStays
      <3> QED BY <2>2, <3>1, <3>4
    <2> QED BY <1>1, <1>7, <2>1, <2>2 DEF RestMoves
  <1>8. pcD' = "exited" => stopped' \/ pics' = 0
    BY <1>1 DEF RestMoves
  <1>9. pcU' \in {"release", "destroyed"} => pcD' = "exited" /\ pcE' = "idle"
    BY <1>1 DEF RestMoves
  <1>10. pcU' = "destroyed" => FifoSlots(ctx'.pool) = <<>>
    BY <1>1 DEF RestMoves
  <1> QED BY <1>3, <1>4, <1>5, <1>6, <1>7, <1>8, <1>9, <1>10 DEF RestInv, Ending, Resting, Emptied
-----------------------------------------------------------------------------
(* The inductive invariant *)

\* Nothing is being decoded: nobody outside the picture manager holds a buffer.
LEMMA NobodyHolds ==
  ASSUME PipelineTypes, ~HoldsRec, ~HoldsMv, done = NoCommand, chan = <<>>, Locked = {}
  PROVE  FrmUsers = [s \in Slots |-> 0] /\ MvUsers = [m \in MvIDs |-> 0]
  <1>1. /\ FrmUsers = FrmOf(HeldRec, done.frm, chan, Locked, refList)
        /\ MvUsers = MvOf(HeldMv, done.mv, chan, Locked, refList)
    BY UsersNow
  <1>2. HeldRec = NoSlot /\ HeldMv = NoMv /\ done.frm = NoSlot /\ done.mv = NoMv
    BY DEF HeldRec, HeldMv, NoCommand
  <1>3. <<>> \in Seq(Command) /\ {} \in SUBSET (0 .. MaxPics)
    OBVIOUS
  <1>4. NoSlot \notin Slots /\ NoMv \notin MvIDs
    BY SlotsAre DEF NoMv, MvIDs
  <1> DEFINE R == refList
             F == FrmOf(NoSlot, NoSlot, <<>>, {}, R)
             M == MvOf(NoMv, NoMv, <<>>, {}, R)
  <1> HIDE DEF R
  <1>5. F \in [Slots -> Nat] /\ M \in [MvIDs -> Nat]
    BY <1>3, FrmOfType
  <1>6. ASSUME NEW s PROVE /\ Count(<<>>, CmdsOn(s)) = 0 /\ Count(<<>>, CmdsWith(s)) = 0
                           /\ Cardinality(LockersOn({}, R, s)) = 0
                           /\ Cardinality(LockersWith({}, R, s)) = 0
    BY CountNone, FS_EmptySet DEF LockersOn, LockersWith
  <1>7. ASSUME NEW s \in Slots PROVE F[s] = 0
    <2>1. F[s] = One(NoSlot = s) + One(NoSlot = s) + Count(<<>>, CmdsOn(s))
                 + Cardinality(LockersOn({}, R, s))
      BY DEF FrmOf
    <2>2. One(NoSlot = s) = 0
      BY <1>4 DEF One
    <2> QED BY <1>6, <2>1, <2>2
  <1>8. ASSUME NEW m \in MvIDs PROVE M[m] = 0
    <2>1. M[m] = One(NoMv = m) + One(NoMv = m) + Count(<<>>, CmdsWith(m))
                 + Cardinality(LockersWith({}, R, m))
      BY DEF MvOf
    <2>2. One(NoMv = m) = 0
      BY <1>4 DEF One
    <2> QED BY <1>6, <2>1, <2>2
  <1> HIDE DEF F, M
  <1>9. F = [s \in Slots |-> 0] /\ M = [m \in MvIDs |-> 0]
    BY <1>5, <1>7, <1>8
  <1>10. FrmUsers = F /\ MvUsers = M
    BY <1>1, <1>2 DEF F, M, R
  <1> QED BY <1>9, <1>10

LEMMA PipelineStarts ==
  ASSUME Init
  PROVE  PipelineInv
  <1>1. /\ ctx = PictMngr_Init /\ sem = StackSize /\ chan = <<>> /\ blk1 = 0 /\ blk2 = 0
        /\ refList = [i \in 0 .. RefRing - 1 |-> <<>>]
        /\ pcD = "idle" /\ pic = NoPic /\ recID = NoSlot /\ mvID = NoMv
        /\ pcE = "idle" /\ done = NoCommand
        /\ showing = [t \in CallbackThreads |-> NoBuf]
        /\ pcU = "run" /\ user = Bufs /\ keepGoing = TRUE
        /\ stopped = TRUE /\ eos = 0 /\ pics = 0
    BY DEF Init
  <1>2. PipelineTypes
    BY <1>1, DecPipelineAssumption
       DEF PipelineTypes, LabelsD, LabelsE, Preparing, Flushing, Begun
  <1>3. Locked = {}
    BY <1>1 DEF Locked, Begun
  <1>4. ~HoldsRec /\ ~HoldsMv
    BY <1>1 DEF HoldsRec, HoldsMv, Begun
  <1>5. ~Shown
    BY <1>1 DEF Shown
  <1>6. FrmUsers = [s \in Slots |-> 0] /\ MvUsers = [m \in MvIDs |-> 0]
    BY <1>1, <1>2, <1>3, <1>4, NobodyHolds
  <1>7. MngrInv(ctx, FrmUsers, MvUsers, user, Shown)
    <2> DEFINE f == FrmUsers
               g == MvUsers
               h == Shown
    <2>1. f = [s \in Slots |-> 0] /\ g = [m \in MvIDs |-> 0] /\ ~h
      BY <1>5, <1>6
    <2> HIDE DEF f, g, h
    <2>2. MngrInv(PictMngr_Init, f, g, Bufs, h)
      BY <2>1, MngrStarts
    <2>3. MngrInv(ctx, f, g, user, h)
      BY <1>1, <2>2
    <2> QED BY <2>3 DEF f, g, h
  <1>8. SemaphoreInv
    BY <1>1, DecPipelineAssumption
       DEF SemaphoreInv, One, Preparing, Begun
  <1>9. ShowingInv
    BY <1>1 DEF ShowingInv, CallbackThreads
  <1>10. PictureInv
    BY <1>1, <1>4 DEF PictureInv, PictMngr_Init, Inserted, NotInserted
  <1>11. ReferencesInv
    BY <1>1, <1>3 DEF ReferencesInv
  <1>12. ExclusiveInv
    <2>1. Len(InFlight) = 0
      BY <1>1, <1>2, <1>4, InFlightIs DEF One
    <2> QED BY <2>1 DEF ExclusiveInv
  <1>13. RoomInv
    <2>1. ctx.nodes = <<>> /\ Len(ctx.nodes) = 0
      BY <1>1 DEF PictMngr_Init
    <2>2. RefCount(ctx) = 0
      BY <2>1, FS_EmptySet DEF RefCount
    <2> QED BY <1>1, <2>1, <2>2, LeastIs DEF RoomInv, PicCount
  <1>14. RestInv
    BY <1>1 DEF RestInv, PictMngr_Init, Flushing
  <1> QED BY <1>2, <1>7, <1>8, <1>9, <1>10, <1>11, <1>12, <1>13, <1>14 DEF PipelineInv

LEMMA PipelineStep ==
  ASSUME PipelineInv, Next, Sized
  PROVE  PipelineInv'
  <1>1. MngrInv(ctx, FrmUsers, MvUsers, user, Shown)'
    BY MngrStep DEF MngrNext
  <1> QED BY <1>1, TypesStep, SemaphoreStep, ShowingStep, PictureStep, ReferencesStep,
             ExclusiveStep, RoomStep, RestStep DEF PipelineInv

LEMMA PipelineStutters ==
  ASSUME PipelineInv, UNCHANGED vars
  PROVE  PipelineInv'
  <1>1. /\ ctx' = ctx /\ sem' = sem /\ chan' = chan /\ refList' = refList /\ blk1' = blk1
        /\ blk2' = blk2 /\ pcD' = pcD /\ pic' = pic /\ recID' = recID /\ mvID' = mvID
        /\ pcE' = pcE /\ done' = done /\ showing' = showing /\ pcU' = pcU /\ user' = user
        /\ keepGoing' = keepGoing /\ stopped' = stopped /\ eos' = eos /\ pics' = pics
    BY DEF vars, dVars, eVars, uVars
  <1>2. PipelineTypes'
    BY <1>1 DEF PipelineInv, PipelineTypes
  <1>3. /\ Locked' = Locked /\ HoldsRec' = HoldsRec /\ HoldsMv' = HoldsMv /\ Shown' = Shown
    BY <1>1 DEF Locked, HoldsRec, HoldsMv, Shown
  <1>4. FrmUsers' = FrmUsers /\ MvUsers' = MvUsers
    <2>1. SameCommands
      BY <1>1, <1>3 DEF SameCommands, HeldRec, HeldMv
    <2> QED BY <1>2, <2>1, SameUsers DEF PipelineInv, UsersKept
  <1>5. MngrInv(ctx, FrmUsers, MvUsers, user, Shown)'
    BY <1>1, <1>3, <1>4 DEF PipelineInv
  <1>6. SemaphoreInv'
    BY <1>1 DEF PipelineInv, SemaphoreInv
  <1>7. ShowingInv'
    BY <1>1 DEF PipelineInv, ShowingInv
  <1>8. PictureInv'
    BY <1>1, <1>3 DEF PipelineInv, PictureInv
  <1>9. ReferencesInv'
    BY <1>1, <1>3 DEF PipelineInv, ReferencesInv, RefsOf, RankOf
  <1>10. ExclusiveInv'
    <2>1. InFlight' = InFlight
      BY <1>1, <1>3 DEF InFlight, Current
    <2> QED BY <2>1 DEF PipelineInv, ExclusiveInv
  <1>11. RoomInv'
    BY <1>1 DEF PipelineInv, RoomInv
  <1>12. RestInv'
    BY <1>1 DEF PipelineInv, RestInv
  <1> QED BY <1>2, <1>5, <1>6, <1>7, <1>8, <1>9, <1>10, <1>11, <1>12 DEF PipelineInv

\* PipelineInv holds throughout: the pools, the DPB and the display list stay whole, and the
\* slave thread, the hardware and the application agree on who holds which picture buffer.
THEOREM PipelineInvariant ==
  ASSUME Sized
  PROVE  Spec => []PipelineInv
  <1>1. Init => PipelineInv
    BY PipelineStarts
  <1>2. PipelineInv /\ [Next]_vars => PipelineInv'
    BY PipelineStep, PipelineStutters
  <1> QED BY <1>1, <1>2, PTL DEF Spec
-----------------------------------------------------------------------------
(* The properties of the pipeline *)

LEMMA ManagerNow ==
  ASSUME PipelineInv
  PROVE  /\ ctx \in PictMngrs /\ PoolInv(ctx.pool) /\ MvInv(ctx.mv) /\ NodesWhole(ctx)
         /\ CountsExact(ctx, FrmUsers, MvUsers) /\ OutputWhole(ctx, user, Shown)
         /\ PipelineTypes
         /\ ctx.pool.buf \in [Slots -> Bufs \cup {NoBuf}] /\ ctx.pool.ok /\ ctx.mv.ok
  <1>1. /\ ctx \in PictMngrs /\ PoolInv(ctx.pool) /\ MvInv(ctx.mv) /\ NodesWhole(ctx)
        /\ CountsExact(ctx, FrmUsers, MvUsers) /\ OutputWhole(ctx, user, Shown)
        /\ PipelineTypes
    BY DEF PipelineInv, MngrInv
  <1>2. ctx.pool \in FrmBufPools /\ ctx.pool.ok /\ ctx.mv.ok
    BY <1>1 DEF PoolInv, MvInv
  <1>3. ctx.pool.buf \in [Slots -> Bufs \cup {NoBuf}]
    BY <1>2 DEF FrmBufPools
  <1> QED BY <1>1, <1>2, <1>3

LEMMA NothingFails ==
  ASSUME PipelineInv
  PROVE  AssertionsHold
  BY ManagerNow DEF AssertionsHold

LEMMA CountsReferences ==
  ASSUME PipelineInv
  PROVE  ReferencesExact
  <1>1. CountsExact(ctx, FrmUsers, MvUsers)
    BY ManagerNow
  <1> HIDE DEF FrmUsers, MvUsers
  <1> QED BY <1>1 DEF CountsExact, ReferencesExact, FrmHolders, MvHolders, RefsOn

\* A picture that is being decoded is not with the application.
LEMMA NotShown ==
  ASSUME PipelineInv, NEW s \in Slots,
         ctx.status[s] = "notReady" \/ ~ctx.pool.out[s]
  PROVE  ctx.pool.buf[s] \notin user
  <1>1. OutputWhole(ctx, user, Shown) /\ ctx.pool.buf \in [Slots -> Bufs \cup {NoBuf}]
    BY ManagerNow
  <1>2. user \subseteq Bufs /\ NoBuf \notin Bufs
    BY FrmBufPoolAssumption DEF PipelineInv, PipelineTypes
  <1>3. Shown => ctx.status[ctx.disp[1]] = "ready"
    <2>1. ASSUME Shown PROVE ctx.disp # <<>> /\ ctx.status[Head(ctx.disp)] = "ready"
      BY <2>1 DEF PipelineInv, ShowingInv, Shown
    <2>2. ctx.disp # <<>> => Head(ctx.disp) = ctx.disp[1]
      BY ManagerNow, HeadIs
    <2> QED BY <2>1, <2>2
  <1> HIDE DEF Shown
  <1>4. /\ ToBeOutput(ctx, s) => ~ctx.pool.out[s]
        /\ ctx.status[s] # "notNeeded" => ToBeOutput(ctx, s) \/ InDisplay(ctx, s)
        /\ ctx.pool.buf[s] # NoBuf =>
             (ctx.pool.buf[s] \in user =>
                ctx.pool.out[s] /\ (InDisplay(ctx, s) => Shown /\ s = ctx.disp[1]))
    BY <1>1 DEF OutputWhole
  <1> QED BY <1>2, <1>3, <1>4

LEMMA WritesAlone ==
  ASSUME PipelineInv
  PROVE  WriteExclusive
  <1>0. PipelineTypes
    BY ManagerNow
  <1>1. /\ Len(chan) \in Nat /\ Len(InFlight) = Len(chan) + One(HoldsRec)
        /\ \A k \in 1 .. Len(chan) : InFlight[k] = chan[k]
        /\ HoldsRec => InFlight[Len(chan) + 1] = Preparation
        /\ Preparation.frm = recID
        /\ DOMAIN InFlight = 1 .. Len(InFlight)
    BY <1>0, InFlightIs
  <1>2. ASSUME NEW i \in 1 .. Len(InFlight)
        PROVE  /\ InFlight[i].frm \in Slots
               /\ ctx.status[InFlight[i].frm] # "ready"
               /\ ctx.status[InFlight[i].frm] = "notReady" \/ ~ctx.pool.out[InFlight[i].frm]
    <2>1. CASE i \in 1 .. Len(chan)
      <3>1. chan[i] \in Command
        BY <1>0, <2>1 DEF PipelineTypes
      <3>2. chan[i].frm \in Slots
        BY <3>1 DEF Command
      <3>3. ctx.status[chan[i].frm] = "notReady"
        BY <2>1 DEF PipelineInv, PictureInv
      <3> QED BY <1>1, <2>1, <3>2, <3>3
    <2>2. CASE i \notin 1 .. Len(chan)
      <3>1. HoldsRec /\ i = Len(chan) + 1
        BY <1>1, <2>2 DEF One
      <3>2. InFlight[i].frm = recID
        BY <1>1, <3>1
      <3>3. recID \in Slots
        BY <3>1 DEF PipelineInv, PictureInv
      <3>4. pcD \in NotInserted \/ pcD \in Inserted
        BY <3>1 DEF HoldsRec, Begun, NotInserted, Inserted
      <3>5. pcD \in NotInserted => ~ctx.pool.out[recID] /\ ctx.status[recID] = "notNeeded"
        BY <3>1 DEF PipelineInv, PictureInv
      <3>6. pcD \in Inserted => ctx.status[recID] = "notReady"
        BY DEF PipelineInv, PictureInv
      <3> QED BY <3>2, <3>3, <3>4, <3>5, <3>6
    <2> QED BY <2>1, <2>2
  <1>3. \A i \in 1 .. Len(InFlight) : ctx.pool.buf[InFlight[i].frm] \notin user
    BY <1>2, NotShown
  <1>4. /\ \A k \in 1 .. Len(InFlight) : DOMAIN InFlight[k].refs = 1 .. Len(InFlight[k].refs)
    <2>1. ASSUME NEW k \in 1 .. Len(InFlight) PROVE \E S : InFlight[k].refs \in Seq(S)
      <3>1. CASE k \in 1 .. Len(chan)
        <4>1. chan[k] \in Command
          BY <1>0, <3>1 DEF PipelineTypes
        <4> QED BY <1>1, <3>1, <4>1 DEF Command
      <3>2. CASE k \notin 1 .. Len(chan)
        <4>1. HoldsRec /\ k = Len(chan) + 1
          BY <1>1, <3>2 DEF One
        <4>2. InFlight[k].refs = IF pcD \in Begun THEN RefsOf(blk1) ELSE <<>>
          BY <1>0, <1>1, <4>1, InFlightIs
        <4>3. refList \in Rings /\ blk1 % RefRing \in 0 .. RefRing - 1
          BY <1>0, RingPlace DEF PipelineTypes, Rings
        <4>4. RefsOf(blk1) \in Seq(Slots \X MvIDs)
          BY <4>3 DEF RefsOf, Rings
        <4> QED BY <4>2, <4>4
      <3> QED BY <3>1, <3>2
    <2> QED BY <2>1
  <1>5. ExclusiveInv
    BY DEF PipelineInv
  <1> HIDE DEF InFlight, Preparation
  <1>6. ASSUME NEW i \in 1 .. Len(InFlight)
        PROVE  /\ \A k \in i + 1 .. Len(InFlight) : InFlight[k].frm # InFlight[i].frm
               /\ \A k \in i .. Len(InFlight), j \in DOMAIN InFlight[i].refs :
                     InFlight[i].refs[j][1] # InFlight[k].frm
    <2>1. DOMAIN InFlight[i].refs = 1 .. Len(InFlight[i].refs)
      BY <1>4
    <2>2. \A k \in i + 1 .. Len(InFlight) : InFlight[k].frm # InFlight[i].frm
      BY <1>5 DEF ExclusiveInv
    <2>3. \A k \in i .. Len(InFlight), j \in 1 .. Len(InFlight[i].refs) :
             InFlight[i].refs[j][1] # InFlight[k].frm
      BY <1>5 DEF ExclusiveInv
    <2> QED BY <2>1, <2>2, <2>3
  <1>7. DOMAIN InFlight = 1 .. Len(InFlight)
    BY <1>1
  <1> QED BY <1>2, <1>3, <1>6, <1>7 DEF WriteExclusive

\* When the decoder is destroyed nothing is held any more.
LEMMA DestroyedEmpty ==
  ASSUME PipelineInv, pcU = "destroyed"
  PROVE  \A s \in Slots : ctx.pool.buf[s] = NoBuf
  <1>1. /\ pcD = "exited" /\ pcE = "idle" /\ blk1 = blk2 /\ chan = <<>>
        /\ FifoSlots(ctx.pool) = <<>> /\ blk1 \in Nat
    BY RestNow DEF RestFacts
  <1>2. ctx.nodes = <<>> /\ ctx.dlt = <<>> /\ ctx.disp = <<>>
    BY <1>1 DEF PipelineInv, RestInv
  <1>3. done = NoCommand
    BY <1>1 DEF PipelineInv, PictureInv
  <1>4. ~HoldsRec /\ ~HoldsMv
    BY <1>1 DEF HoldsRec, HoldsMv, Begun
  <1>5. Locked = {}
    BY <1>1 DEF Locked, Begun
  <1>6. FrmUsers = [s \in Slots |-> 0]
    BY <1>1, <1>3, <1>4, <1>5, ManagerNow, NobodyHolds
  <1> HIDE DEF FrmUsers, MvUsers, Locked
  <1>7. ASSUME NEW s \in Slots PROVE FrmHeld(ctx, s) = 0
    <2>1. NoneHeld(ctx, s)
      BY <1>2 DEF NoneHeld
    <2>2. Lists(ctx)
      BY ManagerNow, MngrTypes
    <2> QED BY <2>1, <2>2, HeldNone
  <1>8. \A s \in Slots : RefsOn(ctx.pool, s) = 0
    BY <1>6, <1>7, ManagerNow DEF CountsExact
  <1>9. PoolInv(ctx.pool)
    BY ManagerNow
  <1>10. SlotsWhole(ctx.pool, <<>>) /\ ctx.pool \in FrmBufPools
    BY <1>1, <1>9 DEF PoolInv
  <1>11. ASSUME NEW s \in Slots, ctx.pool.buf[s] # NoBuf PROVE FALSE
    <2>1. ctx.pool.cnt[s] = 0
      BY <1>8, <1>11 DEF RefsOn
    <2>2. ~ctx.pool.out[s]
      BY <1>10, <2>1 DEF SlotsWhole
    <2> QED BY <1>10, <1>11, <2>1, <2>2 DEF SlotsWhole
  <1> QED BY <1>11

LEMMA AccountsBuffers ==
  ASSUME PipelineInv
  PROVE  BuffersAccounted
  <1>1. /\ ctx \in PictMngrs /\ PoolInv(ctx.pool) /\ OutputWhole(ctx, user, Shown)
        /\ PipelineTypes /\ ctx.pool.buf \in [Slots -> Bufs \cup {NoBuf}]
    BY ManagerNow
  <1>2. TypeOK
    <2>1. /\ sem \in Nat /\ blk1 \in Nat /\ blk2 \in Nat /\ StackSize \in Nat /\ blk2 <= blk1
      BY RanksClose
    <2>2. sem + (blk1 - blk2) + One(pcE \in {"peek", "post"}) + One(pcD \in Preparing)
              + (IF pcD \in {"flushAll", "peek"} THEN StackSize ELSE 0) = StackSize
      BY DEF PipelineInv, SemaphoreInv
    <2>3. sem \in 0 .. StackSize
      BY <2>1, <2>2 DEF One
    <2> QED BY <1>1, <2>3 DEF TypeOK, PipelineTypes
  <1>3. OneSlotEach(ctx.pool)
    BY <1>1 DEF PoolInv, SlotsWhole, OneSlotEach
  <1>4. user \subseteq Bufs /\ NoBuf \notin Bufs
    BY <1>1, FrmBufPoolAssumption DEF PipelineTypes
  <1>u. /\ \A b \in Bufs : b \in user \/ \E s \in Slots : ctx.pool.buf[s] = b
        /\ \A s \in Slots : ctx.pool.buf[s] # NoBuf =>
              (ctx.pool.buf[s] \in user => ctx.pool.out[s])
    BY <1>1 DEF OutputWhole
  <1>5. ASSUME NEW b \in Bufs
        PROVE  /\ b \in user \/ SlotOf(ctx.pool, b) # NoSlot
               /\ b \in user /\ SlotOf(ctx.pool, b) # NoSlot => ctx.pool.out[SlotOf(ctx.pool, b)]
    <2> DEFINE p == ctx.pool
    <2>1. /\ \A s \in Slots : p.buf[s] = b => SlotOf(p, b) = s
          /\ SlotOf(p, b) \in Slots \cup {NoSlot}
          /\ SlotOf(p, b) # NoSlot => p.buf[SlotOf(p, b)] = b
      BY <1>3, SlotOfIs
    <2>2. b # NoBuf /\ NoSlot \notin Slots
      BY <1>4, SlotsAre
    <2> QED BY <1>u, <2>1, <2>2
  <1>6. ASSUME pcU = "destroyed" PROVE user = Bufs /\ \A s \in Slots : ctx.pool.buf[s] = NoBuf
    <2>1. \A s \in Slots : ctx.pool.buf[s] = NoBuf
      BY <1>6, DestroyedEmpty
    <2> QED BY <1>4, <1>u, <2>1
  <1> QED BY <1>2, <1>5, <1>6 DEF BuffersAccounted

\* What leaves the DPB goes to the display list, in POC order.
LEMMA PictsStep ==
  ASSUME PipelineInv, Next, Sized
  PROVE  Kept(ctx, ctx') /\ Ordered(ctx, ctx')
  <1>1. ctx \in PictMngrs /\ ctx' \in PictMngrs
    BY MngrAround
  <1>m. Moved
    BY MngrStep
  <1>2. ASSUME ctx'.nodes = ctx.nodes PROVE Kept(ctx, ctx')
    BY <1>2 DEF Kept, ToBeOutput
  <1>3. ASSUME Len(ctx'.disp) <= Len(ctx.disp) PROVE Ordered(ctx, ctx')
    <2>1. Len(ctx.disp) \in Nat /\ Len(ctx'.disp) \in Nat
      BY <1>1, MngrTypes
    <2> QED BY <1>3, <2>1 DEF Ordered
  <1>l. Len(ctx.disp) \in Nat
    BY <1>1, MngrTypes
  <1>4. CASE Gentle(ctx, ctx')
    BY <1>2, <1>3, <1>4, <1>l DEF Gentle, SamePicts
  <1>5. CASE EndCommand
    <2>1. PipelineTypes'
      BY TypesStep
    <2>2. Ended(ctx, ctx', chan[1].frm, FrmUsers, MvUsers, user, Shown)
      BY <1>5, <2>1, EndCommandCtx
    <2> QED BY <2>2 DEF Ended, Lasting
  <1>6. CASE UsersKept /\ DpbStep /\ ~InsertPicture /\ ~Terminate
    <2>1. Thinned(ctx, ctx')
      BY <1>6, FlushDpbCtx, ReplaceCtx, MarkRefsCtx, CleanDpbCtx DEF DpbStep
    <2> QED BY <2>1 DEF Thinned
  <1>7. CASE UsersKept /\ InsertPicture
    <2>1. PicInserted(ctx, ctx', recID, IF pic.ref THEN "shortTerm" ELSE "unused",
                      FrmUsers, MvUsers, user, Shown)
      BY <1>7, InsertPictureCtx
    <2>2. Grown(ctx, ctx')
      BY <2>1 DEF PicInserted
    <2>3. Len(ctx'.disp) <= Len(ctx.disp)
      BY <1>l, <2>2 DEF Grown
    <2>4. Kept(ctx, ctx')
      BY <2>2 DEF Grown, Kept
    <2> QED BY <1>3, <2>3, <2>4
  <1>8. CASE UsersKept /\ Terminate
    <2>1. Purged(ctx, ctx')
      BY <1>8, TerminateCtx DEF Sized
    <2> QED BY <1>2, <1>3, <1>l, <2>1 DEF Purged
  <1>9. CASE UsersKept /\ \E k \in PicKinds : ParseSlice(k) /\ k.gap
    <2>1. PICK k \in PicKinds : ParseSlice(k) /\ k.gap
      BY <1>9
    <2>2. Filled(ctx, ctx', FrmUsers, MvUsers, user, Shown)
      <3> HIDE DEF UsersKept
      <3> QED BY <1>9, <2>1, ParseSliceCtx
    <2> QED BY <2>2 DEF Filled, Faithful
  <1>10. CASE UsersKept /\ \E t \in CallbackThreads : SignalDisplayIsDone(t)
    <2>1. PICK t \in CallbackThreads : SignalDisplayIsDone(t)
      BY <1>10
    <2>2. Unlisted(ctx, ctx') /\ ctx.disp # <<>>
      <3> HIDE DEF UsersKept
      <3> QED BY <1>10, <2>1, SignalDisplayIsDoneCtx
    <2>3. Len(ctx'.disp) <= Len(ctx.disp)
      <3>1. ctx'.disp = Tail(ctx.disp) /\ ctx.disp \in Seq(Slots)
        BY <1>1, <2>2, MngrTypes DEF Unlisted, Lists
      <3>2. Len(Tail(ctx.disp)) = Len(ctx.disp) - 1
        BY <2>2, <3>1, SeqHead
      <3> QED BY <1>l, <3>1, <3>2
    <2> QED BY <1>2, <1>3, <2>2, <2>3 DEF Unlisted
  <1> QED BY <1>m, <1>4, <1>5, <1>6, <1>7, <1>8, <1>9, <1>10 DEF Moved, DpbStep

\* The counters, flags and links of the pool are as the functions of the picture manager
\* expect, whichever thread calls them: no assertion of I_PictMngr.c and DPB.c fails.
THEOREM AssertionsNeverFail ==
  ASSUME Sized
  PROVE  Spec => []AssertionsHold
  <1>1. PipelineInv => AssertionsHold
    BY NothingFails
  <1> QED BY <1>1, PipelineInvariant, PTL

\* Every picture buffer and every motion vector buffer counts exactly the commands, DPB
\* nodes, pending removals and displays, and reference lists that hold it.
THEOREM ReferencesCounted ==
  ASSUME Sized
  PROVE  Spec => []ReferencesExact
  <1>1. PipelineInv => ReferencesExact
    BY CountsReferences
  <1> QED BY <1>1, PipelineInvariant, PTL

\* While the hardware may write a picture nobody else has it, and no command before it or
\* itself reads it: AL_PictMngr_BeginFrame gives every picture a buffer nobody holds.
THEOREM WritesExclude ==
  ASSUME Sized
  PROVE  Spec => []WriteExclusive
  <1>1. PipelineInv => WriteExclusive
    BY WritesAlone
  <1> QED BY <1>1, PipelineInvariant, PTL

\* Every picture buffer is in the pool or with the application, which has them all back when
\* AL_Decoder_Destroy returns; every variable keeps its type.
THEOREM BuffersReturn ==
  ASSUME Sized
  PROVE  Spec => []BuffersAccounted
  <1>1. PipelineInv => BuffersAccounted
    BY AccountsBuffers
  <1> QED BY <1>1, PipelineInvariant, PTL

\* The display list after a step, when nothing is lost and nothing overtakes.
LEMMA PictsAround ==
  ASSUME PipelineInv, [Next]_vars, Sized
  PROVE  /\ ctx \in PictMngrs /\ ctx' \in PictMngrs /\ NodesWhole(ctx)
         /\ \A i, j \in 1 .. Len(ctx'.disp) : ctx'.disp[i] = ctx'.disp[j] => i = j
         /\ Kept(ctx, ctx') /\ Ordered(ctx, ctx')
         /\ Len(ctx.disp) \in Nat /\ Len(ctx'.disp) \in Nat
         /\ DOMAIN ctx.nodes = 1 .. Len(ctx.nodes) /\ DOMAIN ctx'.nodes = 1 .. Len(ctx'.nodes)
         /\ DOMAIN ctx'.disp = 1 .. Len(ctx'.disp)
  <1>1. ctx \in PictMngrs /\ NodesWhole(ctx) /\ OutputWhole(ctx, user, Shown)
    BY ManagerNow
  <1>2. /\ ctx' \in PictMngrs /\ Kept(ctx, ctx') /\ Ordered(ctx, ctx')
        /\ \A i, j \in 1 .. Len(ctx'.disp) : ctx'.disp[i] = ctx'.disp[j] => i = j
    <2>1. CASE Next
      <3>1. Kept(ctx, ctx') /\ Ordered(ctx, ctx')
        BY <2>1, PictsStep
      <3>2. MngrInv(ctx', FrmUsers', MvUsers', user', Shown') /\ ctx' \in PictMngrs
        BY <2>1, MngrAround
      <3>3. OutputWhole(ctx', user', Shown')
        <4> HIDE DEF FrmUsers, MvUsers, Shown
        <4> QED BY <3>2 DEF MngrInv
      <3>4. \A i, j \in 1 .. Len(ctx'.disp) : ctx'.disp[i] = ctx'.disp[j] => i = j
        <4> HIDE DEF Shown
        <4> QED BY <3>3 DEF OutputWhole
      <3> QED BY <3>1, <3>2, <3>4
    <2>2. CASE UNCHANGED vars
      <3>1. ctx' = ctx
        BY <2>2 DEF vars
      <3>2. Kept(ctx, ctx')
        BY <3>1 DEF Kept
      <3>3. Ordered(ctx, ctx')
        <4>1. Len(ctx.disp) \in Nat
          BY <1>1, MngrTypes
        <4> QED BY <3>1, <4>1 DEF Ordered
      <3>4. \A i, j \in 1 .. Len(ctx.disp) : ctx.disp[i] = ctx.disp[j] => i = j
        <4> HIDE DEF Shown
        <4> QED BY <1>1 DEF OutputWhole
      <3> QED BY <1>1, <3>1, <3>2, <3>3, <3>4
    <2> QED BY <2>1, <2>2
  <1>3. ASSUME NEW x, x \in PictMngrs
        PROVE  /\ DOMAIN x.nodes = 1 .. Len(x.nodes) /\ DOMAIN x.disp = 1 .. Len(x.disp)
               /\ Len(x.disp) \in Nat
    BY <1>3, MngrTypes DEF Lists
  <1> QED BY <1>1, <1>2, <1>3

\* No picture is lost: one that is to be output leaves the DPB only into the display list,
\* whether AL_Dpb_Flush, AL_Dpb_Cleanup or AL_Dpb_Insert's removal of the same POC takes it out.
THEOREM PicturesKept ==
  ASSUME Sized
  PROVE  Spec => NoPictureLost
  <1>1. ASSUME PipelineInv, [Next]_vars
        PROVE  \A n \in DOMAIN ctx.nodes :
                 LET node == ctx.nodes[n] IN
                 /\ node.out /\ ~node.nonExisting
                 /\ \A m \in DOMAIN ctx'.nodes :
                       ctx'.nodes[m].frm # node.frm \/ ~ctx'.nodes[m].out
                 => \E i \in Len(ctx.disp) + 1 .. Len(ctx'.disp) : ctx'.disp[i] = node.frm
    <2>1. /\ Kept(ctx, ctx') /\ Len(ctx.disp) \in Nat /\ Len(ctx'.disp) \in Nat
          /\ DOMAIN ctx.nodes = 1 .. Len(ctx.nodes)
          /\ DOMAIN ctx'.nodes = 1 .. Len(ctx'.nodes)
      BY <1>1, PictsAround
    <2>2. ASSUME NEW n \in DOMAIN ctx.nodes, ctx.nodes[n].out,
                 \A m \in DOMAIN ctx'.nodes :
                    ctx'.nodes[m].frm # ctx.nodes[n].frm \/ ~ctx'.nodes[m].out
          PROVE  \E i \in Len(ctx.disp) + 1 .. Len(ctx'.disp) : ctx'.disp[i] = ctx.nodes[n].frm
      <3> DEFINE s == ctx.nodes[n].frm
      <3>1. ToBeOutput(ctx, s) /\ ~ToBeOutput(ctx', s)
        BY <2>1, <2>2 DEF ToBeOutput
      <3>2. PICK i \in 1 .. Len(ctx'.disp) : i > Len(ctx.disp) /\ ctx'.disp[i] = s
        BY <2>1, <3>1 DEF Kept
      <3>3. i \in Len(ctx.disp) + 1 .. Len(ctx'.disp)
        BY <2>1, <3>2
      <3> QED BY <3>2, <3>3
    <2> QED BY <2>2
  <1> QED BY <1>1, PipelineInvariant, PTL DEF Spec, NoPictureLost

\* Pictures leave the DPB for display in POC order, by AL_Dpb_Display, by a flush or by the
\* bumping of AL_Dpb_Cleanup.
THEOREM PicturesOrdered ==
  ASSUME Sized
  PROVE  Spec => OutputInPocOrder
  <1>1. ASSUME PipelineInv, [Next]_vars
        PROVE  \A n \in DOMAIN ctx.nodes, m \in DOMAIN ctx.nodes :
          LET first == ctx.nodes[n]  late == ctx.nodes[m]
              Outputs(node) == /\ node.out /\ ~node.nonExisting
                               /\ \E i \in DOMAIN ctx'.disp : /\ i > Len(ctx.disp)
                                                             /\ ctx'.disp[i] = node.frm
              Rank(node) == CHOOSE i \in DOMAIN ctx'.disp : /\ i > Len(ctx.disp)
                                                           /\ ctx'.disp[i] = node.frm
          IN  late.poc < first.poc /\ late.out /\ Outputs(first)
                => Outputs(late) /\ Rank(late) < Rank(first)
    <2>1. /\ Ordered(ctx, ctx') /\ NodesWhole(ctx)
          /\ \A i, j \in 1 .. Len(ctx'.disp) : ctx'.disp[i] = ctx'.disp[j] => i = j
          /\ DOMAIN ctx.nodes = 1 .. Len(ctx.nodes) /\ DOMAIN ctx'.disp = 1 .. Len(ctx'.disp)
      BY <1>1, PictsAround
    <2> DEFINE Rank(s) == CHOOSE i \in DOMAIN ctx'.disp : /\ i > Len(ctx.disp)
                                                           /\ ctx'.disp[i] = s
    <2>2. ASSUME NEW n \in DOMAIN ctx.nodes, NEW m \in DOMAIN ctx.nodes,
                 ctx.nodes[m].poc < ctx.nodes[n].poc, ctx.nodes[m].out, ctx.nodes[n].out,
                 NEW i \in DOMAIN ctx'.disp, i > Len(ctx.disp), ctx'.disp[i] = ctx.nodes[n].frm
          PROVE  /\ ~ctx.nodes[m].nonExisting
                 /\ \E j \in DOMAIN ctx'.disp : /\ j > Len(ctx.disp)
                                               /\ ctx'.disp[j] = ctx.nodes[m].frm
                 /\ Rank(ctx.nodes[m].frm) < Rank(ctx.nodes[n].frm)
      <3> DEFINE s == ctx.nodes[m].frm
                 t == ctx.nodes[n].frm
      <3>1. Sooner(ctx, s, t)
        BY <2>1, <2>2 DEF Sooner
      <3>2. PICK j \in 1 .. Len(ctx'.disp) : j > Len(ctx.disp) /\ j < i /\ ctx'.disp[j] = s
        BY <2>1, <2>2, <3>1 DEF Ordered
      <3>3. ~ctx.nodes[m].nonExisting
        BY <2>1, <2>2 DEF NodesWhole
      <3>4. \A k, l \in DOMAIN ctx'.disp : ctx'.disp[k] = ctx'.disp[l] => k = l
        BY <2>1
      <3>5. i \in DOMAIN ctx'.disp /\ j \in DOMAIN ctx'.disp
        BY <2>1, <2>2, <3>2
      <3>6. Rank(t) = i
        BY <2>2, <3>4, <3>5
      <3>7. Rank(s) = j
        BY <3>2, <3>4, <3>5
      <3>8. Rank(s) < Rank(t)
        BY <3>2, <3>6, <3>7
      <3> HIDE DEF Rank
      <3> QED BY <3>2, <3>3, <3>5, <3>8
    <2> QED BY <2>2
  <1> QED BY <1>1, PipelineInvariant, PTL DEF Spec, OutputInPocOrder
-----------------------------------------------------------------------------
(* The motion vector buffers suffice *)

\* How a step moves motion vector buffers: pictures leave the nodes for the end of the list of
\* removed ones, D inserts the picture it prepares, or removed pictures are released.
StoreKept ==
    \/ Stored(ctx, ctx', {}, 0)
    \/ InsertPicture /\ Stored(ctx, ctx', {mvID}, 1)
    \/ /\ EndCommand /\ NodesStay(ctx, ctx')
       /\ ctx'.dlt = IF ctx.dlt = <<>> THEN ctx.dlt ELSE Tail(ctx.dlt)
    \/ Terminate /\ ctx'.nodes = ctx.nodes /\ ctx'.dlt = <<>>

LEMMA StoreStep ==
  ASSUME PipelineInv, Next, Sized
  PROVE  StoreKept
  <1>1. PipelineTypes' /\ Lists(ctx)
    BY TypesStep, MngrAround, MngrTypes
  <1>2. Moved
    BY MngrStep
  <1>3. CASE Gentle(ctx, ctx')
    BY <1>1, <1>3, StoredSelf DEF Gentle, SamePicts, StoreKept
  <1>4. CASE EndCommand
    <2>1. Ended(ctx, ctx', chan[1].frm, FrmUsers, MvUsers, user, Shown)
      BY <1>1, <1>4, EndCommandCtx
    <2> QED BY <1>4, <2>1 DEF Ended, StoreKept
  <1>5. CASE UsersKept /\ DpbStep
    <2>1. CASE InsertPicture
      BY <1>5, <2>1, InsertPictureCtx DEF StoreKept
    <2>2. CASE Terminate
      <3>1. Purged(ctx, ctx') /\ ctx'.dlt = <<>>
        BY <1>5, <2>2, TerminateCtx
      <3> QED BY <2>2, <3>1 DEF Purged, StoreKept
    <2>3. CASE FlushDpb \/ FlushAll \/ Replace \/ MarkRefs \/ CleanDpb
      <3> HIDE DEF UsersKept
      <3>1. Thinned(ctx, ctx')
        BY <1>5, <2>3, FlushDpbCtx, ReplaceCtx, MarkRefsCtx, CleanDpbCtx
      <3> QED BY <3>1 DEF Thinned, StoreKept
    <2> QED BY <1>5, <2>1, <2>2, <2>3 DEF DpbStep
  <1>6. CASE UsersKept /\ \E k \in PicKinds : ParseSlice(k) /\ k.gap
    <2>1. PICK k \in PicKinds : ParseSlice(k) /\ k.gap
      BY <1>6
    <2> HIDE DEF UsersKept
    <2>2. Filled(ctx, ctx', FrmUsers, MvUsers, user, Shown)
      BY <1>6, <2>1, ParseSliceCtx
    <2> QED BY <2>2 DEF Filled, StoreKept
  <1>7. CASE UsersKept /\ \E t \in CallbackThreads : SignalDisplayIsDone(t)
    <2>1. PICK t \in CallbackThreads : SignalDisplayIsDone(t)
      BY <1>7
    <2> HIDE DEF UsersKept
    <2>2. Unlisted(ctx, ctx')
      BY <1>7, <2>1, SignalDisplayIsDoneCtx
    <2> QED BY <1>1, <2>2, StoredSelf DEF Unlisted, StoreKept
  <1> HIDE DEF StoreKept, UsersKept
  <1> QED BY <1>2, <1>3, <1>4, <1>5, <1>6, <1>7 DEF Moved

\* The commands on their way, from the one that ended first
Queue(d, c, w) ==
    (IF d = NoCommand THEN <<>> ELSE <<[d EXCEPT !.refs = IF w THEN @ ELSE <<>>]>>) \o c

LEMMA QueueNow == OnTheirWay = Queue(done, chan, pcE = "unlockRefs")
  BY DEF OnTheirWay, Completed, Queue

\* The queue that begins with the command that has ended
QueuedAs(d, c, w, r) ==
    /\ Len(r) = Len(c) + 1
    /\ r[1].mv = d.mv
    /\ r[1].refs = IF w THEN d.refs ELSE <<>>
    /\ \A k \in 1 .. Len(c) : r[k + 1] = c[k]

LEMMA QueueOne ==
  ASSUME NEW c \in Seq(Command), NEW w, NEW d \in Command
  PROVE  d # NoCommand /\ QueuedAs(d, c, w, Queue(d, c, w))
  <1>0. Len(c) \in Nat /\ \A k \in 1 .. Len(c) : c[k] \in Command
    OBVIOUS
  <1> DEFINE g == IF w THEN d.refs ELSE <<>>
             e == [d EXCEPT !.refs = IF w THEN @ ELSE <<>>]
  <1>1. d # NoCommand
    BY DEF Command, NoCommand, Slots, NoSlot
  <1>a. d.refs \in Seq(Slots \X MvIDs)
    BY DEF Command
  <1>b. g \in Seq(Slots \X MvIDs)
    BY <1>a
  <1>c. e = [d EXCEPT !.refs = g]
    BY DEF Command
  <1> HIDE DEF e, g
  <1>2. e \in Command /\ e.mv = d.mv /\ e.refs = g
    BY <1>b, <1>c DEF Command
  <1>3. Queue(d, c, w) = <<e>> \o c
    BY <1>1 DEF Queue, e
  <1>4. <<e>> \in Seq(Command) /\ Len(<<e>>) = 1 /\ <<e>>[1] = e
    BY <1>2
  <1>5. /\ Len(<<e>> \o c) = 1 + Len(c)
        /\ (<<e>> \o c)[1] = e
        /\ \A k \in 1 .. Len(c) : (<<e>> \o c)[k + 1] = c[k]
    BY <1>0, <1>4
  <1> QED BY <1>0, <1>1, <1>2, <1>3, <1>5 DEF g, QueuedAs

LEMMA QueueNone ==
  ASSUME NEW c, NEW w
  PROVE  Queue(NoCommand, c, w) = c
  BY DEF Queue

LEMMA MvSets ==
  ASSUME NEW A \in SUBSET MvIDs
  PROVE  /\ IsFiniteSet(A) /\ Cardinality(A) \in Nat
         /\ \A B \in SUBSET A : Cardinality(B) <= Cardinality(A)
  <1>1. IsFiniteSet(MvIDs)
    <2>1. NumMv \in Nat
      BY MvBufPoolAssumption
    <2> QED BY <2>1, FS_Interval DEF MvIDs
  <1>2. IsFiniteSet(A)
    BY <1>1, FS_Subset
  <1> QED BY <1>2, FS_Subset, FS_CardinalityType

LEMMA HeldSet ==
  ASSUME NEW x, NEW q, NEW e, NEW D \in SUBSET MvIDs, NEW k
  PROVE  HeldAfter(x, q, e, D, k) \in SUBSET MvIDs
  BY DEF HeldAfter, NodeMvs, DltMvs

\* What is held after k commands, was held before d of them had ended.
LEMMA SufficesFrom ==
  ASSUME NEW x, NEW q, NEW e, NEW D \in SUBSET MvIDs, NEW f \in Nat, Suffices(x, q, e, D, f),
         NEW y, NEW r, NEW i, NEW E, NEW g \in Nat, NEW d \in Nat, g + d = f,
         \A k \in 0 .. g - 1 : HeldAfter(y, r, i, E, k) \subseteq HeldAfter(x, q, e, D, k + d)
  PROVE  Suffices(y, r, i, E, g)
  <1>1. Least(NumRef) \in Nat
    BY LeastIs
  <1> DEFINE l == Least(NumRef)
  <1>2. ASSUME NEW k \in 0 .. g - 1
        PROVE  Cardinality(HeldAfter(y, r, i, E, k)) <= l + g - k
    <2> DEFINE A == HeldAfter(x, q, e, D, k + d)
               B == HeldAfter(y, r, i, E, k)
    <2>1. k + d \in 0 .. f - 1 /\ k \in Nat
      OBVIOUS
    <2>2. Cardinality(A) <= l + f - (k + d)
      BY <2>1 DEF Suffices
    <2>3. A \in SUBSET MvIDs
      BY HeldSet
    <2>4. B \in SUBSET A
      BY <1>2
    <2>5. B \in SUBSET MvIDs
      BY <2>3, <2>4
    <2> HIDE DEF A, B, l
    <2>6. Cardinality(B) <= Cardinality(A) /\ Cardinality(A) \in Nat /\ Cardinality(B) \in Nat
      BY <2>3, <2>4, <2>5, MvSets
    <2>7. l \in Nat
      BY <1>1 DEF l
    <2>8. Cardinality(B) <= l + g - k
      BY <2>1, <2>2, <2>6, <2>7
    <2> QED BY <2>8 DEF B
  <1> QED BY <1>2 DEF Suffices

\* A function takes at most as many values as it has arguments.
LEMMA FewImages ==
  ASSUME NEW I, IsFiniteSet(I), NEW g, NEW T, T = {m \in MvIDs : \E i \in I : g[i] = m}
  PROVE  Cardinality(T) <= Cardinality(I) /\ Cardinality(T) \in Nat /\ Cardinality(I) \in Nat
  <1> DEFINE J == {i \in I : g[i] \in T}
             h == [i \in J |-> g[i]]
  <1>1. J \in SUBSET I
    OBVIOUS
  <1>2. IsFiniteSet(J) /\ Cardinality(J) <= Cardinality(I)
        /\ Cardinality(J) \in Nat /\ Cardinality(I) \in Nat
    BY <1>1, FS_Subset, FS_CardinalityType
  <1>3. h \in Surjection(J, T)
    <2>1. h \in [J -> T]
      OBVIOUS
    <2>2. \A t \in T : \E s \in J : h[s] = t
      OBVIOUS
    <2> QED BY <2>1, <2>2 DEF Surjection
  <1> HIDE DEF J, h
  <1>4. IsFiniteSet(T) /\ Cardinality(T) <= Cardinality(J)
    BY <1>2, <1>3, FS_Surjection
  <1>5. Cardinality(T) \in Nat
    BY <1>4, FS_CardinalityType
  <1> QED BY <1>2, <1>4, <1>5

LEMMA FewHeld ==
  ASSUME NEW x, x \in PictMngrs, NEW c \in Nat
  PROVE  /\ Cardinality(NodeMvs(x)) \in Nat /\ RealCount(x) \in Nat
         /\ Cardinality(NodeMvs(x)) <= RealCount(x)
         /\ Cardinality(DltMvs(x, c)) \in Nat /\ Len(x.dlt) \in Nat
         /\ Cardinality(DltMvs(x, c)) <= IF Len(x.dlt) > c THEN Len(x.dlt) - c ELSE 0
  <1>1. /\ Len(x.nodes) \in Nat /\ Len(x.dlt) \in Nat /\ DOMAIN x.nodes = 1 .. Len(x.nodes)
    BY MngrTypes DEF PictMngrs
  <1> DEFINE I == {i \in 1 .. Len(x.nodes) : ~x.nodes[i].nonExisting}
             g == [i \in I |-> x.nodes[i].mv]
  <1>2. IsFiniteSet(I)
    <2>1. I \in SUBSET (1 .. Len(x.nodes))
      OBVIOUS
    <2>2. 1 \in Int /\ Len(x.nodes) \in Int
      BY <1>1
    <2> HIDE DEF I
    <2>3. IsFiniteSet(1 .. Len(x.nodes))
      BY <2>2, FS_Interval
    <2> QED BY <2>1, <2>3, FS_Subset
  <1>3. NodeMvs(x) = {m \in MvIDs : \E i \in I : g[i] = m}
    BY DEF NodeMvs
  <1>4. RealCount(x) = Cardinality(I)
    BY <1>1 DEF RealCount, Occurrences
  <1> DEFINE K == c + 1 .. Len(x.dlt)
             h == [i \in K |-> x.dlt[i][2]]
  <1>5. IsFiniteSet(K) /\ Cardinality(K) = IF Len(x.dlt) > c THEN Len(x.dlt) - c ELSE 0
    <2> DEFINE a == c + 1
               b == Len(x.dlt)
    <2>1. a \in Int /\ b \in Int /\ K = a .. b
      BY <1>1
    <2>2. a = c + 1 /\ b = Len(x.dlt)
      OBVIOUS
    <2> HIDE DEF K, a, b
    <2>3. IsFiniteSet(K) /\ Cardinality(K) = IF a > b THEN 0 ELSE b - a + 1
      BY <2>1, FS_Interval
    <2> QED BY <1>1, <2>1, <2>2, <2>3
  <1>6. DltMvs(x, c) = {m \in MvIDs : \E i \in K : h[i] = m}
    <2>1. \A i : i \in 1 .. Len(x.dlt) /\ i > c <=> i \in K
      BY <1>1
    <2> QED BY <2>1 DEF DltMvs
  <1> HIDE DEF I, g, K, h
  <1>7. Cardinality(NodeMvs(x)) <= Cardinality(I) /\ Cardinality(NodeMvs(x)) \in Nat
        /\ Cardinality(I) \in Nat
    BY <1>2, <1>3, FewImages
  <1>8. Cardinality(DltMvs(x, c)) <= Cardinality(K) /\ Cardinality(DltMvs(x, c)) \in Nat
    BY <1>5, <1>6, FewImages
  <1> QED BY <1>1, <1>4, <1>5, <1>7, <1>8

\* Once the c commands on their way have ended, no more than the DPB may keep is held.
LEMMA RestFits ==
  ASSUME NEW x, x \in PictMngrs, NEW c \in Nat, NEW l \in Nat,
         Tally(x) <= l + c, Len(x.nodes) <= l
  PROVE  Cardinality(NodeMvs(x) \cup DltMvs(x, c)) <= l
  <1> DEFINE A == NodeMvs(x)
             B == DltMvs(x, c)
             r == RealCount(x)
             n == Len(x.dlt)
  <1>1. /\ Cardinality(A) \in Nat /\ r \in Nat /\ Cardinality(A) <= r
        /\ Cardinality(B) \in Nat /\ n \in Nat
        /\ Cardinality(B) <= IF n > c THEN n - c ELSE 0
    BY FewHeld
  <1>2. r <= Len(x.nodes) /\ Len(x.nodes) \in Nat
    BY MngrTypes, TallyIs
  <1>3. r + n <= l + c
    BY DEF Tally
  <1>4. A \in SUBSET MvIDs /\ B \in SUBSET MvIDs
    BY DEF NodeMvs, DltMvs
  <1> HIDE DEF A, B, r, n
  <1>5. IsFiniteSet(A) /\ IsFiniteSet(B)
    BY <1>4, MvSets
  <1>6. Cardinality(A \cup B) = Cardinality(A) + Cardinality(B) - Cardinality(A \cap B)
        /\ Cardinality(A \cap B) \in Nat
    <2>1. A \cap B \in SUBSET MvIDs
      BY <1>4
    <2> QED BY <1>5, <2>1, FS_Union, MvSets
  <1>7. Cardinality(A \cup B) <= l
    BY <1>1, <1>2, <1>3, <1>6
  <1> QED BY <1>7 DEF A, B

\* D holds a list of references it has locked
Listed == pcD \in Begun \cup {"cancelRefs"}

\* How the holders of the motion vector buffers come and go
MvMoves ==
    /\ pcE' = "unlockRefs" =>
          EndCommand \/ (pcE = "unlockRefs" /\ done' = done /\ blk2' = blk2)
    /\ done' = done \/ EndCommand \/ UnlockPicture
    /\ HoldsMv => CancelFrame \/ Launch \/ HoldsMv'
    /\ Listed' => LockRefs \/ (Listed /\ refList' = refList /\ blk1' = blk1)
    /\ pcD' \in Begun => LockRefs \/ pcD \in Begun

LEMMA MvMove ==
  ASSUME PipelineInv, Next
  PROVE  MvMoves
  <1>1. ASSUME NEW k \in PicKinds, ParseSlice(k) PROVE MvMoves
    BY <1>1 DEF ParseSlice, dVars, eVars, MvMoves, Listed, HoldsMv, Begun
  <1>2. CASE GetSemaphore
    BY <1>2 DEF GetSemaphore, DStep, dVars, eVars, MvMoves, Listed, HoldsMv, Begun
  <1>3. CASE PopBuffer
    BY <1>3 DEF PopBuffer, DStep, dVars, eVars, MvMoves, Listed, HoldsMv, Begun
  <1>4. CASE PopWaits
    BY <1>4 DEF PopWaits, DStep, dVars, eVars, MvMoves, Listed, HoldsMv, Begun
  <1>5. CASE PopWakesUp
    BY <1>5 DEF PopWakesUp, DStep, dVars, eVars, MvMoves, Listed, HoldsMv, Begun
  <1>6. CASE PopFails
    BY <1>6 DEF PopFails, DStep, dVars, eVars, MvMoves, Listed, HoldsMv, Begun
  <1>7. CASE GetMv
    BY <1>7 DEF GetMv, DStep, dVars, eVars, MvMoves, Listed, HoldsMv, Begun
  <1>8. CASE ListRefs
    BY <1>8 DEF ListRefs, DStep, dVars, eVars, MvMoves, Listed, HoldsMv, Begun
  <1>9. CASE LockRefs
    BY <1>9 DEF LockRefs, DStep, dVars, eVars, MvMoves, Listed, HoldsMv, Begun
  <1>10. CASE CancelFrame
    BY <1>10 DEF CancelFrame, DStep, dVars, eVars, MvMoves, Listed, HoldsMv, Begun
  <1>11. CASE CancelRefs
    BY <1>11 DEF CancelRefs, DStep, dVars, eVars, MvMoves, Listed, HoldsMv, Begun
  <1>12. CASE FlushDpb
    BY <1>12 DEF FlushDpb, DStep, dVars, eVars, MvMoves, Listed, HoldsMv, Begun
  <1>13. CASE Replace
    BY <1>13 DEF Replace, DStep, dVars, eVars, MvMoves, Listed, HoldsMv, Begun
  <1>14. CASE InsertPicture
    BY <1>14 DEF InsertPicture, DStep, dVars, eVars, MvMoves, Listed, HoldsMv, Begun
  <1>15. CASE MarkRefs
    BY <1>15 DEF MarkRefs, DStep, dVars, eVars, MvMoves, Listed, HoldsMv, Begun
  <1>16. CASE CleanDpb
    BY <1>16 DEF CleanDpb, DStep, dVars, eVars, MvMoves, Listed, HoldsMv, Begun
  <1>17. CASE Launch
    BY <1>17 DEF Launch, dVars, eVars, MvMoves, Listed, HoldsMv, Begun
  <1>18. CASE FlushToExit
    BY <1>18 DEF FlushToExit, DStep, dVars, eVars, MvMoves, Listed, HoldsMv, Begun
  <1>19. CASE WaitFrameSent
    BY <1>19 DEF WaitFrameSent, DStep, dVars, eVars, MvMoves, Listed, HoldsMv, Begun
  <1>20. CASE FlushAll
    BY <1>20 DEF FlushAll, DStep, dVars, eVars, MvMoves, Listed, HoldsMv, Begun
  <1>21. CASE ReleaseFrames
    BY <1>21 DEF ReleaseFrames, DStep, dVars, eVars, MvMoves, Listed, HoldsMv, Begun
  <1>22. CASE SignalEos
    BY <1>22 DEF SignalEos, dVars, eVars, MvMoves, Listed, HoldsMv, Begun
  <1>23. CASE Terminate
    BY <1>23 DEF Terminate, DStep, dVars, eVars, MvMoves, Listed, HoldsMv, Begun
  <1>24. CASE TerminateMv
    BY <1>24 DEF TerminateMv, DStep, dVars, eVars, MvMoves, Listed, HoldsMv, Begun
  <1>25. CASE ExitThread
    BY <1>25 DEF ExitThread, DStep, dVars, eVars, MvMoves, Listed, HoldsMv, Begun
  <1>26. CASE pcD = "peek" /\ CallDisplay("D")
    BY <1>26 DEF CallDisplay, dVars, eVars, MvMoves, Listed, HoldsMv, Begun
  <1>27. CASE pcD = "peek" /\ SignalDisplayIsDone("D")
    BY <1>27 DEF SignalDisplayIsDone, dVars, eVars, MvMoves, Listed, HoldsMv, Begun
  <1>28. CASE pcE = "peek" /\ CallDisplay("E")
    BY <1>28 DEF CallDisplay, dVars, eVars, MvMoves, Listed, HoldsMv, Begun
  <1>29. CASE pcE = "peek" /\ SignalDisplayIsDone("E")
    BY <1>29 DEF SignalDisplayIsDone, dVars, eVars, MvMoves, Listed, HoldsMv, Begun
  <1>30. CASE EndOfInput
    BY <1>30 DEF EndOfInput, DStep, dVars, eVars, MvMoves, Listed, HoldsMv, Begun
  <1>31. CASE UnitError
    BY <1>31 DEF UnitError, DStep, dVars, eVars, MvMoves, Listed, HoldsMv, Begun
  <1>32. CASE EndCommand
    BY <1>32 DEF EndCommand, EStep, dVars, eVars, MvMoves, Listed, HoldsMv, Begun
  <1>33. CASE UnlockRefs
    BY <1>33 DEF UnlockRefs, EStep, dVars, eVars, MvMoves, Listed, HoldsMv, Begun
  <1>34. CASE Advance
    BY <1>34 DEF Advance, EStep, dVars, eVars, MvMoves, Listed, HoldsMv, Begun
  <1>35. CASE UnlockPicture
    BY <1>35 DEF UnlockPicture, EStep, dVars, eVars, MvMoves, Listed, HoldsMv, Begun
  <1>36. CASE PostSemaphore
    BY <1>36 DEF PostSemaphore, EStep, dVars, eVars, MvMoves, Listed, HoldsMv, Begun
  <1>37. ASSUME NEW b \in Bufs, PutDecPict(b) PROVE MvMoves
    BY <1>37 DEF PutDecPict, UStep, dVars, eVars, MvMoves, Listed, HoldsMv, Begun
  <1>38. CASE DecommitPool
    BY <1>38 DEF DecommitPool, UStep, dVars, eVars, MvMoves, Listed, HoldsMv, Begun
  <1>39. CASE DestroyFeeder
    BY <1>39 DEF DestroyFeeder, UStep, dVars, eVars, MvMoves, Listed, HoldsMv, Begun
  <1>40. CASE DestroyChannel
    BY <1>40 DEF DestroyChannel, UStep, dVars, eVars, MvMoves, Listed, HoldsMv, Begun
  <1>41. CASE ReleaseUnused
    BY <1>41 DEF ReleaseUnused, UStep, dVars, eVars, MvMoves, Listed, HoldsMv, Begun
  <1>42. CASE Destroyed
    BY <1>42 DEF Destroyed, UStep, dVars, eVars, MvMoves, Listed, HoldsMv, Begun
  <1>43. CASE Over
    BY <1>43 DEF Over, vars, dVars, eVars, MvMoves, Listed, HoldsMv, Begun
  <1> HIDE DEF MvMoves
  <1> QED BY <1>1, <1>2, <1>3, <1>4, <1>5, <1>6, <1>7, <1>8, <1>9, <1>10, <1>11, <1>12, <1>13,
      <1>14, <1>15, <1>16, <1>17, <1>18, <1>19, <1>20, <1>21, <1>22, <1>23, <1>24, <1>25, <1>26,
      <1>27, <1>28, <1>29, <1>30, <1>31, <1>32, <1>33, <1>34, <1>35, <1>36, <1>37, <1>38, <1>39,
      <1>40, <1>41, <1>42, <1>43 DEF Next, DNext, ENext, DestroyNext, DisplayD, DisplayE

LEMMA MvsKept ==
  ASSUME NEW c, NEW d, c.mv = d.mv, c.refs = d.refs \/ c.refs = <<>>
  PROVE  MvsOf(c) \subseteq MvsOf(d)
  BY DEF MvsOf

LEMMA QueueNext == OnTheirWay' = Queue(done', chan', pcE' = "unlockRefs")
  BY DEF OnTheirWay, Completed, Queue

\* The commands on their way: one more, one less, or the same, with no more references
QueueMoves ==
    \/ /\ ~UnlockPicture /\ ~Launch /\ Len(OnTheirWay') = Len(OnTheirWay)
       /\ \A l \in 1 .. Len(OnTheirWay) : MvsOf(OnTheirWay'[l]) \subseteq MvsOf(OnTheirWay[l])
    \/ /\ UnlockPicture /\ Len(OnTheirWay') = Len(OnTheirWay) - 1
       /\ \A l \in 1 .. Len(OnTheirWay') : OnTheirWay'[l] = OnTheirWay[l + 1]
    \/ /\ Launch /\ Len(OnTheirWay') = Len(OnTheirWay) + 1
       /\ \A l \in 1 .. Len(OnTheirWay) : MvsOf(OnTheirWay'[l]) \subseteq MvsOf(OnTheirWay[l])
       /\ OnTheirWay'[Len(OnTheirWay) + 1] = Current

\* A command ends, or its references are dropped.
LEMMA QueueEnds ==
  ASSUME NEW c \in Seq(Command), c # <<>>, NEW w, NEW v, v
  PROVE  /\ Len(Queue(Head(c), Tail(c), v)) = Len(Queue(NoCommand, c, w))
         /\ \A l \in 1 .. Len(Queue(NoCommand, c, w)) :
               MvsOf(Queue(Head(c), Tail(c), v)[l]) \subseteq MvsOf(Queue(NoCommand, c, w)[l])
  <1> DEFINE d == Head(c)
             t == Tail(c)
  <1>1. /\ d \in Command /\ t \in Seq(Command) /\ d = c[1] /\ Len(t) = Len(c) - 1
        /\ Len(c) \in Nat /\ Len(c) >= 1
        /\ \A k \in 1 .. Len(t) : t[k] = c[k + 1]
    BY SeqHead
  <1> HIDE DEF d, t
  <1> DEFINE r == Queue(d, t, v)
  <1>2. /\ Len(r) = Len(t) + 1 /\ r[1].mv = d.mv /\ r[1].refs = d.refs
        /\ \A k \in 1 .. Len(t) : r[k + 1] = t[k]
    BY <1>1, QueueOne DEF QueuedAs
  <1>3. Queue(NoCommand, c, w) = c
    BY QueueNone
  <1> HIDE DEF r
  <1>4. MvsOf(r[1]) \subseteq MvsOf(c[1])
    BY <1>1, <1>2, MvsKept
  <1>5. ASSUME NEW l \in 1 .. Len(c) PROVE MvsOf(r[l]) \subseteq MvsOf(c[l])
    <2>1. CASE l = 1
      BY <1>4, <2>1
    <2>2. CASE l # 1
      <3>1. l - 1 \in 1 .. Len(t) /\ l - 1 + 1 = l
        BY <1>1, <2>2
      <3>2. r[l - 1 + 1] = t[l - 1] /\ t[l - 1] = c[l - 1 + 1]
        BY <1>1, <1>2, <3>1
      <3> QED BY <3>1, <3>2
    <2> QED BY <2>1, <2>2
  <1>6. Len(r) = Len(c)
    BY <1>1, <1>2
  <1> QED BY <1>3, <1>5, <1>6 DEF r, d, t

LEMMA QueueThins ==
  ASSUME NEW c \in Seq(Command), NEW d \in Command \cup {NoCommand}, NEW w, NEW v, v => w
  PROVE  /\ Len(Queue(d, c, v)) = Len(Queue(d, c, w)) /\ Len(Queue(d, c, w)) \in Nat
         /\ \A l \in 1 .. Len(Queue(d, c, w)) :
               MvsOf(Queue(d, c, v)[l]) \subseteq MvsOf(Queue(d, c, w)[l])
  <1>0. Len(c) \in Nat
    OBVIOUS
  <1>1. CASE d = NoCommand
    <2>1. Queue(d, c, v) = c /\ Queue(d, c, w) = c
      BY <1>1, QueueNone
    <2> QED BY <1>0, <2>1
  <1>2. CASE d \in Command
    <2> DEFINE q == Queue(d, c, w)
               r == Queue(d, c, v)
    <2>1. /\ Len(q) = Len(c) + 1 /\ q[1].mv = d.mv /\ q[1].refs = IF w THEN d.refs ELSE <<>>
          /\ \A k \in 1 .. Len(c) : q[k + 1] = c[k]
      BY <1>2, QueueOne DEF QueuedAs
    <2>2. /\ Len(r) = Len(c) + 1 /\ r[1].mv = d.mv /\ r[1].refs = IF v THEN d.refs ELSE <<>>
          /\ \A k \in 1 .. Len(c) : r[k + 1] = c[k]
      BY <1>2, QueueOne DEF QueuedAs
    <2> HIDE DEF q, r
    <2>3. MvsOf(r[1]) \subseteq MvsOf(q[1])
      BY <2>1, <2>2, MvsKept
    <2>4. ASSUME NEW l \in 1 .. Len(q) PROVE MvsOf(r[l]) \subseteq MvsOf(q[l])
      <3>1. CASE l = 1
        BY <2>3, <3>1
      <3>2. CASE l # 1
        <4>1. l - 1 \in 1 .. Len(c) /\ l - 1 + 1 = l
          BY <1>0, <2>1, <3>2
        <4>2. r[l - 1 + 1] = c[l - 1] /\ q[l - 1 + 1] = c[l - 1]
          BY <2>1, <2>2, <4>1
        <4> QED BY <4>1, <4>2
      <3> QED BY <3>1, <3>2
    <2> QED BY <1>0, <2>1, <2>2, <2>4 DEF q, r
  <1> QED BY <1>1, <1>2

LEMMA QueueGrows ==
  ASSUME NEW c \in Seq(Command), NEW d \in Command \cup {NoCommand}, NEW w,
         NEW e \in Command
  PROVE  /\ Len(Queue(d, Append(c, e), w)) = Len(Queue(d, c, w)) + 1
         /\ \A l \in 1 .. Len(Queue(d, c, w)) :
               MvsOf(Queue(d, Append(c, e), w)[l]) \subseteq MvsOf(Queue(d, c, w)[l])
         /\ Queue(d, Append(c, e), w)[Len(Queue(d, c, w)) + 1] = e
  <1> DEFINE t == Append(c, e)
  <1>1. /\ t \in Seq(Command) /\ Len(t) = Len(c) + 1 /\ t[Len(c) + 1] = e /\ Len(c) \in Nat
        /\ \A k \in 1 .. Len(c) : t[k] = c[k]
    OBVIOUS
  <1> HIDE DEF t
  <1>2. CASE d = NoCommand
    <2>1. Queue(d, t, w) = t /\ Queue(d, c, w) = c
      BY <1>2, QueueNone
    <2> QED BY <1>1, <2>1 DEF t
  <1>3. CASE d \in Command
    <2> DEFINE q == Queue(d, c, w)
               r == Queue(d, t, w)
    <2>1. /\ Len(q) = Len(c) + 1 /\ q[1].mv = d.mv /\ q[1].refs = IF w THEN d.refs ELSE <<>>
          /\ \A k \in 1 .. Len(c) : q[k + 1] = c[k]
      BY <1>3, QueueOne DEF QueuedAs
    <2>2. /\ Len(r) = Len(t) + 1 /\ r[1].mv = d.mv /\ r[1].refs = IF w THEN d.refs ELSE <<>>
          /\ \A k \in 1 .. Len(t) : r[k + 1] = t[k]
      BY <1>1, <1>3, QueueOne DEF QueuedAs
    <2> HIDE DEF q, r
    <2>3. MvsOf(r[1]) \subseteq MvsOf(q[1])
      BY <2>1, <2>2, MvsKept
    <2>4. ASSUME NEW l \in 1 .. Len(q) PROVE MvsOf(r[l]) \subseteq MvsOf(q[l])
      <3>1. CASE l = 1
        BY <2>3, <3>1
      <3>2. CASE l # 1
        <4>1. l - 1 \in 1 .. Len(c) /\ l - 1 \in 1 .. Len(t) /\ l - 1 + 1 = l
          BY <1>1, <2>1, <3>2
        <4>2. r[l - 1 + 1] = t[l - 1] /\ q[l - 1 + 1] = c[l - 1] /\ t[l - 1] = c[l - 1]
          BY <1>1, <2>1, <2>2, <4>1
        <4> QED BY <4>1, <4>2
      <3> QED BY <3>1, <3>2
    <2>5. Len(r) = Len(q) + 1 /\ r[Len(q) + 1] = e
      <3>1. Len(c) + 1 \in 1 .. Len(t)
        BY <1>1
      <3>2. r[Len(c) + 1 + 1] = t[Len(c) + 1]
        BY <2>2, <3>1
      <3> QED BY <1>1, <2>1, <2>2, <3>2
    <2> QED BY <2>4, <2>5 DEF q, r, t
  <1> QED BY <1>2, <1>3

LEMMA QueueMove ==
  ASSUME PipelineInv, Next, Sized
  PROVE  QueueMoves
  <1>1. /\ PipelineTypes /\ PipelineTypes' /\ chan \in Seq(Command)
        /\ done \in Command \cup {NoCommand}
    BY TypesStep DEF PipelineInv, PipelineTypes
  <1>2. MvMoves /\ PictMoves
    BY MvMove, PictMove
  <1> DEFINE q == OnTheirWay
             r == OnTheirWay'
             w == pcE = "unlockRefs"
             v == pcE' = "unlockRefs"
  <1>3. q = Queue(done, chan, w) /\ r = Queue(done', chan', v)
    BY QueueNow, QueueNext
  <1>4. CASE EndCommand
    <2>1. /\ done = NoCommand /\ chan # <<>> /\ done' = Head(chan) /\ chan' = Tail(chan) /\ v
          /\ ~UnlockPicture /\ ~Launch
      BY <1>4 DEF EndCommand, EStep, UnlockPicture, Launch, eVars, PipelineInv, PictureInv
    <2> HIDE DEF q, r, w, v
    <2>2. /\ Len(r) = Len(q)
          /\ \A l \in 1 .. Len(q) : MvsOf(r[l]) \subseteq MvsOf(q[l])
      BY <1>1, <1>3, <2>1, QueueEnds
    <2> QED BY <2>1, <2>2 DEF QueueMoves, q, r
  <1>5. CASE UnlockPicture
    <2>1. done \in Command /\ done' = NoCommand /\ chan' = chan
      BY <1>5 DEF UnlockPicture, EStep, PipelineInv, PictureInv
    <2> HIDE DEF q, r, w, v
    <2>2. r = chan
      BY <1>1, <1>3, <2>1, QueueNone
    <2>3. /\ Len(q) = Len(chan) + 1 /\ \A k \in 1 .. Len(chan) : q[k + 1] = chan[k]
          /\ Len(chan) \in Nat
      BY <1>1, <1>3, <2>1, QueueOne DEF QueuedAs
    <2>4. Len(r) = Len(q) - 1 /\ \A l \in 1 .. Len(r) : r[l] = q[l + 1]
      BY <2>2, <2>3
    <2> QED BY <1>5, <2>4 DEF QueueMoves, q, r
  <1>6. CASE Launch
    <2>1. Current \in Command /\ chan' = Append(chan, Current)
      BY <1>1, <1>6, LaunchUsers
    <2>2. done' = done /\ pcE' = pcE
      BY <1>6 DEF Launch, eVars
    <2>3. v = w
      BY <2>2
    <2> HIDE DEF q, r, w, v
    <2>4. r = Queue(done, Append(chan, Current), w)
      BY <1>3, <2>1, <2>2, <2>3
    <2>a. q = Queue(done, chan, w)
      BY <1>3
    <2>b. Len(r) = Len(q) + 1
      BY <1>1, <2>1, <2>4, <2>a, QueueGrows
    <2>c. \A l \in 1 .. Len(q) : MvsOf(r[l]) \subseteq MvsOf(q[l])
      BY <1>1, <2>1, <2>4, <2>a, QueueGrows
    <2>d. r[Len(q) + 1] = Current
      BY <1>1, <2>1, <2>4, <2>a, QueueGrows, ZenonT(40)
    <2>5. /\ Len(r) = Len(q) + 1
          /\ \A l \in 1 .. Len(q) : MvsOf(r[l]) \subseteq MvsOf(q[l])
          /\ r[Len(q) + 1] = Current
      BY <2>b, <2>c, <2>d
    <2> QED BY <1>6, <2>5 DEF QueueMoves, q, r
  <1>7. CASE ~EndCommand /\ ~UnlockPicture /\ ~Launch
    <2>1. done' = done /\ chan' = chan /\ (v => w)
      BY <1>2, <1>7 DEF MvMoves, PictMoves
    <2> HIDE DEF q, r, w, v
    <2>2. /\ Len(r) = Len(q)
          /\ \A l \in 1 .. Len(q) : MvsOf(r[l]) \subseteq MvsOf(q[l])
      BY <1>1, <1>3, <2>1, QueueThins
    <2> QED BY <1>7, <2>2 DEF QueueMoves, q, r
  <1> QED BY <1>4, <1>5, <1>6, <1>7

\* What D holds for its picture comes from the DPB, but for the buffer it takes.
LEMMA PreparedMove ==
  ASSUME PipelineInv, Next, ~GetMv
  PROVE  PreparedMvs' \subseteq PreparedMvs \cup NodeMvs(ctx)
  <1>1. MvMoves /\ PictMoves
    BY MvMove, PictMove
  <1>2. ASSUME NEW m \in PreparedMvs' PROVE m \in PreparedMvs \cup NodeMvs(ctx)
    <2>1. /\ m \in MvIDs
          /\ \/ HoldsMv' /\ m = mvID'
             \/ Listed' /\ \E j \in 1 .. Len(RefsOf(blk1)') : RefsOf(blk1)'[j][2] = m
      BY <1>2 DEF PreparedMvs, Listed
    <2>2. CASE HoldsMv' /\ m = mvID'
      <3>1. HoldsMv /\ m = mvID
        BY <1>1, <2>2 DEF PictMoves
      <3> QED BY <2>1, <3>1 DEF PreparedMvs
    <2>3. CASE Listed' /\ \E j \in 1 .. Len(RefsOf(blk1)') : RefsOf(blk1)'[j][2] = m
      <3>1. CASE LockRefs
        <4>1. RefsOf(blk1)' = RefsOf(blk1) /\ pcD = "lockRefs"
          BY <3>1 DEF LockRefs, DStep, RefsOf
        <4>2. PICK j \in 1 .. Len(RefsOf(blk1)) : RefsOf(blk1)[j][2] = m
          BY <2>3, <4>1
        <4>3. PICK i \in 1 .. Len(ctx.nodes) :
                 /\ ~ctx.nodes[i].nonExisting
                 /\ RefsOf(blk1)[j] = <<ctx.nodes[i].frm, ctx.nodes[i].mv>>
          BY <4>1 DEF PipelineInv, ReferencesInv
        <4>4. ctx.nodes[i].mv = m
          BY <4>2, <4>3
        <4> QED BY <2>1, <4>3, <4>4 DEF NodeMvs
      <3>2. CASE Listed /\ refList' = refList /\ blk1' = blk1
        <4>1. RefsOf(blk1)' = RefsOf(blk1)
          BY <3>2 DEF RefsOf
        <4> QED BY <2>1, <2>3, <3>2, <4>1 DEF PreparedMvs, Listed
      <3> QED BY <1>1, <2>3, <3>1, <3>2 DEF MvMoves
    <2> QED BY <2>1, <2>2, <2>3
  <1> QED BY <1>2

LEMMA StoredMvs ==
  ASSUME NEW x, x \in PictMngrs, NEW y, y \in PictMngrs, NEW M, NEW n, Stored(x, y, M, n)
  PROVE  /\ NodeMvs(y) \subseteq NodeMvs(x) \cup M
         /\ \A k \in Int : DltMvs(y, k) \subseteq DltMvs(x, k) \cup NodeMvs(x)
  <1>1. Len(x.dlt) \in Nat /\ Len(y.dlt) \in Nat
    BY MngrTypes DEF PictMngrs
  <1>2. ASSUME NEW k \in Int, NEW m \in DltMvs(y, k) PROVE m \in DltMvs(x, k) \cup NodeMvs(x)
    <2>1. m \in MvIDs
      BY <1>2 DEF DltMvs
    <2>2. PICK i \in 1 .. Len(y.dlt) : i > k /\ y.dlt[i][2] = m
      BY <1>2 DEF DltMvs
    <2>3. CASE i > Len(x.dlt)
      BY <2>2, <2>3 DEF Stored
    <2>4. CASE i <= Len(x.dlt)
      <3>1. i \in 1 .. Len(x.dlt)
        BY <1>1, <2>4
      <3>2. x.dlt[i][2] = m
        BY <2>2, <3>1 DEF Stored
      <3> QED BY <2>1, <2>2, <3>1, <3>2 DEF DltMvs
    <2> QED BY <1>1, <2>3, <2>4
  <1> QED BY <1>2 DEF Stored

\* The first removed picture is released.
LEMMA TailMvs ==
  ASSUME NEW x, x \in PictMngrs, NEW y, y \in PictMngrs,
         y.dlt = IF x.dlt = <<>> THEN x.dlt ELSE Tail(x.dlt), NEW k \in Int
  PROVE  DltMvs(y, k - 1) \subseteq DltMvs(x, k)
  <1>1. x.dlt \in Seq(Slots \X MvIDs)
    BY DEF PictMngrs
  <1>2. CASE x.dlt = <<>>
    BY <1>2 DEF DltMvs
  <1>3. CASE x.dlt # <<>>
    <2>1. /\ Len(x.dlt) \in Nat /\ Len(y.dlt) = Len(x.dlt) - 1
          /\ \A i \in 1 .. Len(x.dlt) - 1 : y.dlt[i] = x.dlt[i + 1]
      BY <1>1, <1>3, SeqHead
    <2>2. ASSUME NEW m \in DltMvs(y, k - 1) PROVE m \in DltMvs(x, k)
      <3>1. m \in MvIDs
        BY <2>2 DEF DltMvs
      <3>2. PICK i \in 1 .. Len(y.dlt) : i > k - 1 /\ y.dlt[i][2] = m
        BY <2>2 DEF DltMvs
      <3>3. i + 1 \in 1 .. Len(x.dlt) /\ i + 1 > k
        BY <2>1, <3>2
      <3>4. x.dlt[i + 1][2] = m
        BY <2>1, <3>2
      <3> QED BY <3>1, <3>3, <3>4 DEF DltMvs
    <2> QED BY <2>2
  <1> QED BY <1>2, <1>3

LEMMA StayMvs ==
  ASSUME NEW x, NEW y, NodesStay(x, y)
  PROVE  NodeMvs(y) \subseteq NodeMvs(x)
  BY DEF NodesStay, SameNode, NodeMvs

\* What the picture manager holds of the motion vector buffers after a step
LEMMA StoreMvs ==
  ASSUME PipelineInv, Next, Sized
  PROVE  /\ NodeMvs(ctx') \subseteq NodeMvs(ctx) \cup PreparedMvs
         /\ ~InsertPicture => NodeMvs(ctx') \subseteq NodeMvs(ctx)
         /\ \A k \in Int :
               /\ EndCommand => DltMvs(ctx', k - 1) \subseteq DltMvs(ctx, k)
               /\ ~EndCommand => DltMvs(ctx', k) \subseteq DltMvs(ctx, k) \cup NodeMvs(ctx)
  <1>0. ctx \in PictMngrs /\ ctx' \in PictMngrs
    BY MngrAround
  <1>1. StoreKept
    BY StoreStep
  <1>a. NodeMvs(ctx) \subseteq MvIDs
    BY DEF NodeMvs
  <1>2. CASE Stored(ctx, ctx', {}, 0)
    <2>1. /\ NodeMvs(ctx') \subseteq NodeMvs(ctx)
          /\ \A k \in Int : DltMvs(ctx', k) \subseteq DltMvs(ctx, k) \cup NodeMvs(ctx)
      BY <1>0, <1>2, StoredMvs
    <2>2. CASE EndCommand
      <3>1. Ended(ctx, ctx', chan[1].frm, FrmUsers, MvUsers, user, Shown)
        BY <2>2, TypesStep, EndCommandCtx
      <3>2. ctx'.dlt = IF ctx.dlt = <<>> THEN ctx.dlt ELSE Tail(ctx.dlt)
        BY <3>1 DEF Ended
      <3>3. \A k \in Int : DltMvs(ctx', k - 1) \subseteq DltMvs(ctx, k)
        BY <1>0, <3>2, TailMvs
      <3> QED BY <2>1, <2>2, <3>3
    <2> QED BY <2>1, <2>2
  <1>3. CASE InsertPicture /\ Stored(ctx, ctx', {mvID}, 1)
    <2>1. /\ NodeMvs(ctx') \subseteq NodeMvs(ctx) \cup {mvID}
          /\ \A k \in Int : DltMvs(ctx', k) \subseteq DltMvs(ctx, k) \cup NodeMvs(ctx)
      BY <1>0, <1>3, StoredMvs
    <2>2. HoldsMv /\ mvID \in MvIDs /\ ~EndCommand
      BY <1>3 DEF InsertPicture, DStep, HoldsMv, Begun, EndCommand, EStep, dVars,
          PipelineInv, PictureInv
    <2>3. mvID \in PreparedMvs
      BY <2>2 DEF PreparedMvs
    <2> QED BY <1>3, <2>1, <2>2, <2>3
  <1>4. CASE EndCommand /\ NodesStay(ctx, ctx')
             /\ ctx'.dlt = IF ctx.dlt = <<>> THEN ctx.dlt ELSE Tail(ctx.dlt)
    <2>1. NodeMvs(ctx') \subseteq NodeMvs(ctx)
      BY <1>4, StayMvs
    <2>2. \A k \in Int : DltMvs(ctx', k - 1) \subseteq DltMvs(ctx, k)
      BY <1>0, <1>4, TailMvs
    <2> QED BY <1>4, <2>1, <2>2
  <1>5. CASE Terminate /\ ctx'.nodes = ctx.nodes /\ ctx'.dlt = <<>>
    <2>1. NodeMvs(ctx') = NodeMvs(ctx)
      BY <1>5 DEF NodeMvs
    <2>2. \A k : DltMvs(ctx', k) = {}
      BY <1>5 DEF DltMvs
    <2> QED BY <2>1, <2>2
  <1> QED BY <1>1, <1>2, <1>3, <1>4, <1>5 DEF StoreKept

\* The users of a motion vector buffer are D and the commands on their way.
LEMMA NoMvUser ==
  ASSUME PipelineInv, pcE = "unlockRefs" => done.refs = RefsOf(blk2),
         NEW m \in MvIDs, MvUsers[m] = 0
  PROVE  \A k \in 1 .. Len(OnTheirWay) : m \notin MvsOf(OnTheirWay[k])
  <1>1. /\ MvUsers = MvOf(HeldMv, done.mv, chan, Locked, refList)
        /\ chan \in Seq(Command) /\ Locked \in SUBSET (0 .. MaxPics)
        /\ done \in Command \cup {NoCommand}
    BY UsersNow, RanksClose DEF PipelineInv, PipelineTypes
  <1> DEFINE a == HeldMv
             d == done.mv
             L == Locked
  <1>2. MvOf(a, d, chan, L, refList)[m] = 0
    BY <1>1
  <1>a. L \in SUBSET (0 .. MaxPics)
    BY <1>1
  <1>b. pcE = "unlockRefs" => blk2 \in L
    BY RanksClose DEF Locked
  <1>c. \A k \in 1 .. Len(chan) : RankOf(k) \in L /\ chan[k].refs = RefsOf(RankOf(k))
    BY RanksAre DEF PipelineInv, ReferencesInv
  <1> HIDE DEF a, d, L
  <1>3. /\ One(d = m) \in Nat /\ One(a = m) \in Nat
        /\ Count(chan, CmdsWith(m)) \in Nat /\ Cardinality(LockersWith(L, refList, m)) \in Nat
        /\ MvOf(a, d, chan, L, refList)[m] = One(a = m) + One(d = m) + Count(chan, CmdsWith(m))
                                             + Cardinality(LockersWith(L, refList, m))
    BY <1>1, <1>a, MvOfAt
  <1>4. One(d = m) = 0 /\ Count(chan, CmdsWith(m)) = 0
        /\ Cardinality(LockersWith(L, refList, m)) = 0
    BY <1>2, <1>3, SMTT(30)
  <1>5. d # m
    BY <1>4 DEF One
  <1>6. \A k \in 1 .. Len(chan) : chan[k] \notin CmdsWith(m)
    BY <1>1, <1>4, CountIs
  <1>7. LockersWith(L, refList, m) = {}
    BY <1>a, <1>4, LocksAre, FS_EmptySet
  <1>8. \A i \in L : \A j \in 1 .. Len(RefsOf(i)) : RefsOf(i)[j][2] # m
    BY <1>7 DEF LockersWith, RefsOf
  <1>9. ASSUME NEW k \in 1 .. Len(chan) PROVE m \notin MvsOf(chan[k])
    <2>1. chan[k] \in Command /\ chan[k].mv # m
      BY <1>1, <1>6 DEF CmdsWith
    <2>2. \A j \in 1 .. Len(chan[k].refs) : chan[k].refs[j][2] # m
      BY <1>8, <1>c
    <2> QED BY <2>1, <2>2 DEF MvsOf
  <1> DEFINE q == OnTheirWay
             w == pcE = "unlockRefs"
  <1>10. q = Queue(done, chan, w)
    BY QueueNow
  <1>11. CASE done = NoCommand
    <2> HIDE DEF q, w
    <2>1. q = chan
      BY <1>10, <1>11, QueueNone
    <2> QED BY <1>9, <2>1 DEF q
  <1>12. CASE done \in Command
    <2>0. w => \A j \in 1 .. Len(done.refs) : done.refs[j][2] # m
      BY <1>8, <1>b
    <2> HIDE DEF q, w
    <2>1. /\ Len(q) = Len(chan) + 1 /\ q[1].mv = done.mv
          /\ q[1].refs = IF w THEN done.refs ELSE <<>>
          /\ \A k \in 1 .. Len(chan) : q[k + 1] = chan[k]
          /\ Len(chan) \in Nat
      <3>1. chan \in Seq(Command)
        BY <1>1
      <3>2. /\ Len(Queue(done, chan, w)) = Len(chan) + 1 /\ Queue(done, chan, w)[1].mv = done.mv
            /\ Queue(done, chan, w)[1].refs = IF w THEN done.refs ELSE <<>>
            /\ \A k \in 1 .. Len(chan) : Queue(done, chan, w)[k + 1] = chan[k]
            /\ Len(chan) \in Nat
        BY <1>12, <3>1, QueueOne DEF QueuedAs
      <3> QED BY <1>10, <3>2
    <2>2. \A j \in 1 .. Len(q[1].refs) : q[1].refs[j][2] # m
      BY <2>0, <2>1
    <2>3. m \notin MvsOf(q[1])
      BY <1>5, <2>1, <2>2 DEF MvsOf, d
    <2>4. ASSUME NEW l \in 1 .. Len(q), l # 1 PROVE m \notin MvsOf(q[l])
      <3>1. l - 1 \in 1 .. Len(chan) /\ l - 1 + 1 = l
        BY <2>1, <2>4
      <3>2. q[l - 1 + 1] = chan[l - 1]
        BY <2>1, <3>1
      <3> QED BY <1>9, <3>1, <3>2
    <2> QED BY <2>3, <2>4 DEF q
  <1> QED BY <1>1, <1>11, <1>12

Later(q, k) == {m \in MvIDs : \E l \in 1 .. Len(q) : l > k /\ m \in MvsOf(q[l])}

LEMMA HeldParts ==
  ASSUME NEW x, NEW q, NEW e, NEW D, NEW k
  PROVE  HeldAfter(x, q, e, D, k) = NodeMvs(x) \cup DltMvs(x, k - e) \cup D \cup Later(q, k)
  BY DEF HeldAfter, Later

\* What is held after k commands, was held before, when d more had ended.
HeldBefore(x, q, e, D, y, r, i, E, d) ==
    /\ NodeMvs(y) \subseteq NodeMvs(x) \cup D
    /\ E \subseteq D \cup NodeMvs(x)
    /\ \A k \in Nat : /\ DltMvs(y, k - i) \subseteq DltMvs(x, k + d - e) \cup NodeMvs(x)
                      /\ Later(r, k) \subseteq Later(q, k + d) \cup D

LEMMA SufficesBy ==
  ASSUME NEW x, NEW q, NEW e \in Int, NEW D \in SUBSET MvIDs, NEW f \in Nat,
         Suffices(x, q, e, D, f),
         NEW y, NEW r, NEW i \in Int, NEW E, NEW g \in Nat, NEW d \in Nat, g + d = f,
         HeldBefore(x, q, e, D, y, r, i, E, d)
  PROVE  Suffices(y, r, i, E, g)
  <1>1. ASSUME NEW k \in 0 .. g - 1
        PROVE  HeldAfter(y, r, i, E, k) \subseteq HeldAfter(x, q, e, D, k + d)
    <2>1. k \in Nat
      OBVIOUS
    <2>2. HeldAfter(y, r, i, E, k) = NodeMvs(y) \cup DltMvs(y, k - i) \cup E \cup Later(r, k)
      BY HeldParts
    <2>3. HeldAfter(x, q, e, D, k + d)
             = NodeMvs(x) \cup DltMvs(x, k + d - e) \cup D \cup Later(q, k + d)
      BY HeldParts
    <2>4. /\ DltMvs(y, k - i) \subseteq DltMvs(x, k + d - e) \cup NodeMvs(x)
          /\ Later(r, k) \subseteq Later(q, k + d) \cup D
          /\ NodeMvs(y) \subseteq NodeMvs(x) \cup D /\ E \subseteq D \cup NodeMvs(x)
      BY <2>1 DEF HeldBefore
    <2> QED BY <2>2, <2>3, <2>4
  <1> QED BY <1>1, SufficesFrom

\* One buffer more is held, and one more may be.
LEMMA SufficesMore ==
  ASSUME NEW x, NEW q, NEW e, NEW D \in SUBSET MvIDs, NEW f \in Nat, Suffices(x, q, e, D, f),
         Cardinality(HeldAfter(x, q, e, D, f)) <= Least(NumRef),
         NEW y, NEW r, NEW i, NEW E, NEW m \in MvIDs,
         \A k \in Nat : HeldAfter(y, r, i, E, k) \subseteq HeldAfter(x, q, e, D, k) \cup {m}
  PROVE  Suffices(y, r, i, E, f + 1)
  <1>1. Least(NumRef) \in Nat
    BY LeastIs
  <1> DEFINE l == Least(NumRef)
  <1>2. ASSUME NEW k \in 0 .. f
        PROVE  Cardinality(HeldAfter(y, r, i, E, k)) <= l + (f + 1) - k
    <2> DEFINE A == HeldAfter(x, q, e, D, k)
               B == HeldAfter(y, r, i, E, k)
    <2>1. Cardinality(A) <= l + f - k
      <3>1. CASE k = f
        BY <1>1, <3>1
      <3>2. CASE k # f
        <4>1. k \in 0 .. f - 1
          BY <3>2
        <4> QED BY <4>1 DEF Suffices
      <3> QED BY <3>1, <3>2
    <2>2. A \in SUBSET MvIDs
      BY HeldSet
    <2>3. B \subseteq A \cup {m} /\ k \in Nat
      OBVIOUS
    <2>4. l \in Nat
      BY <1>1
    <2> HIDE DEF A, B, l
    <2>5. IsFiniteSet(A) /\ Cardinality(A) \in Nat
      BY <2>2, MvSets
    <2>6. Cardinality(A \cup {m}) <= Cardinality(A) + 1 /\ Cardinality(A \cup {m}) \in Nat
      <3>1. Cardinality(A \cup {m}) = IF m \in A THEN Cardinality(A) ELSE Cardinality(A) + 1
        BY <2>5, FS_AddElement
      <3> QED BY <2>5, <3>1
    <2>7. A \cup {m} \in SUBSET MvIDs /\ B \in SUBSET (A \cup {m}) /\ B \in SUBSET MvIDs
      BY <2>2, <2>3
    <2>8. Cardinality(B) <= Cardinality(A \cup {m}) /\ Cardinality(B) \in Nat
      BY <2>7, MvSets
    <2>9. Cardinality(B) <= l + (f + 1) - k
      BY <2>1, <2>3, <2>4, <2>5, <2>6, <2>8
    <2> QED BY <2>9 DEF B
  <1>3. f + 1 - 1 = f
    OBVIOUS
  <1> QED BY <1>2, <1>3 DEF Suffices

\* One buffer less is held.
LEMMA SufficesLess ==
  ASSUME NEW x, NEW q, NEW e, NEW D \in SUBSET MvIDs, NEW f \in Nat, f >= 1,
         Suffices(x, q, e, D, f),
         NEW y, NEW r, NEW i, NEW E, NEW m \in MvIDs,
         \A k \in Nat : /\ m \in HeldAfter(x, q, e, D, k)
                        /\ HeldAfter(y, r, i, E, k) \subseteq HeldAfter(x, q, e, D, k) \ {m}
  PROVE  Suffices(y, r, i, E, f - 1)
  <1>1. Least(NumRef) \in Nat
    BY LeastIs
  <1> DEFINE l == Least(NumRef)
  <1>2. ASSUME NEW k \in 0 .. f - 1 - 1
        PROVE  Cardinality(HeldAfter(y, r, i, E, k)) <= l + (f - 1) - k
    <2> DEFINE A == HeldAfter(x, q, e, D, k)
               B == HeldAfter(y, r, i, E, k)
    <2>0. k \in 0 .. f - 1 /\ k \in Nat
      OBVIOUS
    <2>1. Cardinality(A) <= l + f - k
      BY <2>0 DEF Suffices
    <2>2. A \in SUBSET MvIDs
      BY HeldSet
    <2>3. B \subseteq A \ {m} /\ m \in A
      BY <2>0
    <2>4. l \in Nat
      BY <1>1
    <2> HIDE DEF A, B, l
    <2>5. IsFiniteSet(A) /\ Cardinality(A) \in Nat
      BY <2>2, MvSets
    <2>6. Cardinality(A \ {m}) = Cardinality(A) - 1
      BY <2>3, <2>5, FS_RemoveElement
    <2>7. A \ {m} \in SUBSET MvIDs /\ B \in SUBSET (A \ {m})
      BY <2>2, <2>3
    <2>8. Cardinality(B) <= Cardinality(A \ {m}) /\ Cardinality(B) \in Nat
      BY <2>2, <2>7, MvSets
    <2>9. Cardinality(B) <= l + (f - 1) - k
      BY <2>0, <2>1, <2>4, <2>5, <2>6, <2>8
    <2> QED BY <2>9 DEF B
  <1> QED BY <1>2 DEF Suffices

LEMMA PreparedSet == PreparedMvs \in SUBSET MvIDs
  BY DEF PreparedMvs

\* The buffers of the commands on their way after a step
LEMMA LaterMove ==
  ASSUME PipelineInv, Next, Sized, NEW k \in Nat
  PROVE  /\ UnlockPicture => Later(OnTheirWay', k) \subseteq Later(OnTheirWay, k + 1)
         /\ Launch => Later(OnTheirWay', k) \subseteq Later(OnTheirWay, k) \cup PreparedMvs
         /\ ~UnlockPicture /\ ~Launch => Later(OnTheirWay', k) \subseteq Later(OnTheirWay, k)
         /\ Len(OnTheirWay) \in Nat
         /\ UnlockPicture => Len(OnTheirWay') = Len(OnTheirWay) - 1
         /\ Launch => Len(OnTheirWay') = Len(OnTheirWay) + 1
         /\ ~UnlockPicture /\ ~Launch => Len(OnTheirWay') = Len(OnTheirWay)
  <1>1. QueueMoves
    BY QueueMove
  <1>2. ~(UnlockPicture /\ Launch)
    <2>1. UnlockPicture => pcE # pcE'
      BY DEF UnlockPicture, EStep
    <2>2. Launch => pcE' = pcE
      BY DEF Launch, eVars
    <2> QED BY <2>1, <2>2
  <1>3. Len(OnTheirWay) \in Nat
    <2>1. chan \in Seq(Command) /\ done \in Command \cup {NoCommand}
      BY DEF PipelineInv, PipelineTypes
    <2> DEFINE w == pcE = "unlockRefs"
    <2>2. OnTheirWay = Queue(done, chan, w)
      BY QueueNow
    <2> HIDE DEF w
    <2>3. Len(Queue(done, chan, w)) \in Nat
      BY <2>1, QueueThins
    <2> QED BY <2>2, <2>3
  <1>4. Launch => MvsOf(Current) \subseteq PreparedMvs
    BY DEF Launch, MvsOf, Current, PreparedMvs, RefsOf, HoldsMv, Begun
  <1> DEFINE q == OnTheirWay
             r == OnTheirWay'
  <1>5. CASE /\ ~UnlockPicture /\ ~Launch /\ Len(r) = Len(q)
             /\ \A l \in 1 .. Len(q) : MvsOf(r[l]) \subseteq MvsOf(q[l])
    <2> HIDE DEF q, r
    <2>1. Later(r, k) \subseteq Later(q, k)
      BY <1>5 DEF Later
    <2> QED BY <1>3, <1>5, <2>1 DEF q, r
  <1>6. CASE /\ UnlockPicture /\ Len(r) = Len(q) - 1
             /\ \A l \in 1 .. Len(r) : r[l] = q[l + 1]
    <2>0. Len(q) \in Nat
      BY <1>3
    <2> HIDE DEF q, r
    <2>1. ASSUME NEW m \in Later(r, k) PROVE m \in Later(q, k + 1)
      <3>1. PICK l \in 1 .. Len(r) : l > k /\ m \in MvsOf(r[l])
        BY <2>1 DEF Later
      <3>2. l + 1 \in 1 .. Len(q) /\ l + 1 > k + 1 /\ m \in MvsOf(q[l + 1])
        BY <1>6, <2>0, <3>1
      <3> QED BY <2>1, <3>2 DEF Later
    <2>2. Later(r, k) \subseteq Later(q, k + 1)
      BY <2>1
    <2> QED BY <1>2, <1>3, <1>6, <2>2 DEF q, r
  <1>7. CASE /\ Launch /\ Len(r) = Len(q) + 1 /\ r[Len(q) + 1] = Current
             /\ \A l \in 1 .. Len(q) : MvsOf(r[l]) \subseteq MvsOf(q[l])
    <2>0. Len(q) \in Nat
      BY <1>3
    <2> HIDE DEF q, r
    <2>1. ASSUME NEW m \in Later(r, k) PROVE m \in Later(q, k) \cup PreparedMvs
      <3>1. PICK l \in 1 .. Len(r) : l > k /\ m \in MvsOf(r[l])
        BY <2>1 DEF Later
      <3>2. CASE l = Len(q) + 1
        BY <1>4, <1>7, <3>1, <3>2
      <3>3. CASE l # Len(q) + 1
        <4>1. l \in 1 .. Len(q)
          BY <1>7, <2>0, <3>1, <3>3
        <4> QED BY <1>7, <2>1, <3>1, <4>1 DEF Later
      <3> QED BY <3>2, <3>3
    <2>2. Later(r, k) \subseteq Later(q, k) \cup PreparedMvs
      BY <2>1
    <2> QED BY <1>2, <1>3, <1>7, <2>2 DEF q, r
  <1> QED BY <1>1, <1>5, <1>6, <1>7 DEF QueueMoves

\* The last part of MvHeldInv
MvRoom ==
    Suffices(ctx, OnTheirWay, One(done # NoCommand), PreparedMvs,
             Len(OnTheirWay) + One(HoldsMv))

\* The buffer D takes is held by nobody.
LEMMA GetMvRoom ==
  ASSUME PipelineInv, Next, Sized, MvHeldInv, GetMv
  PROVE  MvRoom'
  <1>0. PipelineTypes' /\ ctx \in PictMngrs
    BY TypesStep, MngrNow
  <1>1. /\ pcD = "getMv" /\ pcD' = "listRefs" /\ pcE' = pcE /\ done' = done
        /\ ~UnlockPicture /\ ~Launch /\ ~InsertPicture /\ ~EndCommand
    BY DEF GetMv, DStep, eVars, UnlockPicture, EStep, Launch, InsertPicture, EndCommand, dVars
  <1>2. mvID' \in MvIDs
    BY <1>0, GetMvCtx
  <1>3. ~HoldsMv /\ HoldsMv' /\ PreparedMvs = {} /\ PreparedMvs' = {mvID'}
    <2>1. ~HoldsMv /\ HoldsMv'
      BY <1>1 DEF HoldsMv, Begun
    <2>2. PreparedMvs = {}
      BY <1>1, <2>1 DEF PreparedMvs, Begun
    <2>3. PreparedMvs' = {m \in MvIDs : m = mvID'}
      BY <1>1, <2>1 DEF PreparedMvs, Begun
    <2> QED BY <1>2, <2>1, <2>2, <2>3
  <1> DEFINE x == ctx
             y == ctx'
             q == OnTheirWay
             r == OnTheirWay'
             e == One(done # NoCommand)
             m == mvID'
             f == Len(q)
  <1>4. One(done # NoCommand)' = e /\ (Len(OnTheirWay) + One(HoldsMv))' = Len(r) + 1
    BY <1>1, <1>3, OneIs DEF One
  <1>5. e \in Int /\ Len(q) = Len(chan) + e /\ Len(chan) \in Nat
    <2>1. chan \in Seq(Command) /\ done \in Command \cup {NoCommand}
      BY DEF PipelineInv, PipelineTypes
    <2> DEFINE w == pcE = "unlockRefs"
    <2>2. q = Queue(done, chan, w)
      BY QueueNow
    <2> HIDE DEF q, w
    <2>3. CASE done = NoCommand
      <3>1. q = chan /\ Len(chan) \in Nat
        BY <2>1, <2>2, <2>3, QueueNone
      <3> QED BY <2>3, <3>1 DEF One
    <2>4. CASE done \in Command
      <3>1. done # NoCommand /\ Len(q) = Len(chan) + 1 /\ Len(chan) \in Nat
        BY <2>1, <2>2, <2>4, QueueOne DEF QueuedAs
      <3> QED BY <3>1 DEF One
    <2> QED BY <2>1, <2>3, <2>4
  <1>6. f \in Nat /\ Len(r) = f
    BY <1>1, <1>5, LaterMove
  <1>7. Suffices(x, q, e, {}, f)
    <2>1. Len(q) + One(HoldsMv) = f
      BY <1>3, <1>6 DEF One
    <2> QED BY <1>3, <2>1 DEF MvHeldInv
  <1>8. Cardinality(HeldAfter(x, q, e, {}, f)) <= Least(NumRef)
    <2>1. Tally(x) <= Least(NumRef) + Len(chan) /\ Len(x.nodes) <= Least(NumRef)
      <3>1. pcD \notin Inserted /\ pcD \notin {"mark", "clean"}
        BY <1>1 DEF Inserted
      <3>2. One(pcD \in Inserted) = 0
        BY <3>1 DEF One
      <3>3. RealCount(x) + Len(x.dlt) <= Least(NumRef) + Len(chan)
        BY <1>5, <3>2, LeastIs DEF MvHeldInv
      <3>4. Len(x.nodes) <= Least(NumRef)
        BY <3>1 DEF PipelineInv, RoomInv, PicCount
      <3> QED BY <3>3, <3>4 DEF Tally
    <2>2. Cardinality(NodeMvs(x) \cup DltMvs(x, Len(chan))) <= Least(NumRef)
      BY <1>0, <1>5, <2>1, LeastIs, RestFits
    <2>3. HeldAfter(x, q, e, {}, f) = NodeMvs(x) \cup DltMvs(x, f - e) \cup {} \cup Later(q, f)
      BY HeldParts
    <2>4. Later(q, f) = {}
      BY <1>6 DEF Later
    <2>5. f - e = Len(chan)
      BY <1>5, <1>6
    <2>6. HeldAfter(x, q, e, {}, f) = NodeMvs(x) \cup DltMvs(x, Len(chan))
      BY <2>3, <2>4, <2>5
    <2> QED BY <2>2, <2>6
  <1>9. ASSUME NEW k \in Nat
        PROVE  HeldAfter(y, r, e, {m}, k) \subseteq HeldAfter(x, q, e, {}, k) \cup {m}
    <2>1. NodeMvs(y) \subseteq NodeMvs(x) /\ DltMvs(y, k - e) \subseteq DltMvs(x, k - e) \cup NodeMvs(x)
      <3>1. k - e \in Int
        BY <1>5
      <3> QED BY <1>1, <3>1, StoreMvs
    <2>2. Later(r, k) \subseteq Later(q, k)
      BY <1>1, LaterMove
    <2>3. HeldAfter(y, r, e, {m}, k) = NodeMvs(y) \cup DltMvs(y, k - e) \cup {m} \cup Later(r, k)
      BY HeldParts
    <2>4. HeldAfter(x, q, e, {}, k) = NodeMvs(x) \cup DltMvs(x, k - e) \cup {} \cup Later(q, k)
      BY HeldParts
    <2> HIDE DEF x, y, q, r, e, m
    <2> QED BY <2>1, <2>2, <2>3, <2>4
  <1> HIDE DEF x, y, q, r, e, m, f
  <1>10. Suffices(y, r, e, {m}, f + 1)
    BY <1>2, <1>6, <1>7, <1>8, <1>9, SufficesMore DEF m
  <1>11. MvRoom' = Suffices(y, r, One(done # NoCommand)', PreparedMvs',
                            (Len(OnTheirWay) + One(HoldsMv))')
    BY DEF MvRoom, y, r
  <1>12. PreparedMvs' = {m}
    BY <1>3 DEF m
  <1> QED BY <1>4, <1>6, <1>10, <1>11, <1>12

LEMMA CancelFrameRoom ==
  ASSUME PipelineInv, Next, Sized, MvHeldInv, CancelFrame
  PROVE  MvRoom'
  <1>1. /\ pcD = "cancel" /\ pcD' = "cancelRefs" /\ pcE' = pcE /\ done' = done
        /\ ~UnlockPicture /\ ~Launch /\ ~InsertPicture /\ ~EndCommand /\ ~GetMv
        /\ refList' = refList /\ blk1' = blk1
    BY DEF CancelFrame, DStep, eVars, UnlockPicture, EStep, Launch, InsertPicture, EndCommand,
       dVars, GetMv
  <1>2. HoldsMv /\ ~HoldsMv' /\ pcD \in NotInserted /\ pcD \in Begun
    BY <1>1 DEF HoldsMv, Begun, NotInserted
  <1>3. mvID \in MvIDs /\ MvHeld(ctx, mvID) = 0
    BY <1>2 DEF PipelineInv, PictureInv
  <1>4. NoMvHeld(ctx, mvID)
    BY <1>3, MngrNow, MngrTypes, HeldNone
  <1>5. /\ \A k \in 1 .. Len(OnTheirWay) : mvID \notin MvsOf(OnTheirWay[k])
        /\ \A j \in 1 .. Len(RefsOf(blk1)) : RefsOf(blk1)[j][2] # mvID
    BY <1>2 DEF MvHeldInv
  <1> DEFINE x == ctx
             y == ctx'
             q == OnTheirWay
             r == OnTheirWay'
             e == One(done # NoCommand)
             D == PreparedMvs
             E == PreparedMvs'
             m == mvID
             f == Len(q) + 1
  <1>6. mvID \in PreparedMvs /\ mvID \notin PreparedMvs'
        /\ PreparedMvs' \subseteq PreparedMvs
    <2>1. mvID \in PreparedMvs
      BY <1>2, <1>3 DEF PreparedMvs
    <2>2. PreparedMvs' = {n \in MvIDs : \E j \in 1 .. Len(RefsOf(blk1)) : RefsOf(blk1)[j][2] = n}
      BY <1>1, <1>2 DEF PreparedMvs, RefsOf
    <2>3. {n \in MvIDs : \E j \in 1 .. Len(RefsOf(blk1)) : RefsOf(blk1)[j][2] = n}
            \subseteq PreparedMvs
      BY <1>2 DEF PreparedMvs
    <2> QED BY <1>5, <2>1, <2>2, <2>3
  <1>7. Len(q) \in Nat /\ Len(r) = Len(q)
    BY <1>1, LaterMove
  <1>8. e \in Int
    BY OneIs
  <1>9. One(done # NoCommand)' = e /\ (Len(OnTheirWay) + One(HoldsMv))' = Len(r)
        /\ Len(OnTheirWay) + One(HoldsMv) = f
    BY <1>1, <1>2, <1>7 DEF One
  <1>10. Suffices(x, q, e, D, f)
    BY <1>9 DEF MvHeldInv
  <1>11. ASSUME NEW k \in Nat
         PROVE  /\ m \in HeldAfter(x, q, e, D, k)
                /\ HeldAfter(y, r, e, E, k) \subseteq HeldAfter(x, q, e, D, k) \ {m}
    <2>1. NodeMvs(y) \subseteq NodeMvs(x) /\ DltMvs(y, k - e) \subseteq DltMvs(x, k - e) \cup NodeMvs(x)
      <3>1. k - e \in Int
        BY <1>8
      <3> QED BY <1>1, <3>1, StoreMvs
    <2>2. Later(r, k) \subseteq Later(q, k)
      BY <1>1, LaterMove
    <2>3. m \notin NodeMvs(x) /\ m \notin DltMvs(x, k - e)
      BY <1>4 DEF NodeMvs, DltMvs, NoMvHeld
    <2>4. m \notin Later(q, k)
      BY <1>5 DEF Later
    <2>5. HeldAfter(y, r, e, E, k) = NodeMvs(y) \cup DltMvs(y, k - e) \cup E \cup Later(r, k)
      BY HeldParts
    <2>6. HeldAfter(x, q, e, D, k) = NodeMvs(x) \cup DltMvs(x, k - e) \cup D \cup Later(q, k)
      BY HeldParts
    <2>7. m \in D /\ m \notin E /\ E \subseteq D
      BY <1>6
    <2> HIDE DEF x, y, q, r, e, D, E, m
    <2> QED BY <2>1, <2>2, <2>3, <2>4, <2>5, <2>6, <2>7
  <1>12. D \in SUBSET MvIDs /\ m \in MvIDs
    BY <1>3, PreparedSet
  <1>13. f \in Nat /\ f >= 1 /\ f - 1 = Len(r)
    BY <1>7
  <1> HIDE DEF x, y, q, r, e, D, E, m, f
  <1>14. Suffices(y, r, e, E, f - 1)
    BY <1>10, <1>11, <1>12, <1>13, SufficesLess
  <1>15. MvRoom' = Suffices(y, r, One(done # NoCommand)', E,
                            (Len(OnTheirWay) + One(HoldsMv))')
    BY DEF MvRoom, y, r, E
  <1> QED BY <1>9, <1>13, <1>14, <1>15

LEMMA MvRoomStep ==
  ASSUME PipelineInv, Next, Sized, MvHeldInv
  PROVE  MvRoom'
  <1>1. MvMoves /\ PictMoves
    BY MvMove, PictMove
  <1>2. CASE GetMv
    BY <1>2, GetMvRoom
  <1>3. CASE CancelFrame
    BY <1>3, CancelFrameRoom
  <1> DEFINE x == ctx
             y == ctx'
             q == OnTheirWay
             r == OnTheirWay'
             e == One(done # NoCommand)
             i == One(done # NoCommand)'
             D == PreparedMvs
             E == PreparedMvs'
             f == Len(OnTheirWay) + One(HoldsMv)
             g == (Len(OnTheirWay) + One(HoldsMv))'
  <1>4. /\ Len(q) \in Nat /\ e \in Int /\ i \in Int /\ f \in Nat
        /\ D \in SUBSET MvIDs /\ Suffices(x, q, e, D, f)
    <2>1. Len(q) \in Nat
      BY LaterMove
    <2>2. One(HoldsMv) \in Nat /\ e \in Int /\ i \in Int
      BY OneIs DEF One
    <2>3. f \in Nat
      BY <2>1, <2>2
    <2> QED BY <2>1, <2>2, <2>3, PreparedSet DEF MvHeldInv
  <1>5. MvRoom' = Suffices(y, r, i, E, g)
    BY DEF MvRoom
  <1>6. NodeMvs(y) \subseteq NodeMvs(x) \cup D
    BY StoreMvs
  <1>7. ~GetMv => E \subseteq D \cup NodeMvs(x)
    BY PreparedMove
  <1>8. CASE UnlockPicture
    <2>1. done # NoCommand /\ done' = NoCommand /\ ~EndCommand /\ ~GetMv /\ HoldsMv' = HoldsMv
      <3>1. done \in Command /\ pcE = "peek"
        BY <1>8 DEF UnlockPicture, EStep, PipelineInv, PictureInv
      <3> QED BY <1>8, <3>1 DEF UnlockPicture, EStep, EndCommand, GetMv, DStep, dVars, eVars,
              HoldsMv, Begun, Command, NoCommand, Slots, NoSlot
    <2>2. e = 1 /\ i = 0
      BY <2>1 DEF One
    <2>3. Len(r) = Len(q) - 1
      BY <1>8, LaterMove
    <2>4. g + 1 = f /\ g \in Nat
      <3>1. One(HoldsMv)' = One(HoldsMv) /\ One(HoldsMv) \in Nat
        BY <2>1, OneIs DEF One
      <3>2. Len(r) \in Nat
        <4>1. chan \in Seq(Command) /\ chan' = chan
          BY <1>8 DEF PipelineInv, PipelineTypes, UnlockPicture
        <4>2. r = chan
          BY <2>1, <4>1 DEF OnTheirWay
        <4> QED BY <4>1, <4>2
      <3> QED BY <1>4, <2>3, <3>1, <3>2
    <2>5. \A k \in Nat : /\ DltMvs(y, k - i) \subseteq DltMvs(x, k + 1 - e) \cup NodeMvs(x)
                         /\ Later(r, k) \subseteq Later(q, k + 1) \cup D
      <3> TAKE k \in Nat
      <3>1. k - i = k /\ k + 1 - e = k /\ k \in Int
        BY <2>2
      <3>2. DltMvs(y, k) \subseteq DltMvs(x, k) \cup NodeMvs(x)
        BY <2>1, <3>1, StoreMvs
      <3>3. Later(r, k) \subseteq Later(q, k + 1)
        BY <1>8, LaterMove
      <3> QED BY <3>1, <3>2, <3>3
    <2> DEFINE d == 1
    <2>a. g + d = f /\ g \in Nat /\ d \in Nat
      BY <2>4
    <2>b. \A k \in Nat : /\ DltMvs(y, k - i) \subseteq DltMvs(x, k + d - e) \cup NodeMvs(x)
                         /\ Later(r, k) \subseteq Later(q, k + d) \cup D
      BY <2>5
    <2>c. E \subseteq D \cup NodeMvs(x)
      BY <1>7, <2>1
    <2> HIDE DEF x, y, q, r, e, i, D, E, f, g, d
    <2>d. HeldBefore(x, q, e, D, y, r, i, E, d)
      BY <1>6, <2>b, <2>c DEF HeldBefore
    <2>6. Suffices(y, r, i, E, g)
      BY <1>4, <2>a, <2>d, SufficesBy
    <2> QED BY <1>5, <2>6
  <1>9. CASE EndCommand
    <2>1. /\ done = NoCommand /\ done' # NoCommand /\ ~UnlockPicture /\ ~Launch /\ ~GetMv
          /\ HoldsMv' = HoldsMv
      <3>1. done = NoCommand /\ done' \in Command
        <4>1. chan \in Seq(Command)
          BY DEF PipelineInv, PipelineTypes
        <4>2. pcE = "idle" /\ chan # <<>> /\ done' = Head(chan)
          BY <1>9 DEF EndCommand, EStep
        <4> QED BY <4>1, <4>2, SeqHead DEF PipelineInv, PictureInv
      <3> QED BY <1>9, <3>1 DEF UnlockPicture, EStep, EndCommand, GetMv, DStep, dVars, eVars,
              HoldsMv, Begun, Command, NoCommand, Slots, NoSlot, Launch
    <2>2. e = 0 /\ i = 1
      BY <2>1 DEF One
    <2>3. Len(r) = Len(q)
      BY <2>1, LaterMove
    <2>4. g + 0 = f /\ g \in Nat
      <3>1. One(HoldsMv)' = One(HoldsMv) /\ One(HoldsMv) \in Nat
        BY <2>1, OneIs DEF One
      <3> QED BY <1>4, <2>3, <3>1
    <2>5. \A k \in Nat : /\ DltMvs(y, k - i) \subseteq DltMvs(x, k + 0 - e) \cup NodeMvs(x)
                         /\ Later(r, k) \subseteq Later(q, k + 0) \cup D
      <3> TAKE k \in Nat
      <3>1. k - i = k - 1 /\ k + 0 - e = k /\ k + 0 = k /\ k \in Int
        BY <2>2
      <3>2. DltMvs(y, k - 1) \subseteq DltMvs(x, k)
        BY <1>9, <3>1, StoreMvs
      <3>3. Later(r, k) \subseteq Later(q, k)
        BY <2>1, LaterMove
      <3> QED BY <3>1, <3>2, <3>3
    <2> DEFINE d == 0
    <2>a. g + d = f /\ g \in Nat /\ d \in Nat
      BY <2>4
    <2>b. \A k \in Nat : /\ DltMvs(y, k - i) \subseteq DltMvs(x, k + d - e) \cup NodeMvs(x)
                         /\ Later(r, k) \subseteq Later(q, k + d) \cup D
      BY <2>5
    <2>c. E \subseteq D \cup NodeMvs(x)
      BY <1>7, <2>1
    <2> HIDE DEF x, y, q, r, e, i, D, E, f, g, d
    <2>d. HeldBefore(x, q, e, D, y, r, i, E, d)
      BY <1>6, <2>b, <2>c DEF HeldBefore
    <2>6. Suffices(y, r, i, E, g)
      BY <1>4, <2>a, <2>d, SufficesBy
    <2> QED BY <1>5, <2>6
  <1>10. CASE ~UnlockPicture /\ ~EndCommand /\ ~GetMv /\ ~CancelFrame
    <2>1. done' = done
      BY <1>1, <1>10 DEF MvMoves
    <2>2. i = e
      BY <2>1 DEF One
    <2>3. g = f
      <3>1. CASE Launch
        <4>1. HoldsMv /\ ~HoldsMv'
          BY <3>1 DEF Launch, HoldsMv, Begun
        <4>2. Len(r) = Len(q) + 1
          BY <3>1, LaterMove
        <4>3. One(HoldsMv) = 1 /\ One(HoldsMv)' = 0
          BY <4>1 DEF One
        <4> QED BY <1>4, <4>2, <4>3
      <3>2. CASE ~Launch
        <4>1. HoldsMv' <=> HoldsMv
          BY <1>1, <1>10, <3>2 DEF MvMoves, PictMoves
        <4>2. Len(r) = Len(q)
          BY <1>10, <3>2, LaterMove
        <4>3. One(HoldsMv)' = One(HoldsMv)
          BY <4>1 DEF One
        <4> QED BY <4>2, <4>3
      <3> QED BY <3>1, <3>2
    <2>4. g + 0 = f /\ g \in Nat
      BY <1>4, <2>3
    <2>5. \A k \in Nat : /\ DltMvs(y, k - i) \subseteq DltMvs(x, k + 0 - e) \cup NodeMvs(x)
                         /\ Later(r, k) \subseteq Later(q, k + 0) \cup D
      <3> TAKE k \in Nat
      <3>1. k - i = k - e /\ k + 0 - e = k - e /\ k + 0 = k /\ k - e \in Int
        BY <1>4, <2>2
      <3>2. DltMvs(y, k - e) \subseteq DltMvs(x, k - e) \cup NodeMvs(x)
        BY <1>10, <3>1, StoreMvs
      <3>3. Later(r, k) \subseteq Later(q, k) \cup D
        BY <1>10, LaterMove
      <3> QED BY <3>1, <3>2, <3>3
    <2> DEFINE d == 0
    <2>a. g + d = f /\ g \in Nat /\ d \in Nat
      BY <2>4
    <2>b. \A k \in Nat : /\ DltMvs(y, k - i) \subseteq DltMvs(x, k + d - e) \cup NodeMvs(x)
                         /\ Later(r, k) \subseteq Later(q, k + d) \cup D
      BY <2>5
    <2>c. E \subseteq D \cup NodeMvs(x)
      BY <1>7, <1>10
    <2> HIDE DEF x, y, q, r, e, i, D, E, f, g, d
    <2>d. HeldBefore(x, q, e, D, y, r, i, E, d)
      BY <1>6, <2>b, <2>c DEF HeldBefore
    <2>6. Suffices(y, r, i, E, g)
      BY <1>4, <2>a, <2>d, SufficesBy
    <2> QED BY <1>5, <2>6
  <1> QED BY <1>2, <1>3, <1>8, <1>9, <1>10

LEMMA StayCount ==
  ASSUME NEW x, x \in PictMngrs, NEW y, y \in PictMngrs, NodesStay(x, y)
  PROVE  RealCount(y) = RealCount(x)
  <1>1. DOMAIN x.nodes = 1 .. Len(x.nodes) /\ DOMAIN y.nodes = 1 .. Len(y.nodes)
    BY DEF PictMngrs
  <1>2. Len(y.nodes) = Len(x.nodes)
        /\ \A i \in 1 .. Len(x.nodes) : y.nodes[i].nonExisting = x.nodes[i].nonExisting
    BY DEF NodesStay, SameNode
  <1>3. {i \in DOMAIN y.nodes : ~y.nodes[i].nonExisting}
          = {i \in DOMAIN x.nodes : ~x.nodes[i].nonExisting}
    BY <1>1, <1>2
  <1> QED BY <1>3 DEF RealCount, Occurrences

\* The pictures of the DPB and those removed, but for one for each command to come
MvTally ==
    RealCount(ctx) + Len(ctx.dlt) <= Least(NumRef) + Len(chan) + One(pcD \in Inserted)

LEMMA EndTally ==
  ASSUME PipelineInv, Next, Sized, MvTally, EndCommand
  PROVE  MvTally'
  <1>0. ctx \in PictMngrs /\ ctx' \in PictMngrs /\ Lists(ctx) /\ Lists(ctx')
    BY MngrAround, MngrTypes
  <1>1. Ended(ctx, ctx', chan[1].frm, FrmUsers, MvUsers, user, Shown)
    BY TypesStep, EndCommandCtx
  <1>2. /\ NodesStay(ctx, ctx')
        /\ ctx'.dlt = IF ctx.dlt = <<>> THEN ctx.dlt ELSE Tail(ctx.dlt)
    BY <1>1 DEF Ended
  <1>3. RealCount(ctx') = RealCount(ctx)
    BY <1>0, <1>2, StayCount
  <1>4. /\ RealCount(ctx) \in Nat /\ RealCount(ctx) <= Len(ctx.nodes) /\ Len(ctx.nodes) \in Nat
        /\ Len(ctx.dlt) \in Nat
    BY <1>0, TallyIs
  <1>5. Len(chan') = Len(chan) - 1 /\ Len(chan) \in Nat /\ Len(chan) >= 1
    <2>1. chan \in Seq(Command) /\ chan # <<>> /\ chan' = Tail(chan)
      BY DEF EndCommand, PipelineInv, PipelineTypes
    <2> QED BY <2>1, SeqHead
  <1>6. One(pcD \in Inserted)' = One(pcD \in Inserted)
    BY DEF EndCommand, EStep, dVars, One
  <1>7. Len(ctx.nodes) <= Least(NumRef) + One(pcD \in Inserted)
    BY LeastIs, <1>4 DEF PipelineInv, RoomInv, PicCount, One, Inserted
  <1> DEFINE a == One(pcD \in Inserted)
             l == Least(NumRef)
             t == RealCount(ctx)
             n == Len(ctx.dlt)
             c == Len(chan)
  <1>8. a \in Nat /\ l \in Nat
    BY OneIs, LeastIs
  <1>9. t + n <= l + c + a
    BY DEF MvTally
  <1>10. MvTally' <=> RealCount(ctx') + Len(ctx'.dlt) <= l + Len(chan') + One(pcD \in Inserted)'
    BY DEF MvTally
  <1>11. CASE ctx.dlt = <<>>
    <2>1. Len(ctx'.dlt) = 0
      BY <1>2, <1>11
    <2>2. t \in Nat /\ t <= l + a /\ c \in Nat /\ c >= 1
      <3>1. t <= Len(ctx.nodes) /\ Len(ctx.nodes) <= l + a /\ t \in Nat /\ Len(ctx.nodes) \in Nat
        BY <1>4, <1>7
      <3> HIDE DEF t, l, a, c
      <3>2. t <= l + a
        BY <1>8, <3>1
      <3> QED BY <1>5, <3>1, <3>2 DEF c
    <2>3. RealCount(ctx') = t /\ Len(chan') = c - 1 /\ One(pcD \in Inserted)' = a
      BY <1>3, <1>5, <1>6
    <2> HIDE DEF t, l, a, c
    <2>4. t + 0 <= l + (c - 1) + a
      BY <1>8, <2>2
    <2> QED BY <1>10, <2>1, <2>3, <2>4
  <1>12. CASE ctx.dlt # <<>>
    <2>1. Len(ctx'.dlt) = n - 1 /\ n \in Nat
      <3>1. ctx.dlt \in Seq(Slots \X MvIDs)
        BY <1>0 DEF Lists
      <3> QED BY <1>2, <1>12, <3>1, SeqHead
    <2>2. t \in Nat /\ c \in Nat
      BY <1>4, <1>5
    <2>3. RealCount(ctx') = t /\ Len(chan') = c - 1 /\ One(pcD \in Inserted)' = a
      BY <1>3, <1>5, <1>6
    <2> HIDE DEF t, l, a, c, n
    <2>4. t + (n - 1) <= l + (c - 1) + a
      BY <1>8, <1>9, <2>1, <2>2
    <2> QED BY <1>10, <2>1, <2>3, <2>4
  <1> QED BY <1>11, <1>12

LEMMA TallyStep ==
  ASSUME PipelineInv, Next, Sized, MvTally
  PROVE  MvTally'
  <1>0. ctx \in PictMngrs /\ ctx' \in PictMngrs /\ Lists(ctx) /\ Lists(ctx')
    BY MngrAround, MngrTypes
  <1>1. StoreKept /\ PictMoves
    BY StoreStep, PictMove
  <1>2. CASE EndCommand
    BY <1>2, EndTally
  <1> DEFINE a == One(pcD \in Inserted)
             b == One(pcD \in Inserted)'
             l == Least(NumRef)
             t == Tally(ctx)
             u == Tally(ctx')
             c == Len(chan)
             k == Len(chan')
  <1>3. a \in {0, 1} /\ b \in {0, 1} /\ l \in Nat /\ t \in Nat /\ u \in Nat
    BY <1>0, OneIs, LeastIs, TallyIs DEF One
  <1>4. t <= l + c + a
    BY DEF MvTally, Tally
  <1>5. MvTally' <=> u <= l + k + b
    BY DEF MvTally, Tally
  <1>6. c \in Nat
    BY DEF PipelineInv, PipelineTypes
  <1>7. CASE ~EndCommand /\ ~InsertPicture
    <2>1. u <= t
      <3>1. CASE Stored(ctx, ctx', {}, 0)
        BY <1>3, <3>1 DEF Stored
      <3>2. CASE Terminate /\ ctx'.nodes = ctx.nodes /\ ctx'.dlt = <<>>
        <4>1. RealCount(ctx') = RealCount(ctx) /\ Len(ctx'.dlt) = 0
          BY <3>2 DEF RealCount, Occurrences
        <4>2. RealCount(ctx) \in Nat /\ Len(ctx.dlt) \in Nat
          BY <1>0, TallyIs
        <4> QED BY <4>1, <4>2 DEF Tally
      <3> QED BY <1>1, <1>7, <3>1, <3>2 DEF StoreKept
    <2>2. CASE Launch
      <3>1. k = c + 1
        BY <1>6, <2>2, TypesStep, LaunchUsers DEF PipelineInv, PipelineTypes
      <3> HIDE DEF a, b, l, t, u, c, k
      <3> QED BY <1>3, <1>4, <1>5, <1>6, <2>1, <3>1
    <2>3. CASE ~Launch
      <3>1. k = c
        BY <1>1, <1>7, <2>3 DEF PictMoves
      <3>2. a <= b
        BY <1>1, <2>3 DEF PictMoves, One
      <3> HIDE DEF a, b, l, t, u, c, k
      <3> QED BY <1>3, <1>4, <1>5, <1>6, <2>1, <3>1, <3>2
    <2> QED BY <2>2, <2>3
  <1>8. CASE InsertPicture
    <2>1. pcD \notin Inserted /\ pcD' \in Inserted /\ chan' = chan /\ ~EndCommand /\ ~Terminate
      BY <1>8 DEF InsertPicture, DStep, Inserted, EndCommand, EStep, dVars, Terminate
    <2>2. a = 0 /\ b = 1 /\ k = c
      BY <2>1 DEF One
    <2>3. u <= t + 1
      <3>1. CASE Stored(ctx, ctx', {}, 0)
        <4>1. u <= t + 0
          BY <3>1 DEF Stored
        <4> HIDE DEF u, t
        <4> QED BY <1>3, <4>1
      <3>2. CASE Stored(ctx, ctx', {mvID}, 1)
        BY <3>2 DEF Stored
      <3> QED BY <1>1, <2>1, <3>1, <3>2 DEF StoreKept
    <2> HIDE DEF a, b, l, t, u, c, k
    <2> QED BY <1>3, <1>4, <1>5, <1>6, <2>2, <2>3
  <1> QED BY <1>2, <1>7, <1>8

\* While its references are to be dropped, the command that ended has those of the ring.
LEMMA DoneRefers ==
  ASSUME PipelineInv, Next, Sized, pcE = "unlockRefs" => done.refs = RefsOf(blk2),
         pcE' = "unlockRefs"
  PROVE  done'.refs = RefsOf(blk2)'
  <1>1. MvMoves
    BY MvMove
  <1>2. CASE EndCommand
    <2>1. /\ pcE = "idle" /\ chan # <<>> /\ done' = Head(chan) /\ refList' = refList
          /\ blk2' = blk2
      BY <1>2 DEF EndCommand, EStep
    <2>2. chan \in Seq(Command)
      BY DEF PipelineInv, PipelineTypes
    <2>3. Head(chan) = chan[1] /\ 1 \in 1 .. Len(chan)
      BY <2>1, <2>2, SeqHead
    <2>4. chan[1].refs = RefsOf(RankOf(1))
      BY <2>3 DEF PipelineInv, ReferencesInv
    <2>5. RankOf(1) = blk2
      BY <2>1, RanksClose DEF RankOf, One
    <2> QED BY <2>1, <2>3, <2>4, <2>5 DEF RefsOf
  <1>3. CASE pcE = "unlockRefs" /\ done' = done /\ blk2' = blk2
    <2>1. blk2 \in Locked
      BY <1>3, RanksClose DEF Locked
    <2>2. refList'[blk2 % RefRing] = refList[blk2 % RefRing]
      BY <2>1, ListsSame
    <2> QED BY <1>3, <2>2 DEF RefsOf
  <1> QED BY <1>1, <1>2, <1>3 DEF MvMoves

\* The buffer D prepares its picture with is new to the commands and to its references.
MvFresh ==
    HoldsMv /\ pcD \in NotInserted =>
       /\ \A k \in 1 .. Len(OnTheirWay) : mvID \notin MvsOf(OnTheirWay[k])
       /\ pcD \in Begun => \A j \in 1 .. Len(RefsOf(blk1)) : RefsOf(blk1)[j][2] # mvID
MvDone == pcE = "unlockRefs" => done.refs = RefsOf(blk2)

LEMMA MvHeldParts == MvHeldInv <=> MvTally /\ MvDone /\ MvFresh /\ MvRoom
  BY DEF MvHeldInv, MvTally, MvDone, MvFresh, MvRoom

LEMMA GetMvNew ==
  ASSUME PipelineInv, GetMv
  PROVE  MvUsers[mvID'] = 0
  <1>1. MngrInv(ctx, FrmUsers, MvUsers, user, Shown) /\ Users(FrmUsers, MvUsers)
    BY MngrNow
  <1> DEFINE x == ctx
             y == ctx'
             f == FrmUsers
             g == MvUsers
             u == user
             h == Shown
             m == ctx.mv.free[Len(ctx.mv.free)]
  <1>2. /\ x.mv.sem > 0 /\ y = [x EXCEPT !.mv = GetFreeBufID(@)] /\ m = x.mv.free[Len(x.mv.free)]
        /\ mvID' = m
    BY DEF GetMv
  <1>3. MngrInv(x, f, g, u, h) /\ Users(f, g)
    BY <1>1
  <1> HIDE DEF x, y, f, g, u, h, m
  <1>4. g[m] = 0
    BY <1>2, <1>3, GetMvIs
  <1> QED BY <1>2, <1>4 DEF g

\* The commands are no more, and they have no more references.
LEMMA QueueFresh ==
  ASSUME PipelineInv, Next, Sized, ~Launch, NEW m,
         \A k \in 1 .. Len(OnTheirWay) : m \notin MvsOf(OnTheirWay[k])
  PROVE  \A k \in 1 .. Len(OnTheirWay') : m \notin MvsOf(OnTheirWay'[k])
  <1>1. QueueMoves /\ Len(OnTheirWay) \in Nat
    BY QueueMove, LaterMove
  <1> DEFINE q == OnTheirWay
             r == OnTheirWay'
  <1>2. \/ /\ Len(r) = Len(q) /\ \A l \in 1 .. Len(q) : MvsOf(r[l]) \subseteq MvsOf(q[l])
        \/ /\ Len(r) = Len(q) - 1 /\ \A l \in 1 .. Len(r) : r[l] = q[l + 1]
    BY <1>1 DEF QueueMoves
  <1>3. Len(q) \in Nat /\ \A k \in 1 .. Len(q) : m \notin MvsOf(q[k])
    BY <1>1
  <1> HIDE DEF q, r
  <1>4. ASSUME NEW k \in 1 .. Len(r) PROVE m \notin MvsOf(r[k])
    <2>1. CASE /\ Len(r) = Len(q) /\ \A l \in 1 .. Len(q) : MvsOf(r[l]) \subseteq MvsOf(q[l])
      BY <1>3, <1>4, <2>1
    <2>2. CASE /\ Len(r) = Len(q) - 1 /\ \A l \in 1 .. Len(r) : r[l] = q[l + 1]
      <3>1. k + 1 \in 1 .. Len(q) /\ r[k] = q[k + 1]
        BY <1>3, <1>4, <2>2
      <3> QED BY <1>3, <3>1
    <2> QED BY <1>2, <2>1, <2>2
  <1> QED BY <1>4 DEF r

LEMMA FreshStep ==
  ASSUME PipelineInv, Next, Sized, MvDone, MvFresh
  PROVE  MvFresh'
  <1>1. MvMoves /\ PictMoves
    BY MvMove, PictMove
  <1> SUFFICES ASSUME HoldsMv', pcD' \in NotInserted
               PROVE  /\ \A k \in 1 .. Len(OnTheirWay') : mvID' \notin MvsOf(OnTheirWay'[k])
                      /\ pcD' \in Begun =>
                           \A j \in 1 .. Len(RefsOf(blk1)') : RefsOf(blk1)'[j][2] # mvID'
    BY DEF MvFresh
  <1>2. CASE GetMv
    <2>1. mvID' \in MvIDs /\ MvUsers[mvID'] = 0
      BY <1>2, TypesStep, GetMvCtx, GetMvNew
    <2>2. \A k \in 1 .. Len(OnTheirWay) : mvID' \notin MvsOf(OnTheirWay[k])
      <3> HIDE DEF MvUsers
      <3> QED BY <2>1, NoMvUser DEF MvDone
    <2>3. ~Launch /\ pcD' \notin Begun
      BY <1>2 DEF GetMv, DStep, Launch, Begun
    <2> QED BY <2>2, <2>3, QueueFresh
  <1>3. CASE ~GetMv
    <2>1. HoldsMv /\ mvID' = mvID
      BY <1>1, <1>3 DEF PictMoves
    <2>2. pcD \in NotInserted
      <3>1. ~PopBuffer
        BY <2>1 DEF PopBuffer, DStep, HoldsMv, Begun
      <3> QED BY <1>1, <3>1 DEF PictMoves
    <2>3. ~Launch
      BY <2>2 DEF Launch, NotInserted
    <2>4. \A k \in 1 .. Len(OnTheirWay') : mvID' \notin MvsOf(OnTheirWay'[k])
      BY <2>1, <2>2, <2>3, QueueFresh DEF MvFresh
    <2>5. ASSUME pcD' \in Begun, NEW j \in 1 .. Len(RefsOf(blk1)')
          PROVE  RefsOf(blk1)'[j][2] # mvID'
      <3>1. CASE LockRefs
        <4>1. RefsOf(blk1)' = RefsOf(blk1) /\ pcD = "lockRefs"
          BY <3>1 DEF LockRefs, DStep, RefsOf
        <4>2. PICK i \in 1 .. Len(ctx.nodes) :
                 RefsOf(blk1)[j] = <<ctx.nodes[i].frm, ctx.nodes[i].mv>>
          BY <2>5, <4>1 DEF PipelineInv, ReferencesInv
        <4>3. mvID \in MvIDs /\ MvHeld(ctx, mvID) = 0
          BY <2>1, <2>2 DEF PipelineInv, PictureInv
        <4>4. NoMvHeld(ctx, mvID)
          BY <4>3, MngrNow, MngrTypes, HeldNone
        <4>5. ctx.nodes[i].mv # mvID
          BY <4>4 DEF NoMvHeld
        <4> QED BY <2>1, <4>1, <4>2, <4>5
      <3>2. CASE ~LockRefs
        <4>1. Listed'
          BY <2>5 DEF Listed
        <4>2. RefsOf(blk1)' = RefsOf(blk1) /\ pcD \in Begun
          BY <1>1, <2>5, <3>2, <4>1 DEF MvMoves, RefsOf
        <4> QED BY <2>1, <2>2, <2>5, <4>2 DEF MvFresh
      <3> QED BY <3>1, <3>2
    <2> QED BY <2>4, <2>5
  <1> QED BY <1>2, <1>3

LEMMA MvHeldStep ==
  ASSUME PipelineInv, Next, Sized, MvHeldInv
  PROVE  MvHeldInv'
  <1>1. MvTally /\ MvDone /\ MvFresh /\ MvRoom
    BY MvHeldParts
  <1>2. MvTally'
    BY <1>1, TallyStep
  <1>3. MvDone'
    BY <1>1, DoneRefers DEF MvDone
  <1>4. MvFresh'
    BY <1>1, FreshStep
  <1>5. MvRoom'
    BY MvRoomStep
  <1>6. MvHeldInv' <=> MvTally' /\ MvDone' /\ MvFresh' /\ MvRoom'
    BY DEF MvHeldInv, MvTally, MvDone, MvFresh, MvRoom
  <1> QED BY <1>2, <1>3, <1>4, <1>5, <1>6

\* The queue with and without a command that has ended
LEMMA OnTheirWayNow ==
  ASSUME PipelineInv
  PROVE  /\ chan \in Seq(Command) /\ done \in Command \cup {NoCommand} /\ Len(chan) \in Nat
         /\ Len(OnTheirWay) = Len(chan) + One(done # NoCommand)
         /\ Len(OnTheirWay) \in Nat
         /\ done = NoCommand => OnTheirWay = chan
         /\ done # NoCommand => /\ Len(OnTheirWay) = Len(chan) + 1
                                /\ \A k \in 1 .. Len(chan) : OnTheirWay[k + 1] = chan[k]
  <1>1. chan \in Seq(Command) /\ done \in Command \cup {NoCommand}
    BY DEF PipelineInv, PipelineTypes
  <1>2. Len(chan) \in Nat
    BY <1>1
  <1> DEFINE w == pcE = "unlockRefs"
  <1>3. OnTheirWay = Queue(done, chan, w)
    BY QueueNow
  <1> HIDE DEF w
  <1>4. CASE done = NoCommand
    <2>1. Queue(done, chan, w) = chan
      BY <1>4, QueueNone
    <2> QED BY <1>1, <1>2, <1>3, <1>4, <2>1 DEF One
  <1>5. CASE done \in Command /\ done # NoCommand
    <2>1. Len(Queue(done, chan, w)) = Len(chan) + 1
          /\ \A k \in 1 .. Len(chan) : Queue(done, chan, w)[k + 1] = chan[k]
      BY <1>1, <1>5, QueueOne DEF QueuedAs
    <2> QED BY <1>1, <1>2, <1>3, <1>5, <2>1 DEF One
  <1> QED BY <1>1, <1>4, <1>5

LEMMA MvHeldStarts ==
  ASSUME Init
  PROVE  MvHeldInv
  <1>1. /\ ctx = PictMngr_Init /\ chan = <<>> /\ pcD = "idle" /\ pcE = "idle"
        /\ done = NoCommand
    BY DEF Init
  <1>2. OnTheirWay = <<>> /\ ~HoldsMv
    BY <1>1 DEF OnTheirWay, HoldsMv, Begun
  <1>3. RealCount(ctx) = 0 /\ Len(ctx.dlt) = 0
    <2>1. DOMAIN ctx.nodes = {} /\ Len(ctx.dlt) = 0
      BY <1>1 DEF PictMngr_Init
    <2> QED BY <2>1, FS_EmptySet DEF RealCount, Occurrences
  <1>4. MvTally
    BY <1>1, <1>3, LeastIs DEF MvTally, One
  <1>5. MvDone /\ MvFresh
    BY <1>1, <1>2 DEF MvDone, MvFresh
  <1>6. MvRoom
    <2>1. Len(OnTheirWay) + One(HoldsMv) = 0
      BY <1>2 DEF One
    <2> QED BY <2>1 DEF MvRoom, Suffices
  <1>7. MvHeldInv <=> MvTally /\ MvDone /\ MvFresh /\ MvRoom
    BY MvHeldParts
  <1> QED BY <1>4, <1>5, <1>6, <1>7

LEMMA MvHeldStutters ==
  ASSUME MvHeldInv, UNCHANGED vars
  PROVE  MvHeldInv'
  <1>1. /\ ctx' = ctx /\ chan' = chan /\ refList' = refList /\ blk1' = blk1 /\ blk2' = blk2
        /\ pcD' = pcD /\ mvID' = mvID /\ pcE' = pcE /\ done' = done
    BY DEF vars, dVars, eVars
  <1>2. OnTheirWay' = OnTheirWay /\ PreparedMvs' = PreparedMvs /\ HoldsMv' = HoldsMv
        /\ RefsOf(blk1)' = RefsOf(blk1) /\ RefsOf(blk2)' = RefsOf(blk2)
    BY <1>1 DEF OnTheirWay, Completed, PreparedMvs, HoldsMv, RefsOf
  <1>3. MvTally' /\ MvDone'
    BY <1>1, <1>2, MvHeldParts DEF MvTally, MvDone
  <1>4. MvFresh'
    BY <1>1, <1>2, MvHeldParts DEF MvFresh
  <1>5. MvRoom'
    BY <1>1, <1>2, MvHeldParts DEF MvRoom
  <1> QED BY <1>3, <1>4, <1>5 DEF MvHeldInv, MvTally, MvDone, MvFresh, MvRoom

\* A buffer that D waits for is held by the picture manager or by a command on its way.
LEMMA MvUserHolds ==
  ASSUME PipelineInv, MvDone, pcD = "getMv", NEW m \in MvIDs, MvUsers[m] # 0
  PROVE  \E k \in 1 .. Len(OnTheirWay) : m \in MvsOf(OnTheirWay[k])
  <1>1. /\ MvUsers = MvOf(HeldMv, done.mv, chan, Locked, refList)
        /\ chan \in Seq(Command) /\ Locked \in SUBSET (0 .. MaxPics)
        /\ done \in Command \cup {NoCommand} /\ Len(chan) \in Nat
    BY UsersNow, RanksClose DEF PipelineInv, PipelineTypes
  <1>a. HeldMv = NoMv /\ NoMv # m
    BY DEF HeldMv, HoldsMv, Begun, MvIDs, NoMv
  <1> DEFINE d == done.mv
             L == Locked
             w == pcE = "unlockRefs"
             q == OnTheirWay
  <1>2. MvOf(NoMv, d, chan, L, refList)[m] # 0
    BY <1>1, <1>a
  <1>b. L \in SUBSET (0 .. MaxPics)
    BY <1>1
  <1>c. \A i \in L : (w /\ i = blk2) \/ \E k \in 1 .. Len(chan) : i = RankOf(k)
    <2> TAKE i \in L
    <2>1. blk2 <= i /\ i < blk1 /\ ~(pcE = "advance" /\ i = blk2) /\ i \in Nat
      BY DEF Locked, Begun
    <2>2. /\ blk1 \in Nat /\ blk2 \in Nat /\ Len(chan) \in Nat
          /\ RankBase + Len(chan) + 1 = blk1 /\ RankBase \in Int
          /\ \A k \in 1 .. Len(chan) : RankOf(k) = RankBase + k
      BY RanksClose, RanksAre
    <2>3. CASE pcE \in {"unlockRefs", "advance"}
      <3>1. RankBase = blk2
        BY <2>2, <2>3 DEF RankBase, One
      <3>2. CASE i = blk2
        BY <2>1, <2>3, <3>2
      <3>3. CASE i # blk2
        <4>1. i - RankBase \in 1 .. Len(chan) /\ i = RankBase + (i - RankBase)
          BY <2>1, <2>2, <3>1, <3>3
        <4> QED BY <2>2, <4>1
      <3> QED BY <3>2, <3>3
    <2>4. CASE pcE \notin {"unlockRefs", "advance"}
      <3>1. RankBase = blk2 - 1
        BY <2>2, <2>4 DEF RankBase, One
      <3>2. i - RankBase \in 1 .. Len(chan) /\ i = RankBase + (i - RankBase)
        BY <2>1, <2>2, <3>1
      <3> QED BY <2>2, <3>2
    <2> QED BY <2>3, <2>4
  <1>d. \A k \in 1 .. Len(chan) : chan[k].refs = RefsOf(RankOf(k))
    BY DEF PipelineInv, ReferencesInv
  <1>e. w => done.refs = RefsOf(blk2) /\ done \in Command
    BY DEF MvDone, PipelineInv, PictureInv
  <1>f. q = Queue(done, chan, w)
    BY QueueNow
  <1>g. ASSUME NEW k \in 1 .. Len(chan), m \in MvsOf(chan[k])
        PROVE  \E l \in 1 .. Len(q) : m \in MvsOf(q[l])
    <2>1. CASE done = NoCommand
      BY <1>g, <2>1, OnTheirWayNow
    <2>2. CASE done # NoCommand
      <3>1. Len(q) = Len(chan) + 1 /\ q[k + 1] = chan[k] /\ Len(chan) \in Nat
        BY <1>g, <2>2, OnTheirWayNow
      <3>2. k + 1 \in 1 .. Len(q)
        BY <3>1
      <3> QED BY <1>g, <3>1, <3>2
    <2> QED BY <2>1, <2>2
  <1>h. ASSUME done \in Command, d = m \/ (w /\ \E j \in 1 .. Len(done.refs) : done.refs[j][2] = m)
        PROVE  \E l \in 1 .. Len(q) : m \in MvsOf(q[l])
    <2>0. done.mv = d
      OBVIOUS
    <2> HIDE DEF q, w, d
    <2>1. /\ Len(q) = Len(chan) + 1 /\ q[1].mv = done.mv
          /\ q[1].refs = IF w THEN done.refs ELSE <<>>
      BY <1>1, <1>f, <1>h, QueueOne DEF QueuedAs
    <2>2. m \in MvsOf(q[1])
      BY <1>h, <2>0, <2>1 DEF MvsOf
    <2>3. 1 \in 1 .. Len(q)
      BY <1>1, <2>1
    <2> QED BY <2>2, <2>3
  <1>i. d = m => done \in Command
    BY <1>1 DEF NoCommand, MvIDs, NoMv
  <1> HIDE DEF d, L, w, q
  <1>3. /\ One(d = m) \in Nat /\ One(NoMv = m) = 0
        /\ Count(chan, CmdsWith(m)) \in Nat /\ Cardinality(LockersWith(L, refList, m)) \in Nat
        /\ MvOf(NoMv, d, chan, L, refList)[m] = One(NoMv = m) + One(d = m)
              + Count(chan, CmdsWith(m)) + Cardinality(LockersWith(L, refList, m))
    BY <1>1, <1>a, <1>b, MvOfAt DEF One
  <1>4. d = m \/ Count(chan, CmdsWith(m)) # 0 \/ Cardinality(LockersWith(L, refList, m)) # 0
    BY <1>2, <1>3 DEF One
  <1>5. CASE d = m
    BY <1>5, <1>h, <1>i DEF q, w, d
  <1>6. CASE Count(chan, CmdsWith(m)) # 0
    <2>1. PICK k \in 1 .. Len(chan) : chan[k] \in CmdsWith(m)
      BY <1>1, <1>6, CountIs
    <2>2. m \in MvsOf(chan[k])
      BY <2>1 DEF CmdsWith, MvsOf
    <2> QED BY <1>g, <2>2 DEF q
  <1>7. CASE Cardinality(LockersWith(L, refList, m)) # 0
    <2>1. LockersWith(L, refList, m) # {}
      BY <1>7, FS_EmptySet
    <2>2. PICK i \in L : \E j \in 1 .. Len(RefsOf(i)) : RefsOf(i)[j][2] = m
      BY <2>1 DEF LockersWith, RefsOf
    <2>3. CASE w /\ i = blk2
      BY <1>e, <1>h, <2>2, <2>3 DEF q
    <2>4. CASE \E k \in 1 .. Len(chan) : i = RankOf(k)
      <3>1. PICK k \in 1 .. Len(chan) : i = RankOf(k)
        BY <2>4
      <3>2. chan[k].refs = RefsOf(i)
        BY <1>d, <3>1
      <3>3. m \in MvsOf(chan[k])
        BY <2>2, <3>2 DEF MvsOf
      <3> QED BY <1>g, <3>3 DEF q
    <2> QED BY <1>c, <2>2, <2>3, <2>4
  <1> QED BY <1>4, <1>5, <1>6, <1>7

LEMMA AllHeld ==
  ASSUME PipelineInv, MvDone, pcD = "getMv", ~(ctx.mv.sem > 0)
  PROVE  MvIDs \subseteq NodeMvs(ctx) \cup DltMvs(ctx, 0) \cup Later(OnTheirWay, 0)
  <1>1. /\ ctx \in PictMngrs /\ Lists(ctx) /\ MvInv(ctx.mv) /\ NodesWhole(ctx)
        /\ CountsExact(ctx, FrmUsers, MvUsers) /\ Users(FrmUsers, MvUsers)
    <2>1. MngrInv(ctx, FrmUsers, MvUsers, user, Shown) /\ Users(FrmUsers, MvUsers)
          /\ ctx \in PictMngrs
      BY MngrNow
    <2>2. Lists(ctx)
      BY <2>1, MngrTypes
    <2> HIDE DEF FrmUsers, MvUsers, Shown
    <2> QED BY <2>1, <2>2 DEF MngrInv
  <1>2. Len(ctx.mv.free) = 0
    <2>1. ctx.mv.sem \in Nat /\ ctx.mv.sem = Len(ctx.mv.free)
      BY <1>1 DEF MvInv, MvBufPools
    <2> QED BY <2>1
  <1>3. ASSUME NEW m \in MvIDs
        PROVE  m \in NodeMvs(ctx) \cup DltMvs(ctx, 0) \cup Later(OnTheirWay, 0)
    <2> DEFINE g == MvUsers
               a == FrmUsers
    <2>1. ctx.mv.cnt[m] # 0
      BY <1>1, <1>2 DEF MvInv
    <2>2. Users(a, g) /\ CountsExact(ctx, a, g)
      BY <1>1
    <2>3. g[m] # 0 => \E k \in 1 .. Len(OnTheirWay) : m \in MvsOf(OnTheirWay[k])
      BY MvUserHolds
    <2> HIDE DEF a, g
    <2>4. g[m] \in Nat /\ MvHeld(ctx, m) \in Nat /\ ctx.mv.cnt[m] = g[m] + MvHeld(ctx, m)
      BY <1>1, <2>2, CountsAre
    <2>5. CASE g[m] # 0
      <3>1. PICK k \in 1 .. Len(OnTheirWay) : m \in MvsOf(OnTheirWay[k])
        BY <2>3, <2>5
      <3>2. k > 0
        BY <3>1, OnTheirWayNow
      <3> QED BY <3>1, <3>2 DEF Later
    <2>6. CASE MvHeld(ctx, m) # 0
      <3>1. ~NoMvHeld(ctx, m)
        BY <1>1, <2>6, HeldNone
      <3>2. CASE \E i \in 1 .. Len(ctx.nodes) : ctx.nodes[i].mv = m
        <4>1. PICK i \in 1 .. Len(ctx.nodes) : ctx.nodes[i].mv = m
          BY <3>2
        <4>2. ~ctx.nodes[i].nonExisting
          BY <1>1, <4>1 DEF NodesWhole, MvIDs, NoMv
        <4> QED BY <4>1, <4>2 DEF NodeMvs
      <3>3. CASE \E i \in 1 .. Len(ctx.dlt) : ctx.dlt[i][2] = m
        <4>1. PICK i \in 1 .. Len(ctx.dlt) : ctx.dlt[i][2] = m
          BY <3>3
        <4>2. i > 0
          BY <1>1, <4>1, MngrTypes
        <4> QED BY <4>1, <4>2 DEF DltMvs
      <3> QED BY <3>1, <3>2, <3>3 DEF NoMvHeld
    <2> QED BY <2>1, <2>4, <2>5, <2>6
  <1> QED BY <1>3

\* While D waits for a motion vector buffer, no more than the other entries of the stack are
\* on their way.
LEMMA FewOnTheirWay ==
  ASSUME PipelineInv, pcD = "getMv"
  PROVE  Len(OnTheirWay) \in Nat /\ Len(OnTheirWay) <= StackSize - 1 /\ StackSize \in Nat
  <1>1. /\ Len(chan) \in Nat /\ Len(OnTheirWay) = Len(chan) + One(done # NoCommand)
        /\ Len(OnTheirWay) \in Nat
    BY OnTheirWayNow
  <1>2. /\ sem \in Nat /\ blk1 \in Nat /\ blk2 \in Nat /\ pcE \in LabelsE /\ StackSize \in Nat
    BY DecPipelineAssumption DEF PipelineInv, PipelineTypes
  <1>3. pcD \in Preparing /\ pcD \notin {"flushAll", "peek"}
    BY DEF Preparing
  <1>4. sem + (blk1 - blk2) + One(pcE \in {"peek", "post"}) + 1 + 0 = StackSize
    BY <1>2, <1>3 DEF PipelineInv, SemaphoreInv, One
  <1>5. Len(chan) + One(pcE \in {"unlockRefs", "advance"}) = blk1 - blk2
    BY DEF PipelineInv, SemaphoreInv
  <1>6. One(done # NoCommand)
          <= One(pcE \in {"peek", "post"}) + One(pcE \in {"unlockRefs", "advance"})
    BY <1>2 DEF PipelineInv, PictureInv, LabelsE, One
  <1> DEFINE a == One(pcE \in {"peek", "post"})
             b == One(pcE \in {"unlockRefs", "advance"})
             c == One(done # NoCommand)
  <1>7. a \in Int /\ b \in Int /\ c \in Int
    BY OneIs
  <1> HIDE DEF a, b, c
  <1>8. Len(OnTheirWay) = Len(chan) + c /\ sem + (blk1 - blk2) + a + 1 = StackSize
        /\ Len(chan) + b = blk1 - blk2 /\ c <= a + b
    BY <1>1, <1>2, <1>4, <1>5, <1>6, <1>7 DEF a, b, c
  <1> QED BY <1>1, <1>2, <1>7, <1>8

LEMMA MvSufficesNow ==
  ASSUME PipelineInv, MvHeldInv, NumMv >= Least(NumRef) + StackSize
  PROVE  MvSuffice
  <1> SUFFICES ASSUME pcD = "getMv", ~(ctx.mv.sem > 0)
               PROVE  FALSE
    BY DEF MvSuffice
  <1> DEFINE x == ctx
             q == OnTheirWay
             f == Len(q)
             e == One(done # NoCommand)
             l == Least(NumRef)
  <1>1. MvIDs \subseteq NodeMvs(x) \cup DltMvs(x, 0) \cup Later(q, 0)
    <2>1. MvDone
      BY MvHeldParts
    <2> QED BY <2>1, AllHeld
  <1>2. /\ ctx \in PictMngrs /\ f \in Nat /\ f <= StackSize - 1 /\ StackSize \in Nat
        /\ l \in Nat /\ NumMv \in Nat /\ f = Len(chan) + e /\ Len(chan) \in Nat
    BY MngrNow, FewOnTheirWay, OnTheirWayNow, LeastIs, MvBufPoolAssumption
  <1>3. e = IF done # NoCommand THEN 1 ELSE 0
    BY DEF One
  <1>4. PreparedMvs = {} /\ One(HoldsMv) = 0
    <2>1. ~HoldsMv
      BY DEF HoldsMv, Begun
    <2> QED BY <2>1 DEF PreparedMvs, Begun, One
  <1>5. Cardinality(MvIDs) = NumMv
    <2>1. 0 \in Int /\ NumMv - 1 \in Int
      BY <1>2
    <2>2. Cardinality(0 .. NumMv - 1) = IF 0 > NumMv - 1 THEN 0 ELSE (NumMv - 1) - 0 + 1
      BY <2>1, FS_Interval
    <2> QED BY <1>2, <2>2 DEF MvIDs
  <1>6. Suffices(x, q, e, {}, f) /\ Tally(x) <= l + Len(chan) /\ Len(x.nodes) <= l
    <2>1. pcD \notin Inserted /\ pcD \notin {"mark", "clean"}
      BY DEF Inserted
    <2>2. One(pcD \in Inserted) = 0
      BY <2>1 DEF One
    <2>3. RealCount(x) + Len(x.dlt) <= Least(NumRef) + Len(chan)
      BY <1>2, <2>2 DEF MvHeldInv
    <2>4. Len(x.nodes) <= l
      BY <2>1 DEF PipelineInv, RoomInv, PicCount
    <2>5. Len(q) + One(HoldsMv) = f
      BY <1>2, <1>4
    <2>6. Suffices(x, q, e, {}, f)
      BY <1>4, <2>5 DEF MvHeldInv
    <2> QED BY <2>3, <2>4, <2>6 DEF Tally
  <1>7. NumMv >= l + StackSize
    OBVIOUS
  <1> HIDE DEF x, q, f, e, l
  <1>8. CASE f = 0
    <2>1. Len(chan) = 0 /\ Later(q, 0) = {}
      <3>1. e = 0 /\ Len(chan) = 0
        BY <1>2, <1>3, <1>8
      <3>2. Later(q, 0) = {}
        BY <1>8 DEF Later, f
      <3> QED BY <3>1, <3>2
    <2>2. Cardinality(NodeMvs(x) \cup DltMvs(x, 0)) <= l
      <3>1. Tally(x) <= l + 0 /\ 0 \in Nat
        BY <1>6, <2>1
      <3> QED BY <1>2, <1>6, <3>1, RestFits DEF x
    <2>3. NodeMvs(x) \cup DltMvs(x, 0) = MvIDs
      BY <1>1, <2>1 DEF NodeMvs, DltMvs
    <2>4. NumMv <= l
      BY <1>5, <2>2, <2>3
    <2> QED BY <1>2, <1>7, <1>8, <2>4
  <1>9. CASE f >= 1
    <2>1. Cardinality(HeldAfter(x, q, e, {}, 0)) <= Least(NumRef) + f - 0
      <3>1. 0 \in 0 .. f - 1
        BY <1>2, <1>9
      <3> QED BY <1>6, <3>1 DEF Suffices
    <2>2. DltMvs(x, 0) \subseteq DltMvs(x, 0 - e)
      BY <1>3 DEF DltMvs
    <2>3. HeldAfter(x, q, e, {}, 0)
            = NodeMvs(x) \cup DltMvs(x, 0 - e) \cup {} \cup Later(q, 0)
      BY HeldParts
    <2>4. HeldAfter(x, q, e, {}, 0) \in SUBSET MvIDs
      BY HeldSet
    <2>5. HeldAfter(x, q, e, {}, 0) = MvIDs
      BY <1>1, <2>2, <2>3, <2>4
    <2>6. NumMv <= l + f
      BY <1>2, <1>5, <2>1, <2>5 DEF l
    <2> QED BY <1>2, <1>7, <2>6
  <1> QED BY <1>2, <1>8, <1>9

\* D never waits for a motion vector buffer, whatever the stream: AL_Default_Decoder_AllocPool
\* gives the pool as many as the DPB keeps, one for each command on the stack, and more
\* (DefaultDecoder.c:943-950).
THEOREM MvBuffersSuffice ==
  ASSUME Sized, NumMv >= Least(NumRef) + StackSize
  PROVE  Spec => []MvSuffice
  <1>1. Init => MvHeldInv
    BY MvHeldStarts
  <1>2. PipelineInv /\ MvHeldInv /\ [Next]_vars => MvHeldInv'
    BY MvHeldStep, MvHeldStutters
  <1>3. PipelineInv /\ MvHeldInv => MvSuffice
    BY MvSufficesNow
  <1>4. Spec => []PipelineInv
    BY PipelineInvariant
  <1> QED BY <1>1, <1>2, <1>3, <1>4, PTL DEF Spec
=============================================================================
