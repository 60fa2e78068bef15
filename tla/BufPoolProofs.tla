---------------------------- MODULE BufPoolProofs ----------------------------
(***************************************************************************)
(* Safety of AL_TBufPool for every number of threads and of buffers, and   *)
(* for every user of the pool whose steps on it are PoolActs.              *)
(***************************************************************************)
EXTENDS BufPool, FiniteSetTheorems, TLAPS

\* The pool holds at least one buffer.
LEMMA MaxElemPositive == MaxElem \in Nat /\ MaxElem > 0
  <1>1. Cardinality(Buffers) \in Nat /\ Cardinality(Buffers) # 0
    BY BufPoolAssumption, FS_CardinalityType, FS_EmptySet
  <1> QED BY <1>1 DEF MaxElem

\* The slot after a slot: one further, or back to the first one.
LEMMA NextSlotIs ==
  ASSUME NEW s \in Slots
  PROVE  NextSlot(s) \in Slots /\ NextSlot(s) = IF s = MaxElem THEN 0 ELSE s + 1
  <1> HIDE DEF MaxElem
  <1> QED BY MaxElemPositive DEF NextSlot, Slots

\* The slot some places after a slot of the ring.
LEMMA SlotAfter ==
  ASSUME NEW h \in Slots, NEW k \in 0 .. MaxElem
  PROVE  /\ (h + k) % (MaxElem + 1) \in Slots
         /\ (h + k) % (MaxElem + 1) = IF h + k <= MaxElem THEN h + k ELSE h + k - MaxElem - 1
  <1> HIDE DEF MaxElem
  <1> QED BY MaxElemPositive DEF Slots

\* The groups of threads and buffers that the invariant counts are finite.
LEMMA GroupsFinite ==
  /\ IsFiniteSet(OnTheWay) /\ IsFiniteSet(Taken) /\ IsFiniteSet(Storing)
  /\ IsFiniteSet(Referenced) /\ IsFiniteSet(Unmade)
  BY BufPoolAssumption, FS_Subset DEF OnTheWay, Taken, Storing, Referenced, Unmade

\* Their sizes are natural numbers.
LEMMA CountsNat ==
  /\ Cardinality(OnTheWay) \in Nat /\ Cardinality(Taken) \in Nat /\ Cardinality(Storing) \in Nat
  /\ Cardinality(Referenced) \in Nat /\ Cardinality(Unmade) \in Nat
  BY GroupsFinite, FS_CardinalityType

\* The size of two sets that share nothing.
LEMMA SizeOfBoth ==
  ASSUME NEW A, NEW B, IsFiniteSet(A), IsFiniteSet(B), A \cap B = {}
  PROVE  Cardinality(A \cup B) = Cardinality(A) + Cardinality(B)
  <1>1. Cardinality(A) \in Nat /\ Cardinality(B) \in Nat /\ Cardinality({}) = 0
    BY FS_CardinalityType, FS_EmptySet
  <1>2. Cardinality(A \cup B) = Cardinality(A) + Cardinality(B) - Cardinality(A \cap B)
    BY FS_Union
  <1>3. Cardinality(A \cap B) = 0
    BY <1>1
  <1> QED BY <1>1, <1>2, <1>3

\* One element more.
LEMMA OneMore ==
  ASSUME NEW A, IsFiniteSet(A), NEW x, x \notin A
  PROVE  Cardinality(A \cup {x}) = Cardinality(A) + 1
  BY FS_AddElement

\* One element less.
LEMMA OneLess ==
  ASSUME NEW A, IsFiniteSet(A), NEW x \in A
  PROVE  Cardinality(A \ {x}) = Cardinality(A) - 1
  BY FS_RemoveElement

\* Who is between the ring and its semaphore has a buffer in hand.
LEMMA TransfersFit ==
  ASSUME PoolTypeOK, HandsFull
  PROVE  /\ Cardinality(Taken) + Cardinality(Storing) <= Cardinality(OnTheWay)
         /\ \A t \in OnTheWay : pc[t] = "getSpace" =>
                Cardinality(Taken) + Cardinality(Storing) < Cardinality(OnTheWay)
  <1>1. /\ Taken \cap Storing = {}
        /\ Taken \cup Storing \subseteq OnTheWay
        /\ \A t \in OnTheWay : pc[t] = "getSpace" => t \notin Taken \cup Storing
    BY DEF PoolTypeOK, HandsFull, Taken, Storing, OnTheWay
  <1>2. Cardinality(Taken \cup Storing) = Cardinality(Taken) + Cardinality(Storing)
    BY <1>1, GroupsFinite, SizeOfBoth
  <1>3. Cardinality(Taken \cup Storing) <= Cardinality(OnTheWay)
    BY <1>1, GroupsFinite, FS_Subset
  <1>4. \A t \in OnTheWay : pc[t] = "getSpace" =>
            Cardinality(Taken \cup Storing) # Cardinality(OnTheWay)
    BY <1>1, GroupsFinite, FS_Subset
  <1> QED BY <1>2, <1>3, <1>4, CountsNat

\* A buffer on its way, or not made yet, leaves a slot of the ring free; whoever has to wait for
\* the semaphore of free slots finds a permit.
LEMMA Room ==
  ASSUME PoolInv
  PROVE  /\ OnTheWay # {} => iBufNumber < MaxElem
         /\ Unmade # {} => iBufNumber < MaxElem /\ hSpaceSem > 0
         /\ \A t \in Threads : pc[t] = "getSpace" => hSpaceSem > 0
  <1>1. /\ PoolTypeOK /\ HandsFull /\ BuffersCounted /\ SlotsCounted
        /\ iBufNumber \in Nat /\ hSpaceSem \in Nat /\ MaxElem \in Nat
    BY MaxElemPositive DEF PoolInv, PoolTypeOK
  <1>2. /\ OnTheWay # {} => Cardinality(OnTheWay) > 0
        /\ Unmade # {} => Cardinality(Unmade) > 0
    BY GroupsFinite, CountsNat, FS_EmptySet
  <1>3. \A t \in Threads : pc[t] = "getSpace" => t \in OnTheWay
    BY <1>1 DEF HandsFull, OnTheWay
  <1> QED BY <1>1, <1>2, <1>3, CountsNat, TransfersFit DEF BuffersCounted, SlotsCounted
-----------------------------------------------------------------------------
Labels == {"idle", "look", "wait", "asleep", "woken", "postSpace", "getSpace", "store"}
Transfers == {"postSpace", "getSpace", "store"}

\* Does a step that leads the threads to f move nobody into or out of a transfer
SameTransfers(f) ==
  /\ f \in [Threads -> Labels]
  /\ \A t \in Threads, l \in Transfers : f[t] = l <=> pc[t] = l

\* The event wakes threads and moves nobody else.
LEMMA EventMovesSleepers ==
  ASSUME NEW f \in [Threads -> Labels], SetEvent(f)
  PROVE  /\ pc' \in [Threads -> Labels] /\ signaled' \in BOOLEAN
         /\ \A t \in Threads, l \in Transfers \cup {"idle", "look", "wait"} : pc'[t] = l <=> f[t] = l
  <1>1. CASE Asleep(f) = {}
    BY <1>1 DEF SetEvent
  <1>2. ASSUME NEW w \in Asleep(f), pc' = [f EXCEPT ![w] = "woken"]
        PROVE  /\ pc' \in [Threads -> Labels]
               /\ \A t \in Threads, l \in Transfers \cup {"idle", "look", "wait"} : pc'[t] = l <=> f[t] = l
    BY <1>2 DEF Asleep, Labels, Transfers
  <1> QED BY <1>1, <1>2 DEF SetEvent

\* A step that moves no buffer keeps the invariant.
LEMMA QuietStep ==
  ASSUME PoolInv, SameTransfers(pc'), isDecommited' \in BOOLEAN, signaled' \in BOOLEAN,
         UNCHANGED <<ring, zHead, zTail, iBufNumber, hSpaceSem, made, refs, pElem>>
  PROVE  PoolInv'
  <1>1. Taken' = Taken /\ Storing' = Storing /\ OnTheWay' = OnTheWay /\ Referenced' = Referenced
        /\ Unmade' = Unmade /\ Stored' = Stored
    BY DEF SameTransfers, Transfers, Taken, Storing, OnTheWay, Referenced, Unmade, Stored
  <1>2. PoolTypeOK'
    BY DEF PoolInv, PoolTypeOK, SameTransfers, Labels
  <1>3. HandsFull'
    BY DEF PoolInv, HandsFull, SameTransfers, Transfers
  <1>4. RingApart' /\ HandsApart' /\ Somewhere'
    BY <1>1 DEF PoolInv, RingApart, HandsApart, Somewhere
  <1>5. BuffersCounted' /\ SlotsCounted'
    BY <1>1 DEF PoolInv, BuffersCounted, SlotsCounted
  <1> QED BY <1>2, <1>3, <1>4, <1>5 DEF PoolInv

\* What the ring holds is in its slots.
LEMMA StoredSlots ==
  ASSUME PoolTypeOK
  PROVE  /\ DOMAIN Stored = 1 .. iBufNumber
         /\ \A i \in 1 .. iBufNumber : Stored[i] = ring[(zHead + i - 1) % (MaxElem + 1)]
         /\ iBufNumber > 0 => Stored[1] = ring[zHead]
  <1> HIDE DEF MaxElem
  <1>1. iBufNumber > 0 => (zHead + 1 - 1) % (MaxElem + 1) = zHead
    <2>1. zHead \in Slots /\ zHead + 1 - 1 = zHead + 0 /\ 0 \in 0 .. MaxElem
      BY MaxElemPositive DEF PoolTypeOK, Slots
    <2> QED BY <2>1, SlotAfter DEF Slots
  <1> QED BY <1>1 DEF Stored, PoolTypeOK

\* Taking the oldest buffer moves the others up.
LEMMA StoredAfterTake ==
  ASSUME PoolTypeOK, iBufNumber > 0, ring' = ring, zHead' = NextSlot(zHead),
         iBufNumber' = iBufNumber - 1
  PROVE  /\ DOMAIN Stored' = 1 .. iBufNumber - 1
         /\ \A i \in 1 .. iBufNumber - 1 : Stored'[i] = Stored[i + 1]
         /\ (zHead + iBufNumber) % (MaxElem + 1) = (zHead' + iBufNumber') % (MaxElem + 1)
  <1> HIDE DEF MaxElem
  <1>1. /\ zHead \in Slots /\ zHead' \in Slots /\ iBufNumber \in 1 .. MaxElem
        /\ zHead' = IF zHead = MaxElem THEN 0 ELSE zHead + 1
    BY NextSlotIs, MaxElemPositive DEF PoolTypeOK
  <1>2. ASSUME NEW i \in 0 .. iBufNumber - 1
        PROVE  (zHead' + i) % (MaxElem + 1) = (zHead + (i + 1)) % (MaxElem + 1)
    <2>1. /\ i \in 0 .. MaxElem /\ i + 1 \in 0 .. MaxElem
      BY <1>1, MaxElemPositive
    <2>2. (zHead' + i) % (MaxElem + 1) = IF zHead' + i <= MaxElem THEN zHead' + i
                                                              ELSE zHead' + i - MaxElem - 1
      BY <1>1, <2>1, SlotAfter
    <2>3. (zHead + (i + 1)) % (MaxElem + 1) = IF zHead + (i + 1) <= MaxElem THEN zHead + (i + 1)
                                                              ELSE zHead + (i + 1) - MaxElem - 1
      BY <1>1, <2>1, SlotAfter
    <2> QED BY <1>1, <2>1, <2>2, <2>3, MaxElemPositive DEF Slots
  <1>3. ASSUME NEW i \in 1 .. iBufNumber - 1 PROVE Stored'[i] = Stored[i + 1]
    <2>1. i - 1 \in 0 .. iBufNumber - 1 /\ i \in 1 .. iBufNumber' /\ i + 1 \in 1 .. iBufNumber
      BY <1>1
    <2>2. /\ zHead' + i - 1 = zHead' + (i - 1) /\ zHead + (i + 1) - 1 = zHead + ((i - 1) + 1)
      BY <1>1, <2>1, MaxElemPositive DEF Slots
    <2>3. (zHead' + i - 1) % (MaxElem + 1) = (zHead + (i + 1) - 1) % (MaxElem + 1)
      BY <1>2, <2>1, <2>2
    <2>4. Stored'[i] = ring[(zHead' + i - 1) % (MaxElem + 1)]
      BY <2>1 DEF Stored, MaxElem
    <2>5. Stored[i + 1] = ring[(zHead + (i + 1) - 1) % (MaxElem + 1)]
      BY <2>1 DEF Stored
    <2> QED BY <2>3, <2>4, <2>5
  <1>4. (zHead + iBufNumber) % (MaxElem + 1) = (zHead' + iBufNumber') % (MaxElem + 1)
    <2>1. iBufNumber - 1 \in 0 .. iBufNumber - 1 /\ (iBufNumber - 1) + 1 = iBufNumber
      BY <1>1
    <2> QED BY <1>2, <2>1
  <1>5. DOMAIN Stored' = 1 .. iBufNumber - 1
    BY DEF Stored
  <1> QED BY <1>3, <1>4, <1>5

\* A buffer stored at the tail comes after the others.
LEMMA StoredAfterStore ==
  ASSUME PoolTypeOK, iBufNumber < MaxElem, NEW b \in Buffers,
         ring' = [ring EXCEPT ![zTail] = b], zTail' = NextSlot(zTail),
         zHead' = zHead, iBufNumber' = iBufNumber + 1
  PROVE  /\ DOMAIN Stored' = 1 .. iBufNumber + 1
         /\ \A i \in 1 .. iBufNumber : Stored'[i] = Stored[i]
         /\ Stored'[iBufNumber + 1] = b
         /\ zTail' = (zHead' + iBufNumber') % (MaxElem + 1)
         /\ ring' \in [Slots -> Buffers \cup {NoBuf}] /\ zTail' \in Slots
         /\ iBufNumber' \in 0 .. MaxElem
  <1> HIDE DEF MaxElem
  <1>1. /\ zHead \in Slots /\ zTail \in Slots /\ iBufNumber \in 0 .. MaxElem
        /\ ring \in [Slots -> Buffers \cup {NoBuf}]
        /\ zTail = (zHead + iBufNumber) % (MaxElem + 1)
        /\ zTail' = IF zTail = MaxElem THEN 0 ELSE zTail + 1
    BY NextSlotIs DEF PoolTypeOK
  <1>2. ASSUME NEW i \in 0 .. iBufNumber + 1
        PROVE  /\ (zHead + i) % (MaxElem + 1) \in Slots
               /\ (zHead + i) % (MaxElem + 1) = IF zHead + i <= MaxElem THEN zHead + i
                                                                      ELSE zHead + i - MaxElem - 1
    <2>1. i \in 0 .. MaxElem
      BY <1>1, MaxElemPositive
    <2> QED BY <1>1, <2>1, SlotAfter
  <1>3. ASSUME NEW i \in 1 .. iBufNumber PROVE Stored'[i] = Stored[i]
    <2>1. i - 1 \in 0 .. iBufNumber + 1 /\ i \in 1 .. iBufNumber' /\ zHead + i - 1 = zHead + (i - 1)
          /\ iBufNumber \in 0 .. iBufNumber + 1
      BY <1>1, MaxElemPositive DEF Slots
    <2>2. (zHead + i - 1) % (MaxElem + 1) # zTail /\ (zHead + i - 1) % (MaxElem + 1) \in Slots
      BY <1>1, <1>2, <2>1, MaxElemPositive DEF Slots
    <2>3. Stored'[i] = ring'[(zHead + i - 1) % (MaxElem + 1)]
      BY <2>1 DEF Stored, MaxElem
    <2>4. Stored[i] = ring[(zHead + i - 1) % (MaxElem + 1)]
      BY <2>1 DEF Stored
    <2> QED BY <1>1, <2>2, <2>3, <2>4
  <1>4. Stored'[iBufNumber + 1] = b
    <2>1. iBufNumber + 1 \in 1 .. iBufNumber' /\ zHead + (iBufNumber + 1) - 1 = zHead + iBufNumber
      BY <1>1, MaxElemPositive DEF Slots
    <2>2. Stored'[iBufNumber + 1] = ring'[(zHead + (iBufNumber + 1) - 1) % (MaxElem + 1)]
      BY <2>1 DEF Stored, MaxElem
    <2> QED BY <1>1, <2>1, <2>2
  <1>5. zTail' = (zHead' + iBufNumber') % (MaxElem + 1)
    <2>1. iBufNumber \in 0 .. iBufNumber + 1 /\ iBufNumber + 1 \in 0 .. iBufNumber + 1
      BY <1>1, MaxElemPositive
    <2> QED BY <1>1, <1>2, <2>1, MaxElemPositive DEF Slots
  <1>6. DOMAIN Stored' = 1 .. iBufNumber + 1
    BY DEF Stored
  <1>7. /\ ring' \in [Slots -> Buffers \cup {NoBuf}] /\ zTail' \in Slots
        /\ iBufNumber' \in 0 .. MaxElem
    BY <1>1, MaxElemPositive DEF Slots
  <1> QED BY <1>3, <1>4, <1>5, <1>6, <1>7
-----------------------------------------------------------------------------
(* Each step on the pool keeps the invariant *)

\* A buffer is made and put at the end of the ring, for which there is room.
LEMMA AllocBufKeeps ==
  ASSUME PoolInv, NEW b \in Buffers, AllocBuf(b)
  PROVE  PoolInv'
  <1> HIDE DEF MaxElem
  <1>1. /\ PoolTypeOK /\ HandsFull /\ RingApart /\ HandsApart /\ Somewhere
        /\ BuffersCounted /\ SlotsCounted
        /\ b \in Unmade /\ iBufNumber < MaxElem /\ hSpaceSem > 0
    BY Room DEF PoolInv, AllocBuf, Unmade
  <1>2. /\ DOMAIN Stored' = 1 .. iBufNumber + 1 /\ DOMAIN Stored = 1 .. iBufNumber
        /\ \A i \in 1 .. iBufNumber : Stored'[i] = Stored[i]
        /\ Stored'[iBufNumber + 1] = b
        /\ zTail' = (zHead' + iBufNumber') % (MaxElem + 1)
        /\ ring' \in [Slots -> Buffers \cup {NoBuf}] /\ zTail' \in Slots
        /\ iBufNumber' \in 0 .. MaxElem
    BY <1>1, StoredAfterStore, StoredSlots DEF AllocBuf
  <1>3. SameTransfers(pc') /\ signaled' \in BOOLEAN
    BY <1>1, EventMovesSleepers DEF AllocBuf, PoolTypeOK, SameTransfers, Labels, Transfers
  <1>4. /\ Unmade' = Unmade \ {b} /\ OnTheWay' = OnTheWay /\ Referenced' = Referenced
        /\ Taken' = Taken /\ Storing' = Storing
    BY <1>3 DEF AllocBuf, Unmade, OnTheWay, Referenced, SameTransfers, Taken, Storing, Transfers
  <1>5. Cardinality(Unmade') = Cardinality(Unmade) - 1
    BY <1>1, <1>4, GroupsFinite, OneLess
  <1>6. PoolTypeOK'
    <2>1. hSpaceSem' \in 0 .. MaxElem
      BY <1>1, MaxElemPositive DEF AllocBuf, PoolTypeOK
    <2> QED BY <1>1, <1>2, <1>3, <2>1 DEF PoolTypeOK, AllocBuf, SameTransfers, Labels, MaxElem
  <1>7. HandsFull'
    BY <1>1, <1>3 DEF HandsFull, SameTransfers, Transfers, AllocBuf
  <1>8. RingApart'
    <2>1. b \notin made /\ refs[b] = {} /\ \A t \in Threads : pElem[t] # b
      BY <1>1, BufPoolAssumption DEF Unmade, Somewhere, HandsApart, OnTheWay
    <2>2. \A i \in 1 .. iBufNumber : Stored[i] # b
      BY <1>1, <1>2, <2>1 DEF RingApart
    <2>3. iBufNumber \in Nat
      BY <1>1 DEF PoolTypeOK
    <2> QED BY <1>1, <1>2, <2>1, <2>2, <2>3 DEF RingApart, AllocBuf
  <1>9. HandsApart'
    BY <1>1, <1>4 DEF HandsApart, AllocBuf
  <1>10. Somewhere'
    <2>1. iBufNumber \in Nat
      BY <1>1 DEF PoolTypeOK
    <2> QED BY <1>1, <1>2, <1>4, <2>1 DEF Somewhere, AllocBuf
  <1>11. BuffersCounted' /\ SlotsCounted'
    <2>1. /\ iBufNumber \in Nat /\ hSpaceSem \in Nat
          /\ iBufNumber' = iBufNumber + 1 /\ hSpaceSem' = hSpaceSem - 1
      BY <1>1 DEF PoolTypeOK, AllocBuf
    <2> QED BY <1>1, <1>4, <1>5, <2>1, CountsNat, MaxElemPositive
            DEF BuffersCounted, SlotsCounted, MaxElem
  <1> QED BY <1>6, <1>7, <1>8, <1>9, <1>10, <1>11 DEF PoolInv

\* The oldest buffer of the ring goes to the hands of one thread.
LEMMA TakeKeeps ==
  ASSUME PoolInv, NEW t \in Threads, Take(t)
  PROVE  PoolInv'
  <1> HIDE DEF MaxElem
  <1> DEFINE b == ring[zHead]
  <1>1. /\ PoolTypeOK /\ HandsFull /\ RingApart /\ HandsApart /\ Somewhere
        /\ BuffersCounted /\ SlotsCounted
        /\ iBufNumber \in 1 .. MaxElem /\ pc[t] = "look" /\ pElem[t] = NoBuf
    BY MaxElemPositive DEF PoolInv, Take, HandsFull, PoolTypeOK
  <1>2. /\ DOMAIN Stored' = 1 .. iBufNumber - 1 /\ DOMAIN Stored = 1 .. iBufNumber
        /\ \A i \in 1 .. iBufNumber - 1 : Stored'[i] = Stored[i + 1]
        /\ Stored[1] = b
        /\ (zHead + iBufNumber) % (MaxElem + 1) = (zHead' + iBufNumber') % (MaxElem + 1)
    BY <1>1, StoredAfterTake, StoredSlots DEF Take
  <1>3. /\ b \in made /\ b \in Buffers /\ b # NoBuf /\ refs[b] = {} /\ \A u \in Threads : pElem[u] # b
        /\ \A i \in 2 .. iBufNumber : Stored[i] # b
    BY <1>1, <1>2, BufPoolAssumption DEF RingApart, PoolTypeOK
  <1> HIDE DEF b
  <1>4. /\ Unmade' = Unmade /\ Referenced' = Referenced /\ Storing' = Storing
        /\ OnTheWay' = OnTheWay \cup {t} /\ t \notin OnTheWay
        /\ Taken' = Taken \cup {t} /\ t \notin Taken
        /\ pElem' = [pElem EXCEPT ![t] = b]
    BY <1>1, <1>3 DEF Take, Unmade, OnTheWay, Referenced, Taken, Storing, PoolTypeOK, b
  <1>5. /\ Cardinality(OnTheWay') = Cardinality(OnTheWay) + 1
        /\ Cardinality(Taken') = Cardinality(Taken) + 1
    BY <1>4, GroupsFinite, OneMore
  <1>6. PoolTypeOK'
    <2>1. /\ zHead' \in Slots /\ iBufNumber' \in 0 .. MaxElem
      BY <1>1, NextSlotIs, MaxElemPositive DEF Take, PoolTypeOK
    <2> QED BY <1>1, <1>2, <1>3, <1>4, <2>1 DEF PoolTypeOK, Take, MaxElem
  <1>7. HandsFull'
    BY <1>1, <1>3, <1>4 DEF HandsFull, Take, PoolTypeOK
  <1>8. RingApart'
    <2>1. iBufNumber \in Nat /\ \A i \in 1 .. iBufNumber - 1 : i + 1 \in 2 .. iBufNumber
      BY <1>1, MaxElemPositive
    <2>2. \A i \in 1 .. iBufNumber - 1 :
              /\ Stored[i + 1] \in made /\ refs[Stored[i + 1]] = {} /\ Stored[i + 1] # b
              /\ \A u \in Threads : pElem'[u] # Stored[i + 1]
      BY <1>1, <1>2, <1>3, <1>4, <2>1 DEF RingApart, PoolTypeOK
    <2>3. \A i, j \in 1 .. iBufNumber - 1 : Stored[i + 1] = Stored[j + 1] => i = j
      BY <1>1, <1>2, <2>1 DEF RingApart
    <2> QED BY <1>2, <2>2, <2>3 DEF RingApart, Take
  <1>9. HandsApart'
    <2>1. \A u \in OnTheWay : pElem'[u] = pElem[u] /\ pElem[u] # b
      BY <1>1, <1>3, <1>4 DEF PoolTypeOK, OnTheWay
    <2>2. pElem'[t] = b
      BY <1>1, <1>4 DEF PoolTypeOK
    <2> QED BY <1>1, <1>3, <1>4, <2>1, <2>2 DEF HandsApart, Take
  <1>10. Somewhere'
    <2>1. ASSUME NEW x \in made, refs[x] = {}
          PROVE  (\E i \in 1 .. iBufNumber - 1 : Stored'[i] = x) \/ \E u \in OnTheWay' : pElem'[u] = x
      <3>1. CASE x = b
        BY <1>1, <1>4, <3>1 DEF PoolTypeOK
      <3>2. CASE x # b /\ \E u \in OnTheWay : pElem[u] = x
        BY <1>1, <1>4, <3>2 DEF PoolTypeOK
      <3>3. ASSUME x # b, NEW i \in 1 .. iBufNumber, Stored[i] = x
            PROVE  \E k \in 1 .. iBufNumber - 1 : Stored'[k] = x
        <4>1. i # 1 /\ i - 1 \in 1 .. iBufNumber - 1 /\ (i - 1) + 1 = i
          BY <1>1, <1>2, <3>3
        <4>2. Stored'[i - 1] = x
          BY <1>2, <3>3, <4>1
        <4> QED BY <4>1, <4>2
      <3> QED BY <1>1, <1>2, <2>1, <3>1, <3>2, <3>3 DEF Somewhere
    <2> QED BY <1>1, <1>2, <1>4, <2>1 DEF Somewhere, Take
  <1>11. BuffersCounted' /\ SlotsCounted'
    <2>1. /\ iBufNumber \in Nat /\ hSpaceSem \in Nat
          /\ iBufNumber' = iBufNumber - 1 /\ hSpaceSem' = hSpaceSem
      BY <1>1 DEF PoolTypeOK, Take
    <2> QED BY <1>1, <1>4, <1>5, <2>1, CountsNat, MaxElemPositive
            DEF BuffersCounted, SlotsCounted, MaxElem
  <1> QED BY <1>6, <1>7, <1>8, <1>9, <1>10, <1>11 DEF PoolInv

\* The buffer in hand becomes referenced.
LEMMA PostSpaceKeeps ==
  ASSUME PoolInv, NEW t \in Threads, PostSpace(t)
  PROVE  PoolInv'
  <1> HIDE DEF MaxElem
  <1> DEFINE b == pElem[t]
  <1>1. /\ PoolTypeOK /\ HandsFull /\ RingApart /\ HandsApart /\ Somewhere
        /\ BuffersCounted /\ SlotsCounted
        /\ pc[t] = "postSpace" /\ t \in OnTheWay /\ t \in Taken
    BY DEF PoolInv, PostSpace, HandsFull, OnTheWay, Taken
  <1>2. /\ b \in made /\ b \in Buffers /\ b # NoBuf /\ refs[b] = {}
        /\ \A u \in Threads \ {t} : pElem[u] # b
        /\ \A i \in DOMAIN Stored : Stored[i] # b
    BY <1>1, BufPoolAssumption DEF RingApart, HandsApart, OnTheWay, PoolTypeOK
  <1> HIDE DEF b
  <1>3. /\ refs' = [refs EXCEPT ![b] = {t}] /\ pElem' = [pElem EXCEPT ![t] = NoBuf]
        /\ Stored' = Stored
    BY <1>2 DEF PostSpace, Stored, b
  <1>4. /\ Unmade' = Unmade /\ Storing' = Storing
        /\ Referenced' = Referenced \cup {b} /\ b \notin Referenced
        /\ OnTheWay' = OnTheWay \ {t} /\ Taken' = Taken \ {t}
    BY <1>1, <1>2, <1>3 DEF PostSpace, Unmade, OnTheWay, Referenced, Taken, Storing, PoolTypeOK
  <1>5. /\ Cardinality(OnTheWay') = Cardinality(OnTheWay) - 1
        /\ Cardinality(Taken') = Cardinality(Taken) - 1
        /\ Cardinality(Referenced') = Cardinality(Referenced) + 1
    BY <1>1, <1>4, GroupsFinite, OneMore, OneLess
  <1>6. BuffersCounted' /\ SlotsCounted'
    <2>1. /\ iBufNumber \in Nat /\ hSpaceSem \in Nat
          /\ iBufNumber' = iBufNumber /\ hSpaceSem' = hSpaceSem + 1
      BY <1>1 DEF PoolTypeOK, PostSpace
    <2> QED BY <1>1, <1>4, <1>5, <2>1, CountsNat, MaxElemPositive
            DEF BuffersCounted, SlotsCounted, MaxElem
  <1>7. PoolTypeOK'
    <2>1. hSpaceSem' \in 0 .. MaxElem
      <3>1. /\ hSpaceSem' \in Nat /\ iBufNumber' \in Nat
            /\ Cardinality(Taken') \in Nat /\ Cardinality(Storing') \in Nat
        BY <1>1, <1>4, <1>5, GroupsFinite, FS_RemoveElement, FS_CardinalityType
           DEF PoolTypeOK, PostSpace
      <3> QED BY <1>6, <3>1, MaxElemPositive DEF SlotsCounted, MaxElem
    <2>2. refs' \in [Buffers -> SUBSET Threads] /\ pElem' \in [Threads -> Buffers \cup {NoBuf}]
      BY <1>1, <1>3 DEF PoolTypeOK
    <2>3. pc' \in [Threads -> Labels]
      BY <1>1 DEF PoolTypeOK, PostSpace, Labels
    <2> QED BY <1>1, <2>1, <2>2, <2>3 DEF PoolTypeOK, PostSpace, MaxElem, Labels
  <1>8. HandsFull'
    BY <1>1, <1>3 DEF HandsFull, PostSpace, PoolTypeOK
  <1>9. RingApart'
    BY <1>1, <1>2, <1>3, BufPoolAssumption DEF RingApart, PostSpace, PoolTypeOK
  <1>10. HandsApart'
    BY <1>1, <1>2, <1>3, <1>4 DEF HandsApart, PostSpace, PoolTypeOK, OnTheWay
  <1>11. Somewhere'
    BY <1>1, <1>2, <1>3, <1>4 DEF Somewhere, PostSpace, PoolTypeOK, Unmade
  <1> QED BY <1>6, <1>7, <1>8, <1>9, <1>10, <1>11 DEF PoolInv

\* A buffer somebody refers to is referred to once more.
LEMMA RefKeeps ==
  ASSUME PoolInv, NEW t \in Threads, NEW h \in Threads, NEW b \in Buffers, Ref(t, h, b)
  PROVE  PoolInv'
  <1>1. /\ PoolTypeOK /\ HandsFull /\ RingApart /\ HandsApart /\ Somewhere
        /\ BuffersCounted /\ SlotsCounted
        /\ refs[b] # {} /\ refs'[b] # {} /\ refs' \in [Buffers -> SUBSET Threads]
        /\ \A x \in Buffers \ {b} : refs'[x] = refs[x]
        /\ \A x \in Buffers : refs'[x] = {} <=> refs[x] = {}
    BY DEF PoolInv, Ref, PoolTypeOK
  <1>2. /\ Unmade' = Unmade /\ Referenced' = Referenced /\ Storing' = Storing
        /\ OnTheWay' = OnTheWay /\ Taken' = Taken /\ Stored' = Stored
    BY <1>1 DEF Ref, Unmade, OnTheWay, Referenced, Taken, Storing, Stored
  <1>3. PoolTypeOK'
    BY <1>1 DEF PoolTypeOK, Ref
  <1>4. HandsFull' /\ BuffersCounted' /\ SlotsCounted'
    BY <1>1, <1>2 DEF HandsFull, BuffersCounted, SlotsCounted, Ref
  <1>5. RingApart' /\ HandsApart' /\ Somewhere'
    BY <1>1, <1>2 DEF RingApart, HandsApart, Somewhere, Ref, PoolTypeOK, Unmade
  <1> QED BY <1>3, <1>4, <1>5 DEF PoolInv

\* A reference is dropped; the last one puts the buffer in the hands of the thread.
LEMMA UnrefKeeps ==
  ASSUME PoolInv, NEW t \in Threads, NEW h \in Threads, NEW b \in Buffers, Unref(t, h, b)
  PROVE  PoolInv'
  <1> HIDE DEF MaxElem
  <1>1. /\ PoolTypeOK /\ HandsFull /\ RingApart /\ HandsApart /\ Somewhere
        /\ BuffersCounted /\ SlotsCounted
        /\ pc[t] = "idle" /\ pElem[t] = NoBuf /\ refs[b] # {} /\ b \in made
        /\ b # NoBuf
    BY BufPoolAssumption DEF PoolInv, Unref, HandsFull, Somewhere, Unmade
  <1>2. CASE ~IsLast(h, b)
    <2>1. /\ refs'[b] # {} /\ refs' \in [Buffers -> SUBSET Threads]
          /\ \A x \in Buffers : refs'[x] = {} <=> refs[x] = {}
          /\ pc' = pc /\ pElem' = pElem
      BY <1>1, <1>2 DEF Unref, PoolTypeOK, IsLast
    <2>2. /\ Unmade' = Unmade /\ Referenced' = Referenced /\ Storing' = Storing
          /\ OnTheWay' = OnTheWay /\ Taken' = Taken /\ Stored' = Stored
      BY <2>1 DEF Unref, Unmade, OnTheWay, Referenced, Taken, Storing, Stored
    <2>3. PoolTypeOK'
      BY <1>1, <2>1 DEF PoolTypeOK, Unref
    <2>4. HandsFull' /\ BuffersCounted' /\ SlotsCounted'
      BY <1>1, <2>1, <2>2 DEF HandsFull, BuffersCounted, SlotsCounted, Unref
    <2>5. RingApart' /\ HandsApart' /\ Somewhere'
      BY <1>1, <2>1, <2>2 DEF RingApart, HandsApart, Somewhere, Unref, PoolTypeOK, Unmade
    <2> QED BY <2>3, <2>4, <2>5 DEF PoolInv
  <1>3. CASE IsLast(h, b)
    <2>1. /\ refs' = [refs EXCEPT ![b] = {}]
          /\ pc' = [pc EXCEPT ![t] = "getSpace"] /\ pElem' = [pElem EXCEPT ![t] = b]
          /\ Stored' = Stored
      BY <1>1, <1>3 DEF Unref, PoolTypeOK, IsLast, Stored
    <2>2. /\ \A i \in DOMAIN Stored : Stored[i] # b
          /\ \A u \in Threads : pElem[u] # b
      BY <1>1 DEF RingApart, HandsApart, OnTheWay
    <2>3. /\ Unmade' = Unmade /\ Storing' = Storing /\ Taken' = Taken
          /\ Referenced' = Referenced \ {b} /\ b \in Referenced
          /\ OnTheWay' = OnTheWay \cup {t} /\ t \notin OnTheWay
      BY <1>1, <2>1 DEF Unref, Unmade, OnTheWay, Referenced, Taken, Storing, PoolTypeOK
    <2>4. /\ Cardinality(OnTheWay') = Cardinality(OnTheWay) + 1
          /\ Cardinality(Referenced') = Cardinality(Referenced) - 1
      BY <2>3, GroupsFinite, OneMore, OneLess
    <2>5. BuffersCounted' /\ SlotsCounted'
      BY <1>1, <2>3, <2>4, CountsNat, MaxElemPositive
         DEF BuffersCounted, SlotsCounted, MaxElem, Unref, PoolTypeOK
    <2>6. PoolTypeOK'
      <3>1. refs' \in [Buffers -> SUBSET Threads] /\ pElem' \in [Threads -> Buffers \cup {NoBuf}]
        BY <1>1, <2>1 DEF PoolTypeOK
      <3>2. pc' \in [Threads -> Labels]
        BY <1>1, <2>1 DEF PoolTypeOK, Labels
      <3> QED BY <1>1, <3>1, <3>2 DEF PoolTypeOK, Unref, MaxElem, Labels
    <2>7. HandsFull'
      BY <1>1, <2>1 DEF HandsFull, PoolTypeOK
    <2>8. RingApart'
      BY <1>1, <2>1, <2>2 DEF RingApart, Unref, PoolTypeOK
    <2>9. HandsApart'
      BY <1>1, <2>1, <2>2, <2>3 DEF HandsApart, Unref, PoolTypeOK, OnTheWay
    <2>10. Somewhere'
      <3>1. ASSUME NEW x \in made, refs'[x] = {}
            PROVE  (\E i \in DOMAIN Stored : Stored[i] = x) \/ \E u \in OnTheWay' : pElem'[u] = x
        <4>1. CASE x = b
          BY <1>1, <2>1, <2>3, <4>1 DEF PoolTypeOK
        <4>2. CASE x # b
          <5>1. refs[x] = {}
            BY <1>1, <2>1, <3>1, <4>2 DEF PoolTypeOK
          <5> QED BY <1>1, <2>1, <2>3, <4>2, <5>1 DEF Somewhere, PoolTypeOK
        <4> QED BY <4>1, <4>2
      <3>2. \A x \in Unmade : refs'[x] = {}
        BY <1>1, <2>1 DEF Somewhere, PoolTypeOK, Unmade
      <3>3. made' = made
        BY DEF Unref
      <3> QED BY <2>1, <2>3, <3>1, <3>2, <3>3 DEF Somewhere
    <2> QED BY <2>5, <2>6, <2>7, <2>8, <2>9, <2>10 DEF PoolInv
  <1> QED BY <1>2, <1>3

\* A permit of the semaphore is taken for the buffer in hand.
LEMMA GetSpaceKeeps ==
  ASSUME PoolInv, NEW t \in Threads, GetSpace(t)
  PROVE  PoolInv'
  <1> HIDE DEF MaxElem
  <1>1. /\ PoolTypeOK /\ HandsFull /\ RingApart /\ HandsApart /\ Somewhere
        /\ BuffersCounted /\ SlotsCounted
        /\ pc[t] = "getSpace" /\ pc' = [pc EXCEPT ![t] = "store"]
    BY DEF PoolInv, GetSpace
  <1>2. /\ Unmade' = Unmade /\ Referenced' = Referenced /\ Taken' = Taken
        /\ OnTheWay' = OnTheWay /\ Stored' = Stored
        /\ Storing' = Storing \cup {t} /\ t \notin Storing
    BY <1>1 DEF GetSpace, Unmade, OnTheWay, Referenced, Taken, Storing, Stored, PoolTypeOK
  <1>3. Cardinality(Storing') = Cardinality(Storing) + 1
    BY <1>2, GroupsFinite, OneMore
  <1>4. PoolTypeOK'
    <2>1. pc' \in [Threads -> Labels]
      BY <1>1 DEF PoolTypeOK, Labels
    <2>2. hSpaceSem' \in 0 .. MaxElem
      BY <1>1, MaxElemPositive DEF PoolTypeOK, GetSpace
    <2> QED BY <1>1, <2>1, <2>2 DEF PoolTypeOK, GetSpace, MaxElem, Labels
  <1>5. HandsFull'
    BY <1>1 DEF HandsFull, GetSpace, PoolTypeOK
  <1>6. BuffersCounted' /\ SlotsCounted'
    BY <1>1, <1>2, <1>3, CountsNat, MaxElemPositive
       DEF BuffersCounted, SlotsCounted, MaxElem, GetSpace, PoolTypeOK
  <1>7. RingApart' /\ HandsApart' /\ Somewhere'
    BY <1>1, <1>2 DEF RingApart, HandsApart, Somewhere, GetSpace
  <1> QED BY <1>4, <1>5, <1>6, <1>7 DEF PoolInv

\* The buffer in hand goes to the end of the ring.
LEMMA StoreKeeps ==
  ASSUME PoolInv, NEW t \in Threads, Store(t)
  PROVE  PoolInv'
  <1> HIDE DEF MaxElem
  <1> DEFINE b == pElem[t]
             f == [pc EXCEPT ![t] = "idle"]
  <1>1. /\ PoolTypeOK /\ HandsFull /\ RingApart /\ HandsApart /\ Somewhere
        /\ BuffersCounted /\ SlotsCounted
        /\ pc[t] = "store" /\ t \in OnTheWay /\ t \in Storing /\ iBufNumber < MaxElem
    <2>1. pc[t] = "store" /\ t \in OnTheWay /\ t \in Storing
      BY DEF PoolInv, Store, HandsFull, OnTheWay, Storing
    <2> QED BY <2>1, Room DEF PoolInv
  <1>2. /\ b \in made /\ b \in Buffers /\ b # NoBuf /\ refs[b] = {}
        /\ \A u \in Threads \ {t} : pElem[u] # b
        /\ \A i \in DOMAIN Stored : Stored[i] # b
    BY <1>1, BufPoolAssumption DEF RingApart, HandsApart, OnTheWay, PoolTypeOK
  <1>3. /\ DOMAIN Stored' = 1 .. iBufNumber + 1 /\ DOMAIN Stored = 1 .. iBufNumber
        /\ \A i \in 1 .. iBufNumber : Stored'[i] = Stored[i]
        /\ Stored'[iBufNumber + 1] = b
        /\ zTail' = (zHead' + iBufNumber') % (MaxElem + 1)
        /\ ring' \in [Slots -> Buffers \cup {NoBuf}] /\ zTail' \in Slots
        /\ iBufNumber' \in 0 .. MaxElem
    BY <1>1, <1>2, StoredAfterStore, StoredSlots DEF Store
  <1>4. /\ pc' \in [Threads -> Labels] /\ signaled' \in BOOLEAN
        /\ \A u \in Threads, l \in Transfers : pc'[u] = l <=> f[u] = l
    <2>1. f \in [Threads -> Labels]
      BY <1>1 DEF PoolTypeOK, Labels
    <2> QED BY <2>1, EventMovesSleepers DEF Store
  <1>5. pElem' = [pElem EXCEPT ![t] = NoBuf]
    BY DEF Store
  <1> HIDE DEF b
  <1>6. /\ Unmade' = Unmade /\ Referenced' = Referenced /\ Taken' = Taken
        /\ OnTheWay' = OnTheWay \ {t} /\ Storing' = Storing \ {t}
    BY <1>1, <1>4, <1>5
       DEF Store, Unmade, OnTheWay, Referenced, Taken, Storing, PoolTypeOK, Transfers
  <1>7. /\ Cardinality(OnTheWay') = Cardinality(OnTheWay) - 1
        /\ Cardinality(Storing') = Cardinality(Storing) - 1
    BY <1>1, <1>6, GroupsFinite, OneLess
  <1>8. PoolTypeOK'
    <2>1. pElem' \in [Threads -> Buffers \cup {NoBuf}]
      BY <1>1, <1>5 DEF PoolTypeOK
    <2> QED BY <1>1, <1>3, <1>4, <2>1 DEF PoolTypeOK, Store, MaxElem, Labels
  <1>9. HandsFull'
    BY <1>1, <1>4, <1>5 DEF HandsFull, PoolTypeOK, Transfers
  <1>10. RingApart'
    <2>1. iBufNumber \in Nat
      BY <1>1 DEF PoolTypeOK
    <2>2. \A u \in Threads : pElem'[u] # b /\ (pElem'[u] = pElem[u] \/ pElem'[u] = NoBuf)
      BY <1>1, <1>2, <1>5 DEF PoolTypeOK
    <2>3. \A i \in 1 .. iBufNumber : Stored[i] # NoBuf
      BY <1>1, <1>3, BufPoolAssumption DEF RingApart, PoolTypeOK
    <2> QED BY <1>1, <1>2, <1>3, <2>1, <2>2, <2>3 DEF RingApart, Store
  <1>11. HandsApart'
    BY <1>1, <1>5, <1>6 DEF HandsApart, Store, PoolTypeOK, OnTheWay
  <1>12. Somewhere'
    <2>1. iBufNumber \in Nat
      BY <1>1 DEF PoolTypeOK
    <2>2. ASSUME NEW x \in made, refs[x] = {}
          PROVE  (\E i \in 1 .. iBufNumber + 1 : Stored'[i] = x) \/ \E u \in OnTheWay' : pElem'[u] = x
      <3>1. CASE x = b
        BY <1>3, <2>1, <3>1
      <3>2. CASE \E i \in 1 .. iBufNumber : Stored[i] = x
        BY <1>3, <2>1, <3>2
      <3>3. CASE x # b /\ \E u \in OnTheWay : pElem[u] = x
        <4>1. PICK u \in OnTheWay : pElem[u] = x
          BY <3>3
        <4>2. u \in OnTheWay' /\ pElem'[u] = x
          BY <1>1, <1>5, <1>6, <3>3, <4>1 DEF PoolTypeOK, OnTheWay, b
        <4> QED BY <4>2
      <3> QED BY <1>1, <1>3, <2>2, <3>1, <3>2, <3>3 DEF Somewhere
    <2> QED BY <1>1, <1>3, <1>6, <2>2 DEF Somewhere, Store
  <1>13. BuffersCounted' /\ SlotsCounted'
    BY <1>1, <1>6, <1>7, CountsNat, MaxElemPositive
       DEF BuffersCounted, SlotsCounted, MaxElem, Store, PoolTypeOK
  <1> QED BY <1>8, <1>9, <1>10, <1>11, <1>12, <1>13 DEF PoolInv
-----------------------------------------------------------------------------
\* The steps of whoever uses the pool; a thread may drop the reference of another holder
PoolAct ==
  \/ \E b \in Buffers : AllocBuf(b)
  \/ \E t \in Threads : GetBuffer(t) \/ Decommit(t) \/ PoolStep(t) \/ WakeUnsignaled(t)
  \/ \E t, h \in Threads, b \in Buffers : Ref(t, h, b) \/ Unref(t, h, b)

\* The pool starts with the invariant: nothing is made, all slots are free.
LEMMA PoolStarts == PoolInit => PoolInv
  <1> SUFFICES ASSUME PoolInit PROVE PoolInv
    OBVIOUS
  <1> HIDE DEF MaxElem
  <1>1. MaxElem \in Nat /\ MaxElem > 0 /\ 0 \in Slots
    BY MaxElemPositive DEF Slots
  <1>2. PoolTypeOK
    <2>1. (0 + 0) % (MaxElem + 1) = 0
      BY <1>1, SlotAfter
    <2>2. zHead = 0 /\ iBufNumber = 0 /\ zTail = 0 /\ hSpaceSem = MaxElem
      BY DEF PoolInit
    <2>3. zTail = (zHead + iBufNumber) % (MaxElem + 1)
      BY <2>1, <2>2
    <2>4. /\ ring \in [Slots -> Buffers \cup {NoBuf}] /\ refs \in [Buffers -> SUBSET Threads]
          /\ pElem \in [Threads -> Buffers \cup {NoBuf}] /\ pc \in [Threads -> Labels]
      BY DEF PoolInit, Labels
    <2>5. /\ zHead \in Slots /\ zTail \in Slots /\ iBufNumber \in 0 .. MaxElem
          /\ hSpaceSem \in 0 .. MaxElem
      BY <1>1, <2>2
    <2>6. isDecommited \in BOOLEAN /\ signaled \in BOOLEAN /\ made \subseteq Buffers
      BY Zenon DEF PoolInit
    <2> QED BY <2>3, <2>4, <2>5, <2>6 DEF PoolTypeOK, Labels
  <1>3. /\ OnTheWay = {} /\ Taken = {} /\ Storing = {} /\ Referenced = {} /\ Unmade = Buffers
        /\ DOMAIN Stored = {}
    BY DEF PoolInit, OnTheWay, Taken, Storing, Referenced, Unmade, Stored
  <1>4. HandsFull /\ RingApart /\ HandsApart /\ Somewhere
    BY <1>3 DEF PoolInit, HandsFull, RingApart, HandsApart, Somewhere
  <1>5. Cardinality({}) = 0
    BY FS_EmptySet
  <1>6. BuffersCounted /\ SlotsCounted
    BY <1>1, <1>3, <1>5 DEF PoolInit, BuffersCounted, SlotsCounted, MaxElem
  <1> QED BY <1>2, <1>4, <1>6 DEF PoolInv

\* Every step keeps it.
LEMMA PoolKeeps == PoolInv /\ (PoolAct \/ UNCHANGED poolVars) => PoolInv'
  <1> SUFFICES ASSUME PoolInv, PoolAct \/ UNCHANGED poolVars PROVE PoolInv'
    OBVIOUS
  <1>1. PoolTypeOK /\ pc \in [Threads -> Labels]
    BY DEF PoolInv, PoolTypeOK, Labels
  <1>2. ASSUME NEW b \in Buffers, AllocBuf(b) PROVE PoolInv'
    BY <1>2, AllocBufKeeps
  <1>3. ASSUME NEW t \in Threads, GetBuffer(t) \/ WaitEvent(t) \/ LookAgain(t) \/ WakeUnsignaled(t)
        PROVE  PoolInv'
    <2>1. SameTransfers(pc') /\ isDecommited' \in BOOLEAN /\ signaled' \in BOOLEAN
      BY <1>1, <1>3
         DEF GetBuffer, WaitEvent, LookAgain, WakeUnsignaled, EventOnly, SameTransfers, Labels,
             Transfers, PoolTypeOK
    <2> QED BY <1>3, <2>1, QuietStep DEF GetBuffer, WaitEvent, LookAgain, WakeUnsignaled, EventOnly
  <1>4. ASSUME NEW t \in Threads, Decommit(t) PROVE PoolInv'
    <2>1. SameTransfers(pc') /\ isDecommited' \in BOOLEAN /\ signaled' \in BOOLEAN
      BY <1>1, <1>4, EventMovesSleepers DEF Decommit, SameTransfers, Transfers
    <2> QED BY <1>4, <2>1, QuietStep DEF Decommit
  <1>5. ASSUME NEW t \in Threads, Take(t) \/ PostSpace(t) \/ GetSpace(t) \/ Store(t) PROVE PoolInv'
    BY <1>5, TakeKeeps, PostSpaceKeeps, GetSpaceKeeps, StoreKeeps
  <1>6. ASSUME NEW t \in Threads, NEW h \in Threads, NEW b \in Buffers, Ref(t, h, b) \/ Unref(t, h, b)
        PROVE  PoolInv'
    BY <1>6, RefKeeps, UnrefKeeps
  <1>7. CASE UNCHANGED poolVars
    <2>1. SameTransfers(pc') /\ isDecommited' \in BOOLEAN /\ signaled' \in BOOLEAN
      BY <1>1, <1>7 DEF poolVars, SameTransfers, PoolTypeOK
    <2> QED BY <1>7, <2>1, QuietStep DEF poolVars
  <1> QED BY <1>2, <1>3, <1>4, <1>5, <1>6, <1>7 DEF PoolAct, PoolStep

\* The invariant says in which one place each buffer is.
LEMMA InvOnePlace == PoolInv => InOnePlace
  <1> SUFFICES ASSUME PoolInv, NEW b \in made
               PROVE  LET inRing == {i \in DOMAIN Stored : Stored[i] = b}
                          onTheWay == {t \in Threads : pElem[t] = b}
                      IN  Cardinality(inRing) + Cardinality(onTheWay)
                            + (IF refs[b] = {} THEN 0 ELSE 1) = 1
    BY DEF InOnePlace
  <1> DEFINE inRing == {i \in DOMAIN Stored : Stored[i] = b}
             onTheWay == {t \in Threads : pElem[t] = b}
  <1>1. RingApart /\ HandsApart /\ Somewhere /\ b # NoBuf
    BY BufPoolAssumption DEF PoolInv, PoolTypeOK
  <1>2. /\ Cardinality({}) = 0 /\ \A x : Cardinality({x}) = 1
    BY FS_EmptySet, FS_Singleton
  <1>3. CASE refs[b] # {}
    <2>1. inRing = {} /\ onTheWay = {}
      BY <1>1, <1>3 DEF RingApart, HandsApart, OnTheWay
    <2> QED BY <1>2, <1>3, <2>1
  <1>4. ASSUME refs[b] = {}, NEW i \in DOMAIN Stored, Stored[i] = b
        PROVE  Cardinality(inRing) = 1 /\ Cardinality(onTheWay) = 0
    <2>1. inRing = {i} /\ onTheWay = {}
      BY <1>1, <1>4 DEF RingApart
    <2> QED BY <1>2, <2>1
  <1>5. ASSUME refs[b] = {}, NEW t \in OnTheWay, pElem[t] = b
        PROVE  Cardinality(inRing) = 0 /\ Cardinality(onTheWay) = 1
    <2>1. inRing = {} /\ onTheWay = {t}
      BY <1>1, <1>5 DEF RingApart, HandsApart, OnTheWay
    <2> QED BY <1>2, <2>1
  <1> HIDE DEF inRing, onTheWay
  <1>6. Cardinality(inRing) + Cardinality(onTheWay) + (IF refs[b] = {} THEN 0 ELSE 1) = 1
    <2>1. CASE refs[b] # {}
      BY <1>3, <2>1 DEF inRing, onTheWay
    <2>2. CASE refs[b] = {}
      BY <1>1, <1>4, <1>5, <2>2 DEF Somewhere
    <2> QED BY <2>1, <2>2
  <1> QED BY <1>6 DEF inRing, onTheWay

\* Who puts a buffer back finds a permit.
LEMMA InvPutBack == PoolInv => PutBackNeverWaits
  BY Room DEF PutBackNeverWaits
-----------------------------------------------------------------------------
\* Every step of PoolSpec is one of PoolAct.
LEMMA PoolNextActs == PoolNext => PoolAct
  BY DEF PoolNext, PoolAct, Threads

\* AL_TBufPool: whatever the threads do, each buffer is in exactly one place: in the ring,
\* referenced, or on its way between the two.
THEOREM OnePlaceTheorem == PoolSpec => []InOnePlace
  BY PoolStarts, PoolKeeps, PoolNextActs, InvOnePlace, PTL DEF PoolSpec

\* The free callback of a buffer never waits for a slot (FreeBufInPool).
THEOREM PutBackTheorem == PoolSpec => []PutBackNeverWaits
  BY PoolStarts, PoolKeeps, PoolNextActs, InvPutBack, PTL DEF PoolSpec
=============================================================================
