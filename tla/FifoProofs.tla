----------------------------- MODULE FifoProofs -----------------------------
(***************************************************************************)
(* Safety of AL_TFifo for every number of threads and every capacity.      *)
(***************************************************************************)
EXTENDS Fifo, FiniteSetTheorems, SequenceTheorems, TLAPS

\* Threads are finitely many.
LEMMA ThreadsFinite == IsFiniteSet(Threads)
  BY FifoAssumption, FS_Union DEF Threads

\* The slot after a slot: one further, or back to the first one.
LEMMA NextSlotValue ==
  ASSUME NEW s \in Slots
  PROVE  NextSlot(s) \in Slots /\ NextSlot(s) = IF s = MaxElem THEN 0 ELSE s + 1
  BY FifoAssumption DEF NextSlot, Slots, zMaxElem

\* The number of elements between two positions of the ring.
LEMMA StoredValue ==
  ASSUME NEW h \in Slots, NEW t \in Slots
  PROVE  (t + zMaxElem - h) % zMaxElem = IF h <= t THEN t - h ELSE t + MaxElem + 1 - h
  BY FifoAssumption DEF Slots, zMaxElem

\* The four kinds of calls in progress are finite sets of threads.
LEMMA CountsAreNat ==
  ASSUME TypeOK
  PROVE  /\ Cardinality(Filling) \in Nat /\ Cardinality(Filled) \in Nat
         /\ Cardinality(Emptying) \in Nat /\ Cardinality(Emptied) \in Nat
  <1>1. \A S : IsFiniteSet(Where(pc, S))
    BY ThreadsFinite, FS_Subset DEF Where
  <1> QED BY <1>1, FS_CardinalityType DEF Filling, Filled, Emptying, Emptied

\* A thread in a group makes the size of that group positive.
LEMMA FillingNotEmpty ==
  ASSUME TypeOK, NEW t \in Filling PROVE Cardinality(Filling) > 0
  <1>1. IsFiniteSet(Filling) /\ Filling # {}
    BY ThreadsFinite, FS_Subset DEF Filling, Where
  <1> QED BY <1>1, CountsAreNat, FS_EmptySet

\* The same for a consumer that is emptying a slot.
LEMMA EmptyingNotEmpty ==
  ASSUME TypeOK, NEW t \in Emptying PROVE Cardinality(Emptying) > 0
  <1>1. IsFiniteSet(Emptying) /\ Emptying # {}
    BY ThreadsFinite, FS_Subset DEF Emptying, Where
  <1> QED BY <1>1, CountsAreNat, FS_EmptySet

\* How a step of thread t from its label to label l changes the four counts.
Inside(l, S) == IF l \in S THEN 1 ELSE 0

\* Each label is in one of the four regions at most, so they change by one at most.
LEMMA StepCounts ==
  ASSUME TypeOK, NEW t \in Threads, NEW l \in ProducerPC \cup ConsumerPC, Goto(t, l)
  PROVE  /\ Cardinality(Filling') = Cardinality(Filling)
              + Inside(l, {"lockTail", "store", "advanceTail"})
              - Inside(pc[t], {"lockTail", "store", "advanceTail"})
         /\ Cardinality(Filled') = Cardinality(Filled)
              + Inside(l, {"postCount"}) - Inside(pc[t], {"postCount"})
         /\ Cardinality(Emptying') = Cardinality(Emptying)
              + Inside(l, {"lockHead", "load", "advanceHead"})
              - Inside(pc[t], {"lockHead", "load", "advanceHead"})
         /\ Cardinality(Emptied') = Cardinality(Emptied)
              + Inside(l, {"postSpace"}) - Inside(pc[t], {"postSpace"})
  <1>1. pc \in [Threads -> ProducerPC \cup ConsumerPC] /\ pc' = [pc EXCEPT ![t] = l]
    BY DEF TypeOK, Goto
  <1>2. ASSUME NEW S
        PROVE  Cardinality(Where(pc', S)) =
                 Cardinality(Where(pc, S)) + Inside(l, S) - Inside(pc[t], S)
    <2> DEFINE A == Where(pc, S)
               B == Where(pc', S)
    <2>1. IsFiniteSet(A) /\ Cardinality(A) \in Nat
      BY ThreadsFinite, FS_Subset, FS_CardinalityType DEF Where
    <2>2. CASE l \in S /\ pc[t] \notin S
      <3>1. B = A \cup {t} /\ t \notin A
        BY <1>1, <2>2 DEF Where
      <3> HIDE DEF A, B
      <3>2. Cardinality(B) = Cardinality(A) + 1
        BY <3>1, <2>1, FS_AddElement
      <3> QED BY <3>2, <2>1, <2>2 DEF Inside, A, B
    <2>3. CASE l \notin S /\ pc[t] \in S
      <3>1. B = A \ {t} /\ t \in A
        BY <1>1, <2>3 DEF Where
      <3> HIDE DEF A, B
      <3>2. Cardinality(B) = Cardinality(A) - 1
        BY <3>1, <2>1, FS_RemoveElement
      <3> QED BY <3>2, <2>1, <2>3 DEF Inside, A, B
    <2>4. CASE l \in S <=> pc[t] \in S
      <3>1. B = A
        BY <1>1, <2>4 DEF Where
      <3> QED BY <3>1, <2>1, <2>4 DEF Inside
    <2> QED BY <2>2, <2>3, <2>4
  <1> QED BY <1>2 DEF Filling, Filled, Emptying, Emptied

\* The initial state satisfies the invariant.
LEMMA InitInv == Init => FifoInv
  <1> SUFFICES ASSUME Init PROVE FifoInv
    OBVIOUS
  <1>1. TypeOK
    BY FifoAssumption DEF Init, TypeOK, Threads, Slots, Waits, ProducerPC, ConsumerPC
  <1>2. Filling = {} /\ Filled = {} /\ Emptying = {} /\ Emptied = {}
    BY DEF Init, Filling, Filled, Emptying, Emptied, Where
  <1>3. PermitsConserved
    BY <1>2, FS_EmptySet, FifoAssumption DEF Init, PermitsConserved
  <1>4. Stored = 0
    BY StoredValue, FifoAssumption DEF Init, Stored, Slots
  <1>5. StoredAccounted
    BY <1>2, <1>4, FS_EmptySet DEF Init, StoredAccounted
  <1>6. MutexOwned
    BY FifoAssumption DEF Init, MutexOwned
  <1>7. InHand
    BY FifoAssumption DEF Init, InHand, Threads
  <1> QED BY <1>1, <1>3, <1>5, <1>6, <1>7 DEF FifoInv

\* Every step keeps the types.
LEMMA TypePreserved == TypeOK /\ [Next]_vars => TypeOK'
  <1> SUFFICES ASSUME TypeOK, [Next]_vars PROVE TypeOK'
    OBVIOUS
  <1> USE DEF TypeOK, Goto, ProducerPC, ConsumerPC
  <1>1. ASSUME NEW p \in Producers, NEW e \in Elem, NEW w \in Waits, QueueCall(p, e, w)
        PROVE  TypeOK'
    BY <1>1, FifoAssumption DEF QueueCall, Threads
  <1>2. ASSUME NEW p \in Producers, QueueStep(p) PROVE TypeOK'
    <2>1. CASE GetSpace(p)
      BY <2>1, FifoAssumption DEF GetSpace, Threads
    <2>2. CASE QueueFails(p)
      BY <2>2, FifoAssumption DEF QueueFails, Threads
    <2>3. CASE LockTail(p)
      BY <2>3, FifoAssumption DEF LockTail, Threads
    <2>4. CASE Store(p)
      BY <2>4, FifoAssumption DEF Store, Threads
    <2>5. CASE AdvanceTail(p)
      BY <2>5, NextSlotValue, FifoAssumption DEF AdvanceTail, Threads
    <2>6. CASE PostCount(p)
      BY <2>6, FifoAssumption DEF PostCount, Threads
    <2> QED BY <1>2, <2>1, <2>2, <2>3, <2>4, <2>5, <2>6 DEF QueueStep
  <1>3. ASSUME NEW c \in Consumers, NEW w \in Waits, DequeueCall(c, w) PROVE TypeOK'
    BY <1>3, FifoAssumption DEF DequeueCall, Threads
  <1>4. ASSUME NEW c \in Consumers, DequeueStep(c) PROVE TypeOK'
    <2>1. CASE GetCount(c)
      BY <2>1, FifoAssumption DEF GetCount, Threads
    <2>2. CASE DequeueFails(c)
      BY <2>2, FifoAssumption DEF DequeueFails, Threads
    <2>3. CASE LockHead(c)
      BY <2>3, FifoAssumption DEF LockHead, Threads
    <2>4. CASE Load(c)
      BY <2>4, FifoAssumption DEF Load, Threads
    <2>5. CASE AdvanceHead(c)
      BY <2>5, NextSlotValue, FifoAssumption DEF AdvanceHead, Threads
    <2>6. CASE PostSpace(c)
      BY <2>6, FifoAssumption DEF PostSpace, Threads
    <2> QED BY <1>4, <2>1, <2>2, <2>3, <2>4, <2>5, <2>6 DEF DequeueStep
  <1>5. CASE UNCHANGED vars
    BY <1>5 DEF vars
  <1> QED BY <1>1, <1>2, <1>3, <1>4, <1>5 DEF Next

\* Every step keeps what the calls hold: only the owner of the mutex writes a slot or moves
\* an end of the ring.
LEMMA InHandPreserved == FifoInv /\ [Next]_vars => InHand'
  <1> SUFFICES ASSUME FifoInv, [Next]_vars PROVE InHand'
    OBVIOUS
  <1>t. TypeOK /\ MutexOwned /\ InHand
    BY DEF FifoInv
  <1>f. Producers \subseteq Threads /\ Consumers \subseteq Threads /\ Producers \cap Consumers = {}
    BY FifoAssumption DEF Threads
  <1> USE <1>t, <1>f DEF TypeOK, MutexOwned, InHand, Goto
  <1>1. ASSUME NEW p \in Producers, NEW e \in Elem, NEW w \in Waits, QueueCall(p, e, w)
        PROVE  InHand'
    BY <1>1 DEF QueueCall
  <1>2. ASSUME NEW p \in Producers, QueueStep(p) PROVE InHand'
    <2>1. CASE GetSpace(p)
      BY <2>1 DEF GetSpace
    <2>2. CASE QueueFails(p)
      BY <2>2 DEF QueueFails
    <2>3. CASE LockTail(p)
      BY <2>3 DEF LockTail
    <2>4. CASE Store(p)
      BY <2>4 DEF Store
    <2>5. CASE AdvanceTail(p)
      BY <2>5 DEF AdvanceTail
    <2>6. CASE PostCount(p)
      BY <2>6 DEF PostCount
    <2> QED BY <1>2, <2>1, <2>2, <2>3, <2>4, <2>5, <2>6 DEF QueueStep
  <1>3. ASSUME NEW c \in Consumers, NEW w \in Waits, DequeueCall(c, w) PROVE InHand'
    BY <1>3 DEF DequeueCall
  <1>4. ASSUME NEW c \in Consumers, DequeueStep(c) PROVE InHand'
    <2>1. CASE GetCount(c)
      BY <2>1 DEF GetCount
    <2>2. CASE DequeueFails(c)
      BY <2>2 DEF DequeueFails
    <2>3. CASE LockHead(c)
      BY <2>3 DEF LockHead
    <2>4. CASE Load(c)
      BY <2>4 DEF Load
    <2>5. CASE AdvanceHead(c)
      BY <2>5 DEF AdvanceHead
    <2>6. CASE PostSpace(c)
      BY <2>6 DEF PostSpace
    <2> QED BY <1>4, <2>1, <2>2, <2>3, <2>4, <2>5, <2>6 DEF DequeueStep
  <1>5. CASE UNCHANGED vars
    BY <1>5 DEF vars
  <1> QED BY <1>1, <1>2, <1>3, <1>4, <1>5 DEF Next

\* Every step keeps the two semaphores, the ring and the mutex consistent.
LEMMA NextInv == FifoInv /\ [Next]_vars => FifoInv'
  <1> SUFFICES ASSUME FifoInv, [Next]_vars PROVE FifoInv'
    OBVIOUS
  <1>t. TypeOK /\ TypeOK'
    BY TypePreserved DEF FifoInv
  <1>h. InHand'
    BY InHandPreserved
  <1>n. /\ Cardinality(Filling) \in Nat /\ Cardinality(Filled) \in Nat
        /\ Cardinality(Emptying) \in Nat /\ Cardinality(Emptied) \in Nat
    BY <1>t, CountsAreNat
  <1>c. /\ hSpaceSem \in Nat /\ hCountSem \in Nat /\ MaxElem \in Nat
        /\ zHead \in Slots /\ zTail \in Slots
        /\ PermitsConserved /\ StoredAccounted /\ MutexOwned
    BY <1>t, FifoAssumption DEF TypeOK, FifoInv
  <1>1. ASSUME NEW p \in Producers, NEW e \in Elem, NEW w \in Waits, QueueCall(p, e, w) PROVE FifoInv'
    <2>t. p \in Threads
      BY DEF Threads
    <2>1. CASE QueueCall(p, e, w)
      <3>1. /\ Cardinality(Filling') = Cardinality(Filling)
            /\ Cardinality(Filled') = Cardinality(Filled)
            /\ Cardinality(Emptying') = Cardinality(Emptying)
            /\ Cardinality(Emptied') = Cardinality(Emptied)
        BY <2>1, <1>t, <1>n, <2>t, StepCounts DEF QueueCall, Inside, ProducerPC, ConsumerPC
      <3>2. PermitsConserved'
        BY <2>1, <1>t, <1>n, <1>c, <3>1 DEF QueueCall, PermitsConserved, TypeOK
      <3>3. StoredAccounted'
        BY <2>1, <1>t, <1>n, <1>c, <3>1 DEF QueueCall, StoredAccounted, Stored, TypeOK
      <3>4. MutexOwned'
        BY <2>1, <1>c, <1>t, <2>t, FifoAssumption DEF QueueCall, MutexOwned, Goto, TypeOK
      <3> QED BY <3>2, <3>3, <3>4, <1>t, <1>h DEF FifoInv
    <2> QED BY <1>1, <2>1
  <1>2. ASSUME NEW p \in Producers, QueueStep(p) PROVE FifoInv'
    <2>t. p \in Threads
      BY DEF Threads
    <2>1. CASE GetSpace(p)
      <3>1. /\ Cardinality(Filling') = Cardinality(Filling) + 1
            /\ Cardinality(Filled') = Cardinality(Filled)
            /\ Cardinality(Emptying') = Cardinality(Emptying)
            /\ Cardinality(Emptied') = Cardinality(Emptied)
        BY <2>1, <1>t, <1>n, <2>t, StepCounts DEF GetSpace, Inside, ProducerPC, ConsumerPC
      <3>2. PermitsConserved'
        BY <2>1, <1>t, <1>n, <1>c, <3>1 DEF GetSpace, PermitsConserved, TypeOK
      <3>3. StoredAccounted'
        BY <2>1, <1>t, <1>n, <1>c, <3>1 DEF GetSpace, StoredAccounted, Stored, TypeOK
      <3>4. MutexOwned'
        BY <2>1, <1>c, <1>t, <2>t, FifoAssumption DEF GetSpace, MutexOwned, Goto, TypeOK
      <3> QED BY <3>2, <3>3, <3>4, <1>t, <1>h DEF FifoInv
    <2>2. CASE QueueFails(p)
      <3>1. /\ Cardinality(Filling') = Cardinality(Filling)
            /\ Cardinality(Filled') = Cardinality(Filled)
            /\ Cardinality(Emptying') = Cardinality(Emptying)
            /\ Cardinality(Emptied') = Cardinality(Emptied)
        BY <2>2, <1>t, <1>n, <2>t, StepCounts DEF QueueFails, Inside, ProducerPC, ConsumerPC
      <3>2. PermitsConserved'
        BY <2>2, <1>t, <1>n, <1>c, <3>1 DEF QueueFails, PermitsConserved, TypeOK
      <3>3. StoredAccounted'
        BY <2>2, <1>t, <1>n, <1>c, <3>1 DEF QueueFails, StoredAccounted, Stored, TypeOK
      <3>4. MutexOwned'
        BY <2>2, <1>c, <1>t, <2>t, FifoAssumption DEF QueueFails, MutexOwned, Goto, TypeOK
      <3> QED BY <3>2, <3>3, <3>4, <1>t, <1>h DEF FifoInv
    <2>3. CASE LockTail(p)
      <3>1. /\ Cardinality(Filling') = Cardinality(Filling)
            /\ Cardinality(Filled') = Cardinality(Filled)
            /\ Cardinality(Emptying') = Cardinality(Emptying)
            /\ Cardinality(Emptied') = Cardinality(Emptied)
        BY <2>3, <1>t, <1>n, <2>t, StepCounts DEF LockTail, Inside, ProducerPC, ConsumerPC
      <3>2. PermitsConserved'
        BY <2>3, <1>t, <1>n, <1>c, <3>1 DEF LockTail, PermitsConserved, TypeOK
      <3>3. StoredAccounted'
        BY <2>3, <1>t, <1>n, <1>c, <3>1 DEF LockTail, StoredAccounted, Stored, TypeOK
      <3>4. MutexOwned'
        BY <2>3, <1>c, <1>t, <2>t, FifoAssumption DEF LockTail, MutexOwned, Goto, TypeOK
      <3> QED BY <3>2, <3>3, <3>4, <1>t, <1>h DEF FifoInv
    <2>4. CASE Store(p)
      <3>1. /\ Cardinality(Filling') = Cardinality(Filling)
            /\ Cardinality(Filled') = Cardinality(Filled)
            /\ Cardinality(Emptying') = Cardinality(Emptying)
            /\ Cardinality(Emptied') = Cardinality(Emptied)
        BY <2>4, <1>t, <1>n, <2>t, StepCounts DEF Store, Inside, ProducerPC, ConsumerPC
      <3>2. PermitsConserved'
        BY <2>4, <1>t, <1>n, <1>c, <3>1 DEF Store, PermitsConserved, TypeOK
      <3>3. StoredAccounted'
        BY <2>4, <1>t, <1>n, <1>c, <3>1 DEF Store, StoredAccounted, Stored, TypeOK
      <3>4. MutexOwned'
        BY <2>4, <1>c, <1>t, <2>t, FifoAssumption DEF Store, MutexOwned, Goto, TypeOK
      <3> QED BY <3>2, <3>3, <3>4, <1>t, <1>h DEF FifoInv
    <2>5. CASE AdvanceTail(p)
      <3>1. /\ Cardinality(Filling') = Cardinality(Filling) - 1
            /\ Cardinality(Filled') = Cardinality(Filled) + 1
            /\ Cardinality(Emptying') = Cardinality(Emptying)
            /\ Cardinality(Emptied') = Cardinality(Emptied)
        BY <2>5, <1>t, <1>n, <2>t, StepCounts DEF AdvanceTail, Inside, ProducerPC, ConsumerPC
      <3>2. PermitsConserved'
        BY <2>5, <1>t, <1>n, <1>c, <3>1 DEF AdvanceTail, PermitsConserved, TypeOK
      <3>3. StoredAccounted'
        <4>1. Stored < MaxElem
          BY <1>t, <1>n, <1>c, <2>5, <2>t, FillingNotEmpty, FifoAssumption
             DEF AdvanceTail, PermitsConserved, StoredAccounted, Filling, Where
        <4>2. Stored' = Stored + 1
          <5>1. /\ zTail' = IF zTail = MaxElem THEN 0 ELSE zTail + 1
                /\ zHead' = zHead
            BY <1>t, <2>5, NextSlotValue DEF AdvanceTail, TypeOK
          <5>2. Stored = IF zHead <= zTail THEN zTail - zHead
                                           ELSE zTail + MaxElem + 1 - zHead
            BY <1>t, StoredValue DEF Stored, TypeOK
          <5>3. Stored' = IF zHead' <= zTail' THEN zTail' - zHead'
                                              ELSE zTail' + MaxElem + 1 - zHead'
            BY <1>t, StoredValue DEF Stored, TypeOK
          <5> QED BY <4>1, <5>1, <5>2, <5>3, <1>c DEF Slots
        <4> QED BY <4>2, <1>t, <1>n, <1>c, <2>5, <3>1 DEF AdvanceTail, StoredAccounted
      <3>4. MutexOwned'
        BY <2>5, <1>c, <1>t, <2>t, FifoAssumption DEF AdvanceTail, MutexOwned, Goto, TypeOK
      <3> QED BY <3>2, <3>3, <3>4, <1>t, <1>h DEF FifoInv
    <2>6. CASE PostCount(p)
      <3>1. /\ Cardinality(Filling') = Cardinality(Filling)
            /\ Cardinality(Filled') = Cardinality(Filled) - 1
            /\ Cardinality(Emptying') = Cardinality(Emptying)
            /\ Cardinality(Emptied') = Cardinality(Emptied)
        BY <2>6, <1>t, <1>n, <2>t, StepCounts DEF PostCount, Inside, ProducerPC, ConsumerPC
      <3>2. PermitsConserved'
        BY <2>6, <1>t, <1>n, <1>c, <3>1 DEF PostCount, PermitsConserved, TypeOK
      <3>3. StoredAccounted'
        BY <2>6, <1>t, <1>n, <1>c, <3>1 DEF PostCount, StoredAccounted, Stored, TypeOK
      <3>4. MutexOwned'
        BY <2>6, <1>c, <1>t, <2>t, FifoAssumption DEF PostCount, MutexOwned, Goto, TypeOK
      <3> QED BY <3>2, <3>3, <3>4, <1>t, <1>h DEF FifoInv
    <2> QED BY <1>2, <2>1, <2>2, <2>3, <2>4, <2>5, <2>6 DEF QueueStep
  <1>3. ASSUME NEW c \in Consumers, NEW w \in Waits, DequeueCall(c, w) PROVE FifoInv'
    <2>t. c \in Threads
      BY DEF Threads
    <2>1. CASE DequeueCall(c, w)
      <3>1. /\ Cardinality(Filling') = Cardinality(Filling)
            /\ Cardinality(Filled') = Cardinality(Filled)
            /\ Cardinality(Emptying') = Cardinality(Emptying)
            /\ Cardinality(Emptied') = Cardinality(Emptied)
        BY <2>1, <1>t, <1>n, <2>t, StepCounts DEF DequeueCall, Inside, ProducerPC, ConsumerPC
      <3>2. PermitsConserved'
        BY <2>1, <1>t, <1>n, <1>c, <3>1 DEF DequeueCall, PermitsConserved, TypeOK
      <3>3. StoredAccounted'
        BY <2>1, <1>t, <1>n, <1>c, <3>1 DEF DequeueCall, StoredAccounted, Stored, TypeOK
      <3>4. MutexOwned'
        BY <2>1, <1>c, <1>t, <2>t, FifoAssumption DEF DequeueCall, MutexOwned, Goto, TypeOK
      <3> QED BY <3>2, <3>3, <3>4, <1>t, <1>h DEF FifoInv
    <2> QED BY <1>3, <2>1
  <1>4. ASSUME NEW c \in Consumers, DequeueStep(c) PROVE FifoInv'
    <2>t. c \in Threads
      BY DEF Threads
    <2>1. CASE GetCount(c)
      <3>1. /\ Cardinality(Filling') = Cardinality(Filling)
            /\ Cardinality(Filled') = Cardinality(Filled)
            /\ Cardinality(Emptying') = Cardinality(Emptying) + 1
            /\ Cardinality(Emptied') = Cardinality(Emptied)
        BY <2>1, <1>t, <1>n, <2>t, StepCounts DEF GetCount, Inside, ProducerPC, ConsumerPC
      <3>2. PermitsConserved'
        BY <2>1, <1>t, <1>n, <1>c, <3>1 DEF GetCount, PermitsConserved, TypeOK
      <3>3. StoredAccounted'
        BY <2>1, <1>t, <1>n, <1>c, <3>1 DEF GetCount, StoredAccounted, Stored, TypeOK
      <3>4. MutexOwned'
        BY <2>1, <1>c, <1>t, <2>t, FifoAssumption DEF GetCount, MutexOwned, Goto, TypeOK
      <3> QED BY <3>2, <3>3, <3>4, <1>t, <1>h DEF FifoInv
    <2>2. CASE DequeueFails(c)
      <3>1. /\ Cardinality(Filling') = Cardinality(Filling)
            /\ Cardinality(Filled') = Cardinality(Filled)
            /\ Cardinality(Emptying') = Cardinality(Emptying)
            /\ Cardinality(Emptied') = Cardinality(Emptied)
        BY <2>2, <1>t, <1>n, <2>t, StepCounts DEF DequeueFails, Inside, ProducerPC, ConsumerPC
      <3>2. PermitsConserved'
        BY <2>2, <1>t, <1>n, <1>c, <3>1 DEF DequeueFails, PermitsConserved, TypeOK
      <3>3. StoredAccounted'
        BY <2>2, <1>t, <1>n, <1>c, <3>1 DEF DequeueFails, StoredAccounted, Stored, TypeOK
      <3>4. MutexOwned'
        BY <2>2, <1>c, <1>t, <2>t, FifoAssumption DEF DequeueFails, MutexOwned, Goto, TypeOK
      <3> QED BY <3>2, <3>3, <3>4, <1>t, <1>h DEF FifoInv
    <2>3. CASE LockHead(c)
      <3>1. /\ Cardinality(Filling') = Cardinality(Filling)
            /\ Cardinality(Filled') = Cardinality(Filled)
            /\ Cardinality(Emptying') = Cardinality(Emptying)
            /\ Cardinality(Emptied') = Cardinality(Emptied)
        BY <2>3, <1>t, <1>n, <2>t, StepCounts DEF LockHead, Inside, ProducerPC, ConsumerPC
      <3>2. PermitsConserved'
        BY <2>3, <1>t, <1>n, <1>c, <3>1 DEF LockHead, PermitsConserved, TypeOK
      <3>3. StoredAccounted'
        BY <2>3, <1>t, <1>n, <1>c, <3>1 DEF LockHead, StoredAccounted, Stored, TypeOK
      <3>4. MutexOwned'
        BY <2>3, <1>c, <1>t, <2>t, FifoAssumption DEF LockHead, MutexOwned, Goto, TypeOK
      <3> QED BY <3>2, <3>3, <3>4, <1>t, <1>h DEF FifoInv
    <2>4. CASE Load(c)
      <3>1. /\ Cardinality(Filling') = Cardinality(Filling)
            /\ Cardinality(Filled') = Cardinality(Filled)
            /\ Cardinality(Emptying') = Cardinality(Emptying)
            /\ Cardinality(Emptied') = Cardinality(Emptied)
        BY <2>4, <1>t, <1>n, <2>t, StepCounts DEF Load, Inside, ProducerPC, ConsumerPC
      <3>2. PermitsConserved'
        BY <2>4, <1>t, <1>n, <1>c, <3>1 DEF Load, PermitsConserved, TypeOK
      <3>3. StoredAccounted'
        BY <2>4, <1>t, <1>n, <1>c, <3>1 DEF Load, StoredAccounted, Stored, TypeOK
      <3>4. MutexOwned'
        BY <2>4, <1>c, <1>t, <2>t, FifoAssumption DEF Load, MutexOwned, Goto, TypeOK
      <3> QED BY <3>2, <3>3, <3>4, <1>t, <1>h DEF FifoInv
    <2>5. CASE AdvanceHead(c)
      <3>1. /\ Cardinality(Filling') = Cardinality(Filling)
            /\ Cardinality(Filled') = Cardinality(Filled)
            /\ Cardinality(Emptying') = Cardinality(Emptying) - 1
            /\ Cardinality(Emptied') = Cardinality(Emptied) + 1
        BY <2>5, <1>t, <1>n, <2>t, StepCounts DEF AdvanceHead, Inside, ProducerPC, ConsumerPC
      <3>2. PermitsConserved'
        BY <2>5, <1>t, <1>n, <1>c, <3>1 DEF AdvanceHead, PermitsConserved, TypeOK
      <3>3. StoredAccounted'
        <4>1. Stored > 0
          BY <1>t, <1>n, <1>c, <2>5, <2>t, EmptyingNotEmpty, FifoAssumption
             DEF AdvanceHead, PermitsConserved, StoredAccounted, Emptying, Where, TypeOK
        <4>2. Stored' = Stored - 1
          <5>1. /\ zHead' = IF zHead = MaxElem THEN 0 ELSE zHead + 1
                /\ zTail' = zTail
            BY <1>t, <2>5, NextSlotValue DEF AdvanceHead, TypeOK
          <5>2. Stored = IF zHead <= zTail THEN zTail - zHead
                                           ELSE zTail + MaxElem + 1 - zHead
            BY <1>t, StoredValue DEF Stored, TypeOK
          <5>3. Stored' = IF zHead' <= zTail' THEN zTail' - zHead'
                                              ELSE zTail' + MaxElem + 1 - zHead'
            BY <1>t, StoredValue DEF Stored, TypeOK
          <5> QED BY <4>1, <5>1, <5>2, <5>3, <1>c DEF Slots
        <4> QED BY <4>2, <1>t, <1>n, <1>c, <2>5, <3>1 DEF AdvanceHead, StoredAccounted, TypeOK
      <3>4. MutexOwned'
        BY <2>5, <1>c, <1>t, <2>t, FifoAssumption DEF AdvanceHead, MutexOwned, Goto, TypeOK
      <3> QED BY <3>2, <3>3, <3>4, <1>t, <1>h DEF FifoInv
    <2>6. CASE PostSpace(c)
      <3>1. /\ Cardinality(Filling') = Cardinality(Filling)
            /\ Cardinality(Filled') = Cardinality(Filled)
            /\ Cardinality(Emptying') = Cardinality(Emptying)
            /\ Cardinality(Emptied') = Cardinality(Emptied) - 1
        BY <2>6, <1>t, <1>n, <2>t, StepCounts DEF PostSpace, Inside, ProducerPC, ConsumerPC
      <3>2. PermitsConserved'
        BY <2>6, <1>t, <1>n, <1>c, <3>1 DEF PostSpace, PermitsConserved, TypeOK
      <3>3. StoredAccounted'
        BY <2>6, <1>t, <1>n, <1>c, <3>1 DEF PostSpace, StoredAccounted, Stored, TypeOK
      <3>4. MutexOwned'
        BY <2>6, <1>c, <1>t, <2>t, FifoAssumption DEF PostSpace, MutexOwned, Goto, TypeOK
      <3> QED BY <3>2, <3>3, <3>4, <1>t, <1>h DEF FifoInv
    <2> QED BY <1>4, <2>1, <2>2, <2>3, <2>4, <2>5, <2>6 DEF DequeueStep
  <1>5. CASE UNCHANGED vars
    <2>1. /\ Filling' = Filling /\ Filled' = Filled
          /\ Emptying' = Emptying /\ Emptied' = Emptied
      BY <1>5 DEF vars, Filling, Filled, Emptying, Emptied, Where
    <2> QED BY <1>5, <1>t, <1>c, <1>h, <2>1
            DEF FifoInv, vars, PermitsConserved, StoredAccounted, Stored, MutexOwned
  <1> QED BY <1>1, <1>2, <1>3, <1>4, <1>5 DEF Next
-----------------------------------------------------------------------------
\* AL_TFifo: types, conservation of the permits, agreement of ring and semaphores, and
\* exclusion in the critical sections are invariants for all threads and capacities.
THEOREM FifoSafe == Spec => []FifoInv
  <1> QED BY InitInv, NextInv, PTL DEF Spec

\* No permit of the two semaphores of AL_TFifo is ever lost or created.
THEOREM PermitsTheorem == Spec => []PermitsConserved
  <1>1. FifoInv => PermitsConserved
    BY DEF FifoInv
  <1> QED BY <1>1, FifoSafe, PTL

\* A call about to write or read a slot is counted by the permits, so its slot is free or full.
LEMMA InvNoOverwrite == FifoInv => NoOverwriteNoUnderrun
  <1> SUFFICES ASSUME FifoInv PROVE NoOverwriteNoUnderrun
    OBVIOUS
  <1>n. TypeOK /\ PermitsConserved /\ StoredAccounted
    BY DEF FifoInv
  <1>c. /\ Cardinality(Filling) \in Nat /\ Cardinality(Filled) \in Nat
        /\ Cardinality(Emptying) \in Nat /\ Cardinality(Emptied) \in Nat
        /\ hSpaceSem \in Nat /\ hCountSem \in Nat /\ MaxElem \in Nat
    BY <1>n, CountsAreNat, FifoAssumption DEF TypeOK
  <1>1. ASSUME NEW p \in Where(pc, {"store", "advanceTail"}) PROVE Stored < MaxElem
    <2>1. p \in Filling
      BY <1>1 DEF Where, Filling
    <2>2. Cardinality(Filling) > 0
      BY <2>1, <1>n, FillingNotEmpty
    <2> QED BY <2>2, <1>n, <1>c DEF PermitsConserved, StoredAccounted
  <1>2. ASSUME NEW c \in Where(pc, {"load", "advanceHead"}) PROVE Stored > 0
    <2>1. c \in Emptying
      BY <1>2 DEF Where, Emptying
    <2>2. Cardinality(Emptying) > 0
      BY <2>1, <1>n, EmptyingNotEmpty
    <2> QED BY <2>2, <1>n, <1>c DEF StoredAccounted
  <1> QED BY <1>1, <1>2 DEF NoOverwriteNoUnderrun

\* AL_Fifo_Queue never overwrites an element nobody took and AL_Fifo_Dequeue never reads
\* an empty slot, for all threads and capacities.
THEOREM NoOverwriteTheorem == Spec => []NoOverwriteNoUnderrun
  BY InvNoOverwrite, FifoSafe, PTL
-----------------------------------------------------------------------------
(* AL_TFifo implements the bounded queue *)

\* The slot some places after a slot of the ring.
LEMMA RingSlot ==
  ASSUME NEW h \in Slots, NEW k \in 0 .. MaxElem
  PROVE  /\ (h + k) % zMaxElem \in Slots
         /\ (h + k) % zMaxElem = IF h + k <= MaxElem THEN h + k ELSE h + k - MaxElem - 1
  BY FifoAssumption DEF Slots, zMaxElem

\* What the contents are, in terms of the ring
ContentsOK ==
  /\ Stored \in 0 .. MaxElem
  /\ Contents \in Seq(Elem \cup {NoElem})
  /\ Len(Contents) = Stored
  /\ \A i \in 1 .. Stored : Contents[i] = ElemBuffer[(zHead + i - 1) % zMaxElem]

\* The contents of the ring are a sequence of Stored pointers.
LEMMA ContentsAreStored == TypeOK => ContentsOK
  <1> SUFFICES ASSUME TypeOK PROVE ContentsOK
    OBVIOUS
  <1>1. Stored \in 0 .. MaxElem
    <2>1. zHead \in Slots /\ zTail \in Slots
      BY DEF TypeOK
    <2>2. Stored = IF zHead <= zTail THEN zTail - zHead ELSE zTail + MaxElem + 1 - zHead
      BY <2>1, StoredValue DEF Stored
    <2> QED BY <2>1, <2>2, FifoAssumption DEF Slots
  <1>2. ASSUME NEW i \in 1 .. Stored
        PROVE  ElemBuffer[(zHead + i - 1) % zMaxElem] \in Elem \cup {NoElem}
    <2>1. zHead \in Slots /\ i - 1 \in 0 .. MaxElem /\ zHead + i - 1 = zHead + (i - 1)
      BY <1>1, FifoAssumption DEF TypeOK, Slots
    <2>2. (zHead + i - 1) % zMaxElem \in Slots
      BY <2>1, RingSlot
    <2> QED BY <2>2 DEF TypeOK
  <1>3. Contents \in [1 .. Stored -> Elem \cup {NoElem}]
    BY <1>2 DEF Contents
  <1>4. Contents \in Seq(Elem \cup {NoElem}) /\ Len(Contents) = Stored
    BY <1>1, <1>3
  <1> QED BY <1>1, <1>4 DEF Contents, ContentsOK

\* The same in the state after a step.
LEMMA ContentsStayStored == (TypeOK => ContentsOK)'
  BY ContentsAreStored, PTL

\* Nothing but the critical sections changes the contents or what was taken.
LEMMA QuietStep ==
  ASSUME FifoInv, UNCHANGED <<ElemBuffer, zHead, zTail, taken>>
  PROVE  UNCHANGED <<Contents, taken>>
  BY DEF Contents, Stored

\* The slot a producer writes lies outside the contents.
LEMMA StoreIsQuiet ==
  ASSUME FifoInv, FifoInv', NEW p \in Producers, Store(p)
  PROVE  UNCHANGED <<Contents, taken>>
  <1>1. TypeOK /\ TypeOK' /\ NoOverwriteNoUnderrun
    BY InvNoOverwrite DEF FifoInv
  <1>2. Stored' = Stored /\ zHead' = zHead /\ taken' = taken
    BY DEF Store, Stored
  <1>3. Stored < MaxElem
    BY <1>1 DEF NoOverwriteNoUnderrun, Where, Store, Threads
  <1>4. ASSUME NEW i \in 1 .. Stored
        PROVE  ElemBuffer'[(zHead + i - 1) % zMaxElem] = ElemBuffer[(zHead + i - 1) % zMaxElem]
    <2> DEFINE k == (zHead + i - 1) % zMaxElem
    <2>1. zHead \in Slots /\ zTail \in Slots /\ Stored \in 0 .. MaxElem
      BY <1>1, ContentsAreStored DEF TypeOK, ContentsOK
    <2>2. i - 1 \in 0 .. MaxElem /\ zHead + i - 1 = zHead + (i - 1)
      BY <2>1, FifoAssumption DEF Slots
    <2>3. /\ k \in Slots
          /\ k = IF zHead + (i - 1) <= MaxElem THEN zHead + (i - 1)
                                              ELSE zHead + (i - 1) - MaxElem - 1
      BY <2>1, <2>2, RingSlot
    <2>4. Stored = IF zHead <= zTail THEN zTail - zHead ELSE zTail + MaxElem + 1 - zHead
      BY <2>1, StoredValue DEF Stored
    <2>5. k # zTail
      BY <1>3, <2>1, <2>3, <2>4, FifoAssumption DEF Slots
    <2> QED BY <1>1, <2>1, <2>3, <2>5 DEF Store, TypeOK
  <1> QED BY <1>2, <1>4 DEF Contents

\* A producer that moves the tail puts its pointer at the end of the contents.
LEMMA AdvanceTailEnqueues ==
  ASSUME FifoInv, FifoInv', NEW p \in Producers, AdvanceTail(p)
  PROVE  Abstract!Enqueue(pElem[p]) /\ pElem[p] \in Elem
  <1> DEFINE S == Elem \cup {NoElem}
  <1>1. TypeOK /\ TypeOK' /\ NoOverwriteNoUnderrun /\ InHand /\ p \in Threads
    BY InvNoOverwrite DEF FifoInv, Threads
  <1>2. pElem[p] \in Elem /\ ElemBuffer[zTail] = pElem[p]
    BY <1>1 DEF InHand, AdvanceTail
  <1>3. Stored < MaxElem
    BY <1>1 DEF NoOverwriteNoUnderrun, Where, AdvanceTail
  <1>4. /\ zHead \in Slots /\ zTail \in Slots /\ zHead' = zHead /\ ElemBuffer' = ElemBuffer
        /\ zTail' = IF zTail = MaxElem THEN 0 ELSE zTail + 1
        /\ taken' = taken
    BY <1>1, NextSlotValue DEF TypeOK, AdvanceTail
  <1>5. /\ Stored = IF zHead <= zTail THEN zTail - zHead ELSE zTail + MaxElem + 1 - zHead
        /\ Stored' = IF zHead' <= zTail' THEN zTail' - zHead' ELSE zTail' + MaxElem + 1 - zHead'
    BY <1>1, StoredValue DEF Stored, TypeOK
  <1>6. Stored' = Stored + 1
    BY <1>3, <1>4, <1>5, FifoAssumption DEF Slots
  <1>7. /\ Stored \in 0 .. MaxElem
        /\ Contents \in Seq(S) /\ Len(Contents) = Stored
        /\ \A i \in 1 .. Stored : Contents[i] = ElemBuffer[(zHead + i - 1) % zMaxElem]
    BY <1>1, ContentsAreStored DEF ContentsOK
  <1>8. /\ Contents' \in Seq(S) /\ Len(Contents') = Stored + 1
        /\ \A i \in 1 .. Stored + 1 : Contents'[i] = ElemBuffer[(zHead + i - 1) % zMaxElem]
    BY <1>1, <1>4, <1>6, ContentsStayStored DEF ContentsOK
  <1>9. (zHead + (Stored + 1) - 1) % zMaxElem = zTail
    <2>1. (zHead + (Stored + 1) - 1) = zHead + Stored
      BY <1>4, <1>7, FifoAssumption DEF Slots
    <2> QED BY <2>1, <1>4, <1>5, <1>7, RingSlot, FifoAssumption DEF Slots
  <1>10. Contents' = Append(Contents, pElem[p])
    <2> DEFINE A == Append(Contents, pElem[p])
    <2>1. /\ A \in Seq(S) /\ Len(A) = Stored + 1
          /\ \A i \in 1 .. Stored : A[i] = Contents[i]
          /\ A[Stored + 1] = pElem[p]
      BY <1>2, <1>7
    <2> HIDE DEF A
    <2>2. ASSUME NEW i \in 1 .. Stored + 1 PROVE Contents'[i] = A[i]
      <3>1. Contents'[i] = ElemBuffer[(zHead + i - 1) % zMaxElem]
        BY <1>8
      <3>2. CASE i \in 1 .. Stored
        <4>1. A[i] = Contents[i] /\ Contents[i] = ElemBuffer[(zHead + i - 1) % zMaxElem]
          BY <1>7, <2>1, <3>2
        <4> QED BY <3>1, <4>1
      <3>3. CASE i = Stored + 1
        <4>1. Contents'[i] = ElemBuffer[zTail]
          BY <1>9, <3>1, <3>3
        <4> QED BY <1>2, <2>1, <3>3, <4>1
      <3> QED BY <1>7, <3>2, <3>3
    <2>3. Contents' = A
      BY <1>8, <2>1, <2>2, SeqEqual
    <2> QED BY <2>3 DEF A
  <1> QED BY <1>2, <1>3, <1>4, <1>7, <1>10 DEF Abstract!Enqueue

\* A consumer that moves the head takes the first pointer of the contents.
LEMMA AdvanceHeadDequeues ==
  ASSUME FifoInv, FifoInv', NEW c \in Consumers, AdvanceHead(c)
  PROVE  Abstract!Dequeue(c)
  <1> DEFINE S == Elem \cup {NoElem}
  <1>1. TypeOK /\ TypeOK' /\ NoOverwriteNoUnderrun /\ InHand /\ c \in Threads
    BY InvNoOverwrite DEF FifoInv, Threads
  <1>2. taken' = [taken EXCEPT ![c] = ElemBuffer[zHead]]
    BY <1>1 DEF InHand, AdvanceHead
  <1>3. Stored > 0
    BY <1>1 DEF NoOverwriteNoUnderrun, Where, AdvanceHead
  <1>4. /\ zHead \in Slots /\ zTail \in Slots /\ zTail' = zTail /\ ElemBuffer' = ElemBuffer
        /\ zHead' = IF zHead = MaxElem THEN 0 ELSE zHead + 1
    BY <1>1, NextSlotValue DEF TypeOK, AdvanceHead
  <1>5. /\ Stored = IF zHead <= zTail THEN zTail - zHead ELSE zTail + MaxElem + 1 - zHead
        /\ Stored' = IF zHead' <= zTail' THEN zTail' - zHead' ELSE zTail' + MaxElem + 1 - zHead'
    BY <1>1, StoredValue DEF Stored, TypeOK
  <1>6. Stored' = Stored - 1
    BY <1>3, <1>4, <1>5, FifoAssumption DEF Slots
  <1>7. /\ Stored \in 1 .. MaxElem
        /\ Contents \in Seq(S) /\ Len(Contents) = Stored
        /\ \A i \in 1 .. Stored : Contents[i] = ElemBuffer[(zHead + i - 1) % zMaxElem]
    BY <1>1, <1>3, ContentsAreStored DEF ContentsOK
  <1>8. /\ Contents' \in Seq(S) /\ Len(Contents') = Stored - 1
        /\ \A i \in 1 .. Stored - 1 : Contents'[i] = ElemBuffer[(zHead' + i - 1) % zMaxElem]
    BY <1>1, <1>4, <1>6, ContentsStayStored DEF ContentsOK
  <1>9. Contents # <<>> /\ Head(Contents) = ElemBuffer[zHead]
    <2>1. zHead + 1 - 1 = zHead + 0 /\ (zHead + 0) % zMaxElem = zHead
      BY <1>4, RingSlot, FifoAssumption DEF Slots
    <2>2. Contents[1] = ElemBuffer[zHead]
      BY <1>7, <2>1
    <2> QED BY <1>7, <2>2
  <1>10. Contents' = Tail(Contents)
    <2> DEFINE T == Tail(Contents)
    <2>1. /\ T \in Seq(S) /\ Len(T) = Stored - 1
          /\ \A i \in 1 .. Stored - 1 : T[i] = Contents[i + 1]
      BY <1>7, <1>9, HeadTailProperties
    <2>2. ASSUME NEW i \in 1 .. Stored - 1 PROVE Contents'[i] = T[i]
      <3>1. /\ i - 1 \in 0 .. MaxElem /\ zHead' + i - 1 = zHead' + (i - 1)
            /\ i \in 0 .. MaxElem /\ zHead + (i + 1) - 1 = zHead + i
            /\ zHead' \in Slots /\ i + 1 \in 1 .. Stored
        BY <1>1, <1>4, <1>7, FifoAssumption DEF Slots, TypeOK
      <3>2. (zHead' + (i - 1)) % zMaxElem = IF zHead' + (i - 1) <= MaxElem THEN zHead' + (i - 1)
                                            ELSE zHead' + (i - 1) - MaxElem - 1
        BY <3>1, RingSlot
      <3>3. (zHead + i) % zMaxElem = IF zHead + i <= MaxElem THEN zHead + i
                                     ELSE zHead + i - MaxElem - 1
        BY <1>4, <3>1, RingSlot
      <3>4. (zHead' + i - 1) % zMaxElem = (zHead + (i + 1) - 1) % zMaxElem
        BY <1>4, <3>1, <3>2, <3>3, FifoAssumption DEF Slots
      <3> QED BY <1>7, <1>8, <2>1, <3>1, <3>4
    <2> HIDE DEF T
    <2>3. Contents' = T
      BY <1>8, <2>1, <2>2, SeqEqual
    <2> QED BY <2>3 DEF T
  <1> QED BY <1>2, <1>9, <1>10 DEF Abstract!Dequeue

\* AL_TFifo with its ring, its two semaphores and its mutex is a bounded FIFO queue: elements
\* leave in the order they entered, none is lost, duplicated or overwritten, for any number
\* of threads and any capacity.
THEOREM RefinementTheorem == Spec => ImplementsBoundedQueue
  <1>1. Init => Abstract!Init
    <2> SUFFICES ASSUME Init PROVE Abstract!Init
      OBVIOUS
    <2>1. Stored = 0
      BY StoredValue, FifoAssumption DEF Init, Stored, Slots
    <2>2. Contents = <<>>
      BY <2>1 DEF Contents
    <2> QED BY <2>2 DEF Init, Abstract!Init
  <1>2. FifoInv /\ FifoInv' /\ [Next]_vars => [Abstract!Next]_<<Contents, taken>>
    <2> SUFFICES ASSUME FifoInv, FifoInv', [Next]_vars
                 PROVE  Abstract!Next \/ UNCHANGED <<Contents, taken>>
      OBVIOUS
    <2>1. ASSUME NEW p \in Producers, NEW e \in Elem, NEW w \in Waits, QueueCall(p, e, w)
          PROVE  UNCHANGED <<Contents, taken>>
      BY <2>1, QuietStep DEF QueueCall
    <2>2. ASSUME NEW p \in Producers, QueueStep(p)
          PROVE  Abstract!Next \/ UNCHANGED <<Contents, taken>>
      <3>1. CASE GetSpace(p) \/ QueueFails(p) \/ LockTail(p) \/ PostCount(p)
        BY <3>1, QuietStep DEF GetSpace, QueueFails, LockTail, PostCount
      <3>2. CASE Store(p)
        BY <3>2, StoreIsQuiet
      <3>3. CASE AdvanceTail(p)
        BY <3>3, AdvanceTailEnqueues DEF Abstract!Next
      <3> QED BY <2>2, <3>1, <3>2, <3>3 DEF QueueStep
    <2>3. ASSUME NEW c \in Consumers, NEW w \in Waits, DequeueCall(c, w)
          PROVE  UNCHANGED <<Contents, taken>>
      BY <2>3, QuietStep DEF DequeueCall
    <2>4. ASSUME NEW c \in Consumers, DequeueStep(c)
          PROVE  Abstract!Next \/ UNCHANGED <<Contents, taken>>
      <3>1. CASE GetCount(c) \/ DequeueFails(c) \/ LockHead(c) \/ Load(c) \/ PostSpace(c)
        BY <3>1, QuietStep DEF GetCount, DequeueFails, LockHead, Load, PostSpace
      <3>2. CASE AdvanceHead(c)
        BY <3>2, AdvanceHeadDequeues DEF Abstract!Next
      <3> QED BY <2>4, <3>1, <3>2 DEF DequeueStep
    <2>5. CASE UNCHANGED vars
      BY <2>5, QuietStep DEF vars
    <2> QED BY <2>1, <2>2, <2>3, <2>4, <2>5 DEF Next
  <1> QED BY <1>1, <1>2, FifoSafe, PTL DEF Spec, ImplementsBoundedQueue, Abstract!Spec, Abstract!vars
=============================================================================
