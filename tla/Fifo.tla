-------------------------------- MODULE Fifo --------------------------------
(***************************************************************************)
(* AL_TFifo (lib_common/Fifo.c): a ring of zMaxElem + 1 slots guarded by a *)
(* counting semaphore of stored elements, a counting semaphore of free     *)
(* slots and a mutex.  Any number of threads call AL_Fifo_Queue and        *)
(* AL_Fifo_Dequeue; a call is the sequence of steps below and calls of     *)
(* different threads interleave between any two steps.                     *)
(***************************************************************************)
EXTENDS Integers, FiniteSets, Sequences

CONSTANTS
    Producers,   \* threads that call AL_Fifo_Queue
    Consumers,   \* threads that call AL_Fifo_Dequeue
    Elem,        \* pointers that can be queued
    NoElem,      \* NULL
    Free,        \* the mutex has no owner
    MaxElem      \* the zMaxElem argument of AL_Fifo_Init

Threads == Producers \cup Consumers

ASSUME FifoAssumption ==
    /\ MaxElem \in Nat \ {0}
    /\ Producers \cap Consumers = {}
    /\ IsFiniteSet(Producers) /\ IsFiniteSet(Consumers)
    /\ NoElem \notin Elem
    /\ Free \notin Threads

VARIABLES
    ElemBuffer,  \* the slots
    zHead,       \* slot of the oldest element
    zTail,       \* slot the next element goes to
    hCountSem,   \* semaphore: elements that can be taken
    hSpaceSem,   \* semaphore: slots that can be filled
    hMutex,      \* owner of the mutex
    pc,          \* where each thread is in its call
    wait,        \* may the thread give up (AL_NO_WAIT, a timeout) or not
    pElem,       \* the local variable pElem of each thread
    taken        \* the last element each consumer's critical section took

vars == <<ElemBuffer, zHead, zTail, hCountSem, hSpaceSem, hMutex, pc, wait,
          pElem, taken>>

zMaxElem == MaxElem + 1
Slots == 0 .. MaxElem
Waits == {"bounded", "forever"}
NextSlot(s) == (s + 1) % zMaxElem

ProducerPC == {"idle", "getSpace", "lockTail", "store", "advanceTail", "postCount"}
ConsumerPC == {"idle", "getCount", "lockHead", "load", "advanceHead", "postSpace"}

\* Number of elements between the head and the tail of the ring
Stored == (zTail + zMaxElem - zHead) % zMaxElem

\* The threads whose program counter f is at one of the labels S
Where(f, S) == {t \in Threads : f[t] \in S}

\* Calls that took a permit of one semaphore and have not yet posted the other
Filling == Where(pc, {"lockTail", "store", "advanceTail"})
Filled == Where(pc, {"postCount"})
Emptying == Where(pc, {"lockHead", "load", "advanceHead"})
Emptied == Where(pc, {"postSpace"})

Goto(t, l) == pc' = [pc EXCEPT ![t] = l]

\* Mutated: the semaphore of free slots counts the spare slot of the ring too
InitSpare ==
    /\ ElemBuffer = [s \in Slots |-> NoElem]
    /\ zHead = 0
    /\ zTail = 0
    /\ hCountSem = 0
    /\ hSpaceSem = zMaxElem
    /\ hMutex = Free
    /\ pc = [t \in Threads |-> "idle"]
    /\ wait = [t \in Threads |-> "forever"]
    /\ pElem = [t \in Threads |-> NoElem]
    /\ taken = [c \in Consumers |-> NoElem]

Init ==
    /\ ElemBuffer = [s \in Slots |-> NoElem]
    /\ zHead = 0
    /\ zTail = 0
    /\ hCountSem = 0
    /\ hSpaceSem = MaxElem
    /\ hMutex = Free
    /\ pc = [t \in Threads |-> "idle"]
    /\ wait = [t \in Threads |-> "forever"]
    /\ pElem = [t \in Threads |-> NoElem]
    /\ taken = [c \in Consumers |-> NoElem]
-----------------------------------------------------------------------------
(* AL_Fifo_Queue *)

QueueCall(p, e, w) ==
    /\ pc[p] = "idle"
    /\ Goto(p, "getSpace")
    /\ pElem' = [pElem EXCEPT ![p] = e]
    /\ wait' = [wait EXCEPT ![p] = w]
    /\ UNCHANGED <<ElemBuffer, zHead, zTail, hCountSem, hSpaceSem, hMutex, taken>>

GetSpace(p) ==
    /\ pc[p] = "getSpace"
    /\ hSpaceSem > 0
    /\ hSpaceSem' = hSpaceSem - 1
    /\ Goto(p, "lockTail")
    /\ UNCHANGED <<ElemBuffer, zHead, zTail, hCountSem, hMutex, wait, pElem, taken>>

\* Rtos_GetSemaphore returned false: the call returns false
QueueFails(p) ==
    /\ pc[p] = "getSpace"
    /\ hSpaceSem = 0
    /\ wait[p] = "bounded"
    /\ Goto(p, "idle")
    /\ pElem' = [pElem EXCEPT ![p] = NoElem]
    /\ UNCHANGED <<ElemBuffer, zHead, zTail, hCountSem, hSpaceSem, hMutex, wait, taken>>

LockTail(p) ==
    /\ pc[p] = "lockTail"
    /\ hMutex = Free
    /\ hMutex' = p
    /\ Goto(p, "store")
    /\ UNCHANGED <<ElemBuffer, zHead, zTail, hCountSem, hSpaceSem, wait, pElem, taken>>

Store(p) ==
    /\ pc[p] = "store"
    /\ ElemBuffer' = [ElemBuffer EXCEPT ![zTail] = pElem[p]]
    /\ Goto(p, "advanceTail")
    /\ UNCHANGED <<zHead, zTail, hCountSem, hSpaceSem, hMutex, wait, pElem, taken>>

AdvanceTail(p) ==
    /\ pc[p] = "advanceTail"
    /\ zTail' = NextSlot(zTail)
    /\ hMutex' = Free
    /\ Goto(p, "postCount")
    /\ UNCHANGED <<ElemBuffer, zHead, hCountSem, hSpaceSem, wait, pElem, taken>>

\* Mutated: the wrong semaphore is released
PostCountAsSpace(p) ==
    /\ pc[p] = "postCount"
    /\ hSpaceSem' = hSpaceSem + 1
    /\ Goto(p, "idle")
    /\ pElem' = [pElem EXCEPT ![p] = NoElem]
    /\ UNCHANGED <<ElemBuffer, zHead, zTail, hCountSem, hMutex, wait, taken>>

PostCount(p) ==
    /\ pc[p] = "postCount"
    /\ hCountSem' = hCountSem + 1
    /\ Goto(p, "idle")
    /\ pElem' = [pElem EXCEPT ![p] = NoElem]
    /\ UNCHANGED <<ElemBuffer, zHead, zTail, hSpaceSem, hMutex, wait, taken>>
-----------------------------------------------------------------------------
(* AL_Fifo_Dequeue *)

DequeueCall(c, w) ==
    /\ pc[c] = "idle"
    /\ Goto(c, "getCount")
    /\ wait' = [wait EXCEPT ![c] = w]
    /\ UNCHANGED <<ElemBuffer, zHead, zTail, hCountSem, hSpaceSem, hMutex, pElem, taken>>

GetCount(c) ==
    /\ pc[c] = "getCount"
    /\ hCountSem > 0
    /\ hCountSem' = hCountSem - 1
    /\ Goto(c, "lockHead")
    /\ UNCHANGED <<ElemBuffer, zHead, zTail, hSpaceSem, hMutex, wait, pElem, taken>>

\* Rtos_GetSemaphore returned false: the call returns NULL
DequeueFails(c) ==
    /\ pc[c] = "getCount"
    /\ hCountSem = 0
    /\ wait[c] = "bounded"
    /\ Goto(c, "idle")
    /\ UNCHANGED <<ElemBuffer, zHead, zTail, hCountSem, hSpaceSem, hMutex, wait,
                   pElem, taken>>

\* Mutated: the mutex is not waited for
LockHeadBusy(c) ==
    /\ pc[c] = "lockHead"
    /\ hMutex' = c
    /\ Goto(c, "load")
    /\ UNCHANGED <<ElemBuffer, zHead, zTail, hCountSem, hSpaceSem, wait, pElem, taken>>

LockHead(c) ==
    /\ pc[c] = "lockHead"
    /\ hMutex = Free
    /\ hMutex' = c
    /\ Goto(c, "load")
    /\ UNCHANGED <<ElemBuffer, zHead, zTail, hCountSem, hSpaceSem, wait, pElem, taken>>

Load(c) ==
    /\ pc[c] = "load"
    /\ pElem' = [pElem EXCEPT ![c] = ElemBuffer[zHead]]
    /\ Goto(c, "advanceHead")
    /\ UNCHANGED <<ElemBuffer, zHead, zTail, hCountSem, hSpaceSem, hMutex, wait, taken>>

AdvanceHead(c) ==
    /\ pc[c] = "advanceHead"
    /\ zHead' = NextSlot(zHead)
    /\ hMutex' = Free
    /\ taken' = [taken EXCEPT ![c] = pElem[c]]
    /\ Goto(c, "postSpace")
    /\ UNCHANGED <<ElemBuffer, zTail, hCountSem, hSpaceSem, wait, pElem>>

\* Mutated: the wrong semaphore is released
PostSpaceAsCount(c) ==
    /\ pc[c] = "postSpace"
    /\ hCountSem' = hCountSem + 1
    /\ Goto(c, "idle")
    /\ pElem' = [pElem EXCEPT ![c] = NoElem]
    /\ UNCHANGED <<ElemBuffer, zHead, zTail, hSpaceSem, hMutex, wait, taken>>

PostSpace(c) ==
    /\ pc[c] = "postSpace"
    /\ hSpaceSem' = hSpaceSem + 1
    /\ Goto(c, "idle")
    /\ pElem' = [pElem EXCEPT ![c] = NoElem]
    /\ UNCHANGED <<ElemBuffer, zHead, zTail, hCountSem, hMutex, wait, taken>>
-----------------------------------------------------------------------------
QueueStep(p) ==
    \/ GetSpace(p) \/ QueueFails(p) \/ LockTail(p)
    \/ Store(p) \/ AdvanceTail(p) \/ PostCount(p)

DequeueStep(c) ==
    \/ GetCount(c) \/ DequeueFails(c) \/ LockHead(c)
    \/ Load(c) \/ AdvanceHead(c) \/ PostSpace(c)

Next ==
    \/ \E p \in Producers : (\E e \in Elem, w \in Waits : QueueCall(p, e, w)) \/ QueueStep(p)
    \/ \E c \in Consumers : (\E w \in Waits : DequeueCall(c, w)) \/ DequeueStep(c)

Spec == Init /\ [][Next]_vars

\* A thread inside a call keeps running, and every consumer polls again and again:
\* AL_Patchworker_Transfer dequeues each time the feeder thread goes round.
FairSpec ==
    /\ Spec
    /\ \A p \in Producers : WF_vars(QueueStep(p))
    /\ \A c \in Consumers : WF_vars(DequeueStep(c))
    /\ \A c \in Consumers : WF_vars(\E w \in Waits : DequeueCall(c, w))
-----------------------------------------------------------------------------
(* Properties *)

\* Every variable keeps its type; only the mutex owner is in a critical section.
TypeOK ==
    /\ ElemBuffer \in [Slots -> Elem \cup {NoElem}]
    /\ zHead \in Slots /\ zTail \in Slots
    /\ hCountSem \in Nat /\ hSpaceSem \in Nat
    /\ hMutex \in Threads \cup {Free}
    /\ pc \in [Threads -> ProducerPC \cup ConsumerPC]
    /\ \A p \in Producers : pc[p] \in ProducerPC
    /\ \A c \in Consumers : pc[c] \in ConsumerPC
    /\ wait \in [Threads -> Waits]
    /\ pElem \in [Threads -> Elem \cup {NoElem}]
    /\ taken \in [Consumers -> Elem \cup {NoElem}]

\* The two semaphores and the calls between a wait and a post always add up to the
\* capacity given to AL_Fifo_Init: no permit is lost or created, whatever the interleaving.
PermitsConserved ==
    hSpaceSem + hCountSem + Cardinality(Filling) + Cardinality(Filled)
      + Cardinality(Emptying) + Cardinality(Emptied) = MaxElem

\* A producer about to write its slot finds it free, so AL_Fifo_Queue never overwrites an
\* element nobody took, and a consumer about to read never reads a slot that holds none.
NoOverwriteNoUnderrun ==
    /\ \A p \in Where(pc, {"store", "advanceTail"}) : Stored < MaxElem
    /\ \A c \in Where(pc, {"load", "advanceHead"}) : Stored > 0

\* The elements of the ring, oldest first
Contents == [i \in 1 .. Stored |-> ElemBuffer[(zHead + i - 1) % zMaxElem]]

Abstract == INSTANCE BoundedQueue WITH queue <- Contents

\* The ring with its semaphores implements a bounded FIFO queue: order, no loss, no
\* duplication, for any number of producers and consumers.
ImplementsBoundedQueue == Abstract!Spec

\* The ring and its semaphores agree: what lies between head and tail is what can be taken,
\* what a producer has not announced yet and what a consumer has not removed yet.
StoredAccounted ==
    Stored = hCountSem + Cardinality(Filled) + Cardinality(Emptying)

\* The mutex is owned by the one thread inside a critical section.
MutexOwned ==
    \A t \in Threads :
        hMutex = t <=> pc[t] \in {"store", "advanceTail", "load", "advanceHead"}

\* A call keeps the pointer it was given, and inside the critical section the slot of the
\* tail, once written, and the slot of the head, once read, hold the pointer of the call.
InHand ==
    /\ \A p \in Producers : pc[p] # "idle" => pElem[p] \in Elem
    /\ \A p \in Producers : pc[p] = "advanceTail" => ElemBuffer[zTail] = pElem[p]
    /\ \A c \in Consumers : pc[c] = "advanceHead" => ElemBuffer[zHead] = pElem[c]

\* The inductive invariant behind the theorems of FifoProofs
FifoInv == TypeOK /\ PermitsConserved /\ StoredAccounted /\ MutexOwned /\ InHand

\* A blocked AL_Fifo_Queue(..., AL_WAIT_FOREVER) returns as long as the consumers keep
\* polling (one producer, as AL_BufferFeeder_PushBuffer is documented to be used).
QueueReturns == \A p \in Producers : pc[p] = "getSpace" ~> pc[p] = "idle"

\* What was stored is taken while the consumers keep polling.
StoredIsTaken == \A s \in Slots : (Stored > 0 /\ zHead = s) ~> (zHead # s)
=============================================================================
