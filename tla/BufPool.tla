------------------------------- MODULE BufPool -------------------------------
(***************************************************************************)
(* AL_TBufPool (vcu-ctrl-lib-app/lib_app/BufPool.cpp): buffers that go     *)
(* back to a ring when their last reference is dropped, and threads that   *)
(* wait for one (AL_BUF_MODE_BLOCK).  Getters wait on one event that       *)
(* resets itself, which is modelled down to the condition variable of      *)
(* lib_rtos.c.                                                             *)
(*                                                                         *)
(* What is done under the mutex of the ring is one step, SetEvent in it    *)
(* included: nobody else reads the ring before the mutex is released.      *)
(***************************************************************************)
EXTENDS Integers, FiniteSets, Sequences

CONSTANTS
    Getters,    \* threads that call AL_BufPool_GetBuffer
    Givers,     \* the other threads that use buffers
    Buffers,    \* the buffers of the pool
    NoBuf       \* NULL

Threads == Getters \cup Givers
MaxElem == Cardinality(Buffers)

ASSUME BufPoolAssumption ==
    /\ Getters \cap Givers = {} /\ NoBuf \notin Buffers
    /\ IsFiniteSet(Buffers) /\ Buffers # {} /\ IsFiniteSet(Threads)

Slots == 0 .. MaxElem
NextSlot(s) == (s + 1) % (MaxElem + 1)

VARIABLES
    ring, zHead, zTail, iBufNumber, isDecommited, hSpaceSem,   \* App_Fifo
    signaled,   \* bSignaled of its event
    made,       \* buffers the initialisation has put in the pool
    refs,       \* who holds a reference to each buffer
    pc,         \* where each thread is in its call
    pElem       \* the buffer a thread takes or puts back

poolVars == <<ring, zHead, zTail, iBufNumber, isDecommited, hSpaceSem, signaled, made, refs,
              pc, pElem>>

PoolInit ==
    /\ ring = [s \in Slots |-> NoBuf] /\ zHead = 0 /\ zTail = 0 /\ iBufNumber = 0
    /\ isDecommited = FALSE /\ signaled = FALSE
    /\ hSpaceSem = MaxElem
    /\ made = {} /\ refs = [b \in Buffers |-> {}]
    /\ pc = [t \in Threads |-> "idle"] /\ pElem = [t \in Threads |-> NoBuf]
-----------------------------------------------------------------------------
(* The event *)

Asleep(f) == {t \in Threads : f[t] = "asleep"}

\* Rtos_SetEvent, when the threads are at f otherwise: the condition wakes one of them
SetEvent(f) ==
    /\ signaled' = TRUE
    /\ IF Asleep(f) = {} THEN pc' = f
       ELSE \E w \in Asleep(f) : pc' = [f EXCEPT ![w] = "woken"]

EventOnly ==
    UNCHANGED <<ring, zHead, zTail, iBufNumber, isDecommited, hSpaceSem, made, refs, pElem>>

\* Rtos_WaitEvent, on entry and after each return of the condition
WaitEvent(t) ==
    /\ pc[t] \in {"wait", "woken"}
    /\ pc' = [pc EXCEPT ![t] = IF signaled THEN "look" ELSE "asleep"]
    /\ signaled' = FALSE
    /\ EventOnly

\* A condition may return without a signal
WakeUnsignaled(t) ==
    /\ pc[t] = "asleep"
    /\ pc' = [pc EXCEPT ![t] = "woken"]
    /\ UNCHANGED signaled
    /\ EventOnly
-----------------------------------------------------------------------------
(* Initialisation, AL_BufPool_GetBuffer and AL_BufPool_Decommit *)

\* AL_sBufPool_AllocBuf, before the other threads know the pool
AllocBuf(b) ==
    /\ b \in Buffers \ made
    /\ made' = made \cup {b}
    /\ hSpaceSem' = hSpaceSem - 1
    /\ ring' = [ring EXCEPT ![zTail] = b]
    /\ zTail' = NextSlot(zTail)
    /\ iBufNumber' = iBufNumber + 1
    /\ SetEvent(pc)
    /\ UNCHANGED <<zHead, isDecommited, refs, pElem>>

GetBuffer(t) ==
    /\ made = Buffers /\ pc[t] = "idle"
    /\ pc' = [pc EXCEPT ![t] = "look"]
    /\ UNCHANGED <<ring, zHead, zTail, iBufNumber, isDecommited, hSpaceSem, signaled, made,
                   refs, pElem>>

Take(t) ==
    /\ pc[t] = "look" /\ iBufNumber > 0
    /\ pc' = [pc EXCEPT ![t] = "postSpace"]
    /\ pElem' = [pElem EXCEPT ![t] = ring[zHead]]
    /\ zHead' = NextSlot(zHead)
    /\ iBufNumber' = iBufNumber - 1
    /\ UNCHANGED <<ring, zTail, isDecommited, hSpaceSem, signaled, made, refs>>

\* The call returns NULL, or waits
LookAgain(t) ==
    /\ pc[t] = "look" /\ iBufNumber = 0
    /\ pc' = [pc EXCEPT ![t] = IF isDecommited THEN "idle" ELSE "wait"]
    /\ UNCHANGED <<ring, zHead, zTail, iBufNumber, isDecommited, hSpaceSem, signaled, made,
                   refs, pElem>>

\* Mutated: the slot is not given back
PostSpaceNot(t) ==
    /\ pc[t] = "postSpace"
    /\ refs' = [refs EXCEPT ![pElem[t]] = @ \cup {t}]
    /\ pc' = [pc EXCEPT ![t] = "idle"]
    /\ pElem' = [pElem EXCEPT ![t] = NoBuf]
    /\ UNCHANGED <<ring, zHead, zTail, iBufNumber, isDecommited, hSpaceSem, signaled, made>>

\* The caller's reference is taken once the slot is free
PostSpace(t) ==
    /\ pc[t] = "postSpace"
    /\ hSpaceSem' = hSpaceSem + 1
    /\ refs' = [refs EXCEPT ![pElem[t]] = @ \cup {t}]
    /\ pc' = [pc EXCEPT ![t] = "idle"]
    /\ pElem' = [pElem EXCEPT ![t] = NoBuf]
    /\ UNCHANGED <<ring, zHead, zTail, iBufNumber, isDecommited, signaled, made>>

Decommit(t) ==
    /\ pc[t] = "idle" /\ made = Buffers
    /\ isDecommited' = TRUE
    /\ SetEvent(pc)
    /\ UNCHANGED <<ring, zHead, zTail, iBufNumber, hSpaceSem, made, refs, pElem>>
-----------------------------------------------------------------------------
(* References: AL_Buffer_Ref, AL_Buffer_Unref and FreeBufInPool *)

Ref(t, h, b) ==
    /\ t \in refs[b] /\ h \notin refs[b]
    /\ refs' = [refs EXCEPT ![b] = @ \cup {h}]
    /\ UNCHANGED <<ring, zHead, zTail, iBufNumber, isDecommited, hSpaceSem, signaled, made, pc,
                   pElem>>

\* Mutated: a buffer goes back to the pool at the first reference dropped
IsLastOfAny(h, b) == TRUE

IsLast(h, b) == refs[b] = {h}

\* Thread t drops the reference of the holder h; the last one puts the buffer back
Unref(t, h, b) ==
    /\ pc[t] = "idle" /\ h \in refs[b]
    /\ refs' = [refs EXCEPT ![b] = @ \ {h}]
    /\ IF IsLast(h, b)
       THEN /\ pc' = [pc EXCEPT ![t] = "getSpace"]
            /\ pElem' = [pElem EXCEPT ![t] = b]
       ELSE UNCHANGED <<pc, pElem>>
    /\ UNCHANGED <<ring, zHead, zTail, iBufNumber, isDecommited, hSpaceSem, signaled, made>>

GetSpace(t) ==
    /\ pc[t] = "getSpace" /\ hSpaceSem > 0
    /\ hSpaceSem' = hSpaceSem - 1
    /\ pc' = [pc EXCEPT ![t] = "store"]
    /\ UNCHANGED <<ring, zHead, zTail, iBufNumber, isDecommited, signaled, made, refs, pElem>>

\* Mutated: a buffer is put back and nobody woken
StoreSilently(t) ==
    /\ pc[t] = "store"
    /\ ring' = [ring EXCEPT ![zTail] = pElem[t]]
    /\ zTail' = NextSlot(zTail)
    /\ iBufNumber' = iBufNumber + 1
    /\ pElem' = [pElem EXCEPT ![t] = NoBuf]
    /\ pc' = [pc EXCEPT ![t] = "idle"]
    /\ UNCHANGED <<zHead, isDecommited, hSpaceSem, signaled, made, refs>>

Store(t) ==
    /\ pc[t] = "store"
    /\ ring' = [ring EXCEPT ![zTail] = pElem[t]]
    /\ zTail' = NextSlot(zTail)
    /\ iBufNumber' = iBufNumber + 1
    /\ pElem' = [pElem EXCEPT ![t] = NoBuf]
    /\ SetEvent([pc EXCEPT ![t] = "idle"])
    /\ UNCHANGED <<zHead, isDecommited, hSpaceSem, made, refs>>
-----------------------------------------------------------------------------
\* What a thread inside a call does next
PoolStep(t) ==
    \/ WaitEvent(t) \/ Take(t) \/ LookAgain(t) \/ PostSpace(t)
    \/ GetSpace(t) \/ Store(t)

PoolNext ==
    \/ \E b \in Buffers : AllocBuf(b)
    \/ \E t \in Getters : GetBuffer(t)
    \/ \E t \in Givers : ~isDecommited /\ Decommit(t)
    \/ \E t, h \in Threads, b \in Buffers : Ref(t, h, b)
    \/ \E t \in Threads, b \in Buffers : Unref(t, t, b)
    \/ \E t \in Threads : PoolStep(t) \/ WakeUnsignaled(t)

PoolSpec == PoolInit /\ [][PoolNext]_poolVars

\* A thread inside a call keeps running; nobody has to give a buffer back
PoolFairSpec == PoolSpec /\ \A t \in Threads : WF_poolVars(PoolStep(t))
-----------------------------------------------------------------------------
(* Properties *)

\* The buffers in the ring, oldest first
Stored == [i \in 1 .. iBufNumber |-> ring[(zHead + i - 1) % (MaxElem + 1)]]

\* Types of the variables, and zTail iBufNumber slots past zHead.
PoolTypeOK ==
    /\ ring \in [Slots -> Buffers \cup {NoBuf}]
    /\ zHead \in Slots /\ zTail \in Slots /\ iBufNumber \in 0 .. MaxElem
    /\ zTail = (zHead + iBufNumber) % (MaxElem + 1)
    /\ isDecommited \in BOOLEAN /\ signaled \in BOOLEAN
    /\ hSpaceSem \in 0 .. MaxElem /\ made \subseteq Buffers
    /\ refs \in [Buffers -> SUBSET Threads]
    /\ pc \in [Threads -> {"idle", "look", "wait", "asleep", "woken", "postSpace", "getSpace",
                           "store"}]
    /\ pElem \in [Threads -> Buffers \cup {NoBuf}]

\* Every buffer is in exactly one place: in the ring, referenced, or on its way between
\* the two: nobody is given a buffer that somebody still uses (AL_BufPool_GetBuffer,
\* FreeBufInPool).
InOnePlace ==
    \A b \in made :
        LET inRing == {i \in DOMAIN Stored : Stored[i] = b}
            onTheWay == {t \in Threads : pElem[t] = b}
        IN  Cardinality(inRing) + Cardinality(onTheWay)
              + (IF refs[b] = {} THEN 0 ELSE 1) = 1

\* Threads that take a buffer out or put one back, those between the ring and its semaphore
OnTheWay == {t \in Threads : pElem[t] # NoBuf}
Taken == {t \in Threads : pc[t] = "postSpace"}
Storing == {t \in Threads : pc[t] = "store"}
Referenced == {b \in Buffers : refs[b] # {}}
Unmade == Buffers \ made

\* A thread has a buffer in hand exactly between the ring and a reference.
HandsFull ==
    \A t \in Threads :
        pElem[t] # NoBuf <=> pc[t] \in {"postSpace", "getSpace", "store"}

\* InOnePlace, place by place
RingApart ==
    \A i \in DOMAIN Stored :
        /\ Stored[i] \in made /\ refs[Stored[i]] = {}
        /\ \A t \in Threads : pElem[t] # Stored[i]
        /\ \A j \in DOMAIN Stored : Stored[i] = Stored[j] => i = j
HandsApart ==
    \A t \in OnTheWay :
        /\ pElem[t] \in made /\ refs[pElem[t]] = {}
        /\ \A u \in OnTheWay : pElem[u] = pElem[t] => u = t
Somewhere ==
    /\ \A b \in made :
        \/ refs[b] # {}
        \/ \E i \in DOMAIN Stored : Stored[i] = b
        \/ \E t \in OnTheWay : pElem[t] = b
    /\ \A b \in Unmade : refs[b] = {}

\* The places hold all the buffers, and the semaphore and the ring all the slots.
BuffersCounted ==
    iBufNumber + Cardinality(OnTheWay) + Cardinality(Referenced) + Cardinality(Unmade) = MaxElem
SlotsCounted ==
    hSpaceSem + iBufNumber + Cardinality(Taken) + Cardinality(Storing) = MaxElem

\* The inductive invariant behind the theorems of BufPoolProofs
PoolInv ==
    /\ PoolTypeOK /\ HandsFull /\ RingApart /\ HandsApart /\ Somewhere
    /\ BuffersCounted /\ SlotsCounted

\* Whoever drops the last reference finds a permit: the free callback of a buffer, which
\* callers take for a short call, never waits although it asks for AL_WAIT_FOREVER.
PutBackNeverWaits == \A t \in Threads : pc[t] = "getSpace" => hSpaceSem > 0

Getting(t) == pc[t] \in {"look", "wait", "asleep", "woken"}

\* BufPool.h: "Decommit the pool. This deblocks all the blocking call to
\* AL_BufPool_GetBuffer."
DecommitDeblocks == \A g \in Getters : Getting(g) /\ isDecommited ~> ~Getting(g)
=============================================================================
