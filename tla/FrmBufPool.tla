----------------------------- MODULE FrmBufPool -----------------------------
(***************************************************************************)
(* AL_TFrmBufPool (lib_parsing/I_PictMngr.c): the slots that hold the      *)
(* picture buffers of a decoder.  A slot counts the references the decoder *)
(* keeps on its buffer, tells whether the buffer is on its way to the      *)
(* application, and links to the next slot of the FIFO of free buffers.    *)
(*                                                                         *)
(* Each operator is one function of the source run under the mutex of the  *)
(* pool: it maps the pool before the call to the pool after it.  The field *)
(* ok turns FALSE when an assertion of the function fails.                 *)
(***************************************************************************)
EXTENDS Integers, Sequences, FiniteSets, FiniteSetsExt

CONSTANTS
    Bufs,       \* picture buffers (AL_TBuffer*)
    NoBuf,      \* NULL
    PoolSize    \* FRM_BUF_POOL_SIZE

ASSUME FrmBufPoolAssumption ==
    /\ PoolSize \in Nat \ {0}
    /\ NoBuf \notin Bufs

Slots == 0 .. PoolSize - 1
NoSlot == -1

FrmBufPools ==
    [buf : [Slots -> Bufs \cup {NoBuf}],      \* tRecBuffers.pFrame
     next : [Slots -> Slots \cup {NoSlot}],   \* iNext
     cnt : [Slots -> Int],                    \* iAccessCnt
     out : [Slots -> BOOLEAN],                \* bWillBeOutputed
     head : Slots \cup {NoSlot},
     tail : Slots \cup {NoSlot},
     number : Int,                            \* iBufNumber
     decommitted : BOOLEAN,
     event : BOOLEAN,
     ok : BOOLEAN]

FrmBufPool_Init ==
    [buf |-> [s \in Slots |-> NoBuf],
     next |-> [s \in Slots |-> NoSlot],
     cnt |-> [s \in Slots |-> -1],
     out |-> [s \in Slots |-> FALSE],
     head |-> NoSlot, tail |-> NoSlot, number |-> 0,
     decommitted |-> FALSE, event |-> FALSE, ok |-> TRUE]

\* sFrmBufPool_GetFrameIDFromDisplay
SlotOf(p, b) ==
    LET holding == {s \in Slots : p.buf[s] = b}
    IN  IF holding = {} THEN NoSlot ELSE Min(holding)

\* The slots of the FIFO, oldest first
FifoSlots(p) ==
    LET nth[i \in Nat] ==
            IF i = 0 THEN p.head
            ELSE IF nth[i - 1] = NoSlot THEN NoSlot ELSE p.next[nth[i - 1]]
        size == Cardinality({i \in 0 .. PoolSize : nth[i] # NoSlot})
    IN  [i \in 1 .. size |-> nth[i - 1]]

IsInFifo(p, b) == \E i \in DOMAIN FifoSlots(p) : p.buf[FifoSlots(p)[i]] = b

AddBufferToFifo(p, s, b) ==
    LET linked == IF p.head = NoSlot /\ p.tail = NoSlot
                  THEN [p EXCEPT !.head = s]
                  ELSE [p EXCEPT !.next[p.tail] = s]
    IN  [linked EXCEPT !.buf[s] = b, !.tail = s, !.cnt[s] = 0, !.out[s] = FALSE,
                       !.number = @ + 1]

FreeSlots(p) ==
    {s \in Slots : /\ p.buf[s] = NoBuf /\ p.next[s] = NoSlot
                   /\ p.cnt[s] = -1 /\ ~p.out[s]}

\* Mutated: nobody is told
PushBackSilent(p, b) ==
    IF FreeSlots(p) = {} THEN [p EXCEPT !.ok = FALSE]
    ELSE AddBufferToFifo(p, Min(FreeSlots(p)), b)

PushBack(p, b) ==
    IF FreeSlots(p) = {} THEN [p EXCEPT !.ok = FALSE]
    ELSE [AddBufferToFifo(p, Min(FreeSlots(p)), b) EXCEPT !.event = TRUE]

RemoveBufferFromFifo(p) ==
    LET rest == p.next[p.head]
    IN  [p EXCEPT !.number = @ - 1, !.head = rest,
                  !.tail = IF rest = NoSlot THEN NoSlot ELSE @,
                  !.next[p.head] = NoSlot, !.cnt[p.head] = 1]

\* The part of sFrmBufPoolFifo_Pop after its wait loop; the slot returned is p.head
Pop(p) ==
    [RemoveBufferFromFifo(p) EXCEPT
        !.ok = /\ @ /\ p.buf[p.head] # NoBuf
               /\ p.cnt[p.head] = 0 /\ ~p.out[p.head]]

Decommit(p) == [p EXCEPT !.decommitted = TRUE, !.event = TRUE]

RemoveID(p, s) ==
    [p EXCEPT !.buf[s] = NoBuf, !.next[s] = NoSlot, !.cnt[s] = -1, !.out[s] = FALSE,
              !.ok = @ /\ p.buf[s] # NoBuf /\ p.next[s] = NoSlot /\ p.cnt[s] = 0]

\* The buffer of slot s becomes free: it leaves its slot and queues up in the FIFO
Recycle(p, s) ==
    LET q == RemoveID(p, s)
    IN  PushBack([q EXCEPT !.ok = @ /\ ~IsInFifo(q, p.buf[s])], p.buf[s])

\* Mutated: a buffer that was output is recycled too
DecrementBufIDAlways(p, s) ==
    LET q == [p EXCEPT !.cnt[s] = @ - 1, !.ok = @ /\ p.cnt[s] >= 1]
    IN  IF q.cnt[s] # 0 THEN q ELSE Recycle(q, s)

\* The last reference gives the buffer back, to the application when it was output
DecrementBufID(p, s) ==
    LET q == [p EXCEPT !.cnt[s] = @ - 1, !.ok = @ /\ p.cnt[s] >= 1]
    IN  IF q.cnt[s] # 0 THEN q
        ELSE IF q.out[s] THEN RemoveID(q, s) ELSE Recycle(q, s)

IncrementBufID(p, s) == [p EXCEPT !.cnt[s] = @ + 1, !.ok = @ /\ p.cnt[s] >= 0]

\* Mutated: the buffer is not marked as output
OutputBufIDUnmarked(p, s) == [p EXCEPT !.ok = @ /\ ~p.out[s]]

OutputBufID(p, s) == [p EXCEPT !.out[s] = TRUE, !.ok = @ /\ ~p.out[s]]

\* The application returns a buffer the decoder still has a slot for
ReleaseDisplaySlot(p, s) ==
    LET q == [p EXCEPT !.out[s] = FALSE, !.ok = @ /\ p.out[s]]
    IN  IF q.cnt[s] = 0 THEN Recycle(q, s) ELSE q

PutDisplayBuffer(p, b) ==
    IF SlotOf(p, b) = NoSlot THEN PushBack(p, b)
    ELSE ReleaseDisplaySlot(p, SlotOf(p, b))

\* sFrmBufPoolFifo_FlushOneDisplayBuffer of a pool whose FIFO is not empty
FlushOneDisplayBuffer(p) ==
    [RemoveBufferFromFifo(p) EXCEPT
        !.cnt[p.head] = 0, !.out[p.head] = TRUE,
        !.ok = @ /\ p.cnt[p.head] = 0 /\ ~p.out[p.head]]

SignalCallbackReleaseIsDone(p, b) ==
    LET s == SlotOf(p, b)
    IN  RemoveID([p EXCEPT !.out[s] = FALSE,
                           !.ok = @ /\ ~IsInFifo(p, b) /\ p.out[s]], s)
-----------------------------------------------------------------------------
(* What the functions keep *)

\* The references on the buffer of slot s
RefsOn(p, s) == IF p.buf[s] = NoBuf THEN 0 ELSE p.cnt[s]

\* q is the FIFO: its slots are linked in this order and no others are
Linked(p, q) ==
    /\ q \in Seq(Slots)
    /\ \A i, j \in 1 .. Len(q) : q[i] = q[j] => i = j
    /\ p.head = IF q = <<>> THEN NoSlot ELSE q[1]
    /\ p.tail = IF q = <<>> THEN NoSlot ELSE q[Len(q)]
    /\ \A i \in 1 .. Len(q) : p.next[q[i]] = IF i = Len(q) THEN NoSlot ELSE q[i + 1]
    /\ \A s \in Slots : (\A i \in 1 .. Len(q) : q[i] # s) => p.next[s] = NoSlot
    /\ p.number = Len(q)

\* A slot is empty, in the FIFO, or holds a buffer the decoder or the application uses
SlotsWhole(p, q) ==
    \A s \in Slots :
        /\ p.buf[s] = NoBuf => p.cnt[s] = -1 /\ ~p.out[s]
        /\ p.buf[s] # NoBuf => p.cnt[s] >= 0
        /\ p.out[s] => p.cnt[s] >= 1
        /\ p.buf[s] # NoBuf =>
              (p.cnt[s] = 0 /\ ~p.out[s] <=> \E i \in 1 .. Len(q) : q[i] = s)
        /\ p.buf[s] = NoBuf => \A i \in 1 .. Len(q) : q[i] # s
        /\ \A r \in Slots : p.buf[s] = p.buf[r] /\ p.buf[s] # NoBuf => s = r

\* The pool is whole and none of its assertions has failed.
PoolInv(p) ==
    /\ p \in FrmBufPools /\ p.ok
    /\ Linked(p, FifoSlots(p)) /\ SlotsWhole(p, FifoSlots(p))
=============================================================================
