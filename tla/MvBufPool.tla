----------------------------- MODULE MvBufPool ------------------------------
(***************************************************************************)
(* AL_TMvBufPool (lib_parsing/I_PictMngr.c): the motion vector buffers, a  *)
(* stack of free identifiers with a reference count each and a semaphore   *)
(* of the free ones.  The operators map the pool before a call to the pool *)
(* after it, like those of FrmBufPool.                                     *)
(***************************************************************************)
EXTENDS Integers, SequencesExt

CONSTANT NumMv   \* iMaxBuf

ASSUME MvBufPoolAssumption == NumMv \in Nat \ {0}

MvIDs == 0 .. NumMv - 1

MvBufPools == [free : Seq(MvIDs), cnt : [MvIDs -> Nat], sem : Nat, ok : BOOLEAN]

MvBufPool_Init ==
    [free |-> [i \in 1 .. NumMv |-> i - 1], cnt |-> [m \in MvIDs |-> 0],
     sem |-> NumMv, ok |-> TRUE]

\* sMvBufPool_GetFreeBufID once the semaphore is taken; the identifier is Last(p.free)
GetFreeBufID(p) ==
    [p EXCEPT !.free = Front(@), !.cnt[Last(p.free)] = 1, !.sem = @ - 1,
              !.ok = @ /\ p.cnt[Last(p.free)] = 0]

\* A release of a buffer nobody holds is ignored
MvDecrement(p, m) ==
    IF p.cnt[m] = 0 THEN p
    ELSE IF p.cnt[m] = 1
    THEN [p EXCEPT !.cnt[m] = 0, !.free = Append(@, m), !.sem = @ + 1]
    ELSE [p EXCEPT !.cnt[m] = @ - 1]

MvIncrement(p, m) == [p EXCEPT !.cnt[m] = @ + 1]
-----------------------------------------------------------------------------
(* What the functions keep: the identifiers in the stack are those nobody holds, once each *)
MvInv(p) ==
    /\ p \in MvBufPools /\ p.ok
    /\ p.sem = Len(p.free)
    /\ \A i, j \in 1 .. Len(p.free) : p.free[i] = p.free[j] => i = j
    /\ \A m \in MvIDs : p.cnt[m] = 0 <=> \E i \in 1 .. Len(p.free) : p.free[i] = m
=============================================================================
