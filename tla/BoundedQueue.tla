---------------------------- MODULE BoundedQueue ----------------------------
(***************************************************************************)
(* What a blocking FIFO of at most MaxElem pointers promises: elements     *)
(* leave in the order they entered, none is lost, duplicated or            *)
(* overwritten, and the queue never holds more than MaxElem of them.       *)
(***************************************************************************)
EXTENDS Naturals, Sequences

CONSTANTS Consumers, Elem, MaxElem, NoElem

VARIABLES
    queue,   \* elements stored and not yet taken, oldest first
    taken    \* the element each consumer took last

vars == <<queue, taken>>

Init == queue = <<>> /\ taken = [c \in Consumers |-> NoElem]

Enqueue(e) ==
    /\ Len(queue) < MaxElem
    /\ queue' = Append(queue, e)
    /\ UNCHANGED taken

Dequeue(c) ==
    /\ queue # <<>>
    /\ taken' = [taken EXCEPT ![c] = Head(queue)]
    /\ queue' = Tail(queue)

Next == (\E e \in Elem : Enqueue(e)) \/ (\E c \in Consumers : Dequeue(c))

Spec == Init /\ [][Next]_vars
=============================================================================
