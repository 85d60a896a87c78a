---------------------------- MODULE BoundedQueue ----------------------------
(***************************************************************************)
(* What src/NTHU-OS-Pthreads/ts_queue.hpp promises its callers: a bounded  *)
(* FIFO whose three operations take effect at one instant each.            *)
(*                                                                         *)
(* An item is a pointer (TSQueue<Item*>), handed to the queue once, so the *)
(* callers' work is the set `pending` of items no enqueue has stored yet.  *)
(* `result` is what the last call of a dequeuing or sampling thread        *)
(* returned.                                                               *)
(***************************************************************************)
EXTENDS Naturals, Sequences

CONSTANTS Items, Dequeuers, Sizers, Capacity, None

VARIABLES queue, pending, result

qvars == <<queue, pending, result>>

Init == /\ queue = <<>>
        /\ pending = Items
        /\ result = [t \in Dequeuers \cup Sizers |-> None]

\* add an element to the end of the queue; blocks while the queue is full
Enqueue(item) == /\ item \in pending
                 /\ Len(queue) < Capacity
                 /\ queue' = Append(queue, item)
                 /\ pending' = pending \ {item}
                 /\ UNCHANGED result

\* remove and return the first element; blocks while the queue is empty
Dequeue(t) == /\ queue # <<>>
              /\ result' = [result EXCEPT ![t] = Head(queue)]
              /\ queue' = Tail(queue)
              /\ UNCHANGED pending

\* return the number of elements
GetSize(t) == /\ result' = [result EXCEPT ![t] = Len(queue)]
              /\ UNCHANGED <<queue, pending>>

Next == \/ \E item \in Items : Enqueue(item)
        \/ \E t \in Dequeuers : Dequeue(t)
        \/ \E t \in Sizers : GetSize(t)

Spec == Init /\ [][Next]_qvars
=============================================================================
