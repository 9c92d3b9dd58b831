----------------------------- MODULE BoundedQueue -----------------------------
(***************************************************************************)
(* What a ring buffer between two threads promises: a queue that holds at  *)
(* most Capacity items and hands them on in the order they were put in.    *)
(***************************************************************************)
EXTENDS Naturals, Sequences

CONSTANTS Item, Capacity

VARIABLE queue

Init == queue = <<>>

Put(x) == Len(queue) < Capacity /\ queue' = Append(queue, x)
Take   == queue # <<>> /\ queue' = Tail(queue)

Next == Take \/ \E x \in Item : Put(x)

Spec == Init /\ [][Next]_queue
=============================================================================
