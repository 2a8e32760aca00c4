------------------------------- MODULE FifoQueue -------------------------------
(***************************************************************************)
(* LA9's Queue: a ring of `capacity' places, with -1 for front and rear    *)
(* while it is empty.                                                      *)
(***************************************************************************)
EXTENDS Integers, Sequences

create_queue(capacity) ==
    [array |-> [i \in 0 .. capacity - 1 |-> 0],
     front |-> -1, rear |-> -1, size |-> 0, capacity |-> capacity]

is_empty(q) == q.size = 0

(* Variant with a fault: the rear runs off the end of the array. *)
EnqueueUnwrapped(q, item) ==
    [q EXCEPT !.rear = q.rear + 1, !.array = [@ EXCEPT ![q.rear + 1] = item],
              !.size = q.size + 1, !.front = IF @ = -1 THEN 0 ELSE @]

(* An item for a full queue is dropped. *)
enqueue(q, item) ==
    LET rear == (q.rear + 1) % q.capacity IN
    IF q.size = q.capacity THEN q
    ELSE [q EXCEPT !.rear = rear, !.array = [@ EXCEPT ![rear] = item],
                   !.size = q.size + 1, !.front = IF @ = -1 THEN 0 ELSE @]

(* dequeue returns the first item of a queue that is not empty ...         *)
First(q) == q.array[q.front]

(* ... and leaves the others. *)
Dequeued(q) ==
    IF q.size = 1 THEN [q EXCEPT !.size = 0, !.front = -1, !.rear = -1]
    ELSE [q EXCEPT !.size = q.size - 1, !.front = (@ + 1) % q.capacity]

(* The items in the queue, first come first. *)
Items(q) == [i \in 1 .. q.size |-> q.array[(q.front + i - 1) % q.capacity]]
=============================================================================
