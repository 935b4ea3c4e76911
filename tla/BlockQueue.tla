------------------------------ MODULE BlockQueue ------------------------------
(***************************************************************************)
(* What buffer.c promises its users: a bounded first-in first-out queue of *)
(* blocks.  A block enters at the end, only its last block may still be    *)
(* amended by the producer (a receive block is queued before the DMA has   *)
(* filled it), and blocks leave from the front, unchanged.                 *)
(***************************************************************************)
EXTENDS Naturals, Sequences

CONSTANTS Capacity,  \* the most blocks the queue holds
          Block      \* the set of block values

VARIABLE queue

Enqueue == /\ Len(queue) < Capacity
           /\ \E b \in Block : queue' = Append(queue, b)

AmendLast == /\ queue # <<>>
             /\ \E b \in Block : queue' = [queue EXCEPT ![Len(queue)] = b]

Dequeue == /\ queue # <<>>
           /\ queue' = Tail(queue)

Init == queue = <<>>

Next == Enqueue \/ AmendLast \/ Dequeue

Spec == Init /\ [][Next]_queue
===============================================================================
