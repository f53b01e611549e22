------------------------------ MODULE FifoQueue ------------------------------
(***************************************************************************)
(* What base/BoundedBlockingQueue.h promises: a queue of at most Bound     *)
(* elements, whose put appends and whose take removes the oldest.          *)
(***************************************************************************)
EXTENDS Naturals, Sequences

CONSTANTS
    Threads,
    Values,
    NoValue,
    Bound

VARIABLES
    queue,
    taken       \* for each thread, what its last take returned

vars == <<queue, taken>>

Init ==
    /\ queue = <<>>
    /\ taken = [t \in Threads |-> NoValue]

Put(v) ==
    /\ Len(queue) < Bound
    /\ queue' = Append(queue, v)
    /\ UNCHANGED taken

Take(t) ==
    /\ queue # <<>>
    /\ taken' = [taken EXCEPT ![t] = Head(queue)]
    /\ queue' = Tail(queue)

Next ==
    \/ \E v \in Values : Put(v)
    \/ \E t \in Threads : Take(t)

Spec == Init /\ [][Next]_vars
=============================================================================
