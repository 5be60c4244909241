---------------------------- MODULE BoundedFifo ----------------------------
(***************************************************************************)
(* What the keyboard buffer promises its two users: a first-in first-out   *)
(* queue of at most Capacity values.  A value that arrives when the queue  *)
(* is full is dropped, which is no step at all.                            *)
(***************************************************************************)
EXTENDS Naturals, Sequences

CONSTANTS Values, Capacity

VARIABLES
    queue,   \* accepted and not yet taken
    taken    \* all that has been taken, in order

Init == queue = <<>> /\ taken = <<>>

Put ==
    \E v \in Values :
        /\ Len(queue) < Capacity
        /\ queue' = Append(queue, v)
        /\ UNCHANGED taken

Take ==
    /\ queue # <<>>
    /\ taken' = Append(taken, Head(queue))
    /\ queue' = Tail(queue)

Next == Put \/ Take

Spec == Init /\ [][Next]_<<queue, taken>>
=============================================================================
