--------------------------- MODULE KernelRefines ---------------------------
(***************************************************************************)
(* Kernel implements RoundRobin, as long as threads do not exit (they free *)
(* the CPU to idle out of turn, and may leave the queue under a command's  *)
(* cursor), the idle process is not killed while threads exist (it is made *)
(* RUNNING again off the queue) and no waiter of a mutex is deleted (it is *)
(* woken although it is DEAD).                                             *)
(***************************************************************************)
EXTENDS Kernel, Sequences

\* The linked list as a sequence.
QueueSeq == [n \in 1 .. Cardinality(Queued) |-> QueueWalk[n - 1]]

\* The states of the slots on it.
Status == [x \in Slots |-> IF x \in Queued THEN state[x] ELSE "DEAD"]

RR == INSTANCE RoundRobin WITH
    idle    <- idle_pcb,
    queue   <- QueueSeq,
    status  <- Status,
    current <- current_pcb

(***************************************************************************)
(* enqueue and dequeue walk a list pointer by pointer while ticks and      *)
(* other contexts come in between, and schedule() searches it from the     *)
(* middle, wraps around and stops where it began.  All the same, slots     *)
(* join and leave as if at once and in order, and each tick or yield gives *)
(* the CPU to the slot whose turn it is.                                   *)
(***************************************************************************)
ImplementsRoundRobin == RR!RRSpec
=============================================================================
