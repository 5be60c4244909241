----------------------------- MODULE RoundRobin -----------------------------
(***************************************************************************)
(* What the scheduler promises, without lists, walks and pointers: the run *)
(* queue is a sequence that slots join at its end and leave anywhere, at   *)
(* once; the CPU goes to the next READY slot in turn, or to idle.          *)
(***************************************************************************)
EXTENDS Integers, Sequences

CONSTANTS Slots, idle

VARIABLES
    queue,     \* the run queue
    status,    \* of each slot; DEAD for those that are not in the queue
    current

rrVars == <<queue, status, current>>

InQueue(x) == \E i \in DOMAIN queue : queue[i] = x

\* The slots of the queue in the order of their turns: those behind the
\* current one come first, the current one comes last.
Turns ==
    IF InQueue(current)
    THEN LET i == CHOOSE n \in DOMAIN queue : queue[n] = current
         IN  SubSeq(queue, i + 1, Len(queue)) \o SubSeq(queue, 1, i)
    ELSE queue

\* The slot whose turn it is.
Elected ==
    LET ready == {i \in DOMAIN Turns : status[Turns[i]] = "READY"}
    IN  IF ready = {} THEN idle
        ELSE Turns[CHOOSE i \in ready : \A j \in ready : i <= j]

RRInit ==
    /\ queue = <<idle>>
    /\ status = [x \in Slots |-> IF x = idle THEN "RUNNING" ELSE "DEAD"]
    /\ current = idle

Dispatch ==
    /\ Elected # current
    /\ current' = Elected
    /\ status' = [status EXCEPT
                    ![current] = IF @ = "RUNNING" THEN "READY" ELSE @,
                    ![Elected] = IF InQueue(Elected) THEN "RUNNING" ELSE @]
    /\ UNCHANGED queue

Join(x) ==
    /\ ~InQueue(x)
    /\ queue' = Append(queue, x)
    /\ status' = [status EXCEPT ![x] = "READY"]
    /\ UNCHANGED current

\* A slot waits, is woken, or is killed.
Mark(x) ==
    /\ InQueue(x)
    /\ \/ status[x] \in {"READY", "RUNNING"} /\ status' = [status EXCEPT ![x] = "BLOCKED"]
       \/ status[x] = "BLOCKED" /\ status' = [status EXCEPT ![x] = "READY"]
       \/ status[x] # "DEAD" /\ status' = [status EXCEPT ![x] = "DEAD"]
    /\ UNCHANGED <<queue, current>>

\* A killed slot leaves the queue, and the others keep their order.
Leave(x) ==
    /\ status[x] = "DEAD"
    /\ \E i \in DOMAIN queue :
          /\ queue[i] = x
          /\ queue' = [n \in 1 .. (Len(queue) - 1) |-> queue[IF n < i THEN n ELSE n + 1]]
    /\ UNCHANGED <<status, current>>

RRNext == Dispatch \/ \E x \in Slots : Join(x) \/ Mark(x) \/ Leave(x)

RRSpec == RRInit /\ [][RRNext]_rrVars
=============================================================================
