--------------------------- MODULE PageAllocator ---------------------------
(***************************************************************************)
(* What the memory manager promises its callers, without a bitmap and a    *)
(* memory map: pages go back and forth between a pool and their holders.   *)
(* A caller may be refused although pages are free, but only while fewer   *)
(* than Slack are.                                                         *)
(***************************************************************************)
EXTENDS Integers, FiniteSets

CONSTANTS Pages, PageSize, Slack

VARIABLES
    stage,    \* "boot" or "open"
    free,     \* the pool
    held,     \* granted and not yet released
    answer    \* the address of the last grant, Null, or NoAnswer

Null     == 0
NoAnswer == -1

Init == stage = "boot" /\ free = {} /\ held = {} /\ answer = NoAnswer

\* The pool is filled once; the address of page 0 would read as Null.
Open ==
    /\ stage = "boot"
    /\ stage' = "open"
    /\ free' \in SUBSET (Pages \ {0})
    /\ UNCHANGED <<held, answer>>

Grant ==
    /\ stage = "open"
    /\ \E p \in free :
          /\ free' = free \ {p}
          /\ held' = held \cup {p}
          /\ answer' = p * PageSize
    /\ UNCHANGED stage

Refuse ==
    /\ stage = "open"
    /\ Cardinality(free) < Slack
    /\ answer' = Null
    /\ UNCHANGED <<stage, free, held>>

Release ==
    /\ stage = "open"
    /\ \E p \in held :
          /\ held' = held \ {p}
          /\ free' = free \cup {p}
    /\ answer' = NoAnswer
    /\ UNCHANGED stage

\* An address that is not one of a tracked page is given back.
Ignore ==
    /\ stage = "open"
    /\ answer' = NoAnswer
    /\ UNCHANGED <<stage, free, held>>

Next == Open \/ Grant \/ Refuse \/ Release \/ Ignore

Spec == Init /\ [][Next]_<<stage, free, held, answer>>
=============================================================================
