-------------------------- MODULE KernelLists_proof --------------------------
(***************************************************************************)
(* The run queue and the wait list, for any number of slots: what a walk   *)
(* of a linked list meets, and what stays linked while commands, ticks and *)
(* threads come in between.                                                *)
(***************************************************************************)
EXTENDS Kernel_proof, FiniteSetTheorems

USE DEF kernelVars, schedVars, threadVars, pcbVars, queueVars, pmmVars, trapVars,
        mutexVars, frameVars, hostVars, heapVars
-----------------------------------------------------------------------------
(***************************************************************************)
(* Walks of a linked list.                                                 *)
(***************************************************************************)

\* The nodes that the first N steps along succ meet, from head on.
IsWalk(walk, head, succ, N) ==
    walk = [n \in 0 .. N |-> IF n = 0 THEN head
                             ELSE IF walk[n - 1] = NULL THEN NULL ELSE succ[walk[n - 1]]]

\* A list can be walked for any number of steps.
LEMMA WalkExists ==
    ASSUME NEW N \in Nat, NEW head, NEW succ
    PROVE  \E walk : IsWalk(walk, head, succ, N)
<1> DEFINE Bad == {k \in Nat : ~ \E walk : IsWalk(walk, head, succ, k)}
<1> SUFFICES ASSUME N \in Bad PROVE FALSE
  OBVIOUS
<1>1. PICK k \in Bad : \A j \in Bad : k <= j
  <2>1. Bad \in SUBSET Nat /\ Bad # {}
    OBVIOUS
  <2> HIDE DEF Bad
  <2> QED BY <2>1, LeastNatural
<1>2. CASE k = 0
  <2> DEFINE w == [n \in 0 .. 0 |-> head]
  <2>1. IsWalk(w, head, succ, 0)
    BY DEF IsWalk
  <2> QED BY <1>2, <2>1
<1>3. CASE k # 0
  <2>1. k - 1 \in Nat /\ k - 1 \notin Bad
    BY <1>1, <1>3
  <2>2. PICK w : IsWalk(w, head, succ, k - 1)
    BY <2>1
  <2> DEFINE v == [n \in 0 .. k |-> IF n = k THEN IF w[k - 1] = NULL THEN NULL ELSE succ[w[k - 1]]
                                    ELSE w[n]]
  <2>3. \A n \in 0 .. (k - 1) : v[n] = w[n]
    BY <2>1
  <2>4. \A n \in 0 .. k : v[n] = IF n = 0 THEN head
                                 ELSE IF v[n - 1] = NULL THEN NULL ELSE succ[v[n - 1]]
    <3> TAKE n \in 0 .. k
    <3>1. CASE n = k
      BY <1>3, <2>1, <2>3, <3>1
    <3>2. CASE n # k
      <4>1. n \in 0 .. (k - 1) /\ (n # 0 => n - 1 \in 0 .. (k - 1))
        BY <3>2
      <4>2. w[n] = IF n = 0 THEN head ELSE IF w[n - 1] = NULL THEN NULL ELSE succ[w[n - 1]]
        BY <2>2, <4>1 DEF IsWalk
      <4> QED BY <2>3, <4>1, <4>2
    <3> QED BY <3>1, <3>2
  <2>5. IsWalk(v, head, succ, k)
    BY <2>4 DEF IsWalk
  <2> QED BY <1>1, <2>5
<1> QED BY <1>2, <1>3

\* The steps of a walk, one by one.
LEMMA WalkSteps ==
    ASSUME NEW N \in Nat, NEW head, NEW succ, NEW walk, IsWalk(walk, head, succ, N)
    PROVE  /\ DOMAIN walk = 0 .. N
           /\ walk[0] = head
           /\ \A n \in 0 .. N : n # N =>
                 walk[n + 1] = IF walk[n] = NULL THEN NULL ELSE succ[walk[n]]
<1>1. DOMAIN walk = 0 .. N /\ walk[0] = head
  BY DEF IsWalk
<1>2. ASSUME NEW n \in 0 .. N, n # N
      PROVE  walk[n + 1] = IF walk[n] = NULL THEN NULL ELSE succ[walk[n]]
  <2>1. n + 1 \in 0 .. N /\ n + 1 # 0 /\ (n + 1) - 1 = n
    BY <1>2
  <2> QED BY <2>1 DEF IsWalk
<1> QED BY <1>1, <1>2

\* A walk stays among the nodes that it cannot leave.
LEMMA WalkInside ==
    ASSUME NEW N \in Nat, NEW head, NEW succ, NEW walk, IsWalk(walk, head, succ, N),
           NEW D, head \in D \cup {NULL}, \A x \in D : succ[x] \in D \cup {NULL}
    PROVE  \A n \in 0 .. N : walk[n] \in D \cup {NULL}
<1> DEFINE Bad == {n \in 0 .. N : walk[n] \notin D \cup {NULL}}
<1> SUFFICES ASSUME Bad # {} PROVE FALSE
  OBVIOUS
<1>1. PICK k \in Bad : \A j \in Bad : k <= j
  <2>1. Bad \in SUBSET Nat
    OBVIOUS
  <2> HIDE DEF Bad
  <2> QED BY <2>1, LeastNatural
<1>2. k # 0
  BY WalkSteps
<1>3. k - 1 \in 0 .. N /\ k - 1 # N /\ (k - 1) + 1 = k /\ k - 1 \notin Bad
  BY <1>1, <1>2
<1>4. walk[k] = IF walk[k - 1] = NULL THEN NULL ELSE succ[walk[k - 1]]
  BY <1>3, WalkSteps
<1> QED BY <1>3, <1>4

\* What follows the end of a list is nothing.
LEMMA WalkEnds ==
    ASSUME NEW N \in Nat, NEW head, NEW succ, NEW walk, IsWalk(walk, head, succ, N),
           walk[N] # NULL
    PROVE  \A n \in 0 .. N : walk[n] # NULL
<1> DEFINE Bad == {k \in 0 .. N : walk[N - k] = NULL}
<1> SUFFICES ASSUME NEW n \in 0 .. N, walk[n] = NULL PROVE FALSE
  OBVIOUS
<1>0. N - n \in Bad
  OBVIOUS
<1>1. PICK k \in Bad : \A j \in Bad : k <= j
  <2>1. Bad \in SUBSET Nat /\ Bad # {}
    BY <1>0
  <2> HIDE DEF Bad
  <2> QED BY <2>1, LeastNatural
<1>2. k # 0
  OBVIOUS
<1>3. /\ k - 1 \in 0 .. N /\ k - 1 \notin Bad /\ N - k \in 0 .. N /\ N - k # N
      /\ (N - k) + 1 = N - (k - 1)
  BY <1>1, <1>2
<1>4. walk[(N - k) + 1] = NULL
  BY <1>3, WalkSteps
<1> QED BY <1>3, <1>4

\* A walk that is longer than there are nodes meets one of them twice.
LEMMA WalkRepeats ==
    ASSUME NEW N \in Nat, NEW head, NEW succ, NEW walk, IsWalk(walk, head, succ, N),
           NEW D, IsFiniteSet(D), Cardinality(D) <= N,
           \A n \in 0 .. N : walk[n] \in D
    PROVE  \E i, j \in 0 .. N : i < j /\ walk[i] = walk[j]
<1>1. walk \in [0 .. N -> D]
  BY DEF IsWalk
<1>2. IsFiniteSet(0 .. N) /\ Cardinality(0 .. N) = N + 1
  BY FS_Interval
<1>3. Cardinality(D) \in Nat
  BY FS_CardinalityType
<1>4. Cardinality(D) < Cardinality(0 .. N)
  BY <1>2, <1>3
<1>5. PICK x, y \in 0 .. N : x # y /\ walk[x] = walk[y]
  BY <1>1, <1>2, <1>4, FS_PigeonHole
<1> QED BY <1>5

\* A walk of a list that links P comes to its end, and has met all of P.
LEMMA LinksWalk ==
    ASSUME NEW N \in Nat, NEW head, NEW succ, NEW walk, IsWalk(walk, head, succ, N),
           NEW D, IsFiniteSet(D), Cardinality(D) <= N, NULL \notin D,
           NEW P \in SUBSET D, Links(P, head, succ)
    PROVE  walk[N] = NULL /\ {walk[n] : n \in DOMAIN walk} \ {NULL} = P
<1>1. \A n \in 0 .. N : walk[n] \in P \cup {NULL}
  BY WalkInside DEF Links
<1>2. ASSUME walk[N] # NULL PROVE FALSE
  <2>1. \A n \in 0 .. N : walk[n] # NULL /\ walk[n] \in P
    BY <1>1, <1>2, WalkEnds
  <2>2. PICK i0, j0 \in 0 .. N : i0 < j0 /\ walk[i0] = walk[j0]
    BY <2>1, WalkRepeats
  <2> DEFINE Bad == {i \in 0 .. N : \E j \in 0 .. N : i < j /\ walk[i] = walk[j]}
  <2>3. PICK i \in Bad : \A k \in Bad : i <= k
    <3>1. Bad \in SUBSET Nat /\ Bad # {}
      BY <2>2
    <3> HIDE DEF Bad
    <3> QED BY <3>1, LeastNatural
  <2>4. PICK j \in 0 .. N : i < j /\ walk[i] = walk[j]
    BY <2>3
  <2>5. j - 1 \in 0 .. N /\ j - 1 # N /\ (j - 1) + 1 = j
    BY <2>4
  <2>6. walk[j] = succ[walk[j - 1]]
    BY <2>1, <2>5, WalkSteps
  <2>7. CASE i = 0
    <3>1. walk[j] = head /\ head # NULL
      BY <2>1, <2>4, <2>7, WalkSteps
    <3> QED BY <2>1, <2>5, <2>6, <3>1 DEF Links
  <2>8. CASE i # 0
    <3>1. i - 1 \in 0 .. N /\ i - 1 # N /\ (i - 1) + 1 = i /\ i - 1 < j - 1 /\ i - 1 < i
      BY <2>4, <2>8
    <3>2. walk[i] = succ[walk[i - 1]]
      BY <2>1, <3>1, WalkSteps
    <3>3. walk[i - 1] = walk[j - 1]
      BY <2>1, <2>4, <2>5, <2>6, <3>1, <3>2 DEF Links
    <3>4. i - 1 \in Bad
      BY <2>5, <3>1, <3>3
    <3> QED BY <2>3, <3>1, <3>4
  <2> QED BY <2>7, <2>8
<1>3. ASSUME NEW x \in P PROVE \E n \in 0 .. N : walk[n] = x
  <2> DEFINE S == {y \in P : \A n \in 0 .. N : walk[n] # y}
  <2> SUFFICES ASSUME x \in S PROVE FALSE
    OBVIOUS
  <2>1. head \notin S
    BY WalkSteps
  <2>2. PICK y \in P \ S : succ[y] \in S
    <3>1. S \in SUBSET P /\ S # {}
      OBVIOUS
    <3> HIDE DEF S
    <3> QED BY <2>1, <3>1 DEF Links
  <2>3. PICK n \in 0 .. N : walk[n] = y
    BY <2>2
  <2>4. y # NULL
    BY <2>2
  <2>5. n # N
    BY <1>2, <2>3, <2>4
  <2>6. walk[n + 1] = succ[y] /\ n + 1 \in 0 .. N
    BY <2>3, <2>4, <2>5, WalkSteps
  <2> QED BY <2>2, <2>6
<1>4. DOMAIN walk = 0 .. N
  BY WalkSteps
<1>5. NULL \notin P
  OBVIOUS
<1> QED BY <1>1, <1>2, <1>3, <1>4, <1>5

\* No part of the links leads back into itself.
Acyclic(D, succ) == \A S \in SUBSET D : S # {} => \E x \in S : succ[x] \notin S

\* Where there are no cycles every walk comes to its end, from any node.
LEMMA AcyclicWalk ==
    ASSUME NEW N \in Nat, NEW head, NEW succ, NEW walk, IsWalk(walk, head, succ, N),
           NEW D, IsFiniteSet(D), Cardinality(D) <= N, NULL \notin D,
           head \in D \cup {NULL}, \A x \in D : succ[x] \in D \cup {NULL}, Acyclic(D, succ)
    PROVE  walk[N] = NULL
<1> SUFFICES ASSUME walk[N] # NULL PROVE FALSE
  OBVIOUS
<1>1. \A n \in 0 .. N : walk[n] # NULL /\ walk[n] \in D
  BY WalkInside, WalkEnds
<1>2. PICK i, j \in 0 .. N : i < j /\ walk[i] = walk[j]
  BY <1>1, WalkRepeats
<1> DEFINE S == {walk[n] : n \in i .. j}
<1>3. S \in SUBSET D /\ S # {}
  BY <1>1, <1>2
<1>4. PICK x \in S : succ[x] \notin S
  <2> HIDE DEF S
  <2> QED BY <1>3 DEF Acyclic
<1>5. PICK n \in i .. j : walk[n] = x
  BY <1>4
<1>6. PICK m \in i .. j : walk[m] = x /\ m # j
  BY <1>2, <1>5
<1>7. m \in 0 .. N /\ m # N /\ m + 1 \in i .. j
  BY <1>2, <1>6
<1>8. walk[m + 1] = succ[x]
  BY <1>1, <1>6, <1>7, WalkSteps
<1> QED BY <1>4, <1>7, <1>8

-----------------------------------------------------------------------------
(***************************************************************************)
(* The walks of the kernel.                                                *)
(***************************************************************************)

\* There are as many slots as the bound of a walk of the run queue, and as
\* many threads as that of a walk of the wait list.
LEMMA SlotCount ==
    /\ NPcb + NTcb \in Nat
    /\ IsFiniteSet(Slots) /\ Cardinality(Slots) = NPcb + NTcb
    /\ IsFiniteSet(Tcbs) /\ Cardinality(Tcbs) = NTcb
    /\ NULL \notin Slots /\ NULL \notin Tcbs
<1>1. NPcb + NTcb \in Nat /\ NPcb \in Nat /\ NTcb \in Nat /\ NPcb > 0
  BY ConstantFacts
<1>2. IsFiniteSet(Slots) /\ Cardinality(Slots) = NPcb + NTcb
  BY <1>1, FS_Interval DEF Slots
<1>3. IsFiniteSet(Tcbs) /\ Cardinality(Tcbs) = NTcb
  BY <1>1, FS_Interval DEF Tcbs
<1> QED BY <1>1, <1>2, <1>3, ConstantFacts

\* A pointer chain as the specification writes it is a walk.
LEMMA QueueWalkIs == IsWalk(QueueWalk, run_queue, next, NPcb + NTcb)
<1>1. PICK w : IsWalk(w, run_queue, next, NPcb + NTcb)
  BY SlotCount, WalkExists
<1> QED BY <1>1 DEF QueueWalk, IsWalk

\* The walk from a command's cursor is one.
LEMMA CursorWalkIs == IsWalk(CursorWalk, sh.cur, next, NPcb + NTcb)
<1>1. PICK w : IsWalk(w, sh.cur, next, NPcb + NTcb)
  BY SlotCount, WalkExists
<1> QED BY <1>1 DEF CursorWalk, IsWalk

\* The walk of the wait list is one.
LEMMA WaitWalkIs == IsWalk(WaitWalk, waiters, wait_next, NTcb)
<1>1. PICK w : IsWalk(w, waiters, wait_next, NTcb)
  BY SlotCount, ConstantFacts, WalkExists
<1> QED BY <1>1 DEF WaitWalk, IsWalk

\* What is linked from run_queue on is what a walk of the queue meets.
LEMMA QueuedIs ==
    ASSUME NEW P \in SUBSET Slots, Links(P, run_queue, next)
    PROVE  QueueEnds /\ Queued = P
<1>1. QueueWalk[NPcb + NTcb] = NULL /\ {QueueWalk[n] : n \in DOMAIN QueueWalk} \ {NULL} = P
  BY QueueWalkIs, SlotCount, LinksWalk
<1> QED BY <1>1 DEF QueueEnds, Queued

\* The threads that the wait list links are those that wait.
LEMMA WaitingIs == TypeOK /\ WaitLinks => WaitListExact
<1> SUFFICES ASSUME TypeOK, WaitLinks PROVE WaitListExact
  OBVIOUS
<1>1. Parked \in SUBSET Tcbs
  BY DEF Parked
<1>2. WaitWalk[NTcb] = NULL /\ {WaitWalk[n] : n \in DOMAIN WaitWalk} \ {NULL} = Parked
  BY <1>1, WaitWalkIs, SlotCount, ConstantFacts, LinksWalk DEF WaitLinks
<1>3. Parked = Blocked \ (IF pc[cpu] = "push" THEN {current_pcb} ELSE {})
  BY DEF Parked, Blocked
<1> QED BY <1>2, <1>3 DEF WaitListExact, Waiting

\* Where there are no cycles, walks of the queue and of commands end.
LEMMA AcyclicEnds == TypeOK /\ Acyclic(Slots, next) => WalksEnd
<1> SUFFICES ASSUME TypeOK, Acyclic(Slots, next) PROVE WalksEnd
  OBVIOUS
<1>1. /\ run_queue \in Slots \cup {NULL} /\ sh.cur \in Slots \cup {NULL}
      /\ \A x \in Slots : next[x] \in Slots \cup {NULL}
  BY DEF TypeOK, Pointers, Locals
<1>2. QueueWalk[NPcb + NTcb] = NULL
  BY <1>1, QueueWalkIs, SlotCount, AcyclicWalk
<1>3. CursorWalk[NPcb + NTcb] = NULL
  BY <1>1, CursorWalkIs, SlotCount, AcyclicWalk
<1> QED BY <1>2, <1>3 DEF WalksEnd, QueueEnds

-----------------------------------------------------------------------------
(***************************************************************************)
(* What enqueue and dequeue do to a list.                                  *)
(***************************************************************************)

\* A list without a head links nothing.
LEMMA NoHead ==
    ASSUME NEW P, NEW succ, NULL \notin P, Links(P, NULL, succ)
    PROVE  P = {}
<1> SUFFICES ASSUME P # {} PROVE FALSE
  OBVIOUS
<1>1. \E x \in P \ P : succ[x] \in P
  BY DEF Links
<1> QED BY <1>1

\* enqueue, if the queue is empty.
LEMMA LinkFirst ==
    ASSUME NEW x, NEW succ, x # NULL, succ[x] = NULL
    PROVE  Links({x}, x, succ)
  BY DEF Links

\* enqueue: the node goes behind the last one.
LEMMA LinkAppend ==
    ASSUME NEW P, NEW head, NEW succ, NEW after, NEW tail \in P, NEW x,
           Links(P, head, succ), NULL \notin P, x \notin P, x # NULL,
           succ[tail] = NULL, after[tail] = x, after[x] = NULL,
           \A y \in P \ {tail} : after[y] = succ[y]
    PROVE  Links(P \cup {x}, head, after)
<1>1. \A y \in P : succ[y] # x
  BY DEF Links
<1>2. head # NULL => head \in P \cup {x} /\ head # x
  BY DEF Links
<1>3. \A y \in P \cup {x} : after[y] # NULL => after[y] \in P \cup {x}
  BY DEF Links
<1>4. \A y \in P \cup {x} : head # NULL => after[y] # head
  BY <1>2 DEF Links
<1>5. \A y, z \in P \cup {x} : y # z /\ after[y] # NULL => after[z] # after[y]
  BY <1>1 DEF Links
<1>6. ASSUME NEW S \in SUBSET (P \cup {x}), S # {}, head \notin S
      PROVE  \E y \in (P \cup {x}) \ S : after[y] \in S
  <2>1. CASE S = {x}
    BY <2>1
  <2>2. CASE S # {x}
    <3>1. S \ {x} \in SUBSET P /\ S \ {x} # {} /\ head \notin S \ {x}
      BY <1>6, <2>2
    <3>2. PICK y \in P \ (S \ {x}) : succ[y] \in S \ {x}
      BY <3>1 DEF Links
    <3>3. y # tail /\ y \notin S
      BY <3>1, <3>2
    <3> QED BY <3>2, <3>3
  <2> QED BY <2>1, <2>2
<1> QED BY <1>2, <1>3, <1>4, <1>5, <1>6 DEF Links

\* dequeue: the node before takes over its successor.
LEMMA LinkRemove ==
    ASSUME NEW P, NEW head, NEW succ, NEW after, NEW prev \in P, NEW x \in P,
           Links(P, head, succ), NULL \notin P, head # x, prev # x,
           succ[prev] = x, after[prev] = succ[x],
           \A y \in P \ {prev, x} : after[y] = succ[y]
    PROVE  Links(P \ {x}, head, after)
<1>1. \A y \in P \ {prev} : succ[y] # x
  BY DEF Links
<1>2. head # NULL => head \in P \ {x}
  BY DEF Links
<1>3. \A y \in P \ {x} : after[y] # NULL => after[y] \in P \ {x}
  BY <1>1 DEF Links
<1>4. \A y \in P \ {x} : head # NULL => after[y] # head
  BY DEF Links
<1>5. \A y, z \in P \ {x} : y # z /\ after[y] # NULL => after[z] # after[y]
  BY DEF Links
<1>6. ASSUME NEW S \in SUBSET (P \ {x}), S # {}, head \notin S
      PROVE  \E y \in (P \ {x}) \ S : after[y] \in S
  <2>1. PICK y \in P \ S : succ[y] \in S
    BY <1>6 DEF Links
  <2>2. CASE y # x
    <3>1. y # prev
      BY <1>6, <2>1
    <3> QED BY <2>1, <2>2, <3>1
  <2>3. CASE y = x
    <3>1. CASE prev \notin S
      BY <2>1, <2>3, <3>1
    <3>2. CASE prev \in S
      <4>1. S \cup {x} \in SUBSET P /\ head \notin S \cup {x}
        BY <1>6
      <4>2. PICK z \in P \ (S \cup {x}) : succ[z] \in S \cup {x}
        BY <4>1 DEF Links
      <4>3. z # prev
        BY <3>2, <4>2
      <4>4. succ[z] # x
        BY <1>1, <4>2, <4>3
      <4> QED BY <4>2, <4>3, <4>4
    <3> QED BY <3>1, <3>2
  <2> QED BY <2>2, <2>3
<1> QED BY <1>2, <1>3, <1>4, <1>5, <1>6 DEF Links

\* Cutting links closes no cycle ...
LEMMA AcyclicCut ==
    ASSUME NEW D, NEW succ, NEW after, Acyclic(D, succ), NULL \notin D,
           \A y \in D : after[y] \in {succ[y], NULL}
    PROVE  Acyclic(D, after)
  BY DEF Acyclic

\* ... nor does a link to a node that leads nowhere ...
LEMMA AcyclicLink ==
    ASSUME NEW D, NEW succ, NEW after, NEW tail, NEW x, Acyclic(D, succ), NULL \notin D,
           x # tail, succ[x] = NULL, after[x] = NULL,
           \A y \in D \ {tail} : after[y] = succ[y],
           after[tail] = x
    PROVE  Acyclic(D, after)
<1> SUFFICES ASSUME NEW S \in SUBSET D, S # {}, \A y \in S : after[y] \in S PROVE FALSE
  BY DEF Acyclic
<1>1. tail \notin S
  OBVIOUS
<1>2. \A y \in S : succ[y] \in S
  BY <1>1
<1> QED BY <1>2 DEF Acyclic

\* ... nor taking a node out.
LEMMA AcyclicRemove ==
    ASSUME NEW D, NEW succ, NEW after, NEW x \in D, NEW Prevs, Acyclic(D, succ), NULL \notin D,
           after[x] = NULL,
           \A y \in Prevs : succ[y] = x,
           \A y \in D \ {x} : after[y] = IF y \in Prevs THEN succ[x] ELSE succ[y]
    PROVE  Acyclic(D, after)
<1> SUFFICES ASSUME NEW S \in SUBSET D, S # {}, \A y \in S : after[y] \in S PROVE FALSE
  BY DEF Acyclic
<1>1. x \notin S
  OBVIOUS
<1>2. CASE S \cap Prevs = {}
  <2>1. \A y \in S : succ[y] \in S
    BY <1>1, <1>2
  <2> QED BY <2>1 DEF Acyclic
<1>3. CASE S \cap Prevs # {}
  <2>1. succ[x] \in S
    BY <1>1, <1>3
  <2>2. \A y \in S \cup {x} : succ[y] \in S \cup {x}
    BY <1>1, <2>1
  <2>3. S \cup {x} \in SUBSET D /\ S \cup {x} # {}
    OBVIOUS
  <2> QED BY <2>2, <2>3 DEF Acyclic
<1> QED BY <1>2, <1>3

-----------------------------------------------------------------------------
(***************************************************************************)
(* The run queue where no thread exits.  It links the live slots, except   *)
(* for the one that a command is about to append, and with the one that a  *)
(* command is about to take out.                                           *)
(***************************************************************************)
Lives == {x \in Slots : Live(x)}

Members(at, c) ==
    (Lives \ (IF at \in {"find_tail", "link"} THEN {c.slot} ELSE {}))
        \cup (IF at \in {"dequeue", "find_prev", "load_next", "unlink"} THEN {c.slot} ELSE {})

\* Following the queue from a on one comes to x.
Leads(a, x) ==
    \A S \in SUBSET Pointers : a \in S /\ (\A y \in S \ {NULL} : next[y] \in S) => x \in S

\* Where the cursor of a command is in the queue.
CursorAt(at, c) ==
    /\ at \in {"find_tail", "link"} =>
          c.cur \in Members(at, c) /\ c.slot \in Lives /\ next[c.slot] = NULL
    /\ at = "link" => next[c.cur] = NULL
    /\ at = "find_pid" => c.cur \in Members(at, c) \cup {NULL}
    /\ at = "find_prev" =>
          c.cur \in (Members(at, c) \cup {NULL}) \ {c.slot} /\ Leads(c.cur, c.slot)
    /\ at = "load_next" => c.cur \in Members(at, c) /\ next[c.cur] = c.slot
    /\ at = "unlink" =>
          /\ c.succ = next[c.slot]
          /\ c.cur = NULL => run_queue = c.slot
          /\ c.cur # NULL => c.cur \in Members(at, c) /\ next[c.cur] = c.slot

QueueAt(at, c) == Links(Members(at, c), run_queue, next) /\ CursorAt(at, c)

QueueInv == QueueAt(pc[BootStack], sh)

NoCycles == Acyclic(Slots, next)

\* A step that neither deletes nor creates, nor touches the queue.
LEMMA QueueFrame ==
    ASSUME UNCHANGED <<next, run_queue>>, \A x \in Slots : Live(x)' <=> Live(x)
    PROVE  /\ NoCycles' <=> NoCycles
           /\ \A at, c : QueueAt(at, c)' <=> QueueAt(at, c)
<1>1. Lives' = Lives
  BY DEF Lives
<1>2. \A at, c : Members(at, c)' = Members(at, c)
  BY <1>1 DEF Members
<1>3. \A a, x : Leads(a, x)' <=> Leads(a, x)
  BY DEF Leads
<1>4. \A at, c : CursorAt(at, c)' <=> CursorAt(at, c)
  BY <1>1, <1>2, <1>3 DEF CursorAt
<1> QED BY <1>2, <1>4 DEF QueueAt, NoCycles

\* schedule() brings no dead slot back: threads have a live idle_pcb.
LEMMA ScheduleKeepsLive ==
    ASSUME KernelInv, schedule, cpu = BootStack \/ Live(idle_pcb)
    PROVE  \A x \in Slots : Live(x)' <=> Live(x)
<1>1. PICK new : new = ScheduledNext
  OBVIOUS
<1>2. new \in Slots /\ (state[new] = "READY" \/ new = idle_pcb)
  BY <1>1, ScheduledIsReady
<1>3. CASE UNCHANGED state
  BY <1>3 DEF Live
<1>4. CASE /\ new # current_pcb
           /\ state' = [state EXCEPT ![current_pcb] =
                            IF state[current_pcb] = "RUNNING" THEN "READY"
                            ELSE state[current_pcb],
                        ![new] = "RUNNING"]
  <2>1. Live(new)
    BY <1>2, <1>4 DEF KernelInv, SlotInv, Contexts, Live
  <2> QED BY <1>2, <1>4, <2>1 DEF Live, KernelInv, TypeInv, TypeOK
<1> QED BY <1>1, <1>3, <1>4 DEF schedule

\* Where threads do not exit, none of them does.
LEMMA NobodyExits ==
    ASSUME KernelInv, NoExits
    PROVE  \A s \in Pages : ~process_exit(s)
<1> SUFFICES ASSUME NEW s \in Pages, process_exit(s) PROVE FALSE
  OBVIOUS
<1>1. ~NoThreads
  BY Acting DEF ThreadStep
<1> QED BY <1>1 DEF process_exit, NoExits, NoThreads

\* What neither commands nor exiting threads do.
LEMMA OthersKeepQueue ==
    ASSUME KernelInv, Tick \/ Return \/ ThreadRuns \/ UNCHANGED kernelVars,
           \A s \in Pages : ~process_exit(s)
    PROVE  /\ UNCHANGED <<next, run_queue, sh, stack_base, pmm_used, pmm_free_pages>>
           /\ pc'[BootStack] = pc[BootStack]
           /\ \A x \in Slots : Live(x)' <=> Live(x)
<1> USE ConstantFacts
<1>1. CASE Tick
  <2>1. schedule /\ cpu = BootStack
    BY <1>1 DEF Tick, TimerIrq, KernelInv, InterruptShield
  <2> QED BY <1>1, <2>1, ScheduleKeepsLive DEF Tick, TimerIrq
<1>2. CASE Return \/ UNCHANGED kernelVars
  BY <1>2 DEF Return, IsrReturn, Live
<1>3. CASE ThreadRuns
  <2>1. PICK s \in Pages : ThreadStep(s) /\ UNCHANGED sh
    BY <1>3 DEF ThreadRuns
  <2>2. s = cpu /\ cpu # BootStack /\ ~NoThreads /\ Live(idle_pcb)
    BY <2>1, Acting
  <2>3. ~process_exit(s)
    OBVIOUS
  <2>4. pc'[BootStack] = pc[BootStack]
    BY <2>1, <2>2, <2>3
       DEF KernelInv, TypeInv, TypeOK, ThreadStep, StartLock, StartSpin, YieldInside, YieldOutside,
           test_and_set, mutex_lock_block, mutex_lock_push, mutex_lock_reschedule,
           mutex_unlock, mutex_unlock_wake, process_exit_switch, Goto
  <2>5. UNCHANGED <<next, run_queue, sh, stack_base, pmm_used, pmm_free_pages>>
    BY <2>1, <2>3
       DEF ThreadStep, StartLock, StartSpin, YieldInside, YieldOutside,
           test_and_set, mutex_lock_block, mutex_lock_push, mutex_lock_reschedule,
           mutex_unlock, mutex_unlock_wake, process_exit_switch
  <2>6. CASE YieldInside(s) \/ YieldOutside(s) \/ mutex_lock_reschedule(s)
    <3>1. schedule
      BY <2>6 DEF YieldInside, YieldOutside, mutex_lock_reschedule
    <3> QED BY <2>2, <2>4, <2>5, <3>1, ScheduleKeepsLive
  <2>7. CASE StartLock(s) \/ StartSpin(s) \/ test_and_set(s) \/ mutex_lock_push(s) \/ mutex_unlock(s)
    BY <2>4, <2>5, <2>7 DEF StartLock, StartSpin, test_and_set, mutex_lock_push, mutex_unlock, Live
  <2>8. CASE mutex_lock_block(s)
    <3>1. pc[cpu] = "block" /\ state' = [state EXCEPT ![current_pcb] = "BLOCKED"]
      BY <2>2, <2>8 DEF mutex_lock_block, Goto
    <3>2. Live(current_pcb)
      BY <2>2, <3>1 DEF KernelInv, SlotInv, Contexts, Live
    <3> QED BY <2>4, <2>5, <3>1, <3>2 DEF Live, KernelInv, TypeInv, TypeOK
  <2>9. CASE mutex_unlock_wake(s)
    <3>1. waiters # NULL => waiters \in Tcbs /\ Live(waiters)
      BY DEF KernelInv, SlotInv, WaitLinks, Links, Parked, Live
    <3>2. UNCHANGED state \/ (waiters # NULL /\ state' = [state EXCEPT ![waiters] = "READY"])
      BY <2>9 DEF mutex_unlock_wake
    <3> QED BY <2>4, <2>5, <3>1, <3>2 DEF Live, KernelInv, TypeInv, TypeOK
  <2>10. CASE process_exit_switch(s)
    BY <2>2, <2>4, <2>5, <2>10 DEF process_exit_switch, Live, KernelInv, TypeInv, TypeOK
  <2> QED BY <2>1, <2>3, <2>6, <2>7, <2>8, <2>9, <2>10 DEF ThreadStep
<1> QED BY <1>1, <1>2, <1>3

\* A step of the shell that leaves the queue and the slots alone.
LEMMA QueueMoves ==
    ASSUME KernelInv, NoCycles, NEW to, pc' = [pc EXCEPT ![BootStack] = to],
           UNCHANGED <<next, run_queue, state>>, QueueAt(to, sh')
    PROVE  QueueInv' /\ NoCycles'
<1>1. pc'[BootStack] = to
  BY ConstantFacts DEF KernelInv, TypeInv, TypeOK
<1>2. \A x \in Slots : Live(x)' <=> Live(x)
  BY DEF Live
<1>3. NoCycles' /\ \A at, c : QueueAt(at, c)' <=> QueueAt(at, c)
  BY <1>2, QueueFrame
<1>4. PICK c : c = sh'
  OBVIOUS
<1>5. QueueAt(to, c)'
  BY <1>3, <1>4
<1> QED BY <1>1, <1>3, <1>4, <1>5 DEF QueueInv

\* The places of commands that hold no slot of the queue and no cursor in it.
Free == {"prompt", "alloc_slot", "alloc_page", "store_word", "fill", "set_blocked", "free_stack",
         "find_tid", "mark_dead", "list", "list_next"}

\* There the queue holds the live slots.
LEMMA FreePlaces ==
    ASSUME NEW at \in Free, NEW c
    PROVE  QueueAt(at, c) <=> Links(Lives, run_queue, next)
<1>1. Members(at, c) = Lives
  BY DEF Members, Free
<1>2. CursorAt(at, c)
  BY DEF CursorAt, Free
<1> QED BY <1>1, <1>2 DEF QueueAt

\* The commands look at the queue, or wait for memory.
LEMMA LooksKeepQueue ==
    ASSUME KernelInv, NoCycles, QueueInv,
           \/ \E op \in Listings : StartList(op)
           \/ \E op \in {"newprocess", "thread"} : StartCreate(op)
           \/ \E target \in KillTargets : StartKillThread(target)
           \/ alloc_slot \/ pmm_alloc_scan \/ pmm_alloc_store \/ NullStack \/ FreeStack
           \/ find_tid \/ list_row \/ list_next
    PROVE  QueueInv' /\ NoCycles'
<1> DEFINE at == pc[BootStack]
<1> USE DEF ShellGoto, Goto
<1>1. at \in Free /\ UNCHANGED <<next, run_queue, state>>
  BY DEF StartList, StartCreate, StartKillThread, alloc_slot, pmm_alloc_scan, pmm_alloc_store,
         NullStack, FreeStack, find_tid, list_row, list_next, Free
<1>2. PICK to \in Free : pc' = [pc EXCEPT ![BootStack] = to]
  BY DEF StartList, StartCreate, StartKillThread, alloc_slot, pmm_alloc_scan, pmm_alloc_store,
         NullStack, FreeStack, find_tid, list_row, list_next, Free
<1> HIDE DEF at
<1>3. QueueAt(to, sh')
  <2>1. QueueAt(at, sh)
    BY DEF QueueInv, at
  <2>2. PICK c : c = sh'
    OBVIOUS
  <2> QED BY <1>1, <1>2, <2>1, <2>2, FreePlaces
<1> QED BY <1>1, <1>2, <1>3, QueueMoves

\* cmd_newprocess blocks a process that is alive.
LEMMA BlockKeepsQueue ==
    ASSUME KernelInv, NoCycles, QueueInv, set_blocked
    PROVE  QueueInv' /\ NoCycles'
<1> USE ConstantFacts
<1>1. /\ pc[BootStack] = "set_blocked" /\ pc'[BootStack] = "prompt"
      /\ UNCHANGED <<next, run_queue>>
      /\ state' = [state EXCEPT ![sh.slot] = "BLOCKED"]
  BY DEF set_blocked, ShellGoto, Goto, KernelInv, TypeInv, TypeOK
<1>2. Live(sh.slot)
  BY <1>1 DEF KernelInv, SlotInv, Commands, CommandAt, Filling
<1>3. \A x \in Slots : Live(x)' <=> Live(x)
  BY <1>1, <1>2 DEF Live, KernelInv, TypeInv, TypeOK
<1>4. NoCycles' /\ \A at, c : QueueAt(at, c)' <=> QueueAt(at, c)
  BY <1>1, <1>3, QueueFrame
<1>5. PICK c, d : c = sh /\ d = sh'
  OBVIOUS
<1>6. QueueAt("prompt", d)
  BY <1>1, <1>5, FreePlaces DEF QueueInv, Free
<1>7. QueueAt("prompt", d)'
  BY <1>4, <1>6
<1> QED BY <1>1, <1>4, <1>5, <1>7 DEF QueueInv

\* The search of cmd_killprocess stays on the queue.
LEMMA FindKeepsQueue ==
    ASSUME KernelInv, NoCycles, QueueInv,
           find_pid \/ \E target \in KillTargets : StartKillProcess(target)
    PROVE  QueueInv' /\ NoCycles'
<1> USE ConstantFacts DEF ShellGoto, Goto
<1>0. sh \in Locals
  BY DEF KernelInv, TypeInv, TypeOK
<1>1. ASSUME NEW target \in KillTargets, StartKillProcess(target) PROVE QueueInv' /\ NoCycles'
  <2>1. Links(Lives, run_queue, next)
    <3>1. pc[BootStack] = "prompt" /\ QueueAt("prompt", sh)
      BY <1>1 DEF StartKillProcess, QueueInv
    <3> QED BY <3>1 DEF QueueAt, Members
  <2>2. sh'.cur = run_queue
    BY <1>1 DEF StartKillProcess, NoLocals
  <2>3. QueueAt("find_pid", sh')
    BY <2>1, <2>2 DEF QueueAt, Members, CursorAt, Links
  <2> QED BY <1>1, <2>3, QueueMoves DEF StartKillProcess
<1>2. CASE find_pid
  <2>0. PICK p : p = sh.cur
    OBVIOUS
  <2>1. pc[BootStack] = "find_pid" /\ UNCHANGED <<next, run_queue, state>>
    BY <1>2 DEF find_pid
  <2>2. Links(Lives, run_queue, next) /\ p \in Lives \cup {NULL}
    BY <2>0, <2>1 DEF QueueInv, QueueAt, Members, CursorAt
  <2>3. CASE pc' = [pc EXCEPT ![BootStack] = "prompt"]
    <3>1. PICK d : d = sh'
      OBVIOUS
    <3>2. QueueAt("prompt", d)
      BY <2>2, FreePlaces DEF Free
    <3> QED BY <2>1, <2>3, <3>1, <3>2, QueueMoves
  <2>4. CASE /\ p # NULL /\ pc' = [pc EXCEPT ![BootStack] = "find_pid"]
             /\ sh' = [sh EXCEPT !.cur = next[p]]
    <3>1. sh'.cur = next[p] /\ next[p] \in Lives \cup {NULL}
      BY <1>0, <2>2, <2>4 DEF Locals, Links
    <3>2. QueueAt("find_pid", sh')
      BY <2>2, <3>1 DEF QueueAt, Members, CursorAt
    <3> QED BY <2>1, <2>4, <3>2, QueueMoves
  <2>5. CASE pc' = [pc EXCEPT ![BootStack] = "mark_dead"]
    <3>1. PICK d : d = sh'
      OBVIOUS
    <3>2. QueueAt("mark_dead", d)
      BY <2>2, FreePlaces DEF Free
    <3> QED BY <2>1, <2>5, <3>1, <3>2, QueueMoves
  <2> QED BY <1>2, <2>0, <2>3, <2>4, <2>5 DEF find_pid
<1> QED BY <1>1, <1>2

\* The slot that is marked is one of the live ones, and stays on the queue.
LEMMA MarkKeepsQueue ==
    ASSUME KernelInv, NoCycles, QueueInv, mark_dead
    PROVE  QueueInv' /\ NoCycles'
<1> USE ConstantFacts, SlotFacts
<1>0. PICK p : p = sh.slot
  OBVIOUS
<1>1. /\ pc[BootStack] = "mark_dead" /\ pc'[BootStack] = "dequeue"
      /\ UNCHANGED <<next, run_queue, sh>>
      /\ state' = [state EXCEPT ![p] = "DEAD"]
  BY <1>0 DEF mark_dead, ShellGoto, Goto, KernelInv, TypeInv, TypeOK
<1>2. p \in Lives
  BY <1>0, <1>1 DEF KernelInv, SlotInv, Commands, CommandAt, Killing, Stacks, Lives
<1>3. Lives' = Lives \ {p}
  BY <1>1, <1>2 DEF Lives, Live, KernelInv, TypeInv, TypeOK
<1>4. Links(Lives, run_queue, next)
  BY <1>1, FreePlaces DEF QueueInv, Free
<1>5. QueueInv'
  <2>1. Members(pc[BootStack], sh)' = Lives
    BY <1>0, <1>1, <1>2, <1>3 DEF Members
  <2>2. CursorAt(pc[BootStack], sh)'
    BY <1>1 DEF CursorAt
  <2> QED BY <1>1, <1>4, <2>1, <2>2 DEF QueueInv, QueueAt
<1> QED BY <1>1, <1>5 DEF NoCycles

\* The new slot is not in the queue yet, unless it is the first one.
LEMMA FillKeepsQueue ==
    ASSUME KernelInv, NoCycles, QueueInv, FillSlot
    PROVE  QueueInv' /\ NoCycles'
<1> USE ConstantFacts, SlotFacts
<1>0. PICK slot : slot = sh.slot
  OBVIOUS
<1>1. /\ pc[BootStack] = "fill" /\ sh.page # BootStack
      /\ slot \in Slots /\ slot \notin Lives /\ sh \in Locals
  BY <1>0 DEF KernelInv, SlotInv, Commands, CommandAt, FillSlot, Creating, Lives, TypeInv, TypeOK
<1>2. /\ state' = [state EXCEPT ![slot] = "READY"]
      /\ next' = [next EXCEPT ![slot] = NULL]
      /\ run_queue' = IF run_queue = NULL THEN slot ELSE run_queue
      /\ run_queue = NULL => pc'[BootStack] \in {"prompt", "set_blocked"}
      /\ run_queue # NULL => /\ pc'[BootStack] = "find_tail"
                             /\ sh'.slot = slot /\ sh'.cur = run_queue
  BY <1>0, <1>1 DEF FillSlot, KernelInv, TypeInv, TypeOK, Locals
<1>3. /\ Lives' = Lives \cup {slot}
      /\ next'[slot] = NULL /\ \A x \in Slots \ {slot} : next'[x] = next[x]
  BY <1>1, <1>2 DEF Lives, Live, KernelInv, TypeInv, TypeOK
<1>4. Links(Lives, run_queue, next)
  BY <1>1 DEF QueueInv, QueueAt, Members
<1>5. Lives \subseteq Slots /\ NULL \notin Lives /\ slot # NULL
  BY <1>1 DEF Lives
<1>6. NoCycles'
  <2>1. Acyclic(Slots, next')
    BY <1>3, AcyclicCut DEF NoCycles
  <2> QED BY <2>1 DEF NoCycles
<1>7. CASE run_queue = NULL
  <2>1. Lives' = {slot}
    BY <1>3, <1>4, <1>5, <1>7, NoHead
  <2>2. Links({slot}, slot, next')
    BY <1>3, <1>5, LinkFirst
  <2>3. Members(pc[BootStack], sh)' = {slot} /\ CursorAt(pc[BootStack], sh)'
    BY <1>2, <1>7, <2>1 DEF Members, CursorAt
  <2> QED BY <1>2, <1>6, <1>7, <2>2, <2>3 DEF QueueInv, QueueAt
<1>8. CASE run_queue # NULL
  <2>1. Members(pc[BootStack], sh)' = Lives
    BY <1>1, <1>2, <1>3, <1>8 DEF Members
  <2>2. Links(Lives, run_queue, next')
    <3>1. \A x \in Lives : next'[x] = next[x]
      BY <1>1, <1>3 DEF Lives
    <3> QED BY <1>4, <3>1 DEF Links
  <2>3. run_queue \in Lives
    BY <1>4, <1>8 DEF Links
  <2>4. CursorAt(pc[BootStack], sh)'
    BY <1>2, <1>3, <1>8, <2>1, <2>3 DEF CursorAt
  <2> QED BY <1>2, <1>6, <1>8, <2>1, <2>2, <2>4 DEF QueueInv, QueueAt
<1> QED BY <1>7, <1>8

\* enqueue walks to the last node ...
LEMMA WalkKeepsQueue ==
    ASSUME KernelInv, NoCycles, QueueInv, enqueue_walk
    PROVE  QueueInv' /\ NoCycles'
<1> USE ConstantFacts
<1>1. /\ pc[BootStack] = "find_tail" /\ UNCHANGED <<next, run_queue, state>>
      /\ pc' = [pc EXCEPT ![BootStack] = IF next[sh.cur] = NULL THEN "link" ELSE "find_tail"]
      /\ sh'.slot = sh.slot /\ sh'.cur = IF next[sh.cur] = NULL THEN sh.cur ELSE next[sh.cur]
  BY DEF enqueue_walk, ShellGoto, Goto, KernelInv, TypeInv, TypeOK, Locals
<1>2. QueueAt("find_tail", sh)
  BY <1>1 DEF QueueInv
<1>3. CASE next[sh.cur] = NULL
  <2>1. QueueAt("link", sh')
    BY <1>1, <1>2, <1>3 DEF QueueAt, Members, CursorAt
  <2> QED BY <1>1, <1>3, <2>1, QueueMoves
<1>4. CASE next[sh.cur] # NULL
  <2>1. next[sh.cur] \in Members("find_tail", sh)
    BY <1>2, <1>4 DEF QueueAt, CursorAt, Links
  <2>2. QueueAt("find_tail", sh')
    BY <1>1, <1>2, <1>4, <2>1 DEF QueueAt, Members, CursorAt
  <2> QED BY <1>1, <1>4, <2>2, QueueMoves
<1> QED BY <1>3, <1>4

\* ... and appends the slot behind it.
LEMMA LinkKeepsQueue ==
    ASSUME KernelInv, NoCycles, QueueInv, enqueue_link
    PROVE  QueueInv' /\ NoCycles'
<1> USE ConstantFacts
<1>0. PICK slot, tail, P : slot = sh.slot /\ tail = sh.cur /\ P = Members("link", sh)
  OBVIOUS
<1>1. /\ pc[BootStack] = "link" /\ UNCHANGED <<run_queue, state>>
      /\ pc'[BootStack] \in {"set_blocked", "prompt"}
      /\ next' = [next EXCEPT ![tail] = slot]
  BY <1>0 DEF enqueue_link, ShellGoto, Goto, KernelInv, TypeInv, TypeOK
<1>2. /\ Links(P, run_queue, next) /\ tail \in P /\ next[tail] = NULL /\ next[slot] = NULL
      /\ slot \in Lives /\ P = Lives \ {slot}
  BY <1>0, <1>1 DEF QueueInv, QueueAt, CursorAt, Members
<1>3. P \subseteq Slots /\ NULL \notin P /\ slot \notin P /\ slot # NULL /\ slot \in Slots /\ slot # tail
  BY <1>2 DEF Lives
<1>4. next'[tail] = slot /\ \A x \in Slots \ {tail} : next'[x] = next[x]
  BY <1>1, <1>2, <1>3 DEF KernelInv, TypeInv, TypeOK
<1>5. Links(P \cup {slot}, run_queue, next')
  BY <1>2, <1>3, <1>4, LinkAppend
<1>6. Members(pc[BootStack], sh)' = P \cup {slot} /\ CursorAt(pc[BootStack], sh)'
  <2>1. Lives' = Lives
    BY <1>1 DEF Lives, Live
  <2> QED BY <1>1, <1>2, <2>1 DEF Members, CursorAt
<1>7. Acyclic(Slots, next')
  BY <1>2, <1>3, <1>4, AcyclicLink DEF NoCycles
<1> QED BY <1>1, <1>5, <1>6, <1>7 DEF QueueInv, QueueAt, NoCycles

\* dequeue finds the node before the slot: it is on its way there.
LEMMA SearchKeepsQueue ==
    ASSUME KernelInv, NoCycles, QueueInv, dequeue_start \/ dequeue_find_prev \/ dequeue_load_next
    PROVE  QueueInv' /\ NoCycles'
<1> USE ConstantFacts DEF ShellGoto, Goto
<1>0. PICK slot, P : slot = sh.slot /\ P = Lives \cup {slot}
  OBVIOUS
<1>1. /\ UNCHANGED <<next, run_queue, state>> /\ sh \in Locals /\ slot \in Slots
      /\ pc[BootStack] \in {"dequeue", "find_prev", "load_next"}
  BY <1>0 DEF dequeue_start, dequeue_find_prev, dequeue_load_next, KernelInv, TypeInv, TypeOK, ShellLocals
<1>2. Members(pc[BootStack], sh) = P /\ Links(P, run_queue, next)
  BY <1>0, <1>1 DEF Members, QueueInv, QueueAt
<1>3. \A at, c : at \in {"find_prev", "load_next", "unlink"} /\ c.slot = slot => Members(at, c) = P
  BY <1>0 DEF Members
<1>4. P \subseteq Slots /\ NULL \notin P /\ slot \in P
  BY <1>0, <1>1 DEF Lives
<1>5. CASE dequeue_start
  <2>1. CASE /\ run_queue = slot /\ pc' = [pc EXCEPT ![BootStack] = "unlink"]
             /\ sh' = [sh EXCEPT !.cur = NULL, !.succ = next[slot]]
    <3>1. sh'.slot = slot /\ sh'.cur = NULL /\ sh'.succ = next[slot]
      BY <1>0, <1>1, <2>1 DEF Locals
    <3>2. QueueAt("unlink", sh')
      BY <1>2, <1>3, <2>1, <3>1 DEF QueueAt, CursorAt
    <3> QED BY <1>1, <2>1, <3>2, QueueMoves
  <2>2. CASE /\ run_queue # slot /\ pc' = [pc EXCEPT ![BootStack] = "find_prev"]
             /\ sh' = [sh EXCEPT !.cur = run_queue]
    <3>1. sh'.slot = slot /\ sh'.cur = run_queue
      BY <1>0, <1>1, <2>2 DEF Locals
    <3>2. Leads(run_queue, slot)
      <4> SUFFICES ASSUME NEW S \in SUBSET Pointers, run_queue \in S,
                          \A y \in S \ {NULL} : next[y] \in S, slot \notin S
                   PROVE  FALSE
        BY DEF Leads
      <4>1. PICK x \in P \ (P \ S) : next[x] \in P \ S
        <5>1. P \ S \in SUBSET P /\ P \ S # {} /\ run_queue \notin P \ S
          BY <1>4
        <5> QED BY <1>2, <5>1 DEF Links
      <4>2. x \in S \ {NULL}
        BY <1>4, <4>1
      <4> QED BY <4>1, <4>2
    <3>3. run_queue \in P \cup {NULL}
      BY <1>2 DEF Links
    <3>4. QueueAt("find_prev", sh')
      BY <1>2, <1>3, <2>2, <3>1, <3>2, <3>3 DEF QueueAt, CursorAt
    <3> QED BY <1>1, <2>2, <3>4, QueueMoves
  <2> QED BY <1>0, <1>5, <2>1, <2>2 DEF dequeue_start
<1>6. CASE dequeue_find_prev
  <2>0. PICK prev : prev = sh.cur
    OBVIOUS
  <2>1. pc[BootStack] = "find_prev" /\ prev \in (P \cup {NULL}) \ {slot} /\ Leads(prev, slot)
    <3>1. pc[BootStack] = "find_prev"
      BY <1>6 DEF dequeue_find_prev
    <3> QED BY <1>0, <1>2, <2>0, <3>1 DEF QueueInv, QueueAt, CursorAt
  <2>2. prev # NULL
    <3> SUFFICES ASSUME prev = NULL PROVE FALSE
      OBVIOUS
    <3>1. {NULL} \in SUBSET Pointers
      BY DEF Pointers
    <3> QED BY <1>1, <2>1, <3>1 DEF Leads
  <2>3. CASE /\ next[prev] = slot /\ pc' = [pc EXCEPT ![BootStack] = "load_next"] /\ UNCHANGED sh
    <3>1. QueueAt("load_next", sh')
      BY <1>0, <1>2, <1>3, <2>0, <2>1, <2>2, <2>3 DEF QueueAt, CursorAt
    <3> QED BY <1>1, <2>3, <3>1, QueueMoves
  <2>4. CASE /\ next[prev] # slot /\ pc' = [pc EXCEPT ![BootStack] = "find_prev"]
             /\ sh' = [sh EXCEPT !.cur = next[prev]]
    <3>1. sh'.slot = slot /\ sh'.cur = next[prev]
      BY <1>0, <1>1, <2>4 DEF Locals
    <3>2. next[prev] \in P \cup {NULL} /\ prev \in P /\ prev \in Pointers
      BY <1>2, <1>4, <2>1, <2>2 DEF Links, Pointers
    <3>3. Leads(next[prev], slot)
      <4> SUFFICES ASSUME NEW S \in SUBSET Pointers, next[prev] \in S,
                          \A y \in S \ {NULL} : next[y] \in S
                   PROVE  slot \in S
        BY DEF Leads
      <4>1. S \cup {prev} \in SUBSET Pointers /\ \A y \in (S \cup {prev}) \ {NULL} : next[y] \in S \cup {prev}
        BY <3>2
      <4>2. slot \in S \cup {prev}
        BY <2>1, <4>1 DEF Leads
      <4> QED BY <2>1, <4>2
    <3>4. QueueAt("find_prev", sh')
      BY <1>2, <1>3, <2>4, <3>1, <3>2, <3>3 DEF QueueAt, CursorAt
    <3> QED BY <1>1, <2>4, <3>4, QueueMoves
  <2> QED BY <1>0, <1>6, <2>0, <2>2, <2>3, <2>4 DEF dequeue_find_prev
<1>7. CASE dequeue_load_next
  <2>1. /\ pc[BootStack] = "load_next" /\ pc' = [pc EXCEPT ![BootStack] = "unlink"]
        /\ sh'.slot = slot /\ sh'.cur = sh.cur /\ sh'.succ = next[slot]
    BY <1>0, <1>1, <1>7 DEF dequeue_load_next, Locals
  <2>2. sh.cur \in P /\ next[sh.cur] = slot
    BY <1>0, <1>2, <2>1 DEF QueueInv, QueueAt, CursorAt
  <2>3. QueueAt("unlink", sh')
    BY <1>2, <1>3, <1>4, <2>1, <2>2 DEF QueueAt, CursorAt
  <2> QED BY <1>1, <2>1, <2>3, QueueMoves
<1> QED BY <1>5, <1>6, <1>7

\* dequeue takes the slot out, and it keeps no link.
LEMMA UnlinkKeepsQueue ==
    ASSUME KernelInv, NoCycles, QueueInv, dequeue_unlink
    PROVE  QueueInv' /\ NoCycles'
<1> USE ConstantFacts
<1>0. PICK slot, prev, P : slot = sh.slot /\ prev = sh.cur /\ P = Lives \cup {slot}
  OBVIOUS
<1>1. /\ pc[BootStack] = "unlink" /\ pc'[BootStack] = "free_stack" /\ UNCHANGED state
      /\ slot \in Slots /\ slot \notin Lives
  BY <1>0 DEF dequeue_unlink, ShellGoto, Goto, KernelInv, SlotInv, Commands, CommandAt, Killing, Lives,
              TypeInv, TypeOK, ShellLocals
<1>2. /\ Links(P, run_queue, next) /\ sh.succ = next[slot]
      /\ prev = NULL => run_queue = slot
      /\ prev # NULL => prev \in P /\ next[prev] = slot
  BY <1>0, <1>1 DEF QueueInv, QueueAt, Members, CursorAt
<1>3. /\ run_queue' = IF prev = NULL THEN next[slot] ELSE run_queue
      /\ next' = [x \in Slots |-> IF x = slot THEN NULL ELSE IF x = prev THEN next[slot] ELSE next[x]]
  BY <1>0, <1>2 DEF dequeue_unlink
<1>4. P \subseteq Slots /\ NULL \notin P /\ slot \in P /\ slot # NULL /\ P \ {slot} = Lives
  BY <1>0, <1>1 DEF Lives
<1>5. prev # slot
  <2> SUFFICES ASSUME prev = slot PROVE FALSE
    OBVIOUS
  <2>1. {slot} \in SUBSET Slots /\ next[slot] = slot
    BY <1>1, <1>2, <1>4
  <2> QED BY <2>1 DEF NoCycles, Acyclic
<1>6. Links(Lives, run_queue', next')
  <2>1. CASE prev = NULL
    <3>1. \A y \in P \ {slot} : next'[y] = next[y]
      BY <1>3, <1>4, <2>1
    <3>2. Links(P \ {slot}, next[slot], next')
      BY <1>2, <1>4, <2>1, <3>1, LinkPop
    <3> QED BY <1>3, <1>4, <2>1, <3>2
  <2>2. CASE prev # NULL
    <3>1. next'[prev] = next[slot] /\ \A y \in P \ {prev, slot} : next'[y] = next[y]
      BY <1>2, <1>3, <1>4, <1>5, <2>2
    <3>2. run_queue # slot
      BY <1>2, <1>4, <2>2 DEF Links
    <3>3. Links(P \ {slot}, run_queue, next')
      BY <1>2, <1>4, <1>5, <2>2, <3>1, <3>2, LinkRemove
    <3> QED BY <1>3, <1>4, <2>2, <3>3
  <2> QED BY <2>1, <2>2
<1>7. Lives' = Lives
  BY <1>1 DEF Lives, Live
<1>8. QueueInv'
  BY <1>1, <1>6, <1>7 DEF QueueInv, QueueAt, Members, CursorAt
<1>9. Acyclic(Slots, next')
  <2> DEFINE Prevs == {prev} \cap Slots
  <2>1. /\ \A y \in Prevs : next[y] = slot
        /\ next'[slot] = NULL
        /\ \A y \in Slots \ {slot} : next'[y] = IF y \in Prevs THEN next[slot] ELSE next[y]
    BY <1>1, <1>2, <1>3
  <2> HIDE DEF Prevs
  <2> QED BY <1>1, <2>1, AcyclicRemove DEF NoCycles
<1> QED BY <1>8, <1>9 DEF NoCycles

\* No thread is ever deleted by a command ...
LEMMA NoThreadFound ==
    ASSUME KernelInv, find_tid
    PROVE  pc' = [pc EXCEPT ![BootStack] = "prompt"] \/ pc' = [pc EXCEPT ![BootStack] = "find_tid"]
<1>1. sh.slot \in Tcbs \cup {NULL} /\ NoThreads
  BY DEF find_tid, ShellGoto, Goto, KernelInv, TypeInv, ShellLocals, SlotInv, Commands, CommandAt
<1>2. sh.slot # NULL => state[sh.slot] = "DEAD"
  BY <1>1 DEF KernelInv, SlotInv, IdleStays, Live
<1> QED BY <1>2 DEF find_tid, ShellGoto, Goto

\* ... and no stack is the page at address NULL.
LEMMA NoNullStack == KernelInv => ~NullStack
  BY DEF NullStack, ShellGoto, Goto, KernelInv, SlotInv, Commands, CommandAt

\* Every step keeps the queue, if no thread exits.
LEMMA StepQueue ==
    ASSUME KernelInv, CarefulKills, NoExits, QueueInv, NoCycles, [Next]_kernelVars
    PROVE  QueueInv' /\ NoCycles'
<1>1. CASE Tick \/ Return \/ ThreadRuns \/ UNCHANGED kernelVars
  <2>1. /\ UNCHANGED <<next, run_queue, sh>> /\ pc'[BootStack] = pc[BootStack]
        /\ \A x \in Slots : Live(x)' <=> Live(x)
    BY <1>1, OthersKeepQueue, NobodyExits
  <2>2. NoCycles' /\ \A at, c : QueueAt(at, c)' <=> QueueAt(at, c)
    BY <2>1, QueueFrame
  <2>3. PICK at, c : at = pc[BootStack] /\ c = sh
    OBVIOUS
  <2>4. QueueAt(at, c)'
    BY <2>2, <2>3 DEF QueueInv
  <2> QED BY <2>1, <2>2, <2>3, <2>4 DEF QueueInv
<1>2. CASE StartCommand
  BY <1>2, LooksKeepQueue, FindKeepsQueue DEF StartCommand
<1>3. CASE CommandStep
  BY <1>3, LooksKeepQueue, BlockKeepsQueue, FindKeepsQueue, MarkKeepsQueue, FillKeepsQueue, WalkKeepsQueue,
     LinkKeepsQueue, SearchKeepsQueue, UnlinkKeepsQueue DEF CommandStep
<1> QED BY <1>1, <1>2, <1>3 DEF Next

\* The queue holds idle_pcb at first.
LEMMA InitQueue == Init => QueueInv /\ NoCycles
<1> SUFFICES ASSUME Init PROVE QueueInv /\ NoCycles
  OBVIOUS
<1> USE ConstantFacts
<1>1. Lives = {idle_pcb} /\ \A x \in Slots : next[x] = NULL
  BY DEF Init, Lives, Live
<1>2. Links(Lives, run_queue, next)
  BY <1>1 DEF Links, Init
<1>3. pc[BootStack] = "prompt"
  BY DEF Init
<1>4. QueueInv
  BY <1>2, <1>3, FreePlaces DEF QueueInv, Free
<1>5. NoCycles
  BY <1>1 DEF NoCycles, Acyclic
<1> QED BY <1>4, <1>5

\* killprocess finds a process: 0 is no number of one, and where there are no
\* threads all that is on the queue is a process.
LEMMA FindsOnly ==
    ASSUME KernelInv, CarefulKills, NoExits => QueueInv
    PROVE  FindsProcess
<1> SUFFICES ASSUME pc[BootStack] = "find_pid", sh.cur # NULL, pid[sh.cur] = sh.target
             PROVE  pid[sh.cur] # 0
  BY DEF FindsProcess
<1>1. CASE NoThreads
  <2>1. sh.cur \in Lives
    BY <1>1 DEF NoExits, NoThreads, QueueInv, QueueAt, CursorAt, Members
  <2>2. sh.cur \in Pcbs
    BY <1>1, <2>1, SlotFacts DEF Lives, KernelInv, SlotInv, IdleStays
  <2> QED BY <2>1, <2>2 DEF Lives, KernelInv, SlotInv, Stacks
<1>2. CASE ~NoThreads
  BY <1>2 DEF CarefulKills, NoThreads, KernelInv, SlotInv, Commands, CommandAt
<1> QED BY <1>1, <1>2

(***************************************************************************)
(* The inductive invariant behind stacks, contexts and the run queue.      *)
(***************************************************************************)
THEOREM SlotsKept ==
    ASSUME CarefulKills
    PROVE  Spec => [](KernelInv /\ (NoExits => QueueInv /\ NoCycles))
<1> DEFINE SlotsAndQueue == SlotInv /\ (NoExits => QueueInv /\ NoCycles)
<1>1. Init => SlotsAndQueue
  BY InitSlots, InitQueue
<1>2. TypeInv /\ InterruptShield /\ SlotsAndQueue /\ [Next]_kernelVars => SlotsAndQueue'
  <2> SUFFICES ASSUME TypeInv, InterruptShield, SlotsAndQueue, [Next]_kernelVars
               PROVE  SlotsAndQueue'
    OBVIOUS
  <2>1. KernelInv
    BY DEF KernelInv
  <2>2. SlotInv'
    BY <2>1, FindsOnly, StepSlots
  <2>3. NoExits => QueueInv' /\ NoCycles'
    BY <2>1, StepQueue
  <2>4. NoExits' = NoExits
    BY DEF NoExits
  <2> QED BY <2>2, <2>3, <2>4
<1>3. TypeInv /\ InterruptShield /\ SlotsAndQueue =>
          KernelInv /\ (NoExits => QueueInv /\ NoCycles)
  BY DEF KernelInv
<1> HIDE DEF SlotsAndQueue
<1> QED BY <1>1, <1>2, <1>3, TypeCorrect, Shielded, PTL DEF Spec

(***************************************************************************)
(* A stack is never shared, and never given back under a live slot: not by *)
(* a thread that exits while a command is between reading the page bitmap  *)
(* and writing it, and not by a process that is killed.                    *)
(***************************************************************************)
THEOREM StacksNeverShared == ASSUME CarefulKills PROVE Spec => []StacksOwned
  BY SlotsKept, SlotsMean, PTL

(***************************************************************************)
(* The CPU is always on the stack of current_pcb, and each context that    *)
(* waits can be resumed: the boot context through idle_pcb, the others     *)
(* through the slot whose stack they run on.                               *)
(***************************************************************************)
THEOREM ContextsResumable == ASSUME CarefulKills PROVE Spec => []ContextsKept
  BY SlotsKept, SlotsMean, PTL

(***************************************************************************)
(* No slot but the current one is RUNNING, and a slot that has the CPU is  *)
(* not READY, so that schedule() never chooses the context it is called    *)
(* from: a thread that yields or blocks really gives the CPU away.         *)
(***************************************************************************)
THEOREM OneRunning == ASSUME CarefulKills PROVE Spec => []RunningIsCurrent
  BY SlotsKept, SlotsMean, PTL

(***************************************************************************)
(* The wait list of the mutex links exactly the BLOCKED threads, each of   *)
(* them once, except for one that is about to push itself.                 *)
(***************************************************************************)
THEOREM WaitersExact == ASSUME CarefulKills PROVE Spec => []WaitListExact
<1>1. KernelInv => WaitListExact
  BY WaitingIs DEF KernelInv, SlotInv, TypeInv
<1> QED BY <1>1, SlotsKept, PTL

(***************************************************************************)
(* Whenever the shell waits for a command, the run queue is a list with an *)
(* end that links exactly the slots in use, however commands that enqueue, *)
(* block, delete and list slots were interleaved with ticks and threads -  *)
(* as long as threads do not exit by themselves.                           *)
(***************************************************************************)
THEOREM QueueIsExact == ASSUME CarefulKills, NoExits PROVE Spec => []QueueExact
<1>1. QueueInv => QueueExact
  <2> SUFFICES ASSUME QueueInv, AtPrompt PROVE QueueEnds /\ Queued = {x \in Slots : Live(x)}
    BY DEF QueueExact
  <2>1. Members(pc[BootStack], sh) = Lives /\ Lives = {x \in Slots : Live(x)}
    BY DEF Members, Lives, AtPrompt
  <2>2. Links(Lives, run_queue, next) /\ Lives \in SUBSET Slots
    BY <2>1 DEF QueueInv, QueueAt
  <2> QED BY <2>1, <2>2, QueuedIs
<1> QED BY <1>1, SlotsKept, PTL

-----------------------------------------------------------------------------
(***************************************************************************)
(* The mutex.  Where the code of each thread stands tells who keeps the    *)
(* lock, who may wait, and who will wake the waiters.                      *)
(***************************************************************************)
Place(t) == pc[stack_base[t]]

\* The lock has a holder; a thread goes to sleep only while it is held; a
\* thread that is BLOCKED is on its way to the loop test; and while there are
\* such threads and the lock is free, another one will wake or replace them.
WakeInv ==
    /\ lock = 1 => \E t \in Tcbs : Live(t) /\ Place(t) \in Critical
    /\ \A t \in Tcbs : Live(t) /\ Place(t) \in {"block", "push", "reschedule"} => lock = 1
    /\ \A t \in Blocked : Place(t) \in {"push", "reschedule", "test_and_set"}
    /\ Blocked # {} /\ lock = 0 =>
          \E t \in Tcbs \ Blocked : Live(t) /\ Place(t) \in {"wake", "test_and_set"}

\* What follows for each thread that waits.
LEMMA WakeMeans == TypeOK /\ WakeInv => NoLostWakeup
<1> SUFFICES ASSUME TypeOK, WakeInv, Blocked # {}
             PROVE  \E t \in Tcbs \ Blocked :
                        Live(t) /\ Place(t) \in Critical \cup {"wake", "test_and_set"}
  BY DEF NoLostWakeup, Place
<1>1. CASE lock = 1
  <2>1. PICK t \in Tcbs : Live(t) /\ Place(t) \in Critical
    BY <1>1 DEF WakeInv
  <2>2. t \notin Blocked
    BY <2>1 DEF WakeInv, Critical
  <2> QED BY <2>1, <2>2
<1>2. CASE lock = 0
  BY <1>2 DEF WakeInv
<1> QED BY <1>1, <1>2 DEF TypeOK

\* A step that leaves the lock and the threads in use as they are; it may
\* start a thread, at the beginning of its code.
LEMMA WakeFrame ==
    ASSUME WakeInv, UNCHANGED lock, Blocked' = Blocked,
           \A t \in Tcbs : Live(t) => Live(t)' /\ Place(t)' = Place(t),
           \A t \in Tcbs : Live(t)' => Live(t) \/ Place(t)' = "client"
    PROVE  WakeInv'
<1>1. \A t \in Blocked : t \in Tcbs /\ Live(t)
  BY DEF Blocked, Live
<1>2. lock' = 1 => \E t \in Tcbs : Live(t)' /\ Place(t)' \in Critical
  BY DEF WakeInv
<1>3. \A t \in Tcbs : Live(t)' /\ Place(t)' \in {"block", "push", "reschedule"} => lock' = 1
  BY DEF WakeInv
<1>4. \A t \in Blocked : Place(t)' \in {"push", "reschedule", "test_and_set"}
  BY <1>1 DEF WakeInv
<1>5. Blocked # {} /\ lock' = 0 =>
          \E t \in Tcbs \ Blocked : Live(t)' /\ Place(t)' \in {"wake", "test_and_set"}
  BY DEF WakeInv
<1> QED BY <1>2, <1>3, <1>4, <1>5 DEF WakeInv

\* A thread that moves on in its code moves alone.
LEMMA OneMoves ==
    ASSUME KernelInv, cpu # BootStack, current_pcb \in Tcbs, cpu = stack_base[current_pcb],
           NEW to, pc' = [pc EXCEPT ![cpu] = to], UNCHANGED stack_base
    PROVE  \A t \in Tcbs : Live(t) => Place(t)' = IF t = current_pcb THEN to ELSE Place(t)
<1> USE ConstantFacts, SlotFacts
<1>1. cpu \in Pages /\ stack_base \in [Slots -> Pages] /\ pc'[cpu] = to
      /\ \A s \in Pages : s # cpu => pc'[s] = pc[s]
  BY DEF KernelInv, TypeInv, TypeOK
<1>2. \A t \in Tcbs : t # current_pcb => stack_base[t] # cpu
  BY DEF KernelInv, SlotInv, Stacks
<1> QED BY <1>1, <1>2 DEF Place

\* The threads that do not have the CPU have called schedule(), or not begun.
LEMMA OthersWait ==
    ASSUME KernelInv
    PROVE  \A t \in Tcbs \ {current_pcb} : Live(t) =>
               Place(t) \in {"client", "test_and_set", "resumed"}
  BY DEF KernelInv, SlotInv, Code, Place

\* schedule() wakes nobody up.
LEMMA ScheduleKeepsBlocked ==
    ASSUME KernelInv, schedule
    PROVE  Blocked' = Blocked
<1>1. PICK new : new = ScheduledNext
  OBVIOUS
<1>2. new \in Slots /\ (state[new] = "READY" \/ new = idle_pcb)
  BY <1>1, ScheduledIsReady
<1>3. CASE UNCHANGED state
  BY <1>3 DEF Blocked
<1>4. CASE /\ new # current_pcb
           /\ state' = [state EXCEPT ![current_pcb] =
                            IF state[current_pcb] = "RUNNING" THEN "READY"
                            ELSE state[current_pcb],
                        ![new] = "RUNNING"]
  <2>1. idle_pcb \notin Tcbs
    BY SlotFacts
  <2>2. \A t \in Tcbs : state'[t] = "BLOCKED" <=> state[t] = "BLOCKED"
    BY <1>2, <1>4, <2>1, ConstantFacts DEF KernelInv, TypeInv, TypeOK
  <2> QED BY <2>2 DEF Blocked
<1> QED BY <1>1, <1>3, <1>4 DEF schedule

\* Threads that run, but do not touch the lock.
LEMMA ClientKeepsWake ==
    ASSUME KernelInv, WakeInv, NEW s \in Pages, UNCHANGED sh,
           StartLock(s) \/ StartSpin(s) \/ YieldInside(s) \/ YieldOutside(s)
    PROVE  WakeInv'
<1> USE ConstantFacts, SlotFacts
<1>1. /\ s = cpu /\ cpu # BootStack /\ current_pcb \in Tcbs /\ Live(idle_pcb)
      /\ pc[cpu] # "exited" => cpu = stack_base[current_pcb] /\ Live(current_pcb)
  BY Acting DEF ThreadStep
<1>2. PICK from, to :
         /\ pc[cpu] = from /\ pc' = [pc EXCEPT ![cpu] = to]
         /\ \/ from = "client" /\ to \in {"test_and_set", "spin"}
            \/ from = "critical" /\ to = "resumed"
            \/ from = "rest" /\ to = "client"
  BY <1>1 DEF StartLock, StartSpin, YieldInside, YieldOutside, Goto
<1>3. UNCHANGED <<lock, stack_base>>
  BY DEF StartLock, StartSpin, YieldInside, YieldOutside
<1>4. Blocked' = Blocked /\ \A t \in Slots : Live(t)' <=> Live(t)
  <2>1. CASE schedule
    BY <1>1, <2>1, ScheduleKeepsBlocked, ScheduleKeepsLive
  <2>2. CASE UNCHANGED state
    BY <2>2 DEF Blocked, Live
  <2> QED BY <2>1, <2>2 DEF StartLock, StartSpin, YieldInside, YieldOutside
<1>5. PICK me : me = current_pcb
  OBVIOUS
<1>6. /\ me \in Tcbs /\ Place(me) = from /\ Live(me)
      /\ \A t \in Tcbs : Live(t) => Place(t)' = IF t = me THEN to ELSE Place(t)
  BY <1>1, <1>2, <1>3, <1>5, OneMoves DEF Place
<1>7. \A t \in Blocked : t \in Tcbs /\ Live(t) /\ t # me
  <2>1. me \notin Blocked
    BY <1>2, <1>6 DEF WakeInv
  <2> QED BY <2>1 DEF Blocked, Live
<1>8. lock' = 1 => \E t \in Tcbs : Live(t)' /\ Place(t)' \in Critical
  BY <1>2, <1>3, <1>4, <1>6 DEF WakeInv, Critical
<1>9. \A t \in Tcbs : Live(t)' /\ Place(t)' \in {"block", "push", "reschedule"} => lock' = 1
  BY <1>2, <1>3, <1>4, <1>6 DEF WakeInv
<1>10. \A t \in Blocked : Place(t)' \in {"push", "reschedule", "test_and_set"}
  BY <1>6, <1>7 DEF WakeInv
<1>11. Blocked # {} /\ lock' = 0 =>
          \E t \in Tcbs \ Blocked : Live(t)' /\ Place(t)' \in {"wake", "test_and_set"}
  BY <1>2, <1>3, <1>4, <1>6 DEF WakeInv
<1> QED BY <1>4, <1>8, <1>9, <1>10, <1>11 DEF WakeInv

\* mutex_lock: the thread takes the lock, or goes to sleep while it is held.
LEMMA LockKeepsWake ==
    ASSUME KernelInv, WakeInv, NEW s \in Pages, UNCHANGED sh,
           test_and_set(s) \/ mutex_lock_block(s) \/ mutex_lock_push(s) \/ mutex_lock_reschedule(s)
    PROVE  WakeInv'
<1> USE ConstantFacts, SlotFacts
<1>0. PICK me : me = current_pcb
  OBVIOUS
<1>1. /\ s = cpu /\ cpu # BootStack /\ me \in Tcbs /\ Live(idle_pcb)
      /\ pc[cpu] # "exited" => cpu = stack_base[me] /\ Live(me)
  BY <1>0, Acting DEF ThreadStep
<1>2. PICK from, to :
         /\ pc[cpu] = from /\ pc' = [pc EXCEPT ![cpu] = to]
         /\ \/ from = "test_and_set" /\ lock = 0 /\ to = "critical" /\ UNCHANGED state
            \/ from = "test_and_set" /\ lock # 0 /\ to = "block" /\ UNCHANGED state
            \/ from = "block" /\ to = "push" /\ state' = [state EXCEPT ![me] = "BLOCKED"]
            \/ from = "push" /\ to = "reschedule" /\ UNCHANGED state
            \/ from = "reschedule" /\ to = "test_and_set" /\ schedule
  BY <1>0, <1>1 DEF test_and_set, mutex_lock_block, mutex_lock_push, mutex_lock_reschedule, Goto
<1>3. UNCHANGED stack_base /\ lock' = IF from = "test_and_set" THEN 1 ELSE lock
  BY <1>1, <1>2 DEF test_and_set, mutex_lock_block, mutex_lock_push, mutex_lock_reschedule, Goto
<1>4. /\ Place(me) = from /\ Live(me)
      /\ \A t \in Tcbs : Live(t) => Place(t)' = IF t = me THEN to ELSE Place(t)
  BY <1>0, <1>1, <1>2, <1>3, OneMoves DEF Place
<1>5. lock' = 1 /\ (to # "critical" => lock = 1)
  BY <1>1, <1>2, <1>3, <1>4 DEF WakeInv, KernelInv, TypeInv, TypeOK
<1>6. Blocked' = (IF from = "block" THEN Blocked \cup {me} ELSE Blocked)
      /\ \A t \in Slots : Live(t)' <=> Live(t)
  <2>1. CASE schedule /\ from = "reschedule"
    BY <1>1, <2>1, ScheduleKeepsBlocked, ScheduleKeepsLive
  <2>2. CASE UNCHANGED state /\ from # "block"
    BY <2>2 DEF Blocked, Live
  <2>3. CASE from = "block" /\ state' = [state EXCEPT ![me] = "BLOCKED"]
    BY <1>1, <1>4, <2>3 DEF Blocked, Live, KernelInv, TypeInv, TypeOK
  <2> QED BY <1>2, <2>1, <2>2, <2>3
<1>7. \A t \in Blocked : t \in Tcbs /\ Live(t)
  BY DEF Blocked, Live
<1>8. \E t \in Tcbs : Live(t)' /\ Place(t)' \in Critical
  <2>1. CASE to = "critical"
    BY <1>1, <1>4, <1>6, <2>1 DEF Critical
  <2>2. CASE to # "critical"
    <3>1. PICK t \in Tcbs : Live(t) /\ Place(t) \in Critical
      BY <1>5, <2>2 DEF WakeInv
    <3>2. t # me
      BY <1>2, <1>4, <3>1 DEF Critical
    <3> QED BY <1>4, <1>6, <3>1, <3>2
  <2> QED BY <2>1, <2>2
<1>9. \A t \in Blocked' : Place(t)' \in {"push", "reschedule", "test_and_set"}
  <2>1. ASSUME NEW t \in Blocked, t # me PROVE Place(t)' \in {"push", "reschedule", "test_and_set"}
    BY <1>4, <1>7, <2>1 DEF WakeInv
  <2>2. me \in Blocked' => to \in {"push", "reschedule", "test_and_set"}
    <3> SUFFICES ASSUME me \in Blocked', to \in {"critical", "block"} PROVE FALSE
      BY <1>2
    <3>1. from = "test_and_set" /\ cpu = stack_base[me] /\ me \in Blocked
      BY <1>1, <1>2, <1>6
    <3>2. state[me] = "RUNNING"
      BY <1>0, <1>1, <1>2, <3>1 DEF KernelInv, SlotInv, Contexts
    <3> QED BY <3>1, <3>2 DEF Blocked
  <2>3. Place(me)' = to
    BY <1>1, <1>4
  <2>4. \A t \in Blocked' : t = me \/ t \in Blocked
    BY <1>6
  <2> QED BY <2>1, <2>2, <2>3, <2>4
<1> QED BY <1>5, <1>8, <1>9 DEF WakeInv

\* mutex_unlock: the thread that frees the lock is the one to wake a waiter,
\* and a thread that it wakes tries the lock again.
LEMMA UnlockKeepsWake ==
    ASSUME KernelInv, WakeInv, NEW s \in Pages, UNCHANGED sh,
           mutex_unlock(s) \/ mutex_unlock_wake(s)
    PROVE  WakeInv'
<1> USE ConstantFacts, SlotFacts
<1>0. PICK me : me = current_pcb
  OBVIOUS
<1>1. /\ s = cpu /\ cpu # BootStack /\ me \in Tcbs
      /\ pc[cpu] # "exited" => cpu = stack_base[me] /\ Live(me)
  BY <1>0, Acting DEF ThreadStep
<1>2. PICK from, to :
         /\ pc[cpu] = from /\ pc' = [pc EXCEPT ![cpu] = to]
         /\ \/ from \in Critical /\ to = "wake" /\ mutex_unlock(s)
            \/ from = "wake" /\ to = "rest" /\ mutex_unlock_wake(s)
  BY <1>1 DEF mutex_unlock, mutex_unlock_wake, Goto
<1>3. UNCHANGED stack_base
  BY DEF mutex_unlock, mutex_unlock_wake
<1>4. /\ Place(me) = from /\ Live(me) /\ from \in {"critical", "resumed", "wake"}
      /\ \A t \in Tcbs : Live(t) => Place(t)' = IF t = me THEN to ELSE Place(t)
  BY <1>0, <1>1, <1>2, <1>3, OneMoves DEF Place, Critical
<1>5. /\ \A t \in Blocked : t \in Tcbs /\ Live(t) /\ t # me
      /\ \A t \in Tcbs \ {me} : Live(t) => Place(t) \in {"client", "test_and_set", "resumed"}
  <2>1. me \notin Blocked
    BY <1>4 DEF WakeInv
  <2> QED BY <1>0, <2>1, OthersWait DEF Blocked, Live
<1>6. CASE mutex_unlock(s) /\ to = "wake"
  <2>1. lock' = 0 /\ Blocked' = Blocked /\ \A t \in Slots : Live(t)' <=> Live(t)
    BY <1>6 DEF mutex_unlock, Blocked, Live
  <2>2. \A t \in Tcbs : Live(t)' => Place(t)' \notin {"block", "push", "reschedule"}
    BY <1>4, <1>5, <1>6, <2>1
  <2>3. \A t \in Blocked : Place(t)' \in {"push", "reschedule", "test_and_set"}
    BY <1>4, <1>5 DEF WakeInv
  <2>4. \E t \in Tcbs \ Blocked : Live(t)' /\ Place(t)' \in {"wake", "test_and_set"}
    BY <1>1, <1>4, <1>5, <1>6, <2>1
  <2> QED BY <2>1, <2>2, <2>3, <2>4 DEF WakeInv
<1>7. CASE mutex_unlock_wake(s) /\ from = "wake" /\ to = "rest"
  <2>1. lock' = lock
    BY <1>7 DEF mutex_unlock_wake
  <2>2. Parked = Blocked
    BY <1>2, <1>7 DEF Parked, Blocked
  <2>3. CASE waiters = NULL /\ UNCHANGED state
    <3>1. Blocked = {}
      <4>1. NULL \notin Parked
        BY DEF Parked
      <4> QED BY <2>2, <2>3, <4>1, NoHead DEF KernelInv, SlotInv, WaitLinks
    <3>2. Blocked' = {} /\ \A t \in Slots : Live(t)' <=> Live(t)
      BY <2>3, <3>1 DEF Blocked, Live
    <3>3. lock' = 1 => \E t \in Tcbs : Live(t)' /\ Place(t)' \in Critical
      BY <1>4, <1>7, <2>1, <3>2 DEF WakeInv, Critical
    <3>4. \A t \in Tcbs : Live(t)' /\ Place(t)' \in {"block", "push", "reschedule"} => lock' = 1
      BY <1>4, <1>7, <2>1, <3>2 DEF WakeInv
    <3> QED BY <3>2, <3>3, <3>4 DEF WakeInv
  <2>4. CASE waiters # NULL /\ state' = [state EXCEPT ![waiters] = "READY"]
    <3>0. PICK w : w = waiters
      OBVIOUS
    <3>1. w \in Blocked
      BY <2>2, <2>4, <3>0 DEF KernelInv, SlotInv, WaitLinks, Links
    <3>2. Blocked' = Blocked \ {w} /\ \A t \in Slots : Live(t)' <=> Live(t)
      BY <1>5, <2>4, <3>0, <3>1 DEF Blocked, Live, KernelInv, TypeInv, TypeOK
    <3>3. Live(w) /\ w \in Tcbs /\ w # me /\ Place(w) = "test_and_set"
      BY <1>5, <3>1 DEF WakeInv
    <3>4. \E t \in Tcbs \ Blocked' : Live(t)' /\ Place(t)' \in {"wake", "test_and_set"}
      <4>1. w \in Tcbs \ Blocked' /\ Live(w)' /\ Place(w)' = "test_and_set"
        BY <1>4, <3>2, <3>3
      <4> QED BY <4>1
    <3>5. lock' = 1 => \E t \in Tcbs : Live(t)' /\ Place(t)' \in Critical
      BY <1>4, <1>7, <2>1, <3>2 DEF WakeInv, Critical
    <3>6. \A t \in Tcbs : Live(t)' /\ Place(t)' \in {"block", "push", "reschedule"} => lock' = 1
      BY <1>4, <1>7, <2>1, <3>2 DEF WakeInv
    <3>7. \A t \in Blocked' : Place(t)' \in {"push", "reschedule", "test_and_set"}
      BY <1>4, <1>5, <3>2 DEF WakeInv
    <3> QED BY <3>4, <3>5, <3>6, <3>7 DEF WakeInv
  <2> QED BY <1>7, <2>3, <2>4 DEF mutex_unlock_wake
<1> QED BY <1>2, <1>6, <1>7

\* process_exit: a thread that leaves neither holds the lock nor wakes anyone.
LEMMA ExitKeepsWake ==
    ASSUME KernelInv, WakeInv, NEW s \in Pages, UNCHANGED sh,
           process_exit(s) \/ process_exit_switch(s)
    PROVE  WakeInv'
<1> USE ConstantFacts, SlotFacts
<1>0. PICK me : me = current_pcb
  OBVIOUS
<1>1. /\ s = cpu /\ cpu # BootStack /\ me \in Tcbs /\ Live(idle_pcb)
      /\ pc[cpu] # "exited" => cpu = stack_base[me] /\ Live(me)
  BY <1>0, Acting DEF ThreadStep
<1>2. CASE process_exit(s)
  <2>1. /\ pc[cpu] \in {"client", "rest"} /\ pc' = [pc EXCEPT ![cpu] = "exited"]
        /\ state' = [state EXCEPT ![me] = "DEAD"]
        /\ stack_base' = [stack_base EXCEPT ![me] = NULL] /\ UNCHANGED lock
    BY <1>0, <1>1, <1>2 DEF process_exit, Goto
  <2>2. Place(me) \in {"client", "rest"} /\ me \in Slots
    BY <1>1, <2>1 DEF Place
  <2>3. ~Live(me)' /\ \A t \in Slots \ {me} : state'[t] = state[t] /\ (Live(t)' <=> Live(t))
    BY <2>1, <2>2 DEF Live, KernelInv, TypeInv, TypeOK
  <2>4. \A t \in Tcbs \ {me} : Live(t) => Place(t)' = Place(t)
    <3>1. /\ \A t \in Tcbs \ {me} : stack_base'[t] = stack_base[t] /\ stack_base[t] \in Pages
          /\ \A r \in Pages : r # cpu => pc'[r] = pc[r]
      BY <2>1 DEF KernelInv, TypeInv, TypeOK
    <3>2. \A t \in Tcbs \ {me} : stack_base[t] # cpu
      BY <1>1, <2>1 DEF KernelInv, SlotInv, Stacks
    <3> QED BY <3>1, <3>2 DEF Place
  <2>5. me \notin Blocked /\ Blocked' = Blocked
    <3>1. me \notin Blocked
      BY <2>2 DEF WakeInv
    <3> QED BY <2>3, <3>1 DEF Blocked, Live
  <2>6. \A t \in Blocked : t \in Tcbs \ {me} /\ Live(t)
    BY <2>5 DEF Blocked, Live
  <2>7. lock' = 1 => \E t \in Tcbs : Live(t)' /\ Place(t)' \in Critical
    BY <2>1, <2>2, <2>3, <2>4 DEF WakeInv, Critical
  <2>8. \A t \in Tcbs : Live(t)' /\ Place(t)' \in {"block", "push", "reschedule"} => lock' = 1
    BY <2>1, <2>3, <2>4 DEF WakeInv
  <2>9. \A t \in Blocked : Place(t)' \in {"push", "reschedule", "test_and_set"}
    BY <2>4, <2>6 DEF WakeInv
  <2>10. Blocked # {} /\ lock' = 0 =>
          \E t \in Tcbs \ Blocked : Live(t)' /\ Place(t)' \in {"wake", "test_and_set"}
    BY <2>1, <2>2, <2>3, <2>4 DEF WakeInv
  <2> QED BY <2>5, <2>7, <2>8, <2>9, <2>10 DEF WakeInv
<1>3. CASE process_exit_switch(s)
  <2>1. state' = [state EXCEPT ![idle_pcb] = "RUNNING"] /\ UNCHANGED <<lock, pc, stack_base>>
    BY <1>3 DEF process_exit_switch
  <2>2. \A t \in Tcbs : state'[t] = state[t]
    BY <2>1 DEF KernelInv, TypeInv, TypeOK
  <2>3. Blocked' = Blocked /\ \A t \in Tcbs : (Live(t)' <=> Live(t)) /\ Place(t)' = Place(t)
    BY <2>1, <2>2 DEF Blocked, Live, Place
  <2> QED BY <2>1, <2>3, WakeFrame
<1> QED BY <1>2, <1>3

\* The shell starts threads and deletes processes; the mutex is not its own.
LEMMA ShellKeepsWake ==
    ASSUME KernelInv, WakeInv, StartCommand \/ CommandStep
    PROVE  WakeInv'
<1> USE ConstantFacts, SlotFacts
<1>1. UNCHANGED lock
  BY DEF StartCommand, CommandStep, StartList, StartCreate, StartKillProcess, StartKillThread,
         alloc_slot, pmm_alloc_scan, pmm_alloc_store, NullStack, FillSlot, enqueue_walk, enqueue_link,
         set_blocked, find_pid, find_tid, mark_dead, dequeue_start, dequeue_find_prev, dequeue_load_next,
         dequeue_unlink, FreeStack, list_row, list_next
<1>2. \A t \in Tcbs : Live(t) => stack_base[t] \in Pages \ {BootStack}
  BY DEF KernelInv, SlotInv, Stacks, TypeInv, TypeOK
<1>3. CASE FillSlot
  <2>0. PICK slot, page : slot = sh.slot /\ page = sh.page
    OBVIOUS
  <2>1. /\ pc[BootStack] = "fill" /\ page \in Pages
        /\ state' = [state EXCEPT ![slot] = "READY"]
        /\ stack_base' = [stack_base EXCEPT ![slot] = page]
    BY <1>3, <2>0 DEF FillSlot, KernelInv, TypeInv, TypeOK, Locals
  <2>2. /\ slot \in Slots /\ ~Live(slot) /\ page # BootStack /\ (slot \in Tcbs => sh.op = "thread")
        /\ \A x \in Slots : stack_base[x] # page
    BY <2>0, <2>1 DEF KernelInv, SlotInv, Commands, CommandAt, Creating
  <2>3. /\ slot \in Tcbs => pc'[page] = "client"
        /\ \A r \in Pages \ {BootStack, page} : pc'[r] = pc[r]
    BY <1>3, <2>0, <2>1, <2>2 DEF FillSlot, KernelInv, TypeInv, TypeOK
  <2>4. /\ state'[slot] = "READY" /\ stack_base'[slot] = page
        /\ \A x \in Slots \ {slot} : state'[x] = state[x] /\ stack_base'[x] = stack_base[x]
    BY <2>1, <2>2 DEF KernelInv, TypeInv, TypeOK
  <2>5. \A t \in Tcbs : Live(t) => Live(t)' /\ Place(t)' = Place(t)
    BY <1>2, <2>2, <2>3, <2>4 DEF Live, Place
  <2>6. \A t \in Tcbs : Live(t)' => Live(t) \/ Place(t)' = "client"
    BY <2>3, <2>4 DEF Live, Place
  <2>7. Blocked' = Blocked
    BY <2>2, <2>4 DEF Blocked, Live
  <2> QED BY <1>1, <2>5, <2>6, <2>7, WakeFrame
<1>4. CASE ~FillSlot
  <2>1. /\ \A r \in Pages \ {BootStack} : pc'[r] = pc[r]
        /\ UNCHANGED stack_base \/ FreeStack
        /\ UNCHANGED state \/ set_blocked \/ mark_dead
    BY <1>4
     DEF StartCommand, CommandStep, StartList, StartCreate, StartKillProcess, StartKillThread,
         alloc_slot, pmm_alloc_scan, pmm_alloc_store, NullStack, enqueue_walk, enqueue_link,
         set_blocked, find_pid, find_tid, mark_dead, dequeue_start, dequeue_find_prev, dequeue_load_next,
         dequeue_unlink, FreeStack, list_row, list_next, ShellGoto, Goto, KernelInv, TypeInv, TypeOK
  <2>2. \A t \in Tcbs : stack_base'[t] = stack_base[t]
    <3>1. CASE FreeStack
      <4>1. sh.slot \in Pcbs
        BY <3>1 DEF FreeStack, ShellGoto, Goto, KernelInv, SlotInv, Commands, CommandAt, Killing
      <4> QED BY <3>1, <4>1 DEF FreeStack, KernelInv, TypeInv, TypeOK
    <3> QED BY <2>1, <3>1
  <2>3. \A t \in Tcbs : state'[t] = state[t]
    <3>1. CASE set_blocked
      <4>1. sh.slot \in Pcbs
        BY <3>1 DEF set_blocked, ShellGoto, Goto, KernelInv, SlotInv, Commands, CommandAt, Filling
      <4> QED BY <3>1, <4>1 DEF set_blocked, KernelInv, TypeInv, TypeOK
    <3>2. CASE mark_dead
      <4>1. sh.slot \in Pcbs
        BY <3>2 DEF mark_dead, ShellGoto, Goto, KernelInv, SlotInv, Commands, CommandAt
      <4> QED BY <3>2, <4>1 DEF mark_dead, KernelInv, TypeInv, TypeOK
    <3> QED BY <2>1, <3>1, <3>2
  <2>4. Blocked' = Blocked /\ \A t \in Tcbs : Live(t)' <=> Live(t)
    BY <2>3 DEF Blocked, Live
  <2>5. \A t \in Tcbs : Live(t) => Place(t)' = Place(t)
    BY <1>2, <2>1, <2>2 DEF Place
  <2> QED BY <1>1, <2>4, <2>5, WakeFrame
<1> QED BY <1>3, <1>4

\* Every step keeps what the waiters count on.
LEMMA StepWake ==
    ASSUME KernelInv, WakeInv, [Next]_kernelVars
    PROVE  WakeInv'
<1>1. CASE Tick
  <2>1. schedule /\ cpu = BootStack /\ UNCHANGED <<lock, pc, stack_base>>
    BY <1>1 DEF Tick, TimerIrq, KernelInv, InterruptShield
  <2>2. Blocked' = Blocked /\ \A t \in Tcbs : (Live(t)' <=> Live(t)) /\ Place(t)' = Place(t)
    BY <2>1, ScheduleKeepsBlocked, ScheduleKeepsLive, ConstantFacts DEF Place
  <2> QED BY <2>1, <2>2, WakeFrame
<1>2. CASE Return \/ UNCHANGED kernelVars
  <2>1. UNCHANGED <<lock, pc, stack_base, state>>
    BY <1>2 DEF Return, IsrReturn
  <2>2. Blocked' = Blocked /\ \A t \in Tcbs : (Live(t)' <=> Live(t)) /\ Place(t)' = Place(t)
    BY <2>1 DEF Place, Blocked, Live
  <2> QED BY <2>1, <2>2, WakeFrame
<1>3. CASE ThreadRuns
  <2>1. PICK s \in Pages : ThreadStep(s) /\ UNCHANGED sh
    BY <1>3 DEF ThreadRuns
  <2> QED BY <2>1, ClientKeepsWake, LockKeepsWake, UnlockKeepsWake, ExitKeepsWake DEF ThreadStep
<1>4. CASE StartCommand \/ CommandStep
  BY <1>4, ShellKeepsWake
<1> QED BY <1>1, <1>2, <1>3, <1>4 DEF Next

(***************************************************************************)
(* No wakeup is lost: a thread that found the lock taken, and is BLOCKED   *)
(* or about to push itself, is never left with nobody to wake it or to try *)
(* the lock again, whatever exits, yields, ticks and commands come between *)
(* the exchange, the push and the unlock.                                  *)
(***************************************************************************)
THEOREM NoWakeupLost == ASSUME CarefulKills PROVE Spec => []NoLostWakeup
<1> DEFINE Slotted == KernelInv /\ (NoExits => QueueInv /\ NoCycles)
<1>1. Init => WakeInv
  <2> SUFFICES ASSUME Init PROVE WakeInv
    OBVIOUS
  <2>1. \A t \in Tcbs : ~Live(t)
    BY SlotFacts, ConstantFacts DEF Init, Live
  <2>2. Blocked = {} /\ lock = 0
    BY <2>1 DEF Blocked, Live, Init
  <2> QED BY <2>1, <2>2 DEF WakeInv
<1>2. Slotted /\ WakeInv /\ [Next]_kernelVars => WakeInv'
  BY StepWake
<1>3. Slotted /\ WakeInv => NoLostWakeup
  BY WakeMeans DEF KernelInv, TypeInv
<1>4. Spec => []Slotted
  BY SlotsKept
<1> HIDE DEF Slotted
<1> QED BY <1>1, <1>2, <1>3, <1>4, PTL DEF Spec

-----------------------------------------------------------------------------
(***************************************************************************)
(* The pages, where no thread exits: none comes free between the load of a *)
(* bitmap word and the store that writes it back.                          *)
(***************************************************************************)
Owned == {stack_base[x] : x \in Slots} \cup {BootStack}

PagesAt(at, c) ==
    /\ pmm_used = Owned \cup (IF at = "fill" THEN {c.page} ELSE {})
    /\ at = "store_word" => c.word = pmm_used \cap WordOf(c.page) /\ c.page \notin pmm_used

FreeCount == pmm_free_pages = Cardinality(Pages \ pmm_used)

PagesInv == PagesAt(pc[BootStack], sh) /\ FreeCount

\* The bitmap is as exact as the property says.
LEMMA PagesMean == PagesInv => PagesAccounted
  BY DEF PagesInv, PagesAt, FreeCount, Owned, PagesAccounted

\* The count of free pages follows the bitmap, page by page.
LEMMA CountPages ==
    ASSUME NEW used \in SUBSET Pages, NEW page \in Pages
    PROVE  /\ Cardinality(Pages \ used) \in Nat
           /\ page \notin used =>
                 Cardinality(Pages \ (used \cup {page})) = Cardinality(Pages \ used) - 1
           /\ page \in used =>
                 Cardinality(Pages \ (used \ {page})) = Cardinality(Pages \ used) + 1
<1>1. IsFiniteSet(Pages)
  BY ConstantFacts, FS_Interval DEF Pages
<1>2. IsFiniteSet(Pages \ used)
  BY <1>1, FS_Difference
<1>3. Pages \ (used \cup {page}) = (Pages \ used) \ {page}
  OBVIOUS
<1>4. Pages \ (used \ {page}) = (Pages \ used) \cup {page}
  OBVIOUS
<1>5. PICK free : free = Pages \ used
  OBVIOUS
<1>6. Cardinality(free) \in Nat
  BY <1>2, <1>5, FS_CardinalityType
<1>7. page \notin used => Cardinality(free \ {page}) = Cardinality(free) - 1
  BY <1>2, <1>5, FS_RemoveElement
<1>8. page \in used => Cardinality(free \cup {page}) = Cardinality(free) + 1
  BY <1>2, <1>5, FS_AddElement
<1> QED BY <1>3, <1>4, <1>5, <1>6, <1>7, <1>8

\* Steps that touch no page.
LEMMA PagesFrame ==
    ASSUME PagesInv, UNCHANGED <<stack_base, pmm_used, pmm_free_pages>>,
           \/ pc'[BootStack] = pc[BootStack] /\ UNCHANGED sh
           \/ pc[BootStack] # "fill" /\ pc'[BootStack] \notin {"fill", "store_word"}
    PROVE  PagesInv'
<1>1. Owned' = Owned /\ FreeCount'
  BY DEF Owned, PagesInv, FreeCount
<1> QED BY <1>1 DEF PagesInv, PagesAt

\* pmm_alloc_page: scan and store.
LEMMA AllocKeepsPages ==
    ASSUME KernelInv, PagesInv, pmm_alloc_scan \/ pmm_alloc_store
    PROVE  PagesInv'
<1> USE ConstantFacts, SlotFacts DEF ShellGoto, Goto
<1>0. sh \in Locals /\ pmm_used \in SUBSET Pages /\ pc \in [Pages -> ShellPlaces \cup ThreadPlaces]
  BY DEF KernelInv, TypeInv, TypeOK
<1>1. CASE pmm_alloc_scan
  <2>1. PICK page : page = FirstFree(pmm_used, NPages)
    OBVIOUS
  <2>2. /\ pc[BootStack] = "alloc_page"
        /\ UNCHANGED <<stack_base, pmm_used, pmm_free_pages>>
    BY <1>1 DEF pmm_alloc_scan
  <2>3. CASE pc' = [pc EXCEPT ![BootStack] = "prompt"]
    BY <1>0, <2>2, <2>3, PagesFrame
  <2>4. CASE /\ Allocatable(pmm_used, NPages) # {}
             /\ pc' = [pc EXCEPT ![BootStack] = "store_word"]
             /\ sh' = [sh EXCEPT !.page = page, !.word = pmm_used \cap WordOf(page)]
    <3>1. page \notin pmm_used
      BY <2>1, <2>4, FirstFreeIsFree
    <3>2. pc'[BootStack] = "store_word" /\ sh'.page = page /\ sh'.word = pmm_used \cap WordOf(page)
      BY <1>0, <2>4 DEF Locals
    <3>3. Owned' = Owned /\ FreeCount'
      BY <2>2 DEF Owned, PagesInv, FreeCount
    <3> QED BY <2>2, <3>1, <3>2, <3>3 DEF PagesInv, PagesAt
  <2> QED BY <1>1, <2>1, <2>3, <2>4 DEF pmm_alloc_scan
<1>2. CASE pmm_alloc_store
  <2>0. PICK page, word : page = sh.page /\ word = sh.word
    OBVIOUS
  <2>1. /\ pc[BootStack] = "store_word" /\ pc'[BootStack] = "fill"
        /\ UNCHANGED <<stack_base, sh>>
        /\ pmm_used' = StoreWord(pmm_used, page, word)
        /\ pmm_free_pages' = pmm_free_pages - 1
    BY <1>0, <1>2, <2>0 DEF pmm_alloc_store
  <2>2. page \in Pages /\ page \notin pmm_used /\ word = pmm_used \cap WordOf(page) /\ pmm_used = Owned
    BY <1>0, <2>0, <2>1 DEF PagesInv, PagesAt, Locals
  <2>3. pmm_used' = pmm_used \cup {page}
    BY <2>1, <2>2 DEF StoreWord
  <2>4. FreeCount'
    BY <1>0, <2>1, <2>2, <2>3, CountPages DEF PagesInv, FreeCount
  <2>5. Owned' = Owned
    BY <2>1 DEF Owned
  <2> QED BY <2>0, <2>1, <2>2, <2>3, <2>4, <2>5 DEF PagesInv, PagesAt
<1> QED BY <1>1, <1>2

\* The page goes into the slot, and comes back from it.
LEMMA SlotKeepsPages ==
    ASSUME KernelInv, PagesInv, FillSlot \/ FreeStack
    PROVE  PagesInv'
<1> USE ConstantFacts, SlotFacts
<1>0. PICK slot, page : slot = sh.slot /\ page = sh.page
  OBVIOUS
<1>a. stack_base \in [Slots -> Pages] /\ pmm_used \in SUBSET Pages
  BY DEF KernelInv, TypeInv, TypeOK
<1>1. CASE FillSlot
  <2>1. /\ pc[BootStack] = "fill" /\ page # BootStack
        /\ slot \in Slots /\ stack_base[slot] = NULL
    BY <1>0, <1>1 DEF FillSlot, KernelInv, SlotInv, Commands, CommandAt, Creating, Killing
  <2>2. /\ stack_base' = [stack_base EXCEPT ![slot] = page]
        /\ UNCHANGED <<pmm_used, pmm_free_pages>>
        /\ pc'[BootStack] \in {"prompt", "set_blocked", "find_tail"}
    BY <1>0, <1>1, <2>1 DEF FillSlot, KernelInv, TypeInv, TypeOK
  <2>3. Owned' = Owned \cup {page}
    <3>1. stack_base'[slot] = page /\ \A x \in Slots \ {slot} : stack_base'[x] = stack_base[x]
      BY <1>a, <2>1, <2>2
    <3>2. ASSUME NEW p \in Owned' PROVE p \in Owned \cup {page}
      BY <3>1 DEF Owned
    <3>3. ASSUME NEW p \in Owned PROVE p \in Owned'
      BY <2>1, <3>1 DEF Owned
    <3>4. page \in Owned'
      BY <2>1, <3>1 DEF Owned
    <3> QED BY <3>2, <3>3, <3>4
  <2>4. pmm_used = Owned \cup {page}
    BY <1>0, <2>1 DEF PagesInv, PagesAt
  <2> QED BY <2>2, <2>3, <2>4 DEF PagesInv, PagesAt, FreeCount
<1>2. CASE FreeStack
  <2>0. PICK stack : stack = stack_base[slot]
    OBVIOUS
  <2>1. /\ pc[BootStack] = "free_stack" /\ pc'[BootStack] = "prompt"
        /\ stack_base' = [stack_base EXCEPT ![slot] = NULL] /\ pmm_free_page(stack)
    BY <1>0, <1>2, <2>0 DEF FreeStack, ShellGoto, Goto, KernelInv, TypeInv, TypeOK
  <2>2. /\ slot \in Slots /\ stack # NULL /\ stack \in pmm_used /\ stack \in Pages
        /\ \A x \in Slots : x # slot => stack_base[x] # stack
    BY <1>0, <1>a, <2>0, <2>1 DEF KernelInv, SlotInv, Commands, CommandAt, Killing, Stacks
  <2>3. pmm_used' = pmm_used \ {stack} /\ pmm_free_pages' = pmm_free_pages + 1
    BY <2>1, <2>2 DEF pmm_free_page, bitmap_test, bitmap_clear
  <2>4. FreeCount'
    BY <1>a, <2>2, <2>3, CountPages DEF PagesInv, FreeCount
  <2>5. Owned' = Owned \ {stack}
    <3>1. stack_base'[slot] = NULL /\ \A x \in Slots \ {slot} : stack_base'[x] = stack_base[x]
      BY <1>a, <2>1, <2>2
    <3>2. ASSUME NEW p \in Owned' PROVE p \in Owned \ {stack}
      BY <2>2, <3>1 DEF Owned
    <3>3. ASSUME NEW p \in Owned \ {stack} PROVE p \in Owned'
      BY <2>0, <3>1 DEF Owned
    <3> QED BY <3>2, <3>3
  <2>6. pmm_used = Owned
    BY <2>1 DEF PagesInv, PagesAt
  <2> QED BY <2>1, <2>3, <2>4, <2>5, <2>6 DEF PagesInv, PagesAt
<1> QED BY <1>1, <1>2

\* Every step keeps the pages accounted, if no thread exits.
LEMMA StepPages ==
    ASSUME KernelInv, CarefulKills, NoExits, PagesInv, [Next]_kernelVars
    PROVE  PagesInv'
<1>1. CASE Tick \/ Return \/ ThreadRuns \/ UNCHANGED kernelVars
  <2>1. /\ UNCHANGED <<stack_base, pmm_used, pmm_free_pages, sh>>
        /\ pc'[BootStack] = pc[BootStack]
    BY <1>1, OthersKeepQueue, NobodyExits
  <2> QED BY <2>1, PagesFrame
<1>2. CASE StartCommand
  <2>1. /\ UNCHANGED <<stack_base, pmm_used, pmm_free_pages>>
        /\ pc[BootStack] # "fill" /\ pc'[BootStack] \notin {"fill", "store_word"}
    BY <1>2, ConstantFacts
    DEF StartCommand, StartList, StartCreate, StartKillProcess, StartKillThread, ShellGoto, Goto, KernelInv, TypeInv,
        TypeOK
  <2> QED BY <2>1, PagesFrame
<1>3. CASE pmm_alloc_scan \/ pmm_alloc_store \/ FillSlot \/ FreeStack
  BY <1>3, AllocKeepsPages, SlotKeepsPages
<1>4. CASE CommandStep /\ ~(pmm_alloc_scan \/ pmm_alloc_store \/ FillSlot \/ FreeStack)
  <2>1. /\ UNCHANGED <<stack_base, pmm_used, pmm_free_pages>>
        /\ pc[BootStack] # "fill" /\ pc'[BootStack] \notin {"fill", "store_word"}
    BY <1>4, ConstantFacts, NoNullStack
    DEF CommandStep, alloc_slot, enqueue_walk, enqueue_link, set_blocked, find_pid, find_tid, mark_dead, dequeue_start,
        dequeue_find_prev, dequeue_load_next, dequeue_unlink, list_row, list_next, ShellGoto, Goto,
        KernelInv, TypeInv, TypeOK
  <2> QED BY <2>1, PagesFrame
<1> QED BY <1>1, <1>2, <1>3, <1>4 DEF Next

(***************************************************************************)
(* Pages are neither lost nor counted twice, as long as no thread exits by *)
(* itself: the bits set are the kernel's page, the stacks, and the page    *)
(* that a command is about to put into a slot, and pmm_free_pages counts   *)
(* the others - at every tick, also between the load of a bitmap word and  *)
(* its store.                                                              *)
(***************************************************************************)
THEOREM PagesAreAccounted == ASSUME CarefulKills, NoExits PROVE Spec => []PagesAccounted
<1>1. Init => PagesInv
  <2> SUFFICES ASSUME Init PROVE PagesInv
    OBVIOUS
  <2> USE ConstantFacts
  <2>1. pc[BootStack] = "prompt" /\ pmm_used = {BootStack, 1}
    BY DEF Init
  <2>2. Owned = {BootStack, 1}
    BY SlotFacts DEF Owned, Init
  <2>3. FreeCount
    <3>1. Pages \ {BootStack, 1} = 2 .. (NPages - 1)
      BY DEF Pages, BootStack
    <3>2. Cardinality(2 .. (NPages - 1)) = NPages - 2
      BY FS_Interval
    <3> QED BY <2>1, <3>1, <3>2 DEF FreeCount, Init
  <2> QED BY <2>1, <2>2, <2>3 DEF PagesInv, PagesAt
<1>2. KernelInv /\ PagesInv /\ [Next]_kernelVars => PagesInv'
  BY StepPages
<1> QED BY <1>1, <1>2, PagesMean, SlotsKept, PTL DEF Spec

-----------------------------------------------------------------------------
(***************************************************************************)
(* The run queue where threads exit, and no command takes slots out of it. *)
(* A slot may get lost: the tail that enqueue found has left the queue by  *)
(* the time the new slot is linked behind it.  Still the links never close *)
(* a cycle.  P are the slots on the queue.                                 *)
(***************************************************************************)
Loose(P, at, c) ==
    /\ Links(P, run_queue, next) /\ idle_pcb \in P
    /\ \A x \in P : Live(x)
    /\ \A x \in Slots \ P : Live(x) => next[x] = NULL
    /\ at \in {"find_tail", "link"} =>
          /\ c.slot \in Slots \ P /\ c.slot # current_pcb /\ Live(c.slot) /\ next[c.slot] = NULL
          /\ c.cur # c.slot /\ (c.cur \in P \/ (~Live(c.cur) /\ next[c.cur] = NULL))
    /\ at = "link" => next[c.cur] = NULL
    /\ at \notin Killing \cup {"find_pid", "mark_dead"}

LooseInv == \E P \in SUBSET Slots : Loose(P, pc[BootStack], sh)

\* The search of schedule(), one step after the other.
LEMMA ScanSteps ==
    ASSUME TypeOK, NEW P \in SUBSET Slots, Links(P, run_queue, next),
           next[current_pcb] \in P \cup {NULL}
    PROVE  /\ DOMAIN ScanWalk = 0 .. (NPcb + NTcb)
           /\ ScanWalk[0] = OrHead(next[current_pcb])
           /\ \A n \in 0 .. (NPcb + NTcb) : n # 0 =>
                 ScanWalk[n] = IF ScanWalk[n - 1] = NULL THEN NULL ELSE OrHead(next[ScanWalk[n - 1]])
<1> USE SlotCount
<1> DEFINE N == NPcb + NTcb
           Scan(walk) == walk = [n \in 0 .. N |->
                                    IF n = 0 THEN OrHead(next[current_pcb])
                                    ELSE IF walk[n - 1] = NULL THEN NULL
                                         ELSE OrHead(next[walk[n - 1]])]
           onward == [x \in Slots |-> OrHead(next[x])]
<1>1. /\ run_queue \in P \cup {NULL} /\ OrHead(next[current_pcb]) \in P \cup {NULL}
      /\ \A x \in P : OrHead(next[x]) \in P \cup {NULL}
  BY DEF Links, OrHead
<1>2. Scan(ScanWalk)
  <2>1. PICK w : IsWalk(w, OrHead(next[current_pcb]), onward, N)
    BY WalkExists
  <2>2. \A n \in 0 .. N : w[n] \in P \cup {NULL}
    <3>1. \A x \in P : onward[x] \in P \cup {NULL}
      BY <1>1
    <3> HIDE DEF onward
    <3> QED BY <1>1, <2>1, <3>1, WalkInside
  <2>3. \A n \in 0 .. N : n # 0 => n - 1 \in 0 .. N /\ w[n - 1] \in P \cup {NULL}
    BY <2>2
  <2>4. \A n \in 0 .. N : n # 0 /\ w[n - 1] # NULL => onward[w[n - 1]] = OrHead(next[w[n - 1]])
    BY <2>3
  <2> HIDE DEF onward
  <2>5. Scan(w)
    BY <2>1, <2>4 DEF IsWalk
  <2> QED BY <2>5 DEF ScanWalk
<1> HIDE DEF Scan
<1>3. PICK walk : walk = ScanWalk /\ Scan(walk)
  BY <1>2
<1>4. /\ DOMAIN walk = 0 .. N /\ walk[0] = OrHead(next[current_pcb])
      /\ \A n \in 0 .. N : n # 0 =>
            walk[n] = IF walk[n - 1] = NULL THEN NULL ELSE OrHead(next[walk[n - 1]])
  BY <1>3 DEF Scan
<1> QED BY <1>3, <1>4

\* A walk round the queue stays on it: what schedule() chooses is linked.
LEMMA ScheduledIsQueued ==
    ASSUME TypeOK, NEW P \in SUBSET Slots, Links(P, run_queue, next), idle_pcb \in P,
           next[current_pcb] \in P \cup {NULL}
    PROVE  ScheduledNext \in P
<1> USE SlotCount
<1> DEFINE N == NPcb + NTcb
<1>1. /\ run_queue \in P \cup {NULL} /\ OrHead(next[current_pcb]) \in P \cup {NULL}
      /\ \A x \in P : OrHead(next[x]) \in P \cup {NULL}
  BY DEF Links, OrHead
<1>3. PICK walk : walk = ScanWalk
  OBVIOUS
<1>4. /\ DOMAIN walk = 0 .. N /\ walk[0] = OrHead(next[current_pcb])
      /\ \A n \in 0 .. N : n # 0 =>
            walk[n] = IF walk[n - 1] = NULL THEN NULL ELSE OrHead(next[walk[n - 1]])
  BY <1>3, ScanSteps
<1>5. \A n \in 0 .. N : walk[n] \in P \cup {NULL}
  <2> DEFINE Bad == {n \in 0 .. N : walk[n] \notin P \cup {NULL}}
  <2> SUFFICES ASSUME Bad # {} PROVE FALSE
    OBVIOUS
  <2>1. PICK k \in Bad : \A j \in Bad : k <= j
    <3>1. Bad \in SUBSET Nat
      OBVIOUS
    <3> HIDE DEF Bad
    <3> QED BY <3>1, LeastNatural
  <2>2. k # 0
    BY <1>1, <1>4
  <2>3. k - 1 \in 0 .. N /\ k - 1 \notin Bad
    BY <2>1, <2>2
  <2>4. walk[k] = IF walk[k - 1] = NULL THEN NULL ELSE OrHead(next[walk[k - 1]])
    BY <1>4, <2>2
  <2> QED BY <1>1, <2>3, <2>4
<1>6. PICK found : found = {x \in Slots : \E n \in DOMAIN walk : walk[n] = x /\ StopsAt(walk, n)}
  OBVIOUS
<1>7. found \subseteq P
  BY <1>4, <1>5, <1>6
<1>8. ScheduledNext = IF found # {} THEN CHOOSE x \in found : TRUE ELSE idle_pcb
  BY <1>3, <1>6 DEF ScheduledNext
<1>9. found # {} => (CHOOSE x \in found : TRUE) \in found
  OBVIOUS
<1> QED BY <1>7, <1>8, <1>9

\* The CPU goes from a slot to one on the queue.
LEMMA CurrentIsQueued ==
    ASSUME KernelInv, NEW P \in SUBSET Slots, Loose(P, pc[BootStack], sh),
           Tick \/ Return \/ ThreadRuns \/ UNCHANGED kernelVars
    PROVE  current_pcb' = current_pcb \/ current_pcb' \in P
<1> USE ConstantFacts, SlotFacts
<1>1. ASSUME Live(current_pcb), schedule PROVE current_pcb' = current_pcb \/ current_pcb' \in P
  <2>1. next[current_pcb] \in P \cup {NULL}
    <3>1. current_pcb \in P => next[current_pcb] \in P \cup {NULL}
      BY DEF Loose, Links
    <3>2. current_pcb \notin P => next[current_pcb] = NULL
      BY <1>1 DEF Loose, KernelInv, TypeInv, TypeOK
    <3> QED BY <3>1, <3>2
  <2>2. ScheduledNext \in P
    BY <2>1, ScheduledIsQueued DEF Loose, KernelInv, TypeInv
  <2> QED BY <1>1, <2>2 DEF schedule
<1>2. CASE Tick
  <2>1. schedule /\ current_pcb = idle_pcb
    BY <1>2 DEF Tick, TimerIrq, KernelInv, InterruptShield, SlotInv, Contexts
  <2>2. Live(current_pcb)
    BY <2>1 DEF Loose
  <2> QED BY <1>1, <2>1, <2>2
<1>3. CASE Return \/ UNCHANGED kernelVars
  BY <1>3 DEF Return, IsrReturn
<1>4. CASE ThreadRuns
  <2>1. PICK s \in Pages : ThreadStep(s) /\ UNCHANGED sh
    BY <1>4 DEF ThreadRuns
  <2>2. s = cpu /\ (pc[cpu] # "exited" => Live(current_pcb))
    BY <2>1, Acting
  <2>3. CASE YieldInside(s) \/ YieldOutside(s) \/ mutex_lock_reschedule(s)
    <3>1. schedule /\ pc[cpu] # "exited"
      BY <2>2, <2>3 DEF YieldInside, YieldOutside, mutex_lock_reschedule, Goto
    <3> QED BY <1>1, <2>2, <3>1
  <2>4. CASE process_exit_switch(s)
    BY <2>4 DEF process_exit_switch, Loose
  <2> QED BY <2>1, <2>3, <2>4
     DEF ThreadStep, StartLock, StartSpin, test_and_set, mutex_lock_block, mutex_lock_push,
         mutex_unlock, mutex_unlock_wake, process_exit
<1> QED BY <1>2, <1>3, <1>4

\* What neither commands nor exiting threads do.
LEMMA OthersKeepLoose ==
    ASSUME KernelInv, NoCycles, LooseInv, Tick \/ Return \/ ThreadRuns \/ UNCHANGED kernelVars,
           \A s \in Pages : ~process_exit(s)
    PROVE  LooseInv' /\ NoCycles'
<1>1. PICK P \in SUBSET Slots : Loose(P, pc[BootStack], sh)
  BY DEF LooseInv
<1>2. /\ next' = next /\ run_queue' = run_queue /\ sh' = sh
      /\ pc'[BootStack] = pc[BootStack]
      /\ \A x \in Slots : Live(x)' <=> Live(x)
  BY OthersKeepQueue
<1>3. current_pcb' = current_pcb \/ current_pcb' \in P
  BY <1>1, CurrentIsQueued
<1>4. pc[BootStack] \in {"find_tail", "link"} => sh.cur \in Slots
  BY DEF KernelInv, TypeInv, ShellLocals
<1>5. PICK at, c : at = pc[BootStack] /\ c = sh
  OBVIOUS
<1>6. Loose(P, at, c)'
  BY <1>1, <1>2, <1>3, <1>4, <1>5 DEF Loose
<1> QED BY <1>2, <1>5, <1>6 DEF LooseInv, NoCycles

\* process_exit takes the slot of the thread that runs out of the queue, if
\* it is there; enqueue's cursor may be left behind on it.
LEMMA ExitKeepsLoose ==
    ASSUME KernelInv, NoCycles, LooseInv, NEW s \in Pages, UNCHANGED sh, process_exit(s)
    PROVE  LooseInv' /\ NoCycles'
<1> USE ConstantFacts, SlotFacts
<1>1. PICK P \in SUBSET Slots : Loose(P, pc[BootStack], sh)
  BY DEF LooseInv
<1>2. PICK t, at, c : t = current_pcb /\ at = pc[BootStack] /\ c = sh
  OBVIOUS
<1>3. /\ s = cpu /\ cpu # BootStack /\ t \in Tcbs /\ t \in Slots /\ t # idle_pcb /\ t # NULL
  BY <1>2, Acting DEF ThreadStep
<1>4. /\ dequeue(t) /\ state' = [state EXCEPT ![t] = "DEAD"] /\ current_pcb' = t /\ sh' = c
      /\ pc'[BootStack] = at
  BY <1>2, <1>3 DEF process_exit, Goto, KernelInv, TypeInv, TypeOK
<1>5. ~Live(t)' /\ \A x \in Slots \ {t} : Live(x)' <=> Live(x)
  BY <1>3, <1>4 DEF Live, KernelInv, TypeInv, TypeOK
<1>6. /\ Links(P, run_queue, next) /\ idle_pcb \in P /\ NULL \notin P /\ P \subseteq Slots
      /\ \A x \in P : Live(x)
      /\ \A x \in Slots \ P : Live(x) => next[x] = NULL
      /\ at \in {"find_tail", "link"} =>
            /\ c.slot \in Slots \ P /\ c.slot # t /\ Live(c.slot) /\ next[c.slot] = NULL
            /\ c.cur # c.slot /\ (c.cur \in P \/ (~Live(c.cur) /\ next[c.cur] = NULL))
            /\ c.cur \in Slots
      /\ at = "link" => next[c.cur] = NULL
      /\ at \notin Killing \cup {"find_pid", "mark_dead"}
  BY <1>1, <1>2 DEF Loose, KernelInv, TypeInv, ShellLocals
<1>7. PICK Prevs : Prevs = {x \in P : next[x] = t}
  OBVIOUS
<1>8. Queued = P
  BY <1>6, QueuedIs
<1>9. next \in [Slots -> Pointers]
  BY DEF KernelInv, TypeInv, TypeOK
\* What is common to the cases below: the links that are left.
<1>10. ASSUME Links(P \ {t}, run_queue', next'),
              next'[t] \in {NULL, next[t]}, t \in P => next'[t] = NULL,
              \A x \in Slots \ {t} : next'[x] = next[x] \/ (x \in P /\ next[x] = t)
       PROVE  LooseInv'
  <2>1. \A x \in P \ {t} : Live(x)'
    BY <1>5, <1>6
  <2>2. \A x \in Slots \ (P \ {t}) : Live(x)' => next'[x] = NULL
    BY <1>5, <1>6, <1>10
  <2>3. at \in {"find_tail", "link"} =>
            /\ c.slot \in Slots \ (P \ {t}) /\ c.slot # t /\ Live(c.slot)' /\ next'[c.slot] = NULL
            /\ c.cur # c.slot /\ (c.cur \in P \ {t} \/ (~Live(c.cur)' /\ next'[c.cur] = NULL))
    BY <1>3, <1>5, <1>6, <1>10
  <2>4. at = "link" => next'[c.cur] = NULL
    BY <1>3, <1>6, <1>10
  <2>5. idle_pcb \in P \ {t} /\ P \ {t} \in SUBSET Slots
    BY <1>3, <1>6
  <2>6. Loose(P \ {t}, at, c)'
    BY <1>4, <1>6, <1>10, <2>1, <2>2, <2>3, <2>4, <2>5 DEF Loose
  <2>7. \E Q \in SUBSET Slots : Loose(Q, at, c)'
    BY <2>5, <2>6
  <2> QED BY <1>4, <2>7 DEF LooseInv
<1>11. CASE run_queue = t
  <2>1. run_queue' = next[t] /\ next' = [next EXCEPT ![t] = NULL] /\ t \in P
    BY <1>3, <1>4, <1>6, <1>11 DEF dequeue, Links
  <2>2. next'[t] = NULL /\ \A x \in Slots \ {t} : next'[x] = next[x]
    BY <1>3, <1>9, <2>1
  <2>3. Links(P \ {t}, next[t], next')
    <3>1. \A y \in P \ {t} : next'[y] = next[y]
      BY <1>6, <2>2
    <3> QED BY <1>3, <1>6, <1>11, <3>1, LinkPop
  <2>4. LooseInv'
    BY <1>10, <2>1, <2>2, <2>3
  <2>5. Acyclic(Slots, next')
    BY <1>3, <2>2, AcyclicCut DEF NoCycles
  <2> QED BY <2>4, <2>5 DEF NoCycles
<1>12. CASE run_queue # t /\ Prevs = {}
  <2>1. run_queue' = run_queue /\ \A x \in Slots : next'[x] = next[x]
    BY <1>4, <1>7, <1>8, <1>12 DEF dequeue
  <2>2. t \notin P
    <3> SUFFICES ASSUME t \in P PROVE FALSE
      OBVIOUS
    <3>1. {t} \in SUBSET P /\ {t} # {} /\ run_queue \notin {t}
      BY <1>12
    <3>2. PICK y \in P \ {t} : next[y] \in {t}
      BY <1>6, <3>1 DEF Links
    <3> QED BY <1>7, <1>12, <3>2
  <2>3. P \ {t} = P
    BY <2>2
  <2>4. Links(P \ {t}, run_queue', next')
    BY <1>6, <2>1, <2>3 DEF Links
  <2>5. LooseInv'
    BY <1>3, <1>10, <2>1, <2>2, <2>4
  <2>6. Acyclic(Slots, next')
    BY <2>1 DEF NoCycles, Acyclic
  <2> QED BY <2>5, <2>6 DEF NoCycles
<1>13. CASE run_queue # t /\ Prevs # {}
  <2>1. /\ run_queue' = run_queue
        /\ next' = [x \in Slots |-> IF x \in Prevs THEN next[t] ELSE IF x = t THEN NULL ELSE next[x]]
    BY <1>4, <1>7, <1>8, <1>13 DEF dequeue
  <2>2. PICK prev : prev \in Prevs
    BY <1>13
  <2>3. prev \in P /\ next[prev] = t /\ t \in P /\ Prevs = {prev}
    BY <1>3, <1>6, <1>7, <2>2 DEF Links
  <2>4. prev # t
    <3> SUFFICES ASSUME prev = t PROVE FALSE
      OBVIOUS
    <3>1. {t} \in SUBSET Slots /\ next[t] = t
      BY <1>3, <2>3
    <3> QED BY <3>1 DEF NoCycles, Acyclic
  <2>5. /\ next'[prev] = next[t] /\ next'[t] = NULL
        /\ \A x \in Slots \ {prev, t} : next'[x] = next[x]
    BY <1>3, <1>6, <2>1, <2>3, <2>4
  <2>6. Links(P \ {t}, run_queue, next')
    <3>1. \A y \in P \ {prev, t} : next'[y] = next[y]
      BY <1>6, <2>5
    <3> QED BY <1>6, <1>13, <2>3, <2>4, <2>5, <3>1, LinkRemove
  <2>7. LooseInv'
    BY <1>10, <2>1, <2>3, <2>5, <2>6
  <2>8. Acyclic(Slots, next')
    <3>1. /\ \A y \in Prevs : next[y] = t
          /\ \A y \in Slots \ {t} : next'[y] = IF y \in Prevs THEN next[t] ELSE next[y]
      BY <1>7, <2>1
    <3> QED BY <1>3, <2>5, <3>1, AcyclicRemove DEF NoCycles
  <2> QED BY <2>7, <2>8 DEF NoCycles
<1> QED BY <1>11, <1>12, <1>13

\* The commands look at the queue, create slots, and append them.
LEMMA ShellKeepsLoose ==
    ASSUME KernelInv, CarefulKills, NoKills, NoCycles, LooseInv, StartCommand \/ CommandStep
    PROVE  LooseInv' /\ NoCycles'
<1> USE ConstantFacts, SlotFacts
<1>1. PICK P \in SUBSET Slots : Loose(P, pc[BootStack], sh)
  BY DEF LooseInv
<1>2. PICK at, c : at = pc[BootStack] /\ c = sh
  OBVIOUS
<1>3. /\ Links(P, run_queue, next) /\ idle_pcb \in P /\ NULL \notin P
      /\ \A x \in P : Live(x)
      /\ \A x \in Slots \ P : Live(x) => next[x] = NULL
      /\ at \notin Killing \cup {"find_pid", "mark_dead"}
  BY <1>1, <1>2 DEF Loose
<1>4. /\ pc \in [Pages -> ShellPlaces \cup ThreadPlaces] /\ next \in [Slots -> Pointers]
      /\ state \in [Slots -> States] /\ c \in Locals /\ run_queue # NULL
  <2>1. run_queue # NULL
    BY <1>3, NoHead
  <2> QED BY <1>2, <2>1 DEF KernelInv, TypeInv, TypeOK
\* Steps that leave the queue alone, and hold nothing of it.
<1>a. ASSUME next' = next, run_queue' = run_queue, \A x \in Slots : Live(x)' <=> Live(x),
             pc'[BootStack] \notin {"find_tail", "link", "find_pid", "mark_dead"} \cup Killing
      PROVE  LooseInv' /\ NoCycles'
  <2>1. PICK to, d : to = pc'[BootStack] /\ d = sh'
    OBVIOUS
  <2>2. Loose(P, to, d)'
    BY <1>3, <1>a, <2>1 DEF Loose
  <2> QED BY <1>a, <2>1, <2>2 DEF LooseInv, NoCycles
<1>5. ASSUME NEW target \in KillTargets, StartKillProcess(target) PROVE FALSE
  BY <1>5 DEF StartKillProcess, NoKills
<1>6. CASE ~(FillSlot \/ enqueue_walk \/ enqueue_link \/ set_blocked)
  <2>1. UNCHANGED <<next, run_queue, state>>
    BY <1>2, <1>3, <1>5, <1>6
    DEF StartCommand, CommandStep, StartList, StartCreate, StartKillThread, alloc_slot, pmm_alloc_scan,
        pmm_alloc_store, NullStack, find_pid, find_tid, mark_dead, dequeue_start, dequeue_find_prev, dequeue_load_next, dequeue_unlink, FreeStack,
        list_row, list_next, ShellGoto, Goto, Killing
  <2>2. pc'[BootStack] \notin {"find_tail", "link", "find_pid", "mark_dead"} \cup Killing
    BY <1>2, <1>3, <1>4, <1>5, <1>6, NoThreadFound
    DEF StartCommand, CommandStep, StartList, StartCreate, StartKillThread, alloc_slot, pmm_alloc_scan,
        pmm_alloc_store, NullStack, find_pid, mark_dead, dequeue_start, dequeue_find_prev, dequeue_load_next, dequeue_unlink, FreeStack,
        list_row, list_next, ShellGoto, Goto, Killing
  <2> QED BY <1>a, <2>1, <2>2 DEF Live
<1>7. CASE set_blocked
  <2>1. /\ at = "set_blocked" /\ pc'[BootStack] = "prompt" /\ UNCHANGED <<next, run_queue>>
        /\ state' = [state EXCEPT ![c.slot] = "BLOCKED"]
    BY <1>2, <1>4, <1>7 DEF set_blocked, ShellGoto, Goto
  <2>2. Live(c.slot)
    BY <1>2, <2>1 DEF KernelInv, SlotInv, Commands, CommandAt, Filling
  <2>3. \A x \in Slots : Live(x)' <=> Live(x)
    BY <1>4, <2>1, <2>2 DEF Live
  <2> QED BY <1>a, <2>1, <2>3 DEF Killing
<1>8. CASE FillSlot
  <2>0. PICK slot : slot = sh.slot
    OBVIOUS
  <2>1. /\ at = "fill" /\ slot \in Slots /\ ~Live(slot) /\ current_pcb = idle_pcb
        /\ sh.page \in Pages \ {BootStack}
    BY <1>2, <1>8, <2>0
       DEF FillSlot, Executes, KernelInv, SlotInv, Commands, CommandAt, Creating, Contexts, TypeInv, TypeOK,
           Locals
  <2>2. /\ state' = [state EXCEPT ![slot] = "READY"] /\ next' = [next EXCEPT ![slot] = NULL]
        /\ run_queue' = run_queue /\ pc'[BootStack] = "find_tail" /\ current_pcb' = idle_pcb
        /\ sh'.slot = slot /\ sh'.cur = run_queue
    BY <1>2, <1>4, <1>8, <2>0, <2>1 DEF FillSlot, Locals
  <2>3. /\ slot \notin P /\ Live(slot)' /\ next'[slot] = NULL
        /\ \A x \in Slots \ {slot} : next'[x] = next[x] /\ (Live(x)' <=> Live(x))
    BY <1>3, <1>4, <2>1, <2>2 DEF Live
  <2>4. Links(P, run_queue, next')
    <3>1. \A x \in P : next'[x] = next[x]
      BY <2>3
    <3> QED BY <1>3, <3>1 DEF Links
  <2>5. run_queue \in P /\ slot # idle_pcb
    BY <1>3, <1>4, <2>3 DEF Links
  <2>6. PICK d : d = sh'
    OBVIOUS
  <2>7. Loose(P, "find_tail", d)'
    BY <1>3, <2>1, <2>2, <2>3, <2>4, <2>5, <2>6 DEF Loose, Killing
  <2>8. Acyclic(Slots, next')
    BY <2>3, AcyclicCut DEF NoCycles
  <2> QED BY <2>2, <2>6, <2>7, <2>8 DEF LooseInv, NoCycles
<1>9. CASE enqueue_walk \/ enqueue_link
  <2>0. PICK slot, cur : slot = sh.slot /\ cur = sh.cur
    OBVIOUS
  <2>1. at \in {"find_tail", "link"} /\ UNCHANGED <<run_queue, state, current_pcb>>
    BY <1>2, <1>9 DEF enqueue_walk, enqueue_link, ShellGoto, Goto
  <2>2. /\ slot \in Slots \ P /\ slot # current_pcb /\ Live(slot) /\ next[slot] = NULL /\ slot # NULL
        /\ cur # slot /\ (cur \in P \/ (~Live(cur) /\ next[cur] = NULL))
        /\ at = "link" => next[cur] = NULL
        /\ cur \in Slots
    BY <1>1, <1>2, <2>0, <2>1 DEF Loose, KernelInv, TypeInv, ShellLocals
  <2>3. \A x : Live(x)' <=> Live(x)
    BY <2>1 DEF Live
  <2>4. CASE enqueue_walk
    <3>1. /\ UNCHANGED next /\ sh'.slot = slot
          /\ pc'[BootStack] = IF next[cur] = NULL THEN "link" ELSE "find_tail"
          /\ sh'.cur = IF next[cur] = NULL THEN cur ELSE next[cur]
      BY <1>2, <1>4, <2>0, <2>4 DEF enqueue_walk, ShellGoto, Goto, Locals
    <3>2. next[cur] # NULL => next[cur] \in P
      BY <1>3, <2>2 DEF Links
    <3>3. PICK to, d : to = pc'[BootStack] /\ d = sh'
      OBVIOUS
    <3>4. Loose(P, to, d)'
      BY <1>3, <2>1, <2>2, <2>3, <3>1, <3>2, <3>3 DEF Loose, Killing
    <3> QED BY <3>1, <3>3, <3>4 DEF LooseInv, NoCycles
  <2>5. CASE enqueue_link
    <3>1. /\ at = "link" /\ next' = [next EXCEPT ![cur] = slot]
          /\ pc'[BootStack] \in {"set_blocked", "prompt"}
      BY <1>2, <1>4, <2>0, <2>5 DEF enqueue_link, ShellGoto, Goto
    <3>2. next[cur] = NULL /\ next'[cur] = slot /\ \A x \in Slots \ {cur} : next'[x] = next[x]
      BY <1>4, <2>2, <3>1
    <3>3. PICK Q : Q = IF cur \in P THEN P \cup {slot} ELSE P
      OBVIOUS
    <3>4. Links(Q, run_queue, next')
      <4>1. CASE cur \in P
        <5>1. \A y \in P \ {cur} : next'[y] = next[y]
          BY <3>2
        <5> QED BY <1>3, <2>2, <3>2, <3>3, <4>1, <5>1, LinkAppend
      <4>2. CASE cur \notin P
        <5>1. \A x \in P : next'[x] = next[x]
          BY <3>2, <4>2
        <5> QED BY <1>3, <3>3, <4>2, <5>1 DEF Links
      <4> QED BY <4>1, <4>2
    <3>5. PICK to, d : to = pc'[BootStack] /\ d = sh'
      OBVIOUS
    <3>6. /\ Q \in SUBSET Slots /\ idle_pcb \in Q /\ \A x \in Q : Live(x)
          /\ \A x \in Slots \ Q : Live(x) => next'[x] = NULL
      BY <1>3, <2>2, <3>2, <3>3
    <3>7. Loose(Q, to, d)'
      BY <2>1, <2>3, <3>1, <3>4, <3>5, <3>6 DEF Loose, Killing
    <3>8. Acyclic(Slots, next')
      BY <2>2, <3>2, AcyclicLink DEF NoCycles
    <3> QED BY <3>5, <3>6, <3>7, <3>8 DEF LooseInv, NoCycles
  <2> QED BY <1>9, <2>4, <2>5
<1> QED BY <1>6, <1>7, <1>8, <1>9

\* Every step keeps the queue loosely linked, if there are no kills.
LEMMA StepLoose ==
    ASSUME KernelInv, CarefulKills, NoKills, NoCycles, LooseInv, [Next]_kernelVars
    PROVE  LooseInv' /\ NoCycles'
<1>1. CASE StartCommand \/ CommandStep
  BY <1>1, ShellKeepsLoose
<1>2. CASE \E s \in Pages : process_exit(s) /\ UNCHANGED sh
  BY <1>2, ExitKeepsLoose
<1>3. CASE /\ Tick \/ Return \/ ThreadRuns \/ UNCHANGED kernelVars
           /\ ~ \E s \in Pages : process_exit(s) /\ UNCHANGED sh
  <2>1. UNCHANGED sh
    BY <1>3 DEF Tick, Return, ThreadRuns
  <2> QED BY <1>3, <2>1, OthersKeepLoose
<1> QED BY <1>1, <1>2, <1>3 DEF Next

(***************************************************************************)
(* Every walk of the run queue comes to an end, wherever the shell is on   *)
(* it: if no thread exits, or if no command deletes a process.  (With both *)
(* a thread may exit while killprocess has the "next" of the slot that it  *)
(* unlinks in a register.)                                                 *)
(***************************************************************************)
THEOREM WalksComeToAnEnd ==
    ASSUME CarefulKills, NoExits \/ NoKills
    PROVE  Spec => []WalksEnd
<1> DEFINE Slotted == KernelInv /\ (NoExits => QueueInv /\ NoCycles)
           Linked  == NoKills => LooseInv /\ NoCycles
<1>1. Init => Linked
  <2> SUFFICES ASSUME Init PROVE LooseInv /\ NoCycles
    OBVIOUS
  <2>1. /\ idle_pcb \in Slots /\ NULL \notin Slots /\ BootStack \in Pages
        /\ \A x \in Slots : next[x] = NULL /\ (Live(x) <=> x = idle_pcb)
        /\ run_queue = idle_pcb /\ pc[BootStack] = "prompt"
    BY ConstantFacts DEF Init, Live
  <2>2. Links({idle_pcb}, run_queue, next)
    BY <2>1 DEF Links
  <2>3. Loose({idle_pcb}, pc[BootStack], sh)
    BY <2>1, <2>2 DEF Loose, Killing
  <2> QED BY <2>1, <2>3, InitQueue DEF LooseInv
<1>2. Slotted /\ Linked /\ [Next]_kernelVars => Linked'
  <2> SUFFICES ASSUME Slotted, Linked, [Next]_kernelVars, NoKills PROVE LooseInv' /\ NoCycles'
    BY DEF NoKills
  <2> QED BY StepLoose
<1>3. Slotted /\ Linked => WalksEnd
  <2> SUFFICES ASSUME Slotted, Linked PROVE WalksEnd
    OBVIOUS
  <2>1. NoCycles
    OBVIOUS
  <2> QED BY <2>1, AcyclicEnds DEF NoCycles, KernelInv, TypeInv
<1>4. Spec => []Slotted
  BY SlotsKept
<1> HIDE DEF Slotted, Linked
<1> QED BY <1>1, <1>2, <1>3, <1>4, PTL DEF Spec
=============================================================================
