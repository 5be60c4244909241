------------------------- MODULE KernelRefines_proof -------------------------
(***************************************************************************)
(* Kernel implements RoundRobin, for any number of slots: the run queue as *)
(* a sequence, the order in which schedule() goes round it, and the step   *)
(* of the abstract scheduler for each step of the code.                    *)
(***************************************************************************)
EXTENDS KernelRefines, KernelLists_proof, SequenceTheorems

USE DEF kernelVars, schedVars, threadVars, pcbVars, queueVars, pmmVars, trapVars,
        mutexVars, frameVars, hostVars, heapVars
-----------------------------------------------------------------------------
(***************************************************************************)
(* Lists and sequences.                                                    *)
(***************************************************************************)

\* The links lead from head over the nodes of q, in their order.
IsList(q, head, succ) ==
    /\ \A i \in 1 .. Len(q) : q[i] # NULL
    /\ head = IF Len(q) = 0 THEN NULL ELSE q[1]
    /\ \A i \in 1 .. Len(q) : succ[q[i]] = IF i = Len(q) THEN NULL ELSE q[i + 1]

\* A walk of the list meets the nodes of the sequence, then nothing.
LEMMA WalkOfList ==
    ASSUME NEW N \in Nat, NEW head, NEW succ, NEW walk, IsWalk(walk, head, succ, N),
           NEW D, NEW q \in Seq(D), IsList(q, head, succ)
    PROVE  \A n \in 0 .. N : walk[n] = IF n < Len(q) THEN q[n + 1] ELSE NULL
<1> DEFINE L == Len(q)
           Bad == {n \in 0 .. N : walk[n] # IF n < L THEN q[n + 1] ELSE NULL}
<1>0. L \in Nat
  OBVIOUS
<1> HIDE DEF L
<1> SUFFICES ASSUME Bad # {} PROVE FALSE
  BY DEF L
<1>1. PICK k \in Bad : \A j \in Bad : k <= j
  <2>1. Bad \in SUBSET Nat
    OBVIOUS
  <2> HIDE DEF Bad
  <2> QED BY <2>1, LeastNatural
<1>2. k # 0
  <2>1. walk[0] = IF L = 0 THEN NULL ELSE q[1]
    BY WalkSteps DEF IsList, L
  <2> QED BY <1>0, <1>1, <2>1
<1>3. k - 1 \in 0 .. N /\ k - 1 # N /\ (k - 1) + 1 = k /\ k - 1 \notin Bad
  BY <1>1, <1>2
<1>4. walk[k] = IF walk[k - 1] = NULL THEN NULL ELSE succ[walk[k - 1]]
  BY <1>3, WalkSteps
<1>5. walk[k - 1] = IF k - 1 < L THEN q[k] ELSE NULL
  BY <1>3
<1>6. CASE k - 1 < L
  <2>1. k \in 1 .. L
    BY <1>0, <1>1, <1>2, <1>6
  <2>2. q[k] # NULL /\ succ[q[k]] = IF k = L THEN NULL ELSE q[k + 1]
    BY <2>1 DEF IsList, L
  <2>3. walk[k] = IF k = L THEN NULL ELSE q[k + 1]
    BY <1>4, <1>5, <1>6, <2>2
  <2> QED BY <1>0, <1>1, <2>1, <2>3
<1>7. CASE ~(k - 1 < L)
  <2>1. walk[k] = NULL /\ ~(k < L)
    BY <1>0, <1>1, <1>4, <1>5, <1>7
  <2> QED BY <1>1, <2>1
<1> QED BY <1>6, <1>7

\* A list is only one sequence.
LEMMA ListUnique ==
    ASSUME NEW head, NEW succ, NEW D, NEW q \in Seq(D), NEW r \in Seq(D),
           IsList(q, head, succ), IsList(r, head, succ)
    PROVE  q = r
<1> DEFINE N == Len(q) + Len(r)
<1>1. N \in Nat /\ Len(q) \in 0 .. N /\ Len(r) \in 0 .. N /\ Len(q) \in Nat /\ Len(r) \in Nat
  OBVIOUS
<1> HIDE DEF N
<1>2. PICK walk : IsWalk(walk, head, succ, N)
  BY <1>1, WalkExists
<1> DEFINE Met(t, n) == IF n < Len(t) THEN t[n + 1] ELSE NULL
<1>0. ASSUME NEW t \in Seq(D), IsList(t, head, succ)
      PROVE  \A n \in 0 .. N : walk[n] = Met(t, n)
  BY <1>0, <1>1, <1>2, WalkOfList
<1>3. \A n \in 0 .. N : walk[n] = IF n < Len(q) THEN q[n + 1] ELSE NULL
  <2> HIDE DEF Met
  <2>1. \A n \in 0 .. N : walk[n] = Met(q, n)
    BY <1>0
  <2> QED BY <2>1 DEF Met
<1>4. \A n \in 0 .. N : walk[n] = IF n < Len(r) THEN r[n + 1] ELSE NULL
  <2> HIDE DEF Met
  <2>1. \A n \in 0 .. N : walk[n] = Met(r, n)
    BY <1>0
  <2> QED BY <2>1 DEF Met
<1>5. Len(q) >= Len(r)
  <2> SUFFICES ASSUME Len(q) < Len(r) PROVE FALSE
    BY <1>1
  <2>1. walk[Len(q)] = NULL /\ walk[Len(q)] = r[Len(q) + 1] /\ Len(q) + 1 \in 1 .. Len(r)
    BY <1>1, <1>3, <1>4
  <2> QED BY <2>1 DEF IsList
<1>6. Len(r) >= Len(q)
  <2> SUFFICES ASSUME Len(r) < Len(q) PROVE FALSE
    BY <1>1
  <2>1. walk[Len(r)] = NULL /\ walk[Len(r)] = q[Len(r) + 1] /\ Len(r) + 1 \in 1 .. Len(q)
    BY <1>1, <1>3, <1>4
  <2> QED BY <2>1 DEF IsList
<1>7. Len(q) = Len(r)
  BY <1>1, <1>5, <1>6
<1>8. ASSUME NEW i \in 1 .. Len(q) PROVE q[i] = r[i]
  <2>1. i - 1 \in 0 .. N /\ i - 1 < Len(q) /\ (i - 1) + 1 = i
    BY <1>1
  <2> QED BY <1>3, <1>4, <1>7, <2>1
<1> QED BY <1>7, <1>8

\* No node is on a list twice.
LEMMA ListOnce ==
    ASSUME NEW head, NEW succ, NEW D, NEW q \in Seq(D), IsList(q, head, succ)
    PROVE  \A i, j \in 1 .. Len(q) : q[i] = q[j] => i = j
<1> DEFINE L == Len(q)
           Bad == {k \in 0 .. L : k # L /\ \E i \in 1 .. L : i < L - k /\ q[i] = q[L - k]}
<1>0. L \in Nat
  OBVIOUS
<1> HIDE DEF L
<1>1. Bad = {}
  <2> SUFFICES ASSUME Bad # {} PROVE FALSE
    OBVIOUS
  <2>1. PICK k \in Bad : \A j \in Bad : k <= j
    <3>1. Bad \in SUBSET Nat
      BY <1>0
    <3> HIDE DEF Bad
    <3> QED BY <3>1, LeastNatural
  <2>2. PICK i \in 1 .. L : i < L - k /\ q[i] = q[L - k]
    BY <2>1
  <2> DEFINE j == L - k
  <2>3. j \in 1 .. L /\ i < j /\ q[i] = q[j] /\ i # L /\ i + 1 \in 1 .. L
    BY <1>0, <2>1, <2>2
  <2>4. succ[q[i]] = q[i + 1] /\ q[i + 1] # NULL /\ succ[q[j]] = IF j = L THEN NULL ELSE q[j + 1]
    BY <2>3 DEF IsList, L
  <2>5. j # L /\ q[i + 1] = q[j + 1]
    BY <2>3, <2>4
  <2>6. k - 1 \in 0 .. L /\ k - 1 # L /\ L - (k - 1) = j + 1 /\ i + 1 < j + 1
    BY <1>0, <2>1, <2>2, <2>5
  <2>7. k - 1 \in Bad
    BY <2>3, <2>5, <2>6
  <2>8. k \in Nat
    BY <1>0, <2>1
  <2>9. k <= k - 1
    <3> HIDE DEF Bad
    <3> QED BY <2>1, <2>7
  <2> QED BY <2>8, <2>9
<1>2. ASSUME NEW i \in 1 .. L, NEW j \in 1 .. L, i < j, q[i] = q[j] PROVE FALSE
  <2>1. L - j \in 0 .. L /\ L - j # L /\ L - (L - j) = j
    BY <1>0
  <2>2. L - j \in Bad
    BY <1>2, <2>1
  <2> QED BY <1>1, <2>2
<1>3. \A i, j \in 1 .. L : q[i] = q[j] => i = j
  BY <1>0, <1>2
<1> QED BY <1>3 DEF L

\* What is linked is a list, with each of its nodes once.
LEMMA LinksList ==
    ASSUME NEW P, IsFiniteSet(P), NULL \notin P, NEW head, NEW succ, Links(P, head, succ)
    PROVE  \E q \in Seq(P) :
               /\ IsList(q, head, succ)
               /\ Len(q) = Cardinality(P)
               /\ \A x \in P : \E i \in 1 .. Len(q) : q[i] = x
<1> DEFINE N == Cardinality(P)
<1>1. N \in Nat
  BY FS_CardinalityType
<1>2. PICK walk : IsWalk(walk, head, succ, N)
  <2> HIDE DEF N
  <2> QED BY <1>1, WalkExists
<1>3. walk[N] = NULL /\ {walk[n] : n \in DOMAIN walk} \ {NULL} = P
  <2>1. N <= N /\ P \in SUBSET P
    BY <1>1
  <2> QED BY <1>1, <1>2, <2>1, LinksWalk
<1> HIDE DEF N
<1>4. PICK K \in 0 .. N : walk[K] = NULL /\ \A n \in 0 .. (K - 1) : walk[n] # NULL
  <2> DEFINE Ends == {n \in 0 .. N : walk[n] = NULL}
  <2>1. Ends \in SUBSET Nat /\ N \in Ends
    BY <1>1, <1>3
  <2>2. PICK k \in Ends : \A j \in Ends : k <= j
    <3> HIDE DEF Ends
    <3> QED BY <2>1, LeastNatural
  <2>3. \A n \in 0 .. (k - 1) : n \in 0 .. N /\ ~(k <= n)
    BY <1>1, <2>2
  <2> QED BY <2>2, <2>3
<1>5. DOMAIN walk = 0 .. N /\ walk[0] = head
      /\ \A n \in 0 .. N : n # N => walk[n + 1] = IF walk[n] = NULL THEN NULL ELSE succ[walk[n]]
  BY <1>1, <1>2, WalkSteps
<1> DEFINE q == [i \in 1 .. K |-> walk[i - 1]]
<1>6. \A n \in 0 .. (K - 1) : n \in 0 .. N /\ walk[n] \in P
  BY <1>1, <1>3, <1>4, <1>5
<1>7. \A i \in 1 .. K : i - 1 \in 0 .. (K - 1)
  BY <1>1, <1>4
<1>8. q \in Seq(P) /\ Len(q) = K
  BY <1>1, <1>4, <1>6, <1>7
<1>9. IsList(q, head, succ)
  <2>1. \A i \in 1 .. K : q[i] # NULL
    BY <1>4, <1>7
  <2>2. head = IF K = 0 THEN NULL ELSE q[1]
    BY <1>1, <1>4, <1>5
  <2>3. ASSUME NEW i \in 1 .. K PROVE succ[q[i]] = IF i = K THEN NULL ELSE q[i + 1]
    <3>1. i - 1 \in 0 .. N /\ i - 1 # N /\ (i - 1) + 1 = i /\ walk[i - 1] # NULL
      BY <1>1, <1>4, <1>7
    <3>2. walk[i] = succ[q[i]]
      BY <1>5, <3>1
    <3>3. i # K => i + 1 \in 1 .. K /\ (i + 1) - 1 = i
      BY <1>1, <1>4
    <3> QED BY <1>4, <3>2, <3>3
  <2> HIDE DEF q
  <2> QED BY <1>8, <2>1, <2>2, <2>3 DEF IsList
<1> HIDE DEF q
<1>10. \A x \in P : \E i \in 1 .. Len(q) : q[i] = x
  <2> TAKE x \in P
  <2>1. PICK n \in 0 .. N : walk[n] = x
    BY <1>3, <1>5
  <2>2. walk[n] = IF n < Len(q) THEN q[n + 1] ELSE NULL
    BY <1>1, <1>2, <1>8, <1>9, WalkOfList
  <2>3. n < Len(q) /\ q[n + 1] = x
    BY <2>1, <2>2
  <2>4. n + 1 \in 1 .. Len(q)
    BY <1>8, <2>3
  <2> QED BY <2>3, <2>4
<1>11. K = N
  <2>1. \A i, j \in 1 .. Len(q) : q[i] = q[j] => i = j
    BY <1>8, <1>9, ListOnce
  <2>2. q \in [1 .. K -> P]
    BY <1>8
  <2>3. q \in Bijection(1 .. K, P)
    BY <1>8, <1>10, <2>1, <2>2 DEF Bijection, Injection, Surjection, IsInjective
  <2>4. ExistsBijection(1 .. K, P)
    BY <2>3 DEF ExistsBijection
  <2>5. IsFiniteSet(1 .. K) /\ Cardinality(1 .. K) = K
    BY <1>1, <1>4, FS_Interval
  <2> QED BY <2>4, <2>5, FS_Bijection DEF N
<1> QED BY <1>8, <1>9, <1>10, <1>11 DEF N

-----------------------------------------------------------------------------
(***************************************************************************)
(* The run queue as a sequence.                                            *)
(***************************************************************************)
ListInv ==
    /\ QueueSeq \in Seq(Slots) /\ Len(QueueSeq) <= NPcb + NTcb
    /\ IsList(QueueSeq, run_queue, next)
    /\ Queued = {QueueSeq[i] : i \in 1 .. Len(QueueSeq)}
    /\ Queued = Members(pc[BootStack], sh)

\* What the queue links, as a walk of it meets it.
LEMMA QueueIsList == TypeInv /\ QueueInv => ListInv
<1> SUFFICES ASSUME TypeInv, QueueInv PROVE ListInv
  OBVIOUS
<1> DEFINE P == Members(pc[BootStack], sh)
           N == NPcb + NTcb
<1>1. P \in SUBSET Slots /\ Links(P, run_queue, next)
  <2>1. pc[BootStack] \in {"dequeue", "find_prev", "load_next", "unlink"} => sh.slot \in Slots
    BY DEF TypeInv, ShellLocals, TypeOK
  <2> QED BY <2>1 DEF QueueInv, QueueAt, Members, Lives
<1> HIDE DEF P
<1>2. N \in Nat /\ IsFiniteSet(P) /\ NULL \notin P /\ Cardinality(P) <= N /\ Cardinality(P) \in Nat
  <2>1. IsFiniteSet(P) /\ Cardinality(P) <= Cardinality(Slots)
    BY <1>1, SlotCount, FS_Subset
  <2> QED BY <1>1, <2>1, SlotCount, FS_CardinalityType
<1>3. PICK q \in Seq(P) :
          /\ IsList(q, run_queue, next)
          /\ Len(q) = Cardinality(P)
          /\ \A x \in P : \E i \in 1 .. Len(q) : q[i] = x
  BY <1>1, <1>2, LinksList
<1>4. Queued = P
  BY <1>1, QueuedIs
<1>5. \A n \in 0 .. N : QueueWalk[n] = IF n < Len(q) THEN q[n + 1] ELSE NULL
  BY <1>2, <1>3, QueueWalkIs, WalkOfList
<1>6. QueueSeq = q
  <2>1. \A n \in 1 .. Len(q) : QueueWalk[n - 1] = q[n]
    <3> TAKE n \in 1 .. Len(q)
    <3>1. n - 1 \in 0 .. N /\ n - 1 < Len(q) /\ (n - 1) + 1 = n
      BY <1>2, <1>3
    <3> QED BY <1>5, <3>1
  <2>2. QueueSeq = [n \in 1 .. Len(q) |-> QueueWalk[n - 1]]
    BY <1>3, <1>4 DEF QueueSeq
  <2>3. q = [n \in 1 .. Len(q) |-> q[n]]
    BY <1>3
  <2> QED BY <2>1, <2>2, <2>3
<1>7. q \in Seq(Slots)
  BY <1>1, <1>3
<1>8. P = {q[i] : i \in 1 .. Len(q)}
  BY <1>3
<1> QED BY <1>2, <1>3, <1>4, <1>6, <1>7, <1>8 DEF ListInv, P

\* InQueue of the abstract scheduler.
LEMMA InQueueIs == ASSUME ListInv, NEW x PROVE RR!InQueue(x) <=> x \in Queued
<1>1. DOMAIN QueueSeq = 1 .. Len(QueueSeq)
  BY DEF ListInv
<1> QED BY <1>1 DEF ListInv, RR!InQueue

\* t goes round the queue once, from the slot behind the current one on.
GoesRound(t) ==
    /\ t \in Seq(Slots) /\ Len(t) = Len(QueueSeq)
    /\ {t[i] : i \in 1 .. Len(t)} = Queued
    /\ \A i, j \in 1 .. Len(t) : t[i] = t[j] => i = j
    /\ Len(t) # 0 => t[1] = OrHead(next[current_pcb])
    /\ \A i \in 1 .. Len(t) : OrHead(next[t[i]]) = t[IF i = Len(t) THEN 1 ELSE i + 1]

\* The turns of the abstract scheduler do.
LEMMA TurnsAre ==
    ASSUME ListInv, current_pcb \notin Queued => next[current_pcb] = NULL
    PROVE  GoesRound(RR!Turns)
<1> DEFINE q == QueueSeq
           L == Len(q)
<1>1. L \in Nat /\ q \in Seq(Slots) /\ \A i \in 1 .. L : q[i] \in Slots
  BY DEF ListInv
<1>2. /\ \A i \in 1 .. L : q[i] # NULL
      /\ run_queue = IF L = 0 THEN NULL ELSE q[1]
      /\ \A i \in 1 .. L : next[q[i]] = IF i = L THEN NULL ELSE q[i + 1]
  BY DEF ListInv, IsList
<1>3. \A i, j \in 1 .. L : q[i] = q[j] => i = j
  <2>1. IsList(q, run_queue, next)
    BY DEF ListInv
  <2> HIDE DEF q
  <2> QED BY <1>1, <2>1, ListOnce
<1>4. Queued = {q[i] : i \in 1 .. L} /\ DOMAIN q = 1 .. L
  BY <1>1 DEF ListInv
<1>5. \A i \in 1 .. L : OrHead(next[q[i]]) = q[IF i = L THEN 1 ELSE i + 1]
  <2> TAKE i \in 1 .. L
  <2>1. i # L => i + 1 \in 1 .. L
    BY <1>1
  <2> HIDE DEF q
  <2> QED BY <1>1, <1>2, <2>1 DEF OrHead
<1>6. CASE current_pcb \notin Queued
  <2>1. RR!Turns = q
    BY <1>6, InQueueIs DEF RR!Turns
  <2>2. L # 0 => q[1] = OrHead(next[current_pcb])
    BY <1>2, <1>6 DEF OrHead
  <2> HIDE DEF q
  <2>3. GoesRound(q)
    BY <1>1, <1>3, <1>4, <1>5, <2>2 DEF GoesRound, q
  <2> QED BY <2>1, <2>3
<1>7. CASE current_pcb \in Queued
  <2> DEFINE i == CHOOSE n \in DOMAIN q : q[n] = current_pcb
             t == SubSeq(q, i + 1, L) \o SubSeq(q, 1, i)
  <2>1. RR!Turns = t
    BY <1>7, InQueueIs DEF RR!Turns
  <2>2. i \in 1 .. L /\ q[i] = current_pcb
    <3>1. \E n \in DOMAIN q : q[n] = current_pcb
      BY <1>4, <1>7
    <3> HIDE DEF q
    <3> QED BY <1>4, <3>1
  <2> HIDE DEF i, q
  <2>3. /\ t \in Seq(Slots) /\ Len(t) = L
        /\ \A n \in 1 .. (L - i) : t[n] = q[i + n]
        /\ \A n \in 1 .. i : t[(L - i) + n] = q[n]
    <3> DEFINE u == SubSeq(q, i + 1, L)
               v == SubSeq(q, 1, i)
    <3>0. i + 1 \in Int /\ L \in Int /\ \A n \in (i + 1) .. L : q[n] \in Slots
      BY <1>1, <2>2
    <3>1. u \in Seq(Slots) /\ Len(u) = L - i /\ \A n \in 1 .. (L - i) : u[n] = q[i + n]
      <4>1. /\ u \in Seq(Slots)
            /\ Len(u) = IF i + 1 <= L THEN L - (i + 1) + 1 ELSE 0
            /\ \A n \in 1 .. L - (i + 1) + 1 : u[n] = q[(i + 1) + n - 1]
        <5> HIDE DEF L
        <5> QED BY <3>0, SubSeqProperties
      <4> HIDE DEF u, L
      <4>2. Len(u) = L - i
        BY <1>1, <2>2, <4>1
      <4>3. ASSUME NEW n \in 1 .. (L - i) PROVE u[n] = q[i + n]
        <5>1. n \in 1 .. L - (i + 1) + 1 /\ (i + 1) + n - 1 = i + n
          BY <1>1, <2>2
        <5> QED BY <4>1, <5>1
      <4> QED BY <4>1, <4>2, <4>3
    <3>2. v \in Seq(Slots) /\ Len(v) = i /\ \A n \in 1 .. i : v[n] = q[n]
      BY <1>1, <2>2
    <3> HIDE DEF u, v
    <3>3. /\ u \o v \in Seq(Slots)
          /\ Len(u \o v) = Len(u) + Len(v)
          /\ \A n \in 1 .. Len(u) + Len(v) : (u \o v)[n] = IF n <= Len(u) THEN u[n] ELSE v[n - Len(u)]
      BY <3>1, <3>2, ConcatProperties
    <3>4. t = u \o v
      BY DEF u, v
    <3> HIDE DEF t, L
    <3>5. t \in Seq(Slots) /\ Len(t) = L
      BY <1>1, <2>2, <3>1, <3>2, <3>3, <3>4
    <3>6. ASSUME NEW n \in 1 .. (L - i) PROVE t[n] = q[i + n]
      <4>1. n \in 1 .. Len(u) + Len(v) /\ n <= Len(u)
        BY <1>1, <2>2, <3>1, <3>2
      <4> QED BY <3>1, <3>3, <3>4, <4>1
    <3>7. ASSUME NEW n \in 1 .. i PROVE t[(L - i) + n] = q[n]
      <4>1. (L - i) + n \in 1 .. Len(u) + Len(v) /\ ~((L - i) + n <= Len(u)) /\ ((L - i) + n) - Len(u) = n
        BY <1>1, <2>2, <3>1, <3>2
      <4> QED BY <3>2, <3>3, <3>4, <4>1
    <3> QED BY <3>5, <3>6, <3>7
  <2> HIDE DEF t
  <2> DEFINE at(n) == IF n <= L - i THEN i + n ELSE n - (L - i)
  <2>4. \A n \in 1 .. L : at(n) \in 1 .. L /\ t[n] = q[at(n)]
    <3> TAKE n \in 1 .. L
    <3>1. CASE n <= L - i
      <4>1. n \in 1 .. (L - i) /\ i + n \in 1 .. L
        BY <1>1, <2>2, <3>1
      <4> QED BY <2>3, <3>1, <4>1
    <3>2. CASE ~(n <= L - i)
      <4>1. n - (L - i) \in 1 .. i /\ (L - i) + (n - (L - i)) = n /\ n - (L - i) \in 1 .. L
        BY <1>1, <2>2, <3>2
      <4> QED BY <2>3, <3>2, <4>1
    <3> QED BY <3>1, <3>2
  <2>5. \A m, n \in 1 .. L : at(m) = at(n) => m = n
    BY <1>1, <2>2
  <2>6. \A k \in 1 .. L : \E n \in 1 .. L : at(n) = k
    <3> TAKE k \in 1 .. L
    <3>1. CASE k > i
      <4>1. k - i \in 1 .. L /\ at(k - i) = k
        BY <1>1, <2>2, <3>1
      <4> QED BY <4>1
    <3>2. CASE ~(k > i)
      <4>1. k + (L - i) \in 1 .. L /\ at(k + (L - i)) = k
        BY <1>1, <2>2, <3>2
      <4> QED BY <4>1
    <3> QED BY <3>1, <3>2
  <2>7. \A n \in 1 .. L : at(IF n = L THEN 1 ELSE n + 1) = IF at(n) = L THEN 1 ELSE at(n) + 1
    BY <1>1, <2>2
  <2>8. at(1) = IF i = L THEN 1 ELSE i + 1
    BY <1>1, <2>2
  <2>9. 1 \in 1 .. L /\ \A n \in 1 .. L : (IF n = L THEN 1 ELSE n + 1) \in 1 .. L
    BY <1>1, <2>2
  <2> HIDE DEF at
  <2>10. t[1] = OrHead(next[current_pcb])
    BY <1>5, <2>2, <2>4, <2>8, <2>9
  <2>11. ASSUME NEW n \in 1 .. L PROVE OrHead(next[t[n]]) = t[IF n = L THEN 1 ELSE n + 1]
    <3>1. OrHead(next[q[at(n)]]) = q[IF at(n) = L THEN 1 ELSE at(n) + 1]
      BY <1>5, <2>4
    <3>2. t[IF n = L THEN 1 ELSE n + 1] = q[at(IF n = L THEN 1 ELSE n + 1)]
      BY <2>4, <2>9
    <3> QED BY <2>4, <2>7, <3>1, <3>2
  <2>12. {t[n] : n \in 1 .. L} = Queued
    <3>1. \A n \in 1 .. L : t[n] \in Queued
      BY <1>4, <2>4
    <3>2. ASSUME NEW x \in Queued PROVE \E n \in 1 .. L : t[n] = x
      <4>1. PICK k \in 1 .. L : q[k] = x
        BY <1>4
      <4>2. PICK n \in 1 .. L : at(n) = k
        BY <2>6
      <4> QED BY <2>4, <4>1, <4>2
    <3> QED BY <3>1, <3>2
  <2>13. \A m, n \in 1 .. L : t[m] = t[n] => m = n
    BY <1>3, <2>4, <2>5
  <2>14. GoesRound(t)
    BY <2>3, <2>10, <2>11, <2>12, <2>13 DEF GoesRound, q
  <2> QED BY <2>1, <2>14
<1> QED BY <1>6, <1>7

\* The search of schedule() meets the slots in the order of their turns.
LEMMA ScanIsTurns ==
    ASSUME TypeOK, ListInv, Links(Queued, run_queue, next), Queued \subseteq Slots,
           current_pcb \notin Queued => next[current_pcb] = NULL,
           NEW t, GoesRound(t)
    PROVE  /\ DOMAIN ScanWalk = 0 .. (NPcb + NTcb) /\ Len(t) \in 0 .. (NPcb + NTcb)
           /\ \A n \in 0 .. (NPcb + NTcb) : n < Len(t) => ScanWalk[n] = t[n + 1]
           /\ Len(t) # 0 => ScanWalk[Len(t)] = t[1]
           /\ Len(t) = 0 => \A n \in 0 .. (NPcb + NTcb) : ScanWalk[n] = NULL
<1> DEFINE N == NPcb + NTcb
           L == Len(t)
<1>1. PICK walk : walk = ScanWalk
  OBVIOUS
<1>2. /\ DOMAIN walk = 0 .. N
      /\ walk[0] = OrHead(next[current_pcb])
      /\ \A n \in 0 .. N : n # 0 =>
            walk[n] = IF walk[n - 1] = NULL THEN NULL ELSE OrHead(next[walk[n - 1]])
  <2>1. next[current_pcb] \in Queued \cup {NULL}
    BY DEF Links
  <2> QED BY <1>1, <2>1, ScanSteps
<1>3. N \in Nat /\ NULL \notin Slots
  BY SlotCount
<1>4. L \in Nat /\ L <= N /\ L = Len(QueueSeq)
  BY DEF ListInv, GoesRound
<1>5. /\ \A i \in 1 .. L : t[i] # NULL
      /\ L # 0 => t[1] = OrHead(next[current_pcb])
      /\ \A i \in 1 .. L : OrHead(next[t[i]]) = t[IF i = L THEN 1 ELSE i + 1]
  <2>1. \A i \in 1 .. L : t[i] \in Slots
    BY DEF GoesRound
  <2> QED BY <1>3, <2>1 DEF GoesRound
<1>6. L = 0 => OrHead(next[current_pcb]) = NULL
  <2> SUFFICES ASSUME L = 0 PROVE OrHead(next[current_pcb]) = NULL
    OBVIOUS
  <2>1. run_queue = NULL
    BY <1>4 DEF ListInv, IsList
  <2>2. Queued = {}
    BY <1>4 DEF ListInv
  <2> QED BY <2>1, <2>2 DEF OrHead
<1> HIDE DEF N, L
<1>7. \A n \in 0 .. N : n < L => walk[n] = t[n + 1]
  <2> DEFINE Bad == {n \in 0 .. N : n < L /\ walk[n] # t[n + 1]}
  <2> SUFFICES ASSUME Bad # {} PROVE FALSE
    OBVIOUS
  <2>1. PICK k \in Bad : \A j \in Bad : k <= j
    <3>1. Bad \in SUBSET Nat
      BY <1>3
    <3> HIDE DEF Bad
    <3> QED BY <3>1, LeastNatural
  <2>2. k # 0
    BY <1>2, <1>4, <1>5, <2>1
  <2>3. /\ k - 1 \in 0 .. N /\ k - 1 \notin Bad /\ k - 1 < L /\ (k - 1) + 1 = k /\ k \in 1 .. L
        /\ k # L /\ k \in 0 .. N
    BY <1>3, <1>4, <2>1, <2>2
  <2>4. walk[k - 1] = t[k]
    BY <2>3
  <2>5. walk[k] = OrHead(next[t[k]])
    BY <1>2, <1>5, <2>2, <2>3, <2>4
  <2> QED BY <1>5, <2>1, <2>3, <2>5
<1>8. L # 0 => walk[L] = t[1]
  <2> SUFFICES ASSUME L # 0 PROVE walk[L] = t[1]
    OBVIOUS
  <2>1. L \in 0 .. N /\ L - 1 \in 0 .. N /\ L - 1 < L /\ (L - 1) + 1 = L /\ L \in 1 .. L
    BY <1>3, <1>4
  <2>2. walk[L - 1] = t[L]
    BY <1>7, <2>1
  <2> QED BY <1>2, <1>5, <2>1, <2>2
<1>9. L = 0 => \A n \in 0 .. N : walk[n] = NULL
  <2> SUFFICES ASSUME L = 0 PROVE \A n \in 0 .. N : walk[n] = NULL
    OBVIOUS
  <2> DEFINE Bad == {n \in 0 .. N : walk[n] # NULL}
  <2> SUFFICES ASSUME Bad # {} PROVE FALSE
    OBVIOUS
  <2>1. PICK k \in Bad : \A j \in Bad : k <= j
    <3>1. Bad \in SUBSET Nat
      BY <1>3
    <3> HIDE DEF Bad
    <3> QED BY <3>1, LeastNatural
  <2>2. k # 0
    BY <1>2, <1>6, <2>1
  <2>3. k - 1 \in 0 .. N /\ k - 1 \notin Bad
    BY <1>3, <2>1, <2>2
  <2> QED BY <1>2, <2>1, <2>2, <2>3
<1>10. L \in 0 .. N
  BY <1>3, <1>4
<1> QED BY <1>1, <1>2, <1>7, <1>8, <1>9, <1>10 DEF N, L

\* schedule() elects the slot whose turn it is.
LEMMA ElectedIs ==
    ASSUME TypeOK, ListInv, Links(Queued, run_queue, next), Queued \subseteq Slots,
           current_pcb \notin Queued => next[current_pcb] = NULL
    PROVE  RR!Elected = ScheduledNext /\ ScheduledNext \in Queued \cup {idle_pcb}
<1>1. PICK t : t = RR!Turns
  OBVIOUS
<1>2. GoesRound(t)
  BY <1>1, TurnsAre
<1> DEFINE N == NPcb + NTcb
           L == Len(t)
<1>3. PICK walk : walk = ScanWalk
  OBVIOUS
<1>4. /\ DOMAIN walk = 0 .. N /\ L \in 0 .. N
      /\ \A n \in 0 .. N : n < L => walk[n] = t[n + 1]
      /\ L # 0 => walk[L] = t[1]
      /\ L = 0 => \A n \in 0 .. N : walk[n] = NULL
  BY <1>2, <1>3, ScanIsTurns
<1>5. N \in Nat
  BY SlotCount
<1>6. PICK ready : ready = {i \in 1 .. L : state[t[i]] = "READY"}
  OBVIOUS
<1>7. \A i \in 1 .. L : t[i] \in Slots /\ t[i] \in Queued /\ t[i] # NULL
  BY <1>2, SlotCount DEF GoesRound
<1>8. RR!Elected = IF ready = {} THEN idle_pcb ELSE t[CHOOSE i \in ready : \A j \in ready : i <= j]
  <2>1. DOMAIN t = 1 .. L
    BY <1>2 DEF GoesRound
  <2>2. \A i \in 1 .. L : Status[t[i]] = state[t[i]]
    BY <1>7 DEF Status
  <2>3. ready = {i \in DOMAIN t : Status[t[i]] = "READY"}
    BY <1>6, <2>1, <2>2
  <2> QED BY <1>1, <2>3 DEF RR!Elected
<1>9. PICK found : found = {x \in Slots : \E n \in DOMAIN walk : walk[n] = x /\ StopsAt(walk, n)}
  OBVIOUS
<1>10. ScheduledNext = IF found # {} THEN CHOOSE x \in found : TRUE ELSE idle_pcb
  BY <1>3, <1>9 DEF ScheduledNext
<1>11. \A i, j \in 1 .. L : t[i] = t[j] => i = j
  BY <1>2 DEF GoesRound
<1> HIDE DEF N, L
<1>12. ASSUME NEW n \in 0 .. N, StopsAt(walk, n)
       PROVE  n < L /\ n + 1 \in ready /\ \A j \in ready : n + 1 <= j
  <2>1. L # 0
    BY <1>4, <1>12 DEF StopsAt, Ready
  <2>2. n < L
    <3> SUFFICES ASSUME ~(n < L) PROVE FALSE
      OBVIOUS
    <3>1. L \in 1 .. n /\ 0 \in 0 .. N /\ 0 < L
      BY <1>4, <1>5, <2>1
    <3>2. walk[L] # walk[0]
      BY <1>12, <3>1 DEF StopsAt
    <3> QED BY <1>4, <2>1, <3>1, <3>2
  <2>3. n + 1 \in 1 .. L /\ state[t[n + 1]] = "READY"
    BY <1>4, <1>5, <1>12, <2>2 DEF StopsAt, Ready
  <2>4. ASSUME NEW j \in ready, ~(n + 1 <= j) PROVE FALSE
    <3>1. j \in 1 .. L /\ j - 1 \in 0 .. (n - 1) /\ j - 1 \in 0 .. N /\ j - 1 < L /\ (j - 1) + 1 = j
      BY <1>4, <1>5, <1>6, <2>2, <2>4
    <3>2. walk[j - 1] = t[j]
      BY <1>4, <3>1
    <3>3. ~Ready(walk[j - 1])
      BY <1>12, <3>1 DEF StopsAt
    <3> QED BY <1>6, <1>7, <3>1, <3>2, <3>3 DEF Ready
  <2>5. \A j \in ready : n + 1 <= j
    BY <2>4
  <2> QED BY <1>6, <2>2, <2>3, <2>5
<1>13. CASE ready = {}
  <2>1. found = {}
    BY <1>4, <1>9, <1>12, <1>13
  <2> QED BY <1>8, <1>10, <1>13, <2>1
<1>14. CASE ready # {}
  <2>1. ready \in SUBSET Nat
    BY <1>4, <1>6
  <2>2. PICK k \in ready : \A j \in ready : k <= j
    BY <1>14, <2>1, LeastNatural
  <2>3. \A i \in ready : (\A j \in ready : i <= j) => i = k
    BY <2>1, <2>2
  <2>4. RR!Elected = t[k]
    <3>1. (CHOOSE i \in ready : \A j \in ready : i <= j) = k
      BY <2>2, <2>3
    <3> QED BY <1>8, <1>14, <3>1
  <2>5. k \in 1 .. L /\ k - 1 \in 0 .. N /\ k - 1 < L /\ (k - 1) + 1 = k /\ walk[k - 1] = t[k]
    <3>1. k \in 1 .. L
      BY <1>6
    <3>2. k - 1 \in 0 .. N /\ k - 1 < L /\ (k - 1) + 1 = k
      BY <1>4, <1>5, <3>1
    <3> QED BY <1>4, <3>1, <3>2
  <2>6. StopsAt(walk, k - 1)
    <3>1. Ready(walk[k - 1])
      BY <1>6, <1>7, <2>5 DEF Ready
    <3>2. ASSUME NEW m \in 0 .. ((k - 1) - 1) PROVE ~Ready(walk[m])
      <4>1. m \in 0 .. N /\ m < L /\ m + 1 \in 1 .. L /\ ~(k <= m + 1)
        BY <1>4, <1>5, <2>5
      <4>2. m + 1 \notin ready
        BY <2>2, <4>1
      <4> QED BY <1>4, <1>6, <4>1, <4>2 DEF Ready
    <3>3. ASSUME NEW m \in 1 .. (k - 1) PROVE walk[m] # walk[0]
      <4>1. m \in 0 .. N /\ m < L /\ m + 1 \in 1 .. L /\ 1 \in 1 .. L /\ m + 1 # 1 /\ 0 \in 0 .. N /\ 0 < L
        BY <1>4, <1>5, <2>5
      <4>2. walk[m] = t[m + 1] /\ walk[0] = t[1]
        BY <1>4, <4>1
      <4> QED BY <1>11, <4>1, <4>2
    <3> QED BY <3>1, <3>2, <3>3 DEF StopsAt
  <2>7. t[k] \in found
    BY <1>4, <1>7, <1>9, <2>5, <2>6
  <2>8. ASSUME NEW x \in found PROVE x = t[k]
    <3>1. PICK n \in 0 .. N : walk[n] = x /\ StopsAt(walk, n)
      BY <1>4, <1>9
    <3>2. n < L /\ n + 1 = k
      BY <1>12, <2>3, <3>1
    <3> QED BY <1>4, <3>1, <3>2
  <2>9. (CHOOSE x \in found : TRUE) = t[k]
    BY <2>7, <2>8
  <2> QED BY <1>7, <1>10, <2>4, <2>5, <2>7, <2>9
<1> QED BY <1>13, <1>14

-----------------------------------------------------------------------------
(***************************************************************************)
(* What the abstract scheduler relies on, where no thread exits: a slot    *)
(* off the queue leads nowhere, so that a search from it starts at the     *)
(* head; a slot that is about to join has not run.                         *)
(***************************************************************************)
JoinInv ==
    /\ \A x \in Slots \ Queued : next[x] = NULL
    /\ pc[BootStack] \in {"find_tail", "link"} =>
          state[sh.slot] = "READY" /\ (~NoThreads => sh.slot # idle_pcb)
    /\ \A s \in Pages : pc[s] # "exited"

Here == KernelInv /\ QueueInv /\ ListInv /\ JoinInv

\* A step that the abstract scheduler takes too, or does not see.
Follows == RR!RRNext \/ UNCHANGED <<QueueSeq, Status, current_pcb>>

\* What a walk of the queue meets depends on its links.
LEMMA QueueStays ==
    ASSUME UNCHANGED <<next, run_queue>>
    PROVE  QueueSeq' = QueueSeq /\ Queued' = Queued
<1>1. QueueWalk' = QueueWalk
  BY DEF QueueWalk
<1>2. Queued' = Queued
  BY <1>1 DEF Queued
<1> QED BY <1>1, <1>2 DEF QueueSeq

\* Where the queue is, and the places of the slots.
LEMMA HereFacts ==
    ASSUME Here
    PROVE  /\ TypeOK /\ Queued = Members(pc[BootStack], sh) /\ Queued \subseteq Slots
           /\ Links(Queued, run_queue, next)
           /\ \A x \in Slots \ Queued : next[x] = NULL
           /\ current_pcb \in Slots
           /\ current_pcb \notin Queued => next[current_pcb] = NULL
<1>1. TypeOK /\ Queued = Members(pc[BootStack], sh)
  BY DEF Here, KernelInv, TypeInv, ListInv
<1>2. Links(Queued, run_queue, next)
  BY <1>1 DEF Here, QueueInv, QueueAt
<1>3. Queued \subseteq Slots
  <2>1. \A i \in 1 .. Len(QueueSeq) : QueueSeq[i] \in Slots
    BY DEF Here, ListInv
  <2> QED BY <2>1 DEF Here, ListInv
<1>4. current_pcb \in Slots
  BY <1>1 DEF TypeOK
<1> QED BY <1>1, <1>2, <1>3, <1>4 DEF Here, JoinInv

\* A live slot is on the queue, unless it is about to join it.
LEMMA LiveIsQueued ==
    ASSUME Here, NEW x \in Slots, Live(x), state[x] # "READY" \/ pc[BootStack] \notin {"find_tail", "link"}
    PROVE  x \in Queued
<1>1. pc[BootStack] \in {"find_tail", "link"} => x # sh.slot
  BY DEF Here, JoinInv
<1> QED BY <1>1, HereFacts DEF Members, Lives

\* schedule() dispatches the slot whose turn it is.
LEMMA ScheduleFollows ==
    ASSUME Here, schedule, UNCHANGED <<next, run_queue>>
    PROVE  Follows
<1>1. PICK new : new = ScheduledNext
  OBVIOUS
<1>2. RR!Elected = new
  BY <1>1, HereFacts, ElectedIs DEF Here
<1>3. QueueSeq' = QueueSeq /\ Queued' = Queued
  BY QueueStays
<1>4. CASE new = current_pcb /\ UNCHANGED <<state, current_pcb>>
  BY <1>3, <1>4 DEF Follows, Status
<1>5. CASE /\ new # current_pcb /\ current_pcb' = new
           /\ state' = [state EXCEPT ![current_pcb] = IF state[current_pcb] = "RUNNING" THEN "READY"
                                                      ELSE state[current_pcb],
                                     ![new] = "RUNNING"]
  <2>1. new \in Slots /\ current_pcb \in Slots /\ state \in [Slots -> States]
    BY <1>1, ScheduledIsReady DEF Here, KernelInv, TypeInv, TypeOK
  <2>2. RR!InQueue(new) <=> new \in Queued
    BY InQueueIs DEF Here
  <2>3. \A x \in Slots : Status'[x] = IF x \in Queued THEN state'[x] ELSE "DEAD"
    BY <1>3 DEF Status
  <2>4. \A x \in Slots : Status[x] = IF x \in Queued THEN state[x] ELSE "DEAD"
    BY DEF Status
  <2>5. DOMAIN Status = Slots /\ Status' = [x \in Slots |-> Status'[x]]
    BY DEF Status
  <2>6. Status' = [Status EXCEPT ![current_pcb] = IF Status[current_pcb] = "RUNNING" THEN "READY"
                                                  ELSE Status[current_pcb],
                                 ![new] = IF RR!InQueue(new) THEN "RUNNING" ELSE Status[new]]
    <3>1. \A x \in Slots : state'[x] = IF x = new THEN "RUNNING"
                                       ELSE IF x = current_pcb
                                            THEN IF state[x] = "RUNNING" THEN "READY" ELSE state[x]
                                            ELSE state[x]
      BY <1>5, <2>1
    <3>2. PICK s, u : s = Status /\ u = Status'
      OBVIOUS
    <3>3. \A x \in Slots : u[x] = IF x = new THEN IF RR!InQueue(new) THEN "RUNNING" ELSE s[new]
                                  ELSE IF x = current_pcb
                                       THEN IF s[x] = "RUNNING" THEN "READY" ELSE s[x]
                                       ELSE s[x]
      BY <2>1, <2>2, <2>3, <2>4, <3>1, <3>2
    <3>4. u = [s EXCEPT ![current_pcb] = IF s[current_pcb] = "RUNNING" THEN "READY" ELSE s[current_pcb],
                        ![new] = IF RR!InQueue(new) THEN "RUNNING" ELSE s[new]]
      BY <1>5, <2>1, <2>5, <3>2, <3>3
    <3> QED BY <3>2, <3>4
  <2>7. RR!Dispatch
    BY <1>2, <1>3, <1>5, <2>6 DEF RR!Dispatch
  <2> QED BY <2>7 DEF Follows, RR!RRNext
<1> QED BY <1>1, <1>4, <1>5 DEF schedule

\* It leaves the slot that is about to join alone.
LEMMA ScheduleLetsJoin ==
    ASSUME Here, schedule, pc[BootStack] \in {"find_tail", "link"},
           cpu = BootStack \/ ~NoThreads
    PROVE  state'[sh.slot] = "READY"
<1>1. PICK new, slot : new = ScheduledNext /\ slot = sh.slot
  OBVIOUS
<1>2. /\ state[slot] = "READY" /\ (~NoThreads => slot # idle_pcb)
      /\ slot \in Slots /\ slot \notin Queued
  <2>1. slot \in Slots
    BY <1>1 DEF Here, QueueInv, QueueAt, CursorAt, Lives
  <2>2. slot \notin Queued
    BY <1>1, HereFacts DEF Members
  <2> QED BY <1>1, <2>1, <2>2 DEF Here, JoinInv
<1>3. new \in Queued \cup {idle_pcb} /\ new \in Slots
  BY <1>1, HereFacts, ElectedIs, ScheduledIsReady DEF Here
<1>4. CASE UNCHANGED state
  BY <1>1, <1>2, <1>4
<1>5. CASE /\ new # current_pcb
           /\ state' = [state EXCEPT ![current_pcb] = IF state[current_pcb] = "RUNNING" THEN "READY"
                                                      ELSE state[current_pcb],
                                     ![new] = "RUNNING"]
  <2>1. slot # new
    <3>1. cpu = BootStack => current_pcb = idle_pcb
      BY DEF Here, KernelInv, SlotInv, Contexts
    <3> QED BY <1>2, <1>3, <1>5, <3>1
  <2>2. state \in [Slots -> States]
    BY HereFacts DEF TypeOK
  <2> QED BY <1>1, <1>2, <1>5, <2>1, <2>2
<1> QED BY <1>1, <1>4, <1>5 DEF schedule

\* A step that changes nothing of the queue, nor of the slots on it.
LEMMA UnseenFollows ==
    ASSUME UNCHANGED <<next, run_queue, state, current_pcb>>
    PROVE  Follows
<1>1. QueueSeq' = QueueSeq /\ Queued' = Queued
  BY QueueStays
<1> QED BY <1>1 DEF Follows, Status

\* A slot on the queue waits, is woken or is killed.
LEMMA MarkFollows ==
    ASSUME Here, NEW x \in Queued, NEW to, state' = [state EXCEPT ![x] = to],
           UNCHANGED <<next, run_queue, current_pcb>>,
           \/ state[x] \in {"READY", "RUNNING"} /\ to = "BLOCKED"
           \/ state[x] = "BLOCKED" /\ to = "READY"
           \/ state[x] # "DEAD" /\ to = "DEAD"
    PROVE  Follows
<1>1. x \in Slots /\ state \in [Slots -> States]
  BY HereFacts DEF TypeOK
<1>2. QueueSeq' = QueueSeq /\ Queued' = Queued
  BY QueueStays
<1>3. RR!InQueue(x)
  BY InQueueIs DEF Here
<1>4. Status[x] = state[x]
  BY <1>1 DEF Status
<1>5. Status' = [Status EXCEPT ![x] = to]
  <2>1. Status' = [y \in Slots |-> IF y \in Queued THEN state'[y] ELSE "DEAD"]
    BY <1>2 DEF Status
  <2>2. \A y \in Slots : state'[y] = IF y = x THEN to ELSE state[y]
    BY <1>1
  <2> QED BY <1>1, <2>1, <2>2 DEF Status
<1>6. RR!Mark(x)
  BY <1>2, <1>3, <1>4, <1>5 DEF RR!Mark
<1> QED BY <1>1, <1>6 DEF Follows, RR!RRNext

\* The timer, and what threads do.
LEMMA OthersFollow ==
    ASSUME Here, CarefulKills, NoExits, Tick \/ Return \/ ThreadRuns \/ UNCHANGED kernelVars
    PROVE  Follows /\ JoinInv'
<1> USE ConstantFacts
<1>1. /\ \A s \in Pages : ~process_exit(s)
      /\ UNCHANGED <<next, run_queue, sh>> /\ pc'[BootStack] = pc[BootStack]
  BY NobodyExits, OthersKeepQueue DEF Here
<1>2. \A x \in Slots \ Queued' : next'[x] = NULL
  BY <1>1, QueueStays, HereFacts
<1>a. ASSUME pc[BootStack] \in {"find_tail", "link"} => state'[sh.slot] = "READY",
             \A s \in Pages : pc'[s] # "exited"
      PROVE  JoinInv'
  BY <1>1, <1>2, <1>a DEF Here, JoinInv, NoThreads
<1>3. CASE Tick
  <2>1. schedule /\ cpu = BootStack /\ UNCHANGED pc
    BY <1>3 DEF Tick, TimerIrq, Here, KernelInv, InterruptShield
  <2>2. Follows
    BY <1>1, <2>1, ScheduleFollows
  <2>3. \A s \in Pages : pc'[s] # "exited"
    BY <2>1 DEF Here, JoinInv
  <2>4. pc[BootStack] \in {"find_tail", "link"} => state'[sh.slot] = "READY"
    BY <2>1, ScheduleLetsJoin
  <2> QED BY <1>a, <2>2, <2>3, <2>4
<1>4. CASE Return \/ UNCHANGED kernelVars
  <2>1. UNCHANGED <<next, run_queue, state, current_pcb, pc>>
    BY <1>4 DEF Return, IsrReturn
  <2>2. Follows
    BY <2>1, UnseenFollows
  <2>3. \A s \in Pages : pc'[s] # "exited"
    BY <2>1 DEF Here, JoinInv
  <2>4. pc[BootStack] \in {"find_tail", "link"} => state'[sh.slot] = "READY"
    BY <2>1 DEF Here, JoinInv
  <2> QED BY <1>a, <2>2, <2>3, <2>4
<1>5. CASE ThreadRuns
  <2>1. PICK s \in Pages : ThreadStep(s)
    BY <1>5 DEF ThreadRuns
  <2>2. /\ s = cpu /\ cpu # BootStack /\ ~NoThreads /\ pc[cpu] # "exited" /\ Live(current_pcb)
        /\ current_pcb \in Tcbs /\ current_pcb \in Slots
    <3>1. pc[cpu] # "exited"
      BY DEF Here, JoinInv, KernelInv, TypeInv, TypeOK
    <3> QED BY <2>1, <3>1, Acting, SlotFacts DEF Here
  <2>3. ~process_exit(s) /\ ~process_exit_switch(s)
    BY <1>1, <2>2 DEF process_exit_switch
  <2>4. \A p \in Pages : pc'[p] # "exited"
    <3>1. PICK to \in ThreadPlaces \ {"exited"} : pc' = [pc EXCEPT ![s] = to]
      BY <2>1, <2>3
         DEF ThreadStep, StartLock, StartSpin, YieldInside, YieldOutside, test_and_set,
             mutex_lock_block, mutex_lock_push, mutex_lock_reschedule, mutex_unlock,
             mutex_unlock_wake, Goto, ThreadPlaces, Critical
    <3> QED BY <3>1 DEF Here, JoinInv, KernelInv, TypeInv, TypeOK
  <2>5. CASE YieldInside(s) \/ YieldOutside(s) \/ mutex_lock_reschedule(s)
    <3>1. schedule
      BY <2>5 DEF YieldInside, YieldOutside, mutex_lock_reschedule
    <3>2. Follows
      BY <1>1, <3>1, ScheduleFollows
    <3>3. pc[BootStack] \in {"find_tail", "link"} => state'[sh.slot] = "READY"
      BY <2>2, <3>1, ScheduleLetsJoin
    <3> QED BY <1>a, <2>4, <3>2, <3>3
  <2>6. CASE UNCHANGED <<state, current_pcb>>
    <3>1. Follows
      BY <1>1, <2>6, UnseenFollows
    <3>2. pc[BootStack] \in {"find_tail", "link"} => state'[sh.slot] = "READY"
      BY <2>6 DEF Here, JoinInv
    <3> QED BY <1>a, <2>4, <3>1, <3>2
  <2>7. ASSUME NEW x \in Slots, NEW to, state' = [state EXCEPT ![x] = to], current_pcb' = current_pcb,
               \/ state[x] = "RUNNING" /\ to = "BLOCKED"
               \/ state[x] = "BLOCKED" /\ to = "READY"
        PROVE  Follows /\ JoinInv'
    <3>1. x \in Queued
      BY <2>7, LiveIsQueued DEF Live
    <3>2. Follows
      BY <1>1, <2>7, <3>1, MarkFollows
    <3>3. pc[BootStack] \in {"find_tail", "link"} => state'[sh.slot] = "READY"
      BY <2>7 DEF Here, JoinInv
    <3> QED BY <1>a, <2>4, <3>2, <3>3
  <2>8. CASE mutex_lock_block(s)
    <3>1. /\ pc[cpu] = "block" /\ state' = [state EXCEPT ![current_pcb] = "BLOCKED"]
          /\ current_pcb' = current_pcb
      BY <2>2, <2>8 DEF mutex_lock_block, Goto
    <3>2. state[current_pcb] = "RUNNING"
      BY <2>2, <3>1 DEF Here, KernelInv, SlotInv, Contexts
    <3> QED BY <2>2, <2>7, <3>1, <3>2
  <2>9. CASE mutex_unlock_wake(s) /\ waiters # NULL
    <3>1. state' = [state EXCEPT ![waiters] = "READY"] /\ current_pcb' = current_pcb
      BY <2>9 DEF mutex_unlock_wake
    <3>2. waiters \in Slots /\ state[waiters] = "BLOCKED"
      BY <2>9, SlotFacts DEF Here, KernelInv, SlotInv, WaitLinks, Links, Parked
    <3> QED BY <2>7, <3>1, <3>2
  <2>10. CASE mutex_unlock_wake(s) /\ waiters = NULL
    BY <2>6, <2>10 DEF mutex_unlock_wake
  <2>11. CASE StartLock(s) \/ StartSpin(s) \/ test_and_set(s) \/ mutex_lock_push(s) \/ mutex_unlock(s)
    BY <2>6, <2>11 DEF StartLock, StartSpin, test_and_set, mutex_lock_push, mutex_unlock
  <2> QED BY <2>1, <2>3, <2>5, <2>8, <2>9, <2>10, <2>11 DEF ThreadStep
<1> QED BY <1>3, <1>4, <1>5

-----------------------------------------------------------------------------
(***************************************************************************)
(* What enqueue and dequeue do to the sequence.                            *)
(***************************************************************************)

\* A node of the list without a successor is the last one.
LEMMA TailIsLast ==
    ASSUME NEW head, NEW succ, NEW D, NEW q \in Seq(D), IsList(q, head, succ),
           NEW i \in 1 .. Len(q), succ[q[i]] = NULL
    PROVE  i = Len(q)
<1> SUFFICES ASSUME i # Len(q) PROVE FALSE
  OBVIOUS
<1>1. i + 1 \in 1 .. Len(q)
  OBVIOUS
<1> QED BY <1>1 DEF IsList

\* enqueue appends.
LEMMA ListAppend ==
    ASSUME NEW head, NEW succ, NEW after, NEW D, NEW q \in Seq(D), IsList(q, head, succ),
           NEW x \in D, x # NULL, \A i \in 1 .. Len(q) : q[i] # x,
           Len(q) # 0, after[q[Len(q)]] = x, after[x] = NULL,
           \A i \in 1 .. Len(q) : i # Len(q) => after[q[i]] = succ[q[i]]
    PROVE  IsList(Append(q, x), head, after)
<1> DEFINE r == Append(q, x)
           L == Len(q)
<1>1. /\ L \in Nat /\ Len(r) = L + 1
      /\ \A i \in 1 .. L : r[i] = q[i]
      /\ r[L + 1] = x
  OBVIOUS
<1>2. /\ \A i \in 1 .. L : q[i] # NULL
      /\ head = q[1]
      /\ \A i \in 1 .. L : succ[q[i]] = IF i = L THEN NULL ELSE q[i + 1]
  BY DEF IsList
<1>3. after[q[L]] = x /\ \A i \in 1 .. L : i # L => after[q[i]] = succ[q[i]]
  OBVIOUS
<1>4. L # 0
  OBVIOUS
<1> HIDE DEF r, L
<1>5. ASSUME NEW i \in 1 .. Len(r)
      PROVE  r[i] # NULL /\ after[r[i]] = IF i = Len(r) THEN NULL ELSE r[i + 1]
  <2>1. CASE i = L + 1
    BY <1>1, <2>1
  <2>2. CASE i = L
    <3>1. i \in 1 .. L /\ i # Len(r)
      BY <1>1, <1>4, <2>2
    <3> QED BY <1>1, <1>2, <1>3, <2>2, <3>1
  <2>3. CASE i # L + 1 /\ i # L
    <3>1. i \in 1 .. L /\ i + 1 \in 1 .. L /\ i # Len(r) /\ i # L
      BY <1>1, <2>3
    <3>2. after[q[i]] = q[i + 1]
      BY <1>2, <1>3, <3>1
    <3> QED BY <1>1, <1>2, <3>1, <3>2
  <2> QED BY <2>1, <2>2, <2>3
<1>6. head = IF Len(r) = 0 THEN NULL ELSE r[1]
  <2>1. Len(r) # 0 /\ 1 \in 1 .. L
    BY <1>1, <1>4
  <2> QED BY <1>1, <1>2, <2>1
<1>7. IsList(r, head, after)
  BY <1>5, <1>6 DEF IsList
<1> QED BY <1>7 DEF r

\* The sequence without its i-th element.
Without(q, i) == [n \in 1 .. (Len(q) - 1) |-> q[IF n < i THEN n ELSE n + 1]]

\* The head, or the node before the i-th, has taken over its successor.
Unlinked(q, i, head, succ, first, after) ==
    /\ first = IF i = 1 THEN succ[q[i]] ELSE head
    /\ i # 1 => after[q[i - 1]] = succ[q[i]]
    /\ \A j \in 1 .. Len(q) : j # i /\ j # i - 1 => after[q[j]] = succ[q[j]]

\* dequeue takes the i-th element out.
LEMMA ListRemove ==
    ASSUME NEW head, NEW succ, NEW first, NEW after, NEW D, NEW q \in Seq(D), IsList(q, head, succ),
           NEW i \in 1 .. Len(q), Unlinked(q, i, head, succ, first, after)
    PROVE  Without(q, i) \in Seq(D) /\ IsList(Without(q, i), first, after)
<1> DEFINE r == Without(q, i)
           L == Len(q)
           at(n) == IF n < i THEN n ELSE n + 1
<1>1. L \in Nat /\ L # 0 /\ i \in 1 .. L /\ L - 1 \in Nat /\ \A j \in 1 .. L : q[j] \in D
  OBVIOUS
<1>2. /\ \A j \in 1 .. L : q[j] # NULL
      /\ head = q[1]
      /\ \A j \in 1 .. L : succ[q[j]] = IF j = L THEN NULL ELSE q[j + 1]
  BY <1>1 DEF IsList
<1>3. /\ first = IF i = 1 THEN succ[q[i]] ELSE head
      /\ i # 1 => after[q[i - 1]] = succ[q[i]]
      /\ \A j \in 1 .. L : j # i /\ j # i - 1 => after[q[j]] = succ[q[j]]
  BY DEF Unlinked
<1>4. r = [n \in 1 .. (L - 1) |-> q[at(n)]]
  BY DEF Without
<1> HIDE DEF r, L
<1>5. \A n \in 1 .. (L - 1) : at(n) \in 1 .. L /\ at(n) # i
  BY <1>1
<1>6. r \in Seq(D) /\ Len(r) = L - 1 /\ \A n \in 1 .. (L - 1) : r[n] = q[at(n)]
  <2>1. \A n \in 1 .. (L - 1) : q[at(n)] \in D
    BY <1>1, <1>5
  <2> HIDE DEF at
  <2> QED BY <1>1, <1>4, <2>1
<1>7. first = IF Len(r) = 0 THEN NULL ELSE r[1]
  <2>1. CASE L = 1
    BY <1>1, <1>2, <1>3, <1>6, <2>1
  <2>2. CASE L # 1
    <3>1. 1 \in 1 .. (L - 1) /\ Len(r) # 0 /\ 1 \in 1 .. L /\ 2 \in 1 .. L
      BY <1>1, <1>6, <2>2
    <3>2. r[1] = q[IF i = 1 THEN 2 ELSE 1]
      <4>1. at(1) = IF i = 1 THEN 2 ELSE 1
        BY <1>1
      <4> QED BY <1>6, <3>1, <4>1
    <3>3. succ[q[1]] = q[2]
      BY <1>2, <2>2, <3>1
    <3> QED BY <1>2, <1>3, <3>1, <3>2, <3>3
  <2> QED BY <2>1, <2>2
<1>8. ASSUME NEW n \in 1 .. (L - 1)
      PROVE  r[n] # NULL /\ after[r[n]] = IF n = L - 1 THEN NULL ELSE r[n + 1]
  <2>1. r[n] = q[at(n)] /\ at(n) \in 1 .. L /\ r[n] # NULL
    BY <1>2, <1>5, <1>6
  <2>2. n # L - 1 => n + 1 \in 1 .. (L - 1) /\ r[n + 1] = q[at(n + 1)]
    <3> SUFFICES ASSUME n # L - 1 PROVE n + 1 \in 1 .. (L - 1) /\ r[n + 1] = q[at(n + 1)]
      OBVIOUS
    <3>1. n + 1 \in 1 .. (L - 1)
      BY <1>1
    <3> HIDE DEF at
    <3> QED BY <1>6, <3>1
  <2>3. CASE n = i - 1
    <3>1. at(n) = i - 1 /\ at(n + 1) = i + 1 /\ (n = L - 1 <=> i = L) /\ i # 1
      BY <1>1, <2>3
    <3>2. after[r[n]] = succ[q[i]]
      BY <1>3, <2>1, <3>1
    <3> QED BY <1>1, <1>2, <2>1, <2>2, <3>1, <3>2
  <2>4. CASE n # i - 1
    <3>1. at(n) # i /\ at(n) # i - 1 /\ (n = L - 1 <=> at(n) = L) /\ at(n) + 1 = at(n + 1)
      BY <1>1, <2>4
    <3> HIDE DEF at
    <3>2. after[r[n]] = succ[q[at(n)]]
      BY <1>3, <2>1, <3>1
    <3> QED BY <1>2, <2>1, <2>2, <3>1, <3>2
  <2> QED BY <2>3, <2>4
<1>9. IsList(r, first, after)
  BY <1>6, <1>7, <1>8 DEF IsList
<1> QED BY <1>6, <1>9 DEF r

-----------------------------------------------------------------------------
(***************************************************************************)
(* What commands do.                                                       *)
(***************************************************************************)

\* A step of the shell starts no thread's exit.
LEMMA ShellExitsNobody ==
    ASSUME Here, StartCommand \/ CommandStep, KernelInv'
    PROVE  \A s \in Pages : pc'[s] # "exited"
<1> USE ConstantFacts
<1>1. pc'[BootStack] # "exited"
  <2>1. pc'[BootStack] \in ShellPlaces
    BY DEF KernelInv, TypeInv, ShellLocals
  <2> QED BY <2>1 DEF ShellPlaces
<1>2. ASSUME NEW s \in Pages \ {BootStack} PROVE pc'[s] \in {pc[s], "client", "counter_process"}
  <2>1. pc \in [Pages -> ShellPlaces \cup ThreadPlaces]
    BY DEF Here, KernelInv, TypeInv, TypeOK
  <2>2. CASE FillSlot
    BY <2>1, <2>2 DEF FillSlot
  <2>3. CASE ~FillSlot
    <3>1. \E to : pc' = [pc EXCEPT ![BootStack] = to]
      <4>1. CASE StartCommand
        BY <4>1
        DEF StartCommand, StartList, StartCreate, StartKillProcess, StartKillThread, ShellGoto, Goto
      <4>2. CASE alloc_slot \/ pmm_alloc_scan \/ pmm_alloc_store \/ enqueue_walk \/ enqueue_link
                   \/ set_blocked \/ NullStack
        BY <4>2
        DEF alloc_slot, pmm_alloc_scan, pmm_alloc_store, enqueue_walk, enqueue_link, set_blocked,
            NullStack, ShellGoto, Goto
      <4>3. CASE find_pid \/ find_tid \/ mark_dead \/ dequeue_start \/ dequeue_find_prev \/ dequeue_load_next
                   \/ dequeue_unlink \/ FreeStack \/ list_row \/ list_next
        BY <4>3
        DEF find_pid, find_tid, mark_dead, dequeue_start, dequeue_find_prev, dequeue_load_next, dequeue_unlink, FreeStack,
            list_row, list_next, ShellGoto, Goto
      <4> QED BY <2>3, <4>1, <4>2, <4>3 DEF CommandStep
    <3> QED BY <2>1, <3>1
  <2> QED BY <2>2, <2>3
<1> QED BY <1>1, <1>2 DEF Here, JoinInv

\* Steps of commands that the scheduler does not see.
LEMMA ShellUnseen ==
    ASSUME Here, StartCommand \/ CommandStep, KernelInv',
           UNCHANGED <<next, run_queue, state, current_pcb>>,
           pc'[BootStack] \in {"find_tail", "link"} =>
               pc[BootStack] \in {"find_tail", "link"} /\ sh'.slot = sh.slot
    PROVE  Follows /\ JoinInv'
<1>1. Follows
  BY UnseenFollows
<1>2. \A s \in Pages : pc'[s] # "exited"
  BY ShellExitsNobody
<1>3. \A x \in Slots \ Queued' : next'[x] = NULL
  BY QueueStays, HereFacts
<1>4. pc'[BootStack] \in {"find_tail", "link"} =>
          state'[sh'.slot] = "READY" /\ (~NoThreads => sh'.slot # idle_pcb)
  BY DEF Here, JoinInv
<1> QED BY <1>1, <1>2, <1>3, <1>4 DEF JoinInv, NoThreads

\* The commands look at the queue, search it, or wait for memory.
LEMMA LooksFollow ==
    ASSUME Here, KernelInv',
           \/ \E op \in Listings : StartList(op)
           \/ \E op \in {"newprocess", "thread"} : StartCreate(op)
           \/ \E target \in KillTargets : StartKillProcess(target) \/ StartKillThread(target)
           \/ alloc_slot \/ pmm_alloc_scan \/ pmm_alloc_store \/ NullStack \/ enqueue_walk
           \/ find_pid \/ find_tid
           \/ dequeue_start \/ dequeue_find_prev \/ dequeue_load_next
           \/ FreeStack \/ list_row \/ list_next
    PROVE  Follows /\ JoinInv'
<1> USE ConstantFacts
<1>1. StartCommand \/ CommandStep
  BY DEF StartCommand, CommandStep
<1>2. UNCHANGED <<next, run_queue, state, current_pcb>>
  BY DEF StartList, StartCreate, StartKillProcess, StartKillThread, alloc_slot, pmm_alloc_scan,
         pmm_alloc_store, NullStack, enqueue_walk, find_pid, find_tid, dequeue_start, dequeue_find_prev, dequeue_load_next, FreeStack, list_row, list_next
<1>3. pc'[BootStack] \in {"find_tail", "link"} =>
               pc[BootStack] \in {"find_tail", "link"} /\ sh'.slot = sh.slot
  <2>1. pc \in [Pages -> ShellPlaces \cup ThreadPlaces] /\ sh \in Locals
    BY DEF Here, KernelInv, TypeInv, TypeOK
  <2>2. CASE enqueue_walk
    BY <2>1, <2>2 DEF enqueue_walk, ShellGoto, Goto, Locals
  <2>3. CASE ~enqueue_walk
    <3>1. pc'[BootStack] \notin {"find_tail", "link"}
      BY <2>1, <2>3
      DEF StartList, StartCreate, StartKillProcess, StartKillThread, alloc_slot, pmm_alloc_scan,
          pmm_alloc_store, NullStack, find_pid, find_tid, dequeue_start, dequeue_find_prev, dequeue_load_next, FreeStack, list_row, list_next,
          ShellGoto, Goto
    <3> QED BY <3>1
  <2> QED BY <2>2, <2>3
<1> QED BY <1>1, <1>2, <1>3, ShellUnseen

\* cmd_newprocess blocks the process on the queue, unless it is BLOCKED.
LEMMA SetBlockedFollows ==
    ASSUME Here, KernelInv', set_blocked
    PROVE  Follows /\ JoinInv'
<1> USE ConstantFacts
<1>1. PICK slot : slot = sh.slot
  OBVIOUS
<1>2. /\ pc[BootStack] = "set_blocked" /\ pc'[BootStack] = "prompt"
      /\ UNCHANGED <<next, run_queue, current_pcb>>
      /\ state' = [state EXCEPT ![slot] = "BLOCKED"]
  BY <1>1 DEF set_blocked, ShellGoto, Goto, Here, KernelInv, TypeInv, TypeOK
<1>3. Live(slot) /\ slot \in Slots
  BY <1>1, <1>2, SlotFacts DEF Here, KernelInv, SlotInv, Commands, CommandAt, Filling
<1>4. slot \in Queued
  BY <1>2, <1>3, LiveIsQueued
<1>5. Follows
  <2>1. CASE state[slot] = "BLOCKED"
    <3>1. state' = state
      BY <1>2, <2>1 DEF Here, KernelInv, TypeInv, TypeOK
    <3> QED BY <1>2, <3>1, UnseenFollows
  <2>2. CASE state[slot] # "BLOCKED"
    <3>1. state[slot] \in {"READY", "RUNNING"}
      BY <1>3, <2>2 DEF Live, Here, KernelInv, TypeInv, TypeOK, States
    <3> QED BY <1>2, <1>4, <3>1, MarkFollows
  <2> QED BY <2>1, <2>2
<1>6. \A s \in Pages : pc'[s] # "exited"
  BY ShellExitsNobody DEF CommandStep
<1>7. \A x \in Slots \ Queued' : next'[x] = NULL
  BY <1>2, QueueStays, HereFacts
<1> QED BY <1>2, <1>5, <1>6, <1>7 DEF JoinInv

\* cmd_killprocess kills a slot on the queue.
LEMMA KillFollows ==
    ASSUME Here, KernelInv', mark_dead
    PROVE  Follows /\ JoinInv'
<1> USE ConstantFacts, SlotFacts
<1>1. PICK p : p = sh.slot
  OBVIOUS
<1>2. /\ pc[BootStack] = "mark_dead" /\ UNCHANGED <<next, run_queue, current_pcb>>
      /\ pc'[BootStack] = "dequeue" /\ state' = [state EXCEPT ![p] = "DEAD"]
  BY <1>1 DEF mark_dead, ShellGoto, Goto, Here, KernelInv, TypeInv, TypeOK
<1>3. p \in Queued /\ state[p] # "DEAD"
  <2>1. p \in Slots /\ Live(p)
    BY <1>1, <1>2 DEF Here, KernelInv, SlotInv, Commands, CommandAt, Killing, Stacks
  <2> QED BY <1>2, <2>1, HereFacts DEF Members, Lives, Live
<1>4. Follows
  BY <1>2, <1>3, MarkFollows
<1>5. \A s \in Pages : pc'[s] # "exited"
  BY ShellExitsNobody DEF CommandStep
<1>6. \A x \in Slots \ Queued' : next'[x] = NULL
  BY <1>2, QueueStays, HereFacts
<1> QED BY <1>2, <1>4, <1>5, <1>6 DEF JoinInv

\* The queue after a step is the sequence that the links lead over then.
LEMMA QueueThen ==
    ASSUME ListInv', NEW r \in Seq(Slots), IsList(r, run_queue', next')
    PROVE  QueueSeq' = r
<1>1. PICK u, h, n : u = QueueSeq' /\ h = run_queue' /\ n = next'
  OBVIOUS
<1>2. u \in Seq(Slots) /\ IsList(u, h, n)
  BY <1>1 DEF ListInv, IsList
<1>3. IsList(r, h, n)
  BY <1>1
<1>4. u = r
  BY <1>2, <1>3, ListUnique
<1> QED BY <1>1, <1>4

\* create_process, create_thread: the new slot is the first one, or not on
\* the queue yet.
LEMMA FillFollows ==
    ASSUME Here, KernelInv', ListInv', FillSlot
    PROVE  Follows /\ JoinInv'
<1> USE ConstantFacts, SlotFacts
<1>0. PICK slot, q : slot = sh.slot /\ q = QueueSeq
  OBVIOUS
<1>1. /\ pc[BootStack] = "fill" /\ sh.page # BootStack
      /\ slot \in Slots /\ slot \notin Lives /\ sh \in Locals
  BY <1>0 DEF Here, KernelInv, SlotInv, Commands, CommandAt, FillSlot, Creating, Lives, TypeInv, TypeOK
<1>2. /\ state' = [state EXCEPT ![slot] = "READY"]
      /\ next' = [next EXCEPT ![slot] = NULL]
      /\ run_queue' = IF run_queue = NULL THEN slot ELSE run_queue
      /\ run_queue = NULL => pc'[BootStack] \in {"prompt", "set_blocked"}
      /\ run_queue # NULL => /\ pc'[BootStack] = "find_tail"
                             /\ sh'.slot = slot /\ sh'.cur = run_queue
      /\ UNCHANGED current_pcb
  BY <1>0, <1>1 DEF FillSlot, Here, KernelInv, TypeInv, TypeOK, Locals
<1>3. /\ Lives' = Lives \cup {slot}
      /\ next'[slot] = NULL /\ \A x \in Slots \ {slot} : next'[x] = next[x]
      /\ state'[slot] = "READY" /\ \A x \in Slots \ {slot} : state'[x] = state[x]
  BY <1>1, <1>2 DEF Lives, Live, Here, KernelInv, TypeInv, TypeOK
<1>4. Queued = Lives /\ Lives \subseteq Slots /\ slot # NULL
  BY <1>1, HereFacts DEF Members, Lives
<1>5. q \in Seq(Slots) /\ IsList(q, run_queue, next) /\ \A i \in 1 .. Len(q) : q[i] \in Lives
  BY <1>0, <1>4 DEF Here, ListInv
<1>6. \A s \in Pages : pc'[s] # "exited"
  BY ShellExitsNobody DEF CommandStep
<1>7. ~NoThreads => slot # idle_pcb
  BY <1>1 DEF Here, KernelInv, SlotInv, IdleStays, Lives
<1>8. CASE run_queue = NULL
  <2>1. q = <<>>
    <3>1. Len(q) = 0
      BY <1>5, <1>8 DEF IsList
    <3> QED BY <1>5, <3>1
  <2>2. Queued' = {slot} /\ Queued = {}
    <3>1. Queued' = Lives'
      BY <1>2, <1>8 DEF ListInv, Members
    <3>2. Queued = {}
      BY <1>0, <2>1 DEF Here, ListInv
    <3> QED BY <1>3, <1>4, <3>1, <3>2
  <2>3. QueueSeq' = <<slot>>
    <3>1. <<slot>> \in Seq(Slots) /\ Len(<<slot>>) = 1 /\ <<slot>>[1] = slot
      BY <1>1
    <3>2. IsList(<<slot>>, run_queue', next')
      BY <1>2, <1>3, <1>4, <1>8, <3>1 DEF IsList
    <3> QED BY <3>1, <3>2, QueueThen
  <2>4. QueueSeq' = Append(QueueSeq, slot)
    BY <1>0, <2>1, <2>3
  <2>5. ~RR!InQueue(slot)
    BY <2>2, InQueueIs DEF Here
  <2>6. Status' = [Status EXCEPT ![slot] = "READY"]
    BY <1>1, <1>3, <2>2 DEF Status
  <2>7. RR!Join(slot)
    BY <1>2, <2>4, <2>5, <2>6 DEF RR!Join
  <2>8. Follows
    BY <1>1, <2>7 DEF Follows, RR!RRNext
  <2>9. \A x \in Slots \ Queued' : next'[x] = NULL
    BY <1>3, <2>2, HereFacts
  <2> QED BY <1>2, <1>6, <1>8, <2>8, <2>9 DEF JoinInv
<1>9. CASE run_queue # NULL
  <2>1. Queued' = Queued
    BY <1>1, <1>2, <1>3, <1>4, <1>9 DEF ListInv, Members
  <2>2. QueueSeq' = QueueSeq
    <3>1. \A i \in 1 .. Len(q) : next'[q[i]] = next[q[i]]
      BY <1>1, <1>3, <1>4, <1>5
    <3>2. IsList(q, run_queue', next')
      BY <1>2, <1>5, <1>9, <3>1 DEF IsList
    <3> QED BY <1>0, <1>5, <3>2, QueueThen
  <2>3. Status' = Status
    BY <1>1, <1>3, <1>4, <2>1 DEF Status
  <2>4. \A x \in Slots \ Queued' : next'[x] = NULL
    BY <1>3, <2>1, HereFacts
  <2>5. state'[sh'.slot] = "READY" /\ (~NoThreads => sh'.slot # idle_pcb)
    BY <1>2, <1>3, <1>7, <1>9
  <2>6. JoinInv'
    BY <1>6, <2>4, <2>5 DEF JoinInv, NoThreads
  <2> QED BY <1>2, <2>2, <2>3, <2>6 DEF Follows
<1> QED BY <1>8, <1>9

\* enqueue: the slot joins the queue when the last one is linked to it.
LEMMA LinkFollows ==
    ASSUME Here, KernelInv', ListInv', enqueue_link
    PROVE  Follows /\ JoinInv'
<1> USE ConstantFacts
<1>0. PICK slot, tail, q : slot = sh.slot /\ tail = sh.cur /\ q = QueueSeq
  OBVIOUS
<1>1. /\ pc[BootStack] = "link" /\ UNCHANGED <<run_queue, state, current_pcb>>
      /\ pc'[BootStack] \in {"set_blocked", "prompt"}
      /\ next' = [next EXCEPT ![tail] = slot]
  BY <1>0 DEF enqueue_link, ShellGoto, Goto, Here, KernelInv, TypeInv, TypeOK
<1>2. /\ Queued = Lives \ {slot} /\ Lives \subseteq Slots
      /\ tail \in Queued /\ next[tail] = NULL /\ next[slot] = NULL
      /\ slot \in Lives /\ slot # NULL /\ tail # slot /\ state[slot] = "READY"
  <2>1. /\ Queued = Lives \ {slot} /\ Lives \subseteq Slots
        /\ tail \in Queued /\ next[tail] = NULL /\ next[slot] = NULL /\ slot \in Lives
    BY <1>0, <1>1, HereFacts DEF Here, QueueInv, QueueAt, CursorAt, Members, Lives
  <2>2. state[slot] = "READY"
    BY <1>0, <1>1 DEF Here, JoinInv
  <2> QED BY <2>1, <2>2
<1>3. next'[tail] = slot /\ \A x \in Slots \ {tail} : next'[x] = next[x]
  BY <1>1, <1>2 DEF Here, KernelInv, TypeInv, TypeOK
<1>4. Queued' = Queued \cup {slot}
  <2>1. Lives' = Lives
    BY <1>1 DEF Lives, Live
  <2> QED BY <1>1, <1>2, <2>1 DEF ListInv, Members
<1>5. /\ q \in Seq(Slots) /\ IsList(q, run_queue, next)
      /\ Queued = {q[i] : i \in 1 .. Len(q)} /\ Len(q) \in Nat
  BY <1>0 DEF Here, ListInv
<1>6. Len(q) # 0 /\ q[Len(q)] = tail
  <2>1. PICK i \in 1 .. Len(q) : q[i] = tail
    BY <1>2, <1>5
  <2>2. i = Len(q)
    BY <1>2, <1>5, <2>1, TailIsLast
  <2> QED BY <1>5, <2>1, <2>2
<1>7. QueueSeq' = Append(q, slot)
  <2>1. ASSUME NEW i \in 1 .. Len(q), i # Len(q) PROVE next'[q[i]] = next[q[i]]
    <3>1. \A j, k \in 1 .. Len(q) : q[j] = q[k] => j = k
      BY <1>5, ListOnce
    <3>2. Len(q) \in 1 .. Len(q)
      BY <1>5, <1>6
    <3>3. q[i] # tail
      BY <1>6, <2>1, <3>1, <3>2
    <3> QED BY <1>2, <1>3, <1>5, <3>3
  <2>2. \A i \in 1 .. Len(q) : q[i] # slot
    BY <1>2, <1>5
  <2>3. next'[q[Len(q)]] = slot /\ next'[slot] = NULL
    BY <1>2, <1>3, <1>6
  <2>4. slot \in Slots
    BY <1>2
  <2>5. IsList(Append(q, slot), run_queue, next')
    BY <1>2, <1>5, <1>6, <2>1, <2>2, <2>3, <2>4, ListAppend
  <2>6. Append(q, slot) \in Seq(Slots)
    BY <1>5, <2>4
  <2> QED BY <1>1, <2>5, <2>6, QueueThen
<1>8. Status' = [Status EXCEPT ![slot] = "READY"]
  BY <1>1, <1>2, <1>4 DEF Status
<1>9. RR!Join(slot)
  <2>1. ~RR!InQueue(slot)
    BY <1>2, InQueueIs DEF Here
  <2> QED BY <1>0, <1>1, <1>7, <1>8, <2>1 DEF RR!Join
<1>10. Follows
  BY <1>2, <1>9 DEF Follows, RR!RRNext
<1>11. \A s \in Pages : pc'[s] # "exited"
  BY ShellExitsNobody DEF CommandStep
<1>12. \A x \in Slots \ Queued' : next'[x] = NULL
  BY <1>2, <1>3, <1>4, HereFacts
<1> QED BY <1>1, <1>10, <1>11, <1>12 DEF JoinInv

\* dequeue: the killed slot leaves the queue, wherever it is in it.
LEMMA UnlinkFollows ==
    ASSUME Here, KernelInv', ListInv', dequeue_unlink
    PROVE  Follows /\ JoinInv'
<1> USE ConstantFacts
<1>0. PICK slot, prev, q : slot = sh.slot /\ prev = sh.cur /\ q = QueueSeq
  OBVIOUS
<1>1. /\ pc[BootStack] = "unlink" /\ pc'[BootStack] = "free_stack" /\ UNCHANGED <<state, current_pcb>>
      /\ slot \in Slots /\ slot \notin Lives /\ slot # NULL
  BY <1>0 DEF dequeue_unlink, ShellGoto, Goto, Here, KernelInv, SlotInv, Commands, CommandAt, Killing, Lives,
              TypeInv, TypeOK, ShellLocals
<1>2. /\ Queued = Lives \cup {slot} /\ sh.succ = next[slot]
      /\ prev = NULL => run_queue = slot
      /\ prev # NULL => prev \in Queued /\ next[prev] = slot
  BY <1>0, <1>1, HereFacts DEF Here, QueueInv, QueueAt, Members, CursorAt
<1>3. /\ run_queue' = IF prev = NULL THEN next[slot] ELSE run_queue
      /\ next' = [x \in Slots |-> IF x = slot THEN NULL ELSE IF x = prev THEN next[slot] ELSE next[x]]
  BY <1>0, <1>2 DEF dequeue_unlink
<1>4. Queued' = Queued \ {slot}
  <2>1. Lives' = Lives
    BY <1>1 DEF Lives, Live
  <2> QED BY <1>1, <1>2, <2>1 DEF ListInv, Members
<1>5. /\ q \in Seq(Slots) /\ IsList(q, run_queue, next) /\ \A i \in 1 .. Len(q) : q[i] \in Slots
      /\ Queued = {q[i] : i \in 1 .. Len(q)} /\ Len(q) \in Nat
  BY <1>0 DEF Here, ListInv
<1>6. \A j, k \in 1 .. Len(q) : q[j] = q[k] => j = k
  BY <1>5, ListOnce
<1>7. /\ \A j \in 1 .. Len(q) : q[j] # NULL
      /\ run_queue = IF Len(q) = 0 THEN NULL ELSE q[1]
      /\ \A j \in 1 .. Len(q) : next[q[j]] = IF j = Len(q) THEN NULL ELSE q[j + 1]
  BY <1>5 DEF IsList
<1>8. PICK i \in 1 .. Len(q) : q[i] = slot
  BY <1>2, <1>5
<1>9. 1 \in 1 .. Len(q) /\ run_queue = q[1]
  BY <1>5, <1>7, <1>8
<1>10. (prev = NULL <=> i = 1) /\ (i # 1 => i - 1 \in 1 .. Len(q) /\ q[i - 1] = prev)
  <2>1. CASE prev = NULL
    BY <1>2, <1>6, <1>8, <1>9, <2>1
  <2>2. CASE prev # NULL
    <3>1. PICK j \in 1 .. Len(q) : q[j] = prev
      BY <1>2, <1>5, <2>2
    <3>2. j # Len(q) /\ q[j + 1] = slot /\ j + 1 \in 1 .. Len(q)
      BY <1>1, <1>2, <1>5, <1>7, <2>2, <3>1
    <3>3. j + 1 = i
      BY <1>6, <1>8, <3>2
    <3>4. i # 1 /\ i - 1 = j
      BY <1>5, <3>1, <3>3
    <3> QED BY <2>2, <3>1, <3>4
  <2> QED BY <2>1, <2>2
<1>11. QueueSeq' = Without(q, i)
  <2>1. run_queue' = IF i = 1 THEN next[q[i]] ELSE run_queue
    BY <1>3, <1>8, <1>10
  <2>2. i # 1 => next'[q[i - 1]] = next[q[i]]
    <3> SUFFICES ASSUME i # 1 PROVE next'[q[i - 1]] = next[q[i]]
      OBVIOUS
    <3>1. i - 1 \in 1 .. Len(q) /\ i - 1 # i /\ q[i - 1] = prev
      BY <1>5, <1>10
    <3>2. prev # slot /\ prev \in Slots
      BY <1>5, <1>6, <1>8, <3>1
    <3> QED BY <1>3, <1>8, <3>1, <3>2
  <2>3. ASSUME NEW j \in 1 .. Len(q), j # i, j # i - 1 PROVE next'[q[j]] = next[q[j]]
    <3>1. q[j] # slot
      BY <1>6, <1>8, <2>3
    <3>2. q[j] # prev
      BY <1>6, <1>7, <1>10, <2>3
    <3> QED BY <1>3, <1>5, <3>1, <3>2
  <2>4. Without(q, i) \in Seq(Slots) /\ IsList(Without(q, i), run_queue', next')
    <3>1. PICK h, n : h = run_queue' /\ n = next'
      OBVIOUS
    <3>2. Unlinked(q, i, run_queue, next, h, n)
      BY <2>1, <2>2, <2>3, <3>1 DEF Unlinked
    <3>3. Without(q, i) \in Seq(Slots) /\ IsList(Without(q, i), h, n)
      BY <1>5, <3>2, ListRemove
    <3> QED BY <3>1, <3>3
  <2> QED BY <2>4, QueueThen
<1>12. Status' = Status /\ Status[slot] = "DEAD"
  <2>1. state[slot] = "DEAD"
    BY <1>1 DEF Lives, Live
  <2> QED BY <1>1, <1>4, <2>1 DEF Status
<1>13. RR!Leave(slot)
  <2>1. i \in DOMAIN QueueSeq /\ QueueSeq[i] = slot
    BY <1>0, <1>5, <1>8
  <2>2. QueueSeq' = [n \in 1 .. (Len(QueueSeq) - 1) |-> QueueSeq[IF n < i THEN n ELSE n + 1]]
    BY <1>0, <1>11 DEF Without
  <2> QED BY <1>1, <1>12, <2>1, <2>2 DEF RR!Leave
<1>14. Follows
  BY <1>1, <1>13 DEF Follows, RR!RRNext
<1>15. \A s \in Pages : pc'[s] # "exited"
  BY ShellExitsNobody DEF CommandStep
<1>16. \A x \in Slots \ Queued' : next'[x] = NULL
  <2>1. next'[slot] = NULL
    BY <1>1, <1>3
  <2>2. ASSUME NEW x \in Slots \ Queued, x # slot PROVE next'[x] = NULL
    <3>1. x # prev
      BY <1>2, <2>2, SlotCount
    <3> QED BY <1>3, <2>2, <3>1, HereFacts
  <2> QED BY <1>4, <2>1, <2>2
<1> QED BY <1>1, <1>14, <1>15, <1>16 DEF JoinInv

\* Every step is one of the abstract scheduler's, or unseen by it.
LEMMA StepFollows ==
    ASSUME Here, CarefulKills, NoExits, KernelInv', ListInv', [Next]_kernelVars
    PROVE  Follows /\ JoinInv'
<1>1. CASE Tick \/ Return \/ ThreadRuns \/ UNCHANGED kernelVars
  BY <1>1, OthersFollow
<1>2. CASE StartCommand
  BY <1>2, LooksFollow DEF StartCommand
<1>3. CASE CommandStep
  BY <1>3, LooksFollow, SetBlockedFollows, KillFollows, FillFollows, LinkFollows, UnlinkFollows
     DEF CommandStep
<1> QED BY <1>1, <1>2, <1>3 DEF Next

\* At first idle_pcb is on the queue, alone.
LEMMA InitFollows == Init /\ KernelInv /\ QueueInv => RR!RRInit /\ JoinInv
<1> SUFFICES ASSUME Init, KernelInv, QueueInv PROVE RR!RRInit /\ JoinInv
  OBVIOUS
<1> USE ConstantFacts
<1>1. ListInv
  BY QueueIsList DEF KernelInv
<1>2. /\ run_queue = idle_pcb /\ current_pcb = idle_pcb /\ \A x \in Slots : next[x] = NULL
      /\ state = [x \in Slots |-> IF x = idle_pcb THEN "RUNNING" ELSE "DEAD"]
      /\ \A s \in Pages : pc[s] \in {"prompt", "idle_task"} /\ pc[BootStack] = "prompt"
  BY DEF Init
<1>3. QueueSeq = <<idle_pcb>>
  <2>1. <<idle_pcb>> \in Seq(Slots) /\ Len(<<idle_pcb>>) = 1 /\ <<idle_pcb>>[1] = idle_pcb
    OBVIOUS
  <2>2. IsList(<<idle_pcb>>, run_queue, next)
    BY <1>2, <2>1 DEF IsList
  <2>3. QueueSeq \in Seq(Slots) /\ IsList(QueueSeq, run_queue, next)
    BY <1>1 DEF ListInv
  <2> QED BY <2>1, <2>2, <2>3, ListUnique
<1>4. Queued = {idle_pcb}
  BY <1>1, <1>3 DEF ListInv
<1>5. Status = [x \in Slots |-> IF x = idle_pcb THEN "RUNNING" ELSE "DEAD"]
  BY <1>2, <1>4 DEF Status
<1>6. JoinInv
  BY <1>2 DEF JoinInv
<1> QED BY <1>2, <1>3, <1>5, <1>6 DEF RR!RRInit

(***************************************************************************)
(* The scheduler is a round robin, where threads do not exit and what is   *)
(* deleted is deleted with care: enqueue, dequeue and schedule() work on   *)
(* links while ticks and threads come in between, and still the slots join *)
(* at the end, leave from anywhere and get the CPU in turn.                *)
(***************************************************************************)
THEOREM KernelIsRoundRobin == ASSUME CarefulKills, NoExits PROVE Spec => ImplementsRoundRobin
<1> DEFINE Kept == KernelInv /\ (NoExits => QueueInv /\ NoCycles)
<1>1. Spec => []Kept
  BY SlotsKept
<1>2. Kept => ListInv
  BY QueueIsList DEF KernelInv
<1>3. Init /\ Kept => RR!RRInit /\ JoinInv
  BY InitFollows
<1>4. Kept /\ ListInv /\ JoinInv /\ Kept' /\ ListInv' /\ [Next]_kernelVars =>
          JoinInv' /\ [RR!RRNext]_(RR!rrVars)
  <2> SUFFICES ASSUME Kept, ListInv, JoinInv, Kept', ListInv', [Next]_kernelVars
               PROVE  JoinInv' /\ [RR!RRNext]_(RR!rrVars)
    OBVIOUS
  <2>1. NoExits'
    BY DEF NoExits
  <2>2. KernelInv' /\ QueueInv'
    BY <2>1
  <2>3. Here
    BY DEF Here
  <2>4. Follows /\ JoinInv'
    BY <2>2, <2>3, StepFollows
  <2> QED BY <2>4 DEF Follows, RR!rrVars
<1> HIDE DEF Kept
<1>5. Spec => []JoinInv
  BY <1>1, <1>2, <1>3, <1>4, PTL DEF Spec
<1>6. Spec => RR!RRInit /\ [][RR!RRNext]_(RR!rrVars)
  BY <1>1, <1>2, <1>3, <1>4, <1>5, PTL DEF Spec
<1> QED BY <1>6 DEF ImplementsRoundRobin, RR!RRSpec
=============================================================================
